CONSTANTS
  tel = tel
  rad = rad
  Sensor = {tel, rad}
  Telemetry = tel
  Kinds = {"corrupt"}
  BasePriority <- MCPriority
  BufferCapacity = 1
  CommandCapacity = 2
  AgedReads = FALSE
  SpacedInjection = {"corrupt"}
  MaxCopies = 1
  MaxUplinks = 0
SPECIFICATION Spec
INVARIANT RecoveryPending
INVARIANT FaultNotStuck
