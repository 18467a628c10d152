CONSTANTS
  tel = tel
  rad = rad
  Sensor = {tel}
  Telemetry = tel
  Kinds = {"corrupt", "delay"}
  BasePriority <- MCPriority
  BufferCapacity = 1
  CommandCapacity = 2
  AgedReads = TRUE
  SpacedInjection = {}
  MaxCopies = 1
  MaxUplinks = 1
SPECIFICATION Spec
INVARIANT TypeOK
INVARIANT RecoveryPending
INVARIANT FaultNotStuck
INVARIANT PeriodicDataClean
INVARIANT RecoveredAfterReported
PROPERTY RecoveryStopsInjection
