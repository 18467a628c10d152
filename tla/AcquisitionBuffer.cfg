CONSTANTS
  tel = tel
  rad = rad
  Sensor = {tel, rad}
  Telemetry = tel
  Kinds = {"delay"}
  BasePriority <- MCPriority
  BufferCapacity = 2
  InjectedDelay = 3
  MaxClock = 12
SPECIFICATION Spec
INVARIANT TypeOK
INVARIANT FourMissesAlert
PROPERTY LossIsLowest
PROPERTY ImplementsBuffer
