CONSTANTS
  tel = tel
  rad = rad
  Sensor = {tel}
  Telemetry = tel
  Kinds = {"corrupt"}
  BasePriority <- MCPriority
  BufferCapacity = 1
  CommandCapacity = 2
  AgedReads = FALSE
  SpacedInjection = {"corrupt"}
  MaxCopies = 1
  MaxUplinks = 1
SPECIFICATION FairSpec
PROPERTY RecoveryCompletes
PROPERTY CorruptionRecovered
PROPERTY LockReleased
