CONSTANTS
  tel = tel
  rad = rad
  Sensor = {tel, rad}
  Telemetry = tel
  Kinds = {}
  BasePriority <- MCPriority
  BufferCapacity = 1
  InjectedDelay = 3
  MaxClock = 18
SPECIFICATION Spec
PROPERTY AlertIsConsecutive
