CONSTANTS
  s1 = s1
  s2 = s2
  Default = {"SC", "EC"}
  Interval <- MCInterval
  Sensor = {s1}
  ReRequestDelay = 3
  UrgentDeadline = 2
  Cooldown = 14
  MaxSend = 1
SPECIFICATION Spec
INVARIANT UrgentMeetsDeadline
