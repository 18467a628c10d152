CONSTANTS
  s1 = s1
  s2 = s2
  Default = {"SC"}
  Interval <- MCInterval
  Sensor = {s1, s2}
  ReRequestDelay = 3
  UrgentDeadline = 2
  Cooldown = 20
  MaxSend = 1
SPECIFICATION Spec
SYMMETRY Symmetry
INVARIANT TypeOK
INVARIANT DefaultsSpaced
INVARIANT DefaultsDelayed
INVARIANT UrgentDelayed
INVARIANT ReceiverDelayed
INVARIANT CooldownOutlives
