CONSTANTS
  tel = tel
  rad = rad
  Sensor = {tel}
  DownlinkCapacity = 1
  TransmissionCapacity = 2
  MaxPackets <- MCMaxPackets
SPECIFICATION FairSpec
INVARIANT TypeOK
INVARIANT GapsAreLosses
INVARIANT Accounted
INVARIANT NeverAWindowEarly
INVARIANT StaleWasLeft
PROPERTY QueuedPacketLeaves
