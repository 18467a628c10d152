CONSTANTS
  tel = tel
  rad = rad
  Sensor = {tel}
  DownlinkCapacity = 1
  TransmissionCapacity = 2
  MaxPackets <- MCMaxPackets
SPECIFICATION Spec
INVARIANT AnnouncedIsDegraded
