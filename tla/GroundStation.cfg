CONSTANTS
  tel = tel
  rad = rad
  Sensor = {tel}
  DataFault = {"CorruptedData"}
  MaxErrors = 4
  MaxFaults = 1
SPECIFICATION FairSpec
INVARIANT TypeOK
INVARIANT NoLostWakeup
INVARIANT DefaultCommandsKept
INVARIANT FailuresCoverErrors
INVARIANT OneInFlight
PROPERTY ReceiverUnblocked
PROPERTY UrgentUplinked
