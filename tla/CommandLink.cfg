CONSTANTS
  tel = tel
  Sensor = {tel}
  BufferCapacity = 2
  CommandCapacity = 2
  MaxFaults = 2
  MaxSessions = 3
SPECIFICATION FairSpec
INVARIANT TypeOK
INVARIANT FreshCommandsOnly
INVARIANT ExecutedOnce
INVARIANT AnswersFindFaults
INVARIANT RecoveryTimesReal
PROPERTY CommandsExecuted
