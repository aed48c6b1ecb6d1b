SPECIFICATION Spec
CONSTANTS
  Timeout <- MCTimeout
  Pause = 1
  InitTries = 1
  PinTries = 2
  ApnTries = 2
  ConnectTries = 1
  Polls = 9
  WatchdogTime = 9
  StreamSize = 2
  DongleQueue = 1
INVARIANTS
  TypeOK
  ResultMatchesCommand
  NoLostWakeUp
  MainOnlyConnected
  PinRefusedOnce
