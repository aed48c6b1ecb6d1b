SPECIFICATION FairSpec
CONSTANTS
  Sensors <- MCSensors
  QueueSize = 1
  TimerQueue = 1
  StoreMax = 23
INVARIANTS
  TypeOK
  AnswerBelongs
  StoreOverrunBounded
PROPERTY
  EveryExchangeEnds
