SPECIFICATION FairSpec
CONSTANTS
  Configs <- MCConfigs
  RXRoom = 3
  StoreSize = 4
  ResultSize = 4
  MaxSensors = 2
  MaxReplies = 2
INVARIANTS
  TypeOK
  StoredIsWhole
  NoLostConfig
  SpinMeansTornOrBad
PROPERTY
  ConfigApplied
