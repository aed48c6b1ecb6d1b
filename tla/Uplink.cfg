SPECIFICATION FairSpec
CONSTANTS
  Sensors <- MCSensors
  MaxSamples <- MCMaxSamples
  MaxRecords = 1
  ResultsMax = 2
  SampleSize = 2
  Capacity = 22
  FrameMax = 70
  tt = "TT_HALF"
INVARIANTS
  TypeOK
  StoreNeverOverflows
  RecordsConserved
  FrameFits
PROPERTIES
  FullRingDrains
  AddResultsReturns
