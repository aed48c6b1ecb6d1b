SPECIFICATION Spec
CONSTANTS
  Sensors <- MCSensors
  MaxSamples <- MCTwoSamples
  MaxRecords = 3
  ResultsMax = 1
  SampleSize = 2
  Capacity = 22
  FrameMax = 83
  tt = "TT_HALF"
INVARIANT
  RecordsKeepTheirSensor
