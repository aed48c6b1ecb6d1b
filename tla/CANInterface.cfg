SPECIFICATION FairSpec
CONSTANTS
  FIFO_SIZE = 2
  CAN_SIMULTANEOUS_CBS = 2
  Ids = {"a"}
  BusOf <- MCBusOf
  IdOf <- MCIdOf
  Clients = {"c1", "c2"}
  Recorders = {"r1", "r2"}
  MaxFrames = 2
INVARIANTS
  TypeOK
  FifoExact
  
  DispatchReaches
  FrontRecordersHear
PROPERTY
  EveryFrameTaken
