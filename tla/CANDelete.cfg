SPECIFICATION Spec
CONSTANTS
  FIFO_SIZE = 3
  CAN_SIMULTANEOUS_CBS = 4
  Ids = {"a", "b"}
  BusOf <- MCBusOf
  IdOf <- MCIdOf
  Clients = {"c1", "c2"}
  Recorders = {"r1"}
  MaxFrames = 2
INVARIANT
  RegisteredIsListed
