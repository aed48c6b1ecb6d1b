SPECIFICATION Spec
CONSTANTS
  bSz = 17
  Payloads <- MCPayloads
  GetLength = 34
INVARIANTS
  TypeOK
  PointersAgree
  Layout
  Contents
PROPERTY
  ImplementsFifo
