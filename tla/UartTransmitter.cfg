SPECIFICATION TxSpec
CONSTANTS
  SYMBOL_EDGE_TIME = 4
  Byte <- FewBytes
INVARIANTS
  FrameIntact
PROPERTY
  SendsFrames
