\* A peer as fast as the receiver, or 3% faster or slower; the program reads within two thirds of a symbol.
SPECIFICATION LinkSpec
CONSTANTS
  SYMBOL_EDGE_TIME = 32
  PEER_SYMBOL_TIMES = {31, 32, 33}
  READ_WITHIN = 22
  RESETS = {FALSE}
  Byte <- MCByte
INVARIANTS
  StaysInFrame
PROPERTY
  DeliversInOrder
