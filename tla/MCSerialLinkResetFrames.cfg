\* The receiver is reset at any moment of a frame: is every byte announced a frame?
SPECIFICATION LinkSpec
CONSTANTS
  SYMBOL_EDGE_TIME = 4
  PEER_SYMBOL_TIMES = {4}
  READ_WITHIN = 1
  RESETS = {TRUE, FALSE}
  Byte <- MCTwoBytes
PROPERTY
  AnnouncesFrames
