SPECIFICATION SequentialSpec
CONSTANTS
  BYTE_BITS = 2
  SHAMT_BITS = 3
  SHORTSHORT = 4
  SHORT = 6
  LONG = 8
  W = 4
  N = 4
  WIDTH = 2
  HEIGHT = 3
  MAX_LENGTH = 6
  LONGEST = 5
  LETTERS = {1, 2}
  NCHAR = 2
  FPS = 2
  CPS = 1
  CHAR_H = 2
  SCREEN_W = 2
  SCREEN_H = 7
  MAX_FRAMES = 5
  TYPED = 2
  TILES_X = 4
  TILES_Y = 5
  COLS = 4
  ROWS = 3
  DISKS = 3
  PEGS = 2
  BALLS = 7
  COMMANDS = 5
  CELL = 3
  TAPE = 3
  BITS = 5
INVARIANTS
  AluExact
  WordsExact
  ImmediateDecoded
  StringsExact
  PrintfExact
  ArithmeticExact
  InstructionsExact
  PictureExact
  BddExact
  GamesExact
  ProgramsExact
CHECK_DEADLOCK FALSE
