SPECIFICATION ConsoleSpec
CONSTANTS
  PROGRAMS <- Bios
  KEYS <- Keyboard
  BUFFER_LEN = 10
  SESSIONS <- Pending
  TYPOS = 0
  IMAGE <- Image
  ADDRESS = 8
  COMMAND_PAUSE = 115
  WORD_PAUSE = 11
  MEMORY <- Memory
INVARIANTS
  NewlineClearsTokens
CHECK_DEADLOCK FALSE
