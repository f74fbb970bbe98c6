SPECIFICATION ConsoleSpec
CONSTANTS
  PROGRAMS <- All
  KEYS <- Keyboard
  BUFFER_LEN = 10
  SESSIONS <- Sessions
  TYPOS = 1
  IMAGE <- Image
  ADDRESS = 8
  COMMAND_PAUSE = 115
  WORD_PAUSE = 11
  MEMORY <- Memory
INVARIANTS
  TokenAsEdited
  WhatYouSee
  ImageStored
PROPERTIES
  ComesBackToRead
CHECK_DEADLOCK FALSE
