SPECIFICATION ComponentsSpec
CONSTANTS
  NCPU = 2
  NTASKS = 3
  NEXT_US = 3
  US_MODULUS = 9
  LOW_MODULUS = 3
  READ_WITHIN = 5
  SAMPLE_CNT_MAX = 4
  PULSE_CNT_MAX = 3
  FRAMES = 4
  ACCESSES = 7
  HIGHS = {32, 36, 63}
  LOWS = {0, 16, 255}
  COLOURS = {7, 9}
  LEVELS = 2
  ENTRIES = 4
  PAGES = 7
  CPUS = 1
  MAPS = 2
  SECONDS = 12
  MINUTES = 2
  MAX_TIME = 40
  KEY_QUEUE_LEN = 3
  MAX_KEYS = 4
  W = 3
  H = 2
  BLKSZ = 2
  DISK = 3
  BYTE = 2
  MAX_REQUESTS = 2
  CHARS = 3
  SECTSIZE = 2
  MEM = 18
  MAX_CPU = 2
  MAXINTR = 4
  VBUF = 6
  BOOT = "boot"
  USERS = {"u"}
  KTHREADS = {"k"}
  Values = {"v"}
  Places = {0}
  MAX_DEPTH = 2
INVARIANTS
  StacksApart
  LinesWhole
  TimerExact
  UptimeOffByCarries
  PressIsHeld
  OneResetPerPress
  FramesExact
  DataPortExact
  PagingExact
  MachinesExact
  RequestsExact
  HtifExact
PROPERTIES
  TasksRun
  NesStartsUp
  KeepsThreads
CHECK_DEADLOCK FALSE
