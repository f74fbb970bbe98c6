SPECIFICATION CteSpec
CONSTANTS
  BOOT = "boot"
  USERS = {"u"}
  KTHREADS = {"k"}
  Values = {"v", "w"}
  Places = {0}
  MAX_DEPTH = 2
INVARIANT OnItsStack
