SPECIFICATION NativeSpec
CONSTANTS
  CPUS = 2
  MAPS = 1
INVARIANTS
  LeavesNothingMapped
CHECK_DEADLOCK FALSE
