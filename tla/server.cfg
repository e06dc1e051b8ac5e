SPECIFICATION FairSpec
CONSTANTS
  Files <- MCFiles
  Absent = Absent
  None = None
  Half = Half
  Whole = Whole
  MiB = 4
  UsizeRange = 16
  Conns = {c1, c2}
PROPERTIES ShutdownEnds GraceKept NeverPlainOnly TlsComesUp
CHECK_DEADLOCK FALSE
