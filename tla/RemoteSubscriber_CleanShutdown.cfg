CONSTANTS
  l1 = l1
  l2 = l2
  Locs <- MCLocs
  MaxChanges = 4

SPECIFICATION Spec

PROPERTY CleanShutdown

CHECK_DEADLOCK FALSE
