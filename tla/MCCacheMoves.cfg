CONSTANTS
  p = p  q = q  i = i  j = j  w1 = w1  w2 = w2
  Paths = {p, q}
  Inodes = {i, j}
  Workers = {w1}
  Inode0 <- MCInode0
  Commands = {"none"}
  InPlace = {FALSE}
  TicksPerMs = 1
  MovesAnytime = TRUE
  WritesApart = TRUE
  MaxTime = 2
  MaxWrites = 1
  MaxRuns = 2
SPECIFICATION Spec
CHECK_DEADLOCK FALSE
SYMMETRY MCSymmetry
INVARIANT HitFresh
