CONSTANTS
  p = p  q = q  i = i  j = j  w1 = w1  w2 = w2
  Paths = {p, q}
  Inodes = {i, j}
  Workers = {w1}
  Inode0 <- MCInode0
  Commands = {"none"}
  InPlace = {FALSE}
  TicksPerMs = 2
  MovesAnytime = FALSE
  WritesApart = FALSE
  MaxTime = 3
  MaxWrites = 2
  MaxRuns = 2
SPECIFICATION Spec
CHECK_DEADLOCK FALSE
SYMMETRY MCSymmetry
INVARIANT HitFresh
