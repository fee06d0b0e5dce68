CONSTANTS
  a1 = a1  a2 = a2  b = b  c = c  d = d  e = e  f = f  x = x  y = y
  fresh = fresh  garbage = garbage  foreign = foreign  r1 = r1  r2 = r2  ssd = ssd  hdd = hdd
  Paths <- MCPaths
  Length <- MCLength
  Device <- MCDevice
  SameMount <- MCSameMount
  NewContents = fresh
  Garbage = garbage
  Foreign = foreign
  MaxFaults = 2
  Hops = 1
  Created <- MCStamp
  Modified <- MCStamp
  Nesting <- MCStamp
  NoStamp = 0
  Scenarios <- MCScenarios
SPECIFICATION ScriptSpec
INVARIANTS
  NothingLost
  AllOrNothing
  RecentGroupsSkipped
  RootsWhole
  ReplicasKept
  LockedLeftAlone
  FirstPriorityDecides
