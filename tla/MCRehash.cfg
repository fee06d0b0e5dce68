CONSTANTS
  a1 = a1  a2 = a2  b = b  c = c  e = e  p = p  hdd = hdd  ssd = ssd
  Files <- MCFiles
  Devices <- MCDevices
  Id <- MCId
  Device <- MCDevice
  Location <- MCLocation
  Groups <- MCGroups
  ToHash <- MCToHash
  HashFn <- MCHashFn
  CanFail <- MCCanFail
  Threads <- MCThreads
  TasksPerThread = 1
  OpenFiles = 1
  MatchLinks = FALSE
  Replicas = 1
SPECIFICATION Spec
INVARIANTS
  FilesConserved
  NoTaskOutlivesCall
  ResultComplete
  LimitsHold
  StartsInLocationOrder
  LinksInOneGroup
PROPERTIES
  Terminates
  ImplementsHashGrouping
