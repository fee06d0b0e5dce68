CONSTANTS
  a = a  l = l  b = b  c = c  ssd = ssd  hdd = hdd
  Entries <- MCEntries
  Path <- MCPath
  Blocks = {0, 1}
  Inodes <- MCInodes
  Device <- MCDevice
  MinPrefix <- MCMinPrefix
  MaxPrefix <- MCMaxPrefix
  SuffixLen <- MCSuffixLen
  SuffixThreshold <- MCSuffixThreshold
  Output <- MCWithHeader
  NoRoot = 0
  NoSize = 99
  Scenarios <- MCLongOutput
SPECIFICATION Spec
INVARIANTS
  Identical
