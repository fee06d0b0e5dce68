CONSTANTS
  Failed = Failed
  Characters <- MCCharacters
  Cwd <- MCCwd
  TicksPerMilli = 2
  MaxTime = 2
  MaxChanges = 1
  Scenarios <- MCTransformedOver
SPECIFICATION Spec
INVARIANT ReplicasLeft
