CONSTANTS
  Failed = Failed
  Characters <- MCCharacters
  Cwd <- MCCwd
  TicksPerMilli = 2
  MaxTime = 2
  MaxChanges = 1
  Scenarios <- MCScenarios
SPECIFICATION Spec
INVARIANTS
  ReadsWhatWasFound
  SameConfig
  ReplicasLeft
  ModifiedLaterSkipped
  RedundantDropped
