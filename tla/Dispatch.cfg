SPECIFICATION MCSpec
CONSTANTS
  Watchers = {w}
  TheRepo = r
  Repos = {r}
  Issues = {i1, i2}
  RepoOf <- OneRepo
  LogRepo = r
  Files = {1, 2}
  TasksPerDay = 2
  TasksPerHour = 1
  PerRepoHour = 2
  Streak = 1
  GlobalSlots = 2
  RepoSlots = 1
  MaxAlerts = 2
  MaxCrashes = 1
SYMMETRY Symmetric
CHECK_DEADLOCK FALSE
INVARIANTS TypeOK CapsOvershootByActorsOnly DuplicatesAreUnseen MergedInCirclesOnlyByOverlap FailuresInARowAreStopped SlotsAreTheRuns LockWaitsEnd
