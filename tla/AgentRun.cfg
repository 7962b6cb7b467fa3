SPECIFICATION MCSpec
CONSTANTS
  Callers = {coder, investigator}
  Coder = coder
  Reconcilers = {hourly}
  Cap = 3
  MaxEstimate = 1
  Miss = 1
  MAX_TRANSIENT_RETRIES = 1
  MaxLost = 1
  MaxReconciles = 2
  NoFile = NoFile
  NoEdit = NoEdit
  InitialFiles <- Files
  Contents <- NewContents
  Diffs <- SomeDiffs
  ReadArgs <- WholeOrPart
  LOOP_LIMIT = 3
  MaxAttempts = 2
  MaxTimeouts = 1
  Chars <- LineLengths
  NoteLines = {"b"}
  SCOPED_READ_THRESHOLD = 7
  SCOPED_READ_DEFAULT_LINES = 2
  LARGE_FILE_NOTICE_THRESHOLD = 2
  Unbounded = 9
VIEW Counted
INVARIANTS TypeOK CreditIsWithinScope EditsAreAccountedFor CounterIsTheRows OverspendIsBounded
PROPERTY NumberedPatchLandsWhereClaimed
CHECK_DEADLOCK FALSE
