SPECIFICATION Spec
CONSTANTS
  Tasks = {t1}
  Writers = {w1, w2, w3}
  NoOne = NoOne
  InitialStates = {"CREATED", "TESTING", "WAITING_FOR_APPROVAL"}
  MAX_OCC_RETRIES = 2
  MaxCalls = 1
  MaxPauses = 1
SYMMETRY Symmetric
INVARIANTS TypeOK TrailLeadsToState AtMostOneRowPerCall NoContextLost PauseDrains CirclesArePairs
PROPERTIES ImplementsLifecycle
CHECK_DEADLOCK FALSE
