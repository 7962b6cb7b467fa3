SPECIFICATION FairSpec
CONSTANTS
  Tasks = {t1}
  Writers = {w1, w2}
  NoOne = NoOne
  InitialStates = {"WAITING_FOR_APPROVAL"}
  MAX_OCC_RETRIES = 2
  MaxCalls = 2
  MaxPauses = 1
PROPERTIES CallsEnd
CHECK_DEADLOCK FALSE
