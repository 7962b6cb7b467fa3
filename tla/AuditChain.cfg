SPECIFICATION Spec
CONSTANTS
  v1 = v1
  v2 = v2
  v3 = v3
  v4 = v4
  v5 = v5
  Writers = {w1, w2}
  NoOne = NoOne
  Values = {v1, v2, v3, v4, v5}
  NULL = NULL
  Legacy <- ChainedHistory
  MaxSeq = 3
  MaxEdits = 1
SYMMETRY Symmetric
INVARIANTS TypeOK ChainIsLinear IntactIsHonest
PROPERTY OrderIsStable
CHECK_DEADLOCK FALSE
