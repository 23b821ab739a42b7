SPECIFICATION Spec
CONSTANTS
  Entities = {e1}
  Writers = {w1, w2}
  Readers = {r1}
  Kinds = {"transition", "edit", "delete"}
  PageSize = 1
  MaxStamp = 4
SYMMETRY AuditSymmetry
INVARIANT HistoryIsChain
INVARIANT PagesMissNothing
CHECK_DEADLOCK FALSE
