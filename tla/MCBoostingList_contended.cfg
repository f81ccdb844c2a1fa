SPECIFICATION LiveSpec
CONSTANTS
  Thread = {t1, t2, t3}
  Desc = {d1, d2, d3}
  Key = {1, 2}
  OpArrays <- Contended
  None = none
  Running = {t1}
INVARIANTS IInv LoggedIsLocked UndoApplies LockSetExact
PROPERTIES Atomic OnlyCommitsShow RunningFinish
CHECK_DEADLOCK FALSE
