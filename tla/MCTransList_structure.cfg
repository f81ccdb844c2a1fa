SPECIFICATION Spec
CONSTANTS
  Thread = {t1, t2}
  Desc = {d1, d2}
  Main = main
  PreDesc = pre
  m_head = head
  m_tail = tail
  Null = null
  MaxKey = 2
  MaxOps = 2
  OpArrays <- DistinctPairs
  Prefills <- AllPrefills
  Persist = TRUE
  Running = {}
SYMMETRY Symmetry
INVARIANTS Sorted MarkOrder RemovedIsGone FinishedIsDecided TxidUnique
PROPERTIES TakenWhenDecided MarkedIsFrozen NoLostNode
