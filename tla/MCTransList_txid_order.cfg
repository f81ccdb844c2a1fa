SPECIFICATION Spec
CONSTANTS
  Thread = {t1, t2}
  Desc = {d1, d2}
  Main = main
  PreDesc = pre
  m_head = head
  m_tail = tail
  Null = null
  MaxKey = 1
  MaxOps = 1
  OpArrays <- Finds
  Prefills <- Full
  Persist = TRUE
  Running = {}
SYMMETRY Symmetry
INVARIANTS TxidsTellOrder
