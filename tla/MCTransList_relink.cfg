SPECIFICATION RelinkSpec
CONSTANTS
  Thread = {t1, t2}
  Desc = {d1, d2}
  Main = main
  PreDesc = pre
  m_head = head
  m_tail = tail
  Null = null
  MaxKey = 2
  MaxOps = 2
  OpArrays <- InsertThenRemove
  Prefills <- Empty
  Persist = TRUE
  Running = {}
SYMMETRY Symmetry
INVARIANTS NetEffect
