SPECIFICATION FamilySpec
CONSTANTS
  Thread = {t1, t2}
  Desc = {d1, d2, d3}
  Main = main
  PreDesc = pre
  m_head = head
  m_tail = tail
  Null = null
  MaxKey = 2
  MaxOps = 2
  OpArrays <- OneOrTwo
  Prefills <- AllPrefills
  Persist = FALSE
  Running = {}
SYMMETRY Symmetry
PROPERTIES Atomic
CHECK_DEADLOCK FALSE
