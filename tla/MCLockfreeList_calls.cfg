SPECIFICATION SharedSpec
CONSTANTS
  AllCalls = 4
  Thread = {t1, t2, t3}
  Main = main
  MaxKey = 2
  MaxCalls = 3
  Prefills <- EmptyOrFull
  m_head = head
  m_tail = tail
  Null = null
  Optimised = TRUE
  Running = {}
SYMMETRY Symmetry
INVARIANTS NothingLost
PROPERTIES Linearizable
CHECK_DEADLOCK FALSE
