SPECIFICATION LiveSpec
CONSTANTS
  Thread = {t1, t2}
  Main = main
  MaxKey = 2
  MaxCalls = 2
  AllCalls = 4
  Prefills <- AllPrefills
  m_head = head
  m_tail = tail
  Null = null
  Optimised = FALSE
  Running = {t1}
INVARIANT IInv
PROPERTIES MarkedIsFrozen RunningReturns
CHECK_DEADLOCK FALSE
