SPECIFICATION LiveSpec
CONSTANTS
  Thread = {t1, t2}
  Desc = {d1, d2}
  Main = main
  PreDesc = pre
  m_head = head
  Null = null
  DIMENSION = 2
  Base = 4
  Key = {4, 5, 8, 12}
  MaxOps = 2
  OpArrays <- Crossing
  Prefills <- FiveAndTwelve
  Running = {t1}
INVARIANT WellFormed
PROPERTIES AtomicUnlessFlawed RunningFinish
