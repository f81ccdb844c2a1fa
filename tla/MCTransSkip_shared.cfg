SPECIFICATION LiveSpec
CONSTANTS
  Thread = {t1, t2}
  Desc = {d1, d2}
  Main = main
  PreDesc = pre
  head = head
  tail = tail
  Null = null
  MaxKey = 2
  MaxOps = 2
  NumLevels = 2
  OpArrays <- Crossing
  Prefills <- EmptyOrOne
  Persist = TRUE
  Running = {t1}
INVARIANTS SafetyInv LevelsNested
PROPERTIES AtomicUnlessEarly NoLostNode TakenWhenDecided RunningFinish
