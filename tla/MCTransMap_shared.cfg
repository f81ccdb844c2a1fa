SPECIFICATION LiveSpec
CONSTANTS
  Thread = {t1, t2}
  Desc = {d1, d2}
  Main = main
  PreDesc = pre
  Null = null
  KEY_SIZE = 4
  MAIN_POW = 1
  SUB_POW = 1
  MAX_CAS_FAILURE = 3
  Key = {1, 3, 5, 9}
  Value = {2, 3}
  PrefillValue = 4
  MaxOps = 2
  OpArrays <- Colliding
  Prefills <- EmptyOrTwo
  Running = {t1}
INVARIANT RoutedUnlessLost
PROPERTIES AtomicUnlessFlawed RunningFinish
