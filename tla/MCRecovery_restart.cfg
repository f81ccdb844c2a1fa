SPECIFICATION RSpec
CONSTANTS
  Thread = {main, w1, w2}
  Main = main
  Total = 22
  Count = 4
  Size = 2
  Pools = {100, 200}
  MaxCells = 5
  MaxRestarts = 2
SYMMETRY Symmetry
INVARIANTS RecInv Disjoint VisitsAll ChainRestored
