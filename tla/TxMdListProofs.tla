--------------------------- MODULE TxMdListProofs ---------------------------
(***************************************************************************)
(* Theorems about TxMdList: the coordinates of keys first, then its frames *)
(* and the nodes that they link.                                           *)
(***************************************************************************)
EXTENDS TxMdListInv, Paths, TLAPS, SequenceTheorems

-----------------------------------------------------------------------------
(* Digits.                                                                 *)

LEMMA DivSmaller ==
  ASSUME NEW a \in Nat, NEW c \in Nat, NEW b \in Nat \ {0}, a <= c
  PROVE  a \div b <= c \div b
BY DivMod

\* With the same quotient, the smaller number has the smaller remainder.
LEMMA SameQuotient ==
  ASSUME NEW a \in Nat, NEW c \in Nat, NEW b \in Nat \ {0}, a < c, a \div b = c \div b
  PROVE  a % b < c % b
BY DivMod

LEMMA LastDigit ==
  ASSUME NEW a \in Nat, NEW b \in Nat \ {0}, a \div b = 0, a # 0
  PROVE  a % b # 0
BY DivMod

-----------------------------------------------------------------------------
(* Coordinates.                                                            *)

Keys == Key \union {0}

LEMMA Sizes ==
  /\ DIMENSION \in Nat /\ DIMENSION > 0 /\ Base \in Nat \ {0} /\ Base > 1
  /\ Keys \subseteq Nat /\ 0 \notin Key
BY ConstantsAssumption DEF Keys

LEMMA ShiftedDef ==
  ASSUME NEW k \in Keys
  PROVE  Shifts(Shifted[k], k, Base, DIMENSION)
<1> DEFINE G == CHOOSE F : Shifts(F, k, Base, DIMENSION)
<1>1. Shifts(G, k, Base, DIMENSION)
  BY Sizes, ShiftsExist
<1>2. Shifted[k] = G
  BY DEF Shifted, Keys, Shifts
<1> QED
  BY <1>1, <1>2

LEMMA ShiftedFacts ==
  ASSUME NEW k \in Keys
  PROVE  /\ Shifted[k][0] = k
         /\ \A j \in 0..DIMENSION : j < DIMENSION =>
              Shifted[k][j + 1] = Shifted[k][j] \div Base
         /\ \A j \in 0..DIMENSION : Shifted[k][j] \in Nat
         /\ Shifted[k][DIMENSION] = 0
<1>1. PICK G : G = Shifted[k]
  OBVIOUS
<1>2. G = [j \in 0..DIMENSION |-> IF j = 0 THEN k ELSE G[j - 1] \div Base]
  BY <1>1, ShiftedDef DEF Shifts
<1>3. G[0] = k /\ \A j \in 0..DIMENSION : j < DIMENSION => G[j + 1] = G[j] \div Base
  BY <1>2, Sizes
<1>4. \A j \in 0..DIMENSION : G[j] \in Nat
  <2> DEFINE T == {j \in 0..DIMENSION : G[j] \in Nat}
  <2>1. 0 \in T
    BY <1>3, Sizes
  <2>2. ASSUME NEW j \in 0..DIMENSION, j < DIMENSION, j \in T PROVE j + 1 \in T
    BY <1>3, <2>2, Sizes, DivMod
  <2>3. \A j \in 0..DIMENSION : j \in T
    <3> HIDE DEF T
    <3> QED
      BY <2>1, <2>2, Sizes, UpTo
  <2> QED
    BY <2>3
<1>5. G[DIMENSION] = 0
  <2>1. CASE k \in Key
    BY <1>1, <2>1, KeyAssumption
  <2>2. CASE k = 0
    <3> DEFINE T == {j \in 0..DIMENSION : G[j] = 0}
    <3>1. 0 \in T
      BY <1>3, <2>2, Sizes
    <3>2. ASSUME NEW j \in 0..DIMENSION, j < DIMENSION, j \in T PROVE j + 1 \in T
      BY <1>3, <3>2, Sizes
    <3>3. \A j \in 0..DIMENSION : j \in T
      <4> HIDE DEF T
      <4> QED
        BY <3>1, <3>2, Sizes, UpTo
    <3> QED
      BY <3>3, Sizes
  <2> QED
    BY <2>1, <2>2 DEF Keys
<1> QED
  BY <1>1, <1>3, <1>4, <1>5

LEMMA CoordType ==
  ASSUME NEW k \in Keys, NEW i \in Dim
  PROVE  Coord(k, i) \in Nat
<1>1. DIMENSION - 1 - i \in 0..DIMENSION
  BY Sizes DEF Dim
<1> QED
  BY <1>1, Sizes, ShiftedFacts, DivMod DEF Coord

\* All coordinates of the head are 0.
LEMMA CoordHead == \A i \in Dim : Coord(0, i) = 0
<1> DEFINE T == {j \in 0..DIMENSION : Shifted[0][j] = 0}
<1>0. 0 \in Keys
  BY DEF Keys
<1>1. 0 \in T
  BY <1>0, ShiftedFacts, Sizes
<1>2. ASSUME NEW j \in 0..DIMENSION, j < DIMENSION, j \in T PROVE j + 1 \in T
  <2>1. Shifted[0][j + 1] = Shifted[0][j] \div Base
    BY <1>0, <1>2, ShiftedFacts
  <2>2. Shifted[0][j + 1] = 0
    BY <1>2, <2>1, Sizes
  <2> QED
    BY <1>2, <2>2, Sizes
<1>3. \A j \in 0..DIMENSION : j \in T
  <2> HIDE DEF T
  <2> QED
    BY <1>1, <1>2, Sizes, UpTo
<1> SUFFICES ASSUME NEW i \in Dim PROVE Coord(0, i) = 0
  OBVIOUS
<1>4. DIMENSION - 1 - i \in 0..DIMENSION
  BY Sizes DEF Dim
<1>5. Shifted[0][DIMENSION - 1 - i] = 0
  BY <1>3, <1>4
<1> QED
  BY <1>5, Sizes DEF Coord

\* A key of the list differs from the head in some dimension.
LEMMA CoordNonzero == \A k \in Key : \E i \in Dim : Coord(k, i) # 0
<1> SUFFICES ASSUME NEW k \in Key PROVE \E i \in Dim : Coord(k, i) # 0
  OBVIOUS
<1>0. k \in Keys /\ k # 0
  BY Sizes DEF Keys
<1> DEFINE T == {j \in 0..DIMENSION : Shifted[k][j] = 0}
<1>1. DIMENSION \in T /\ T \subseteq Nat
  BY <1>0, ShiftedFacts, Sizes
<1>2. PICK j \in T : \A m \in T : j <= m
  <2> HIDE DEF T
  <2> QED
    BY <1>1, LeastNumber
<1>3. j # 0 /\ j \in 0..DIMENSION /\ Shifted[k][j] = 0
  BY <1>0, <1>2, ShiftedFacts
<1>4. j - 1 \in 0..DIMENSION /\ j - 1 < DIMENSION /\ (j - 1) + 1 = j
  BY <1>3, Sizes
<1>5. j - 1 \notin T
  BY <1>2, <1>4
<1>6. Shifted[k][j] = Shifted[k][j - 1] \div Base
  BY <1>0, <1>4, ShiftedFacts
<1>7. Shifted[k][j - 1] \in Nat /\ Shifted[k][j - 1] # 0
  BY <1>0, <1>4, <1>5, ShiftedFacts
<1>8. Shifted[k][j - 1] % Base # 0
  BY <1>3, <1>6, <1>7, Sizes, LastDigit
<1>9. DIMENSION - j \in Dim /\ DIMENSION - 1 - (DIMENSION - j) = j - 1
  BY <1>3, Sizes DEF Dim
<1>10. Coord(k, DIMENSION - j) # 0
  BY <1>8, <1>9 DEF Coord
<1> QED
  BY <1>9, <1>10

LEMMA ShiftedOrder ==
  ASSUME NEW k \in Keys, NEW l \in Keys, k <= l
  PROVE  \A j \in 0..DIMENSION : Shifted[k][j] <= Shifted[l][j]
<1> DEFINE T == {j \in 0..DIMENSION : Shifted[k][j] <= Shifted[l][j]}
<1>1. 0 \in T
  BY ShiftedFacts, Sizes
<1>2. ASSUME NEW j \in 0..DIMENSION, j < DIMENSION, j \in T PROVE j + 1 \in T
  <2>1. /\ Shifted[k][j + 1] = Shifted[k][j] \div Base
        /\ Shifted[l][j + 1] = Shifted[l][j] \div Base
        /\ Shifted[k][j] \in Nat /\ Shifted[l][j] \in Nat
    BY <1>2, ShiftedFacts
  <2>2. Shifted[k][j + 1] <= Shifted[l][j + 1]
    BY <1>2, <2>1, Sizes, DivSmaller
  <2> QED
    BY <1>2, <2>2, Sizes
<1>3. \A j \in 0..DIMENSION : j \in T
  <2> HIDE DEF T
  <2> QED
    BY <1>1, <1>2, Sizes, UpTo
<1> QED
  BY <1>3

\* Keys that share their first i coordinates have the same leading digits.
LEMMA SharedDigits ==
  ASSUME NEW k \in Keys, NEW l \in Keys, NEW i \in 0..DIMENSION, Shares(k, l, i)
  PROVE  Shifted[k][DIMENSION - i] = Shifted[l][DIMENSION - i]
<1> DEFINE T == {j \in 0..i : Shifted[k][DIMENSION - j] = Shifted[l][DIMENSION - j]}
<1>1. 0 \in T
  <2>1. DIMENSION - 0 = DIMENSION
    BY Sizes
  <2> QED
    BY <2>1, ShiftedFacts, Sizes
<1>2. ASSUME NEW j \in 0..i, j < i, j \in T PROVE j + 1 \in T
  <2> DEFINE m == DIMENSION - 1 - j
  <2>1. m \in 0..DIMENSION /\ m < DIMENSION /\ m + 1 = DIMENSION - j
        /\ DIMENSION - (j + 1) = m /\ j \in Dim
    BY <1>2, Sizes DEF Dim
  <2>2. Coord(k, j) = Coord(l, j)
    BY <1>2, <2>1 DEF Shares
  <2> HIDE DEF m
  <2>3. /\ Shifted[k][m + 1] = Shifted[k][m] \div Base
        /\ Shifted[l][m + 1] = Shifted[l][m] \div Base
        /\ Shifted[k][m] \in Nat /\ Shifted[l][m] \in Nat
    BY <2>1, ShiftedFacts
  <2>4. Shifted[k][m + 1] = Shifted[l][m + 1]
    BY <1>2, <2>1
  <2>5. Shifted[k][m] % Base = Shifted[l][m] % Base
    BY <2>2 DEF Coord, m
  <2>6. Shifted[k][m] = Shifted[l][m]
    <3>1. PICK a \in Nat, c \in Nat : a = Shifted[k][m] /\ c = Shifted[l][m]
      BY <2>3
    <3>2. a \div Base = c \div Base /\ a % Base = c % Base
      BY <2>3, <2>4, <2>5, <3>1
    <3>3. a = c
      BY <3>2, Sizes, DivMod
    <3> QED
      BY <3>1, <3>3
  <2> QED
    BY <1>2, <2>1, <2>6
<1>3. \A j \in 0..i : j \in T
  <2> HIDE DEF T
  <2>1. i \in Nat
    OBVIOUS
  <2> QED
    BY <1>1, <1>2, <2>1, UpTo
<1> QED
  BY <1>3, Sizes

\* The smaller key has the smaller coordinate where the two differ first.
LEMMA SmallerKey ==
  ASSUME NEW k \in Keys, NEW l \in Keys, k < l, NEW i \in Dim, Shares(k, l, i),
         Coord(k, i) # Coord(l, i)
  PROVE  Below(k, l, i)
<1> DEFINE m == DIMENSION - 1 - i
<1>1. m \in 0..DIMENSION /\ m < DIMENSION /\ m + 1 = DIMENSION - i /\ i \in 0..DIMENSION
  BY Sizes DEF Dim
<1>2. Coord(k, i) = Shifted[k][m] % Base /\ Coord(l, i) = Shifted[l][m] % Base
  BY DEF Coord
<1> HIDE DEF m
<1>3. Shifted[k][m + 1] = Shifted[l][m + 1]
  BY <1>1, SharedDigits
<1>4. /\ Shifted[k][m] \in Nat /\ Shifted[l][m] \in Nat
      /\ Shifted[k][m] \div Base = Shifted[l][m] \div Base
  BY <1>1, <1>3, ShiftedFacts
<1>5. Shifted[k][m] <= Shifted[l][m]
  BY <1>1, Sizes, ShiftedOrder DEF Keys
<1>6. Shifted[k][m] < Shifted[l][m]
  BY <1>2, <1>4, <1>5
<1>7. Shifted[k][m] % Base < Shifted[l][m] % Base
  BY <1>4, <1>6, Sizes, SameQuotient
<1> QED
  BY <1>2, <1>7 DEF Below

\* The first dimension from i on in which two keys differ.
DiffAt(d, k, l, i) ==
  /\ d \in 0..DIMENSION /\ d >= i
  /\ \A j \in Dim : i <= j /\ j < d => Coord(k, j) = Coord(l, j)
  /\ d < DIMENSION => d \in Dim /\ Coord(k, d) # Coord(l, d)

LEMMA FirstDiffFacts ==
  ASSUME NEW k \in Keys, NEW l \in Keys, NEW i \in 0..DIMENSION
  PROVE  DiffAt(FirstDiff(k, l, i), k, l, i)
<1> SUFFICES ASSUME NEW d, d = FirstDiff(k, l, i) PROVE DiffAt(d, k, l, i)
  OBVIOUS
<1> DEFINE D == {j \in Dim : j >= i /\ Coord(k, j) # Coord(l, j)}
<1>1. d = IF D = {} THEN DIMENSION ELSE Min(D)
  BY DEF FirstDiff
<1>2. CASE D = {}
  BY <1>1, <1>2, Sizes DEF Dim, DiffAt
<1>3. CASE D # {}
  <2>1. D \subseteq Nat
    BY DEF Dim
  <2>2. \E x \in D : \A y \in D : x <= y
    <3> HIDE DEF D
    <3> QED
      BY <1>3, <2>1, LeastNumber
  <2>3. d = CHOOSE x \in D : \A y \in D : x <= y
    BY <1>1, <1>3 DEF Min
  <2>4. d \in D /\ \A y \in D : d <= y
    <3> HIDE DEF D
    <3> QED
      BY <2>2, <2>3
  <2>5. d \in Dim /\ d >= i /\ Coord(k, d) # Coord(l, d)
    BY <2>4
  <2>6. ASSUME NEW j \in Dim, i <= j, j < d PROVE Coord(k, j) = Coord(l, j)
    BY <2>4, <2>5, <2>6 DEF Dim
  <2> QED
    BY <2>5, <2>6, Sizes DEF Dim, DiffAt
<1> QED
  BY <1>2, <1>3

-----------------------------------------------------------------------------
(* Nodes, keys and pointers.                                               *)

\* The records that make up the types.
LEMMA NodeDescType ==
  ASSUME NEW n \in NodeDesc
  PROVE  /\ n # Null /\ n # m_head /\ n \in Node
         /\ n.desc = PreDesc => n.opid \in Key
         /\ n.desc # PreDesc => n.by \in Thread /\ n.desc \in Desc /\ n.opid \in 1..MaxOps
         /\ n.desc \in AllDesc
BY NullAssumption, ConstantsAssumption DEF NodeDesc, Node, AllDesc

LEMMA NodeType == m_head \in Node /\ Null \notin Node /\ NodeDesc \subseteq Node
BY NullAssumption DEF Node

LEMMA OpsType ==
  ASSUME TypeOK, NEW d \in Desc, NEW i \in Nat, i >= 1, i <= Len(ops[d])
  PROVE  /\ i \in 1..MaxOps
         /\ ops[d] # <<>>
         /\ ops[d][i] \in Operator
<1>1. ops[d] # <<>>
  BY ConstantsAssumption
<1>2. ops[d] \in OpArrays
  BY <1>1 DEF TypeOK
<1>3. ops[d] \in Seq(Operator) /\ Len(ops[d]) \in 1..MaxOps
  BY <1>2, ConstantsAssumption
<1>4. i \in 1..Len(ops[d])
  BY <1>3
<1> QED
  BY <1>1, <1>3, <1>4, ConstantsAssumption

LEMMA KeyOfType ==
  ASSUME TypeOK, NEW n, Ready(n)
  PROVE  n \in Node /\ KeyOf(n) \in Keys
<1>1. CASE n = m_head
  BY <1>1, NodeType DEF KeyOf, Keys
<1>2. CASE n # m_head
  <2>1. n \in NodeDesc
    BY <1>2 DEF Ready
  <2>2. CASE n.desc = PreDesc
    BY <1>2, <2>1, <2>2, NodeDescType DEF KeyOf, Keys
  <2>3. CASE n.desc # PreDesc
    <3>1. n.desc \in Desc /\ n.opid \in Nat /\ n.opid >= 1 /\ n.opid <= Len(ops[n.desc])
      BY <1>2, <2>1, <2>3, NodeDescType, ConstantsAssumption DEF Ready
    <3>2. ops[n.desc][n.opid] \in Operator
      BY <3>1, OpsType
    <3>3. KeyOf(n) = ops[n.desc][n.opid].key
      BY <1>2, <2>3 DEF KeyOf
    <3> QED
      BY <2>1, <3>2, <3>3, NodeType DEF Operator, Keys
  <2> QED
    BY <2>2, <2>3
<1> QED
  BY <1>1, <1>2

LEMMA PtrType ==
  /\ \A n \in Node \union {Null} : To(n) \in Ptr /\ To(n).n = n /\ ~To(n).del /\ ~To(n).adp
  /\ Invalid \in Ptr /\ Invalid.n = Null /\ ~Invalid.del
BY DEF To, Invalid, Ptr

\* What a step leaves to the frames that it does not touch.
Keeps ==
  /\ \A d \in AllDesc : status[d] # "ACTIVE" => status'[d] # "ACTIVE"
  /\ \A d \in Desc : ops[d] # <<>> => ops'[d] = ops[d]
  /\ \A n \in NodeDesc : n.desc # PreDesc /\ ~Unborn(n) => ~Unborn(n)'
  /\ \A n \in Node, i \in Dim : Ready(n) /\ child[n][i].n # Null => child'[n][i].n # Null

LEMMA ReadyStable ==
  ASSUME TypeOK, Keeps, NEW n, Ready(n)
  PROVE  Ready(n)' /\ KeyOf(n)' = KeyOf(n)
<1>1. CASE n = m_head
  BY <1>1 DEF Ready, KeyOf
<1>2. CASE n # m_head /\ n.desc = PreDesc
  BY <1>2 DEF Ready, KeyOf
<1>3. CASE n # m_head /\ n.desc # PreDesc
  <2>1. n \in NodeDesc /\ n.opid <= Len(ops[n.desc]) /\ ~Unborn(n)
    BY <1>3 DEF Ready
  <2>2. n.desc \in Desc /\ n.opid \in Nat /\ n.opid >= 1
    BY <1>3, <2>1, NodeDescType, ConstantsAssumption
  <2>3. ops'[n.desc] = ops[n.desc]
    BY <2>1, <2>2, OpsType DEF Keeps
  <2>4. ~Unborn(n)'
    BY <1>3, <2>1 DEF Keeps
  <2> QED
    BY <1>3, <2>1, <2>3, <2>4 DEF Ready, KeyOf
<1> QED
  BY <1>1, <1>2, <1>3

LEMMA HangsStable ==
  ASSUME TypeOK, Keeps, NEW p, NEW n, NEW i, Hangs(p, n, i), p.n # Null => Ready(n)
  PROVE  Hangs(p, n, i)'
<1>1. CASE p.n = Null
  BY <1>1 DEF Hangs
<1>2. CASE p.n # Null
  <2>1. Ready(p.n)' /\ KeyOf(p.n)' = KeyOf(p.n)
    BY <1>2, ReadyStable DEF Hangs
  <2>2. KeyOf(n)' = KeyOf(n)
    BY <1>2, ReadyStable
  <2> QED
    BY <1>2, <2>1, <2>2 DEF Hangs
<1> QED
  BY <1>1, <1>2

LEMMA AdoptsStable ==
  ASSUME TypeOK, Keeps, NEW n, NEW task, Adopts(n, task)
  PROVE  Adopts(n, task)'
<1>1. CASE task = NoTask
  BY <1>1 DEF Adopts
<1>2. CASE task # NoTask
  <2>1. Ready(n)' /\ KeyOf(n)' = KeyOf(n)
    BY <1>2, ReadyStable DEF Adopts
  <2>2. Ready(task.curr)' /\ KeyOf(task.curr)' = KeyOf(task.curr)
    BY <1>2, ReadyStable DEF Adopts
  <2> QED
    BY <1>2, <2>1, <2>2 DEF Adopts
<1> QED
  BY <1>1, <1>2

LEMMA HeapStable ==
  ASSUME TypeOK, Keeps, HeapInv, UNCHANGED child
  PROVE  HeapInv'
<1> SUFFICES ASSUME NEW n \in Node, NEW i \in Dim
             PROVE  Hangs(child[n][i], n, i)' /\ (child'[n][i].n # Null => Ready(n)')
  BY DEF HeapInv
<1>1. PICK p : p = child[n][i]
  OBVIOUS
<1>2. Hangs(p, n, i) /\ (p.n # Null => Ready(n))
  BY <1>1 DEF HeapInv
<1>3. Hangs(p, n, i)' /\ (p.n # Null => Ready(n)')
  BY <1>2, HangsStable, ReadyStable
<1>4. child'[n][i] = p
  BY <1>1
<1> QED
  BY <1>3, <1>4 DEF Hangs

LEMMA TasksStable ==
  ASSUME TypeOK, Keeps, TasksInv, UNCHANGED pending
  PROVE  TasksInv'
<1> SUFFICES ASSUME NEW n \in Node PROVE Adopts(n, pending[n])'
  BY DEF TasksInv
<1>1. PICK task : task = pending[n]
  OBVIOUS
<1>2. Adopts(n, task)'
  BY <1>1, AdoptsStable DEF TasksInv
<1>3. pending'[n] = task
  BY <1>1
<1> QED
  BY <1>2, <1>3 DEF Adopts

-----------------------------------------------------------------------------
(* Frames.                                                                 *)

LEMMA NewFrameType ==
  ASSUME NEW i \in 1..(MaxOps + 1)
  PROVE  /\ NewFrame(i) \in Frame /\ NewFrame(i).pc = "loop" /\ NewFrame(i).back = "return"
         /\ NewFrame(i).opid = i /\ NewFrame(i).curr = m_head /\ NewFrame(i).dim = 0
<1>1. 0 \in Dim /\ 0 \in 0..DIMENSION
  BY Sizes DEF Dim
<1>2. <<>> \in Seq(Done)
  OBVIOUS
<1> QED
  BY <1>1, <1>2, NodeType, PtrType DEF NewFrame, Frame, Labels, AdoptDesc

LEMMA WalkInvStable ==
  ASSUME TypeOK, Keeps, NEW f \in Frame, NEW k, WalkInv(f, k)
  PROVE  WalkInv(f, k)'
<1>1. f.pred # Null /\ Ready(f.pred)
  BY DEF WalkInv, PredInv
<1>2. Ready(f.pred)' /\ KeyOf(f.pred)' = KeyOf(f.pred)
  BY <1>1, ReadyStable
<1>3. f.curr # Null => /\ Ready(f.curr) /\ Ready(f.curr)'
                       /\ KeyOf(f.curr)' = KeyOf(f.curr)
  BY ReadyStable DEF WalkInv, PredInv
<1>4. f.pred \in Node /\ f.pred_dim \in Dim
  BY <1>1 DEF Frame
<1>5. child[f.pred][f.pred_dim].n # Null => child'[f.pred][f.pred_dim].n # Null
  BY <1>1, <1>4 DEF Keeps
<1>6. PredInv(f, k)'
  BY <1>2, <1>3 DEF WalkInv, PredInv
<1>7. ~Passing(f) => PlaceInv(f, k)'
  BY <1>3, <1>5 DEF WalkInv, PlaceInv
<1>8. Expected(f)' = Expected(f)
  BY DEF Expected
<1> QED
  BY <1>3, <1>6, <1>7, <1>8 DEF WalkInv, Passing, HasOld, Placed

LEMMA AdoptInvStable ==
  ASSUME TypeOK, Keeps, NEW f \in Frame, AdoptInv(f)
  PROVE  AdoptInv(f)'
<1>1. f.pc \in AdoptLabels => Adopts(f.n, f.task) /\ Adopts(f.n, f.task)'
  BY AdoptsStable DEF AdoptInv
<1>2. f.pc = "copy" => Hangs(f.value, f.task.curr, f.i)'
  <2> SUFFICES ASSUME f.pc = "copy" PROVE Hangs(f.value, f.task.curr, f.i)'
    OBVIOUS
  <2>1. f.pc \in AdoptLabels
    BY DEF AdoptLabels
  <2>2. Ready(f.task.curr) /\ Hangs(f.value, f.task.curr, f.i)
    BY <2>1 DEF AdoptInv, Adopts
  <2> QED
    BY <2>2, HangsStable
<1> QED
  BY <1>1, <1>2 DEF AdoptInv, AdoptLabels

LEMMA FrameInvStable ==
  ASSUME TypeOK, Keeps, NEW d \in Desc, NEW f \in Frame, FrameInv(f, d)
  PROVE  FrameInv(f, d)'
<1>1. AdoptInv(f)'
  BY AdoptInvStable DEF FrameInv
<1>2. EndInv(f, d)'
  BY DEF FrameInv, EndInv, Keeps, AllDesc, PersistLabels
<1>3. InOp(f) => f.opid <= Len(ops'[d]) /\ WalkInv(f, ops[d][f.opid].key)'
  <2> SUFFICES ASSUME InOp(f)
               PROVE  f.opid <= Len(ops'[d]) /\ WalkInv(f, ops[d][f.opid].key)'
    OBVIOUS
  <2>1. f.opid <= Len(ops[d]) /\ f.opid \in Nat /\ f.opid >= 1
    BY ConstantsAssumption DEF FrameInv, Frame
  <2>2. ops'[d] = ops[d]
    BY <2>1, OpsType DEF Keeps
  <2>3. PICK k : k = ops[d][f.opid].key
    OBVIOUS
  <2>4. WalkInv(f, k)'
    BY <2>3, WalkInvStable DEF FrameInv
  <2>5. k = ops'[d][f.opid].key
    BY <2>2, <2>3
  <2> QED
    BY <2>1, <2>2, <2>4, <2>5
<1> QED
  BY <1>1, <1>2, <1>3 DEF FrameInv, InOp, PersistLabels

LEMMA TopInStack ==
  ASSUME TypeOK, NEW t \in Thread, Busy(t)
  PROVE  /\ Len(stack[t]) \in Nat \ {0}
         /\ stack[t] \in Seq(Desc)
         /\ Top(t) = stack[t][Len(stack[t])]
         /\ Top(t) \in Desc
         /\ Contains(stack[t], Top(t))
         /\ Fr(t) \in Frame
<1>1. stack[t] \in Seq(Desc) /\ stack[t] # <<>>
  BY DEF TypeOK, Busy
<1>2. Len(stack[t]) \in Nat \ {0}
  BY <1>1
<1>3. Top(t) = stack[t][Len(stack[t])]
  BY DEF Top, Last
<1>4. Top(t) \in Desc
  BY <1>1, <1>2, <1>3
<1>5. Contains(stack[t], Top(t))
  BY <1>2, <1>3 DEF Contains
<1> QED
  BY <1>1, <1>2, <1>3, <1>4, <1>5 DEF TypeOK, Fr

\* Frame f goes on as g: nothing that it has linked becomes unborn.
Onward(f, g, d) ==
  /\ f.opid < g.opid \/ (f.opid = g.opid /\ (Placed(f) => Placed(g)))
  /\ InOp(g) => InOp(f) \/ status[d] = "ACTIVE"

LEMMA OnwardKeeps ==
  ASSUME TypeOK, NEW t \in Thread, Busy(t), NEW g \in Frame,
         SetFrame(t, g), Onward(Fr(t), g, Top(t)),
         \A d \in AllDesc : status[d] # "ACTIVE" => status'[d] # "ACTIVE",
         \A d \in Desc : ops[d] # <<>> => ops'[d] = ops[d],
         \A n \in Node, i \in Dim :
           Ready(n) /\ child[n][i].n # Null => child'[n][i].n # Null
  PROVE  Keeps
<1> SUFFICES ASSUME NEW n \in NodeDesc, n.desc # PreDesc, ~Unborn(n), Unborn(n)'
             PROVE  FALSE
  BY DEF Keeps
<1>1. n.by \in Thread /\ n.desc \in Desc /\ n.opid \in Nat
  BY NodeDescType, ConstantsAssumption
<1>2. Top(t) \in Desc /\ Fr(t) \in Frame /\ Fr(t) = fr[t][Top(t)]
  BY TopInStack DEF Fr
<1>3. CASE n.by = t /\ n.desc = Top(t)
  <2>1. fr'[n.by][n.desc] = g /\ fr[n.by][n.desc] = Fr(t)
    BY <1>1, <1>2, <1>3 DEF SetFrame, TypeOK
  <2>2. PICK f \in Frame : f = Fr(t)
    BY <1>2
  <2>3. /\ n.opid > g.opid \/ (n.opid = g.opid /\ ~Placed(g))
        /\ status'[n.desc] = "ACTIVE" \/ InOp(g)
    BY <2>1 DEF Unborn, Placed, InOp
  <2>4. status'[n.desc] = "ACTIVE" => status[n.desc] = "ACTIVE"
    BY <1>1 DEF AllDesc
  <2>5. f.opid \in Nat /\ g.opid \in Nat
    BY ConstantsAssumption DEF Frame
  <2>6. /\ n.opid > f.opid \/ (n.opid = f.opid /\ ~Placed(f))
        /\ status[n.desc] = "ACTIVE" \/ InOp(f)
    BY <1>1, <1>3, <2>2, <2>3, <2>4, <2>5 DEF Onward
  <2> QED
    BY <2>1, <2>2, <2>6 DEF Unborn
<1>4. CASE ~(n.by = t /\ n.desc = Top(t))
  <2>1. fr'[n.by][n.desc] = fr[n.by][n.desc]
    BY <1>1, <1>2, <1>4 DEF SetFrame, TypeOK
  <2>2. status'[n.desc] = "ACTIVE" => status[n.desc] = "ACTIVE"
    BY <1>1 DEF AllDesc
  <2> QED
    BY <2>1, <2>2 DEF Unborn, Placed, InOp
<1> QED
  BY <1>3, <1>4

\* A step that changes the top frame of one thread.
LEMMA FrameStep ==
  ASSUME IInv, NEW t \in Thread, Busy(t), NEW f \in Frame,
         SetFrame(t, f), UNCHANGED stack, Keeps,
         FrameInv(f, Top(t))', PreInv', HeapInv', TasksInv',
         /\ child' \in [Node -> [Dim -> Ptr]]
         /\ pending' \in [Node -> AdoptDesc]
         /\ nd' \in [NodeDesc -> NodeDesc]
         /\ ndmark' \in [NodeDesc -> BOOLEAN]
         /\ ops' \in [Desc -> OpArrays \union {<<>>}]
         /\ status' \in [AllDesc -> {"ACTIVE", "COMMITTED", "ABORTED"}]
         /\ pstatus' \in [AllDesc -> {"MAYBE", "IN_PROGRESS", "PERSISTED"}]
  PROVE  IInv'
<1> DEFINE d == Top(t)
<1>1. TypeOK
  BY DEF IInv
<1>2. d \in Desc /\ Contains(stack[t], d)
  BY <1>1, TopInStack
<1>3. /\ fr'[t][d] = f
      /\ \A u \in Thread, e \in Desc : u # t \/ e # d => fr'[u][e] = fr[u][e]
      /\ fr' \in [Thread -> [Desc -> Frame]]
  BY <1>1, <1>2 DEF TypeOK, SetFrame
<1>4. TypeOK'
  BY <1>1, <1>3 DEF TypeOK
<1>5. FramesInv'
  <2> SUFFICES ASSUME NEW u \in Thread, NEW e \in Desc
               PROVE  FrameInv(fr[u][e], e)'
    BY DEF FramesInv
  <2>1. CASE u = t /\ e = d
    <3>1. Top(t)' = d /\ fr'[u][e] = f
      BY <1>3, <2>1 DEF Top
    <3>2. PICK e1 : e1 = d
      OBVIOUS
    <3>3. FrameInv(f, e1)'
      BY <3>1, <3>2
    <3> QED
      BY <2>1, <3>1, <3>2, <3>3
  <2>2. CASE u # t \/ e # d
    <3>1. FrameInv(fr[u][e], e) /\ fr[u][e] \in Frame
      BY <1>1 DEF IInv, FramesInv, TypeOK
    <3>2. PICK g \in Frame : g = fr[u][e]
      BY <3>1
    <3>3. FrameInv(g, e)'
      BY <1>1, <3>1, <3>2, FrameInvStable
    <3>4. fr'[u][e] = g
      BY <1>3, <2>2, <3>2
    <3> QED
      BY <3>3, <3>4
  <2> QED
    BY <2>1, <2>2
<1>6. IdleInv'
  <2> SUFFICES ASSUME NEW u \in Thread, NEW e \in Desc, ~Contains(stack[u], e)
               PROVE  fr'[u][e] = NewFrame(1)
    BY DEF IdleInv
  <2>1. u # t \/ e # d
    BY <1>2
  <2> QED
    BY <1>3, <2>1 DEF IInv, IdleInv
<1> QED
  BY <1>4, <1>5, <1>6 DEF IInv

\* A step that touches neither the pointers nor the descriptors.
LEMMA LocalStep ==
  ASSUME IInv, NEW t \in Thread, Busy(t), NEW f \in Frame,
         SetFrame(t, f), FrameInv(f, Top(t)), Onward(Fr(t), f, Top(t)),
         UNCHANGED <<child, pending, ops, status, pstatus, stack>>,
         nd' \in [NodeDesc -> NodeDesc], ndmark' \in [NodeDesc -> BOOLEAN]
  PROVE  IInv'
<1>1. TypeOK /\ PreInv /\ HeapInv /\ TasksInv
  BY DEF IInv
<1>2. Keeps
  BY <1>1, OnwardKeeps
<1>3. FrameInv(f, Top(t))'
  <2>1. PICK d \in Desc : d = Top(t)
    BY <1>1, TopInStack
  <2>2. FrameInv(f, d)'
    BY <1>1, <1>2, <2>1, FrameInvStable
  <2>3. Top(t)' = d
    BY <2>1 DEF Top
  <2> QED
    BY <2>2, <2>3
<1>4. PreInv' /\ HeapInv' /\ TasksInv'
  BY <1>1, <1>2, HeapStable, TasksStable DEF PreInv
<1>5. /\ child' \in [Node -> [Dim -> Ptr]]
      /\ pending' \in [Node -> AdoptDesc]
      /\ ops' \in [Desc -> OpArrays \union {<<>>}]
      /\ status' \in [AllDesc -> {"ACTIVE", "COMMITTED", "ABORTED"}]
      /\ pstatus' \in [AllDesc -> {"MAYBE", "IN_PROGRESS", "PERSISTED"}]
  BY <1>1 DEF TypeOK
<1> QED
  BY <1>2, <1>3, <1>4, <1>5, FrameStep

LEMMA QuietStep ==
  ASSUME IInv, NEW t \in Thread, Busy(t), NEW f \in Frame,
         SetFrame(t, f), FrameInv(f, Top(t)), Onward(Fr(t), f, Top(t)),
         UNCHANGED <<heap, ops, status, pstatus, stack>>
  PROVE  IInv'
<1>1. nd' \in [NodeDesc -> NodeDesc] /\ ndmark' \in [NodeDesc -> BOOLEAN]
  BY DEF IInv, TypeOK, heap
<1> QED
  BY <1>1, LocalStep DEF heap

\* The frame that runs.
LEMMA Running ==
  ASSUME IInv, NEW t \in Thread, Busy(t)
  PROVE  /\ TypeOK
         /\ Top(t) \in Desc
         /\ Fr(t) \in Frame
         /\ FrameInv(Fr(t), Top(t))
         /\ Fr(t).opid \in 1..(MaxOps + 1)
<1>1. TypeOK /\ Top(t) \in Desc /\ Fr(t) \in Frame
  BY TopInStack DEF IInv
<1> QED
  BY <1>1 DEF IInv, FramesInv, Fr, Frame

OpLabels == {"pending", "child", "slot", "read", "invalidate", "help", "exist",
             "cycle", "active", "update", "absent", "link", "adopt"} \union AdoptLabels

\* What a frame in an operation has.
LEMMA InOpFacts ==
  ASSUME IInv, NEW t \in Thread, NEW p \in OpLabels, At(t, p)
  PROVE  /\ Busy(t) /\ TypeOK
         /\ Top(t) \in Desc
         /\ Fr(t) \in Frame
         /\ Fr(t).pc = p
         /\ InOp(Fr(t))
         /\ AdoptInv(Fr(t))
         /\ p \notin AdoptLabels => Fr(t).back = "return"
         /\ WalkInv(Fr(t), Op(t).key)
         /\ Fr(t).opid \in 1..MaxOps
         /\ Fr(t).opid <= Len(ops[Top(t)])
         /\ Mine(t) \in NodeDesc
         /\ Op(t) \in Operator /\ Op(t) = ops[Top(t)][Fr(t).opid]
         /\ Op(t).key \in Keys /\ Op(t).key \in Key
         /\ KeyOf(Mine(t)) = Op(t).key
<1>1. Busy(t) /\ Fr(t).pc = p
  BY DEF At
<1>2. /\ TypeOK /\ Top(t) \in Desc /\ Fr(t) \in Frame /\ FrameInv(Fr(t), Top(t))
      /\ Fr(t).opid \in 1..(MaxOps + 1)
  BY <1>1, Running
<1>3. InOp(Fr(t))
  BY <1>1 DEF InOp, OpLabels, AdoptLabels, PersistLabels
<1>4. Fr(t).opid <= Len(ops[Top(t)]) /\ WalkInv(Fr(t), Op(t).key)
  BY <1>2, <1>3 DEF FrameInv, Op
<1>5. Fr(t).opid \in 1..MaxOps /\ Op(t) \in Operator
  BY <1>2, <1>4, ConstantsAssumption, OpsType DEF Op
<1>6. p \notin AdoptLabels => Fr(t).back = "return"
  BY <1>1, <1>2 DEF FrameInv, AdoptInv, EndInv, Frame, OpLabels, AdoptLabels
<1>7. Mine(t) \in NodeDesc
  BY <1>2, <1>5 DEF Mine, NodeDesc
<1>8. KeyOf(Mine(t)) = Op(t).key
  BY <1>2, <1>7, NodeDescType, ConstantsAssumption DEF KeyOf, Mine, Op
<1>9. Op(t).key \in Key
  BY <1>5 DEF Operator
<1> QED
  BY <1>1, <1>2, <1>3, <1>4, <1>5, <1>6, <1>7, <1>8, <1>9 DEF FrameInv, Op, Keys

-----------------------------------------------------------------------------
(* Frames that are as they should be.                                      *)

\* Frame g may follow frame f in the call for descriptor d.
Good(f, g, d) == g \in Frame /\ FrameInv(g, d) /\ Onward(f, g, d)

LEMMA GoodStep ==
  ASSUME IInv, NEW t \in Thread, Busy(t), NEW f, Good(Fr(t), f, Top(t)),
         SetFrame(t, f), UNCHANGED <<heap, ops, status, pstatus, stack>>
  PROVE  IInv'
BY QuietStep DEF Good

\* A frame in its walk.
LEMMA WalkGood ==
  ASSUME NEW f, NEW g \in Frame, NEW d,
         g.pc \in OpLabels \ AdoptLabels, g.back = "return",
         g.opid = f.opid, g.opid <= Len(ops[d]), WalkInv(g, ops[d][g.opid].key),
         Placed(f) => g.pc = "adopt", InOp(f) \/ status[d] = "ACTIVE"
  PROVE  Good(f, g, d)
BY DEF Good, FrameInv, Onward, AdoptInv, EndInv, Placed, AdoptLabels, PersistLabels,
       OpLabels

\* A frame out of its operation.
LEMMA LooseInv ==
  ASSUME NEW g, NEW d, g.pc \in {"loop", "decide"}, g.back = "return",
         g.pc = "loop" => g.curr = m_head /\ g.dim = 0
  PROVE  FrameInv(g, d) /\ ~InOp(g)
BY DEF FrameInv, InOp, AdoptInv, EndInv, AdoptLabels, PersistLabels

LEMMA FinishedGood ==
  ASSUME NEW f \in Frame, NEW d, f.opid \in 1..MaxOps, NEW r \in BOOLEAN
  PROVE  /\ Good(f, Finished(f, r), d)
         /\ Finished(f, r).opid = f.opid + 1 /\ Finished(f, r).back = "return"
         /\ Finished(f, r).pc = "loop"
         /\ Finished(f, r).curr = m_head /\ Finished(f, r).dim = 0
<1>1. f.opid + 1 \in 1..(MaxOps + 1)
  BY ConstantsAssumption
<1>2. PICK g \in Frame : /\ g = NewFrame(f.opid + 1)
                         /\ g.pc = "loop" /\ g.back = "return" /\ g.opid = f.opid + 1
                         /\ g.curr = m_head /\ g.dim = 0
  BY <1>1, NewFrameType
<1>3. Finished(f, r) = [g EXCEPT !.ret = r, !.ins = f.ins, !.del = f.del]
  BY <1>2 DEF Finished
<1>4. f.ins \in Seq(Done) /\ f.del \in Seq(Done)
  BY DEF Frame
<1>5. /\ Finished(f, r) \in Frame /\ Finished(f, r).opid = f.opid + 1
      /\ Finished(f, r).back = "return" /\ Finished(f, r).pc = "loop"
      /\ Finished(f, r).curr = m_head /\ Finished(f, r).dim = 0
  BY <1>2, <1>3, <1>4 DEF Frame
<1>6. f.opid < Finished(f, r).opid
  BY <1>5 DEF Frame
<1> QED
  BY <1>5, <1>6, LooseInv DEF Good, Onward

LEMMA FinishedAtGood ==
  ASSUME NEW f \in Frame, NEW d, f.opid \in 1..MaxOps, NEW type \in OpTypes,
         NEW n \in Node, f.pred \in Node
  PROVE  Good(f, FinishedAt(f, type, n), d) /\ FinishedAt(f, type, n).opid = f.opid + 1
<1>1. PICK g : g = Finished(f, TRUE)
  OBVIOUS
<1>2. /\ Good(f, g, d) /\ g.opid = f.opid + 1 /\ g.back = "return" /\ g.pc = "loop"
      /\ g \in Frame /\ g.curr = m_head /\ g.dim = 0
  BY <1>1, FinishedGood DEF Good
<1>3. CASE type = "FIND"
  BY <1>1, <1>2, <1>3 DEF FinishedAt
<1>4. PICK x \in Done : x = [n |-> n, pred |-> f.pred, pred_dim |-> f.pred_dim]
  BY DEF Done, Frame
<1>5. PICK ins \in Seq(Done), del \in Seq(Done) :
        ins = Append(g.ins, x) /\ del = Append(g.del, x)
  <2>1. g.ins \in Seq(Done) /\ g.del \in Seq(Done)
    BY <1>2 DEF Frame
  <2>2. Append(g.ins, x) \in Seq(Done) /\ Append(g.del, x) \in Seq(Done)
    BY <2>1
  <2> QED
    BY <2>2
<1>6. CASE type # "FIND"
  <2>1. PICK h : h = FinishedAt(f, type, n)
    OBVIOUS
  <2>2. h = [g EXCEPT !.ins = ins] \/ h = [g EXCEPT !.del = del]
    BY <1>1, <1>4, <1>5, <1>6, <2>1 DEF FinishedAt, OpTypes
  <2>3. /\ h \in Frame /\ h.opid = f.opid + 1 /\ h.back = "return" /\ h.pc = "loop"
        /\ h.curr = m_head /\ h.dim = 0
    <3>1. CASE h = [g EXCEPT !.ins = ins]
      BY <1>2, <3>1 DEF Frame
    <3>2. CASE h = [g EXCEPT !.del = del]
      BY <1>2, <3>2 DEF Frame
    <3> QED
      BY <2>2, <3>1, <3>2
  <2>4. f.opid < h.opid
    BY <2>3 DEF Frame
  <2> QED
    BY <2>1, <2>3, <2>4, LooseInv DEF Good, Onward
<1> QED
  BY <1>3, <1>6

-----------------------------------------------------------------------------
(* LocatePred.                                                             *)

\* What does not change while LocatePred runs.
Alike(f, g) == g.pc = f.pc /\ g.back = f.back /\ g.opid = f.opid

LEMMA AlikeGood ==
  ASSUME NEW f, NEW g, NEW h, NEW d, Alike(f, g), Good(g, h, d)
  PROVE  Good(f, h, d)
BY DEF Good, Alike, Onward, Placed, InOp

\* LocatePred passes curr.
LEMMA LocatingPasses ==
  ASSUME TypeOK, NEW d \in Desc, NEW f \in Frame, NEW op \in Operator,
         f.back = "return", f.pc # "adopt", f.opid <= Len(ops[d]),
         op = ops[d][f.opid], InOp(f) \/ status[d] = "ACTIVE",
         f.curr # Null, Ready(f.curr), NEW e \in Dim,
         e = FirstDiff(op.key, KeyOf(f.curr), f.dim),
         Coord(op.key, e) > Coord(KeyOf(f.curr), e),
         Shares(KeyOf(f.curr), op.key, f.dim)
  PROVE  Good(f, Locating(f, op), d)
<1> DEFINE k == op.key
           l == KeyOf(f.curr)
           g == [f EXCEPT !.dim = e, !.pc = "pending", !.pred = f.curr, !.pred_dim = e]
<1>1. k \in Keys /\ l \in Keys /\ f.dim \in 0..DIMENSION
  BY KeyOfType DEF Operator, Keys, Frame
<1>2. e < DIMENSION /\ e \in 0..DIMENSION
  BY Sizes DEF Dim
<1>3. Locating(f, op) = g
  BY <1>2 DEF Locating
<1>4. /\ g \in Frame /\ g.pc = "pending" /\ g.back = "return" /\ g.opid = f.opid
      /\ g.pred = f.curr /\ g.curr = f.curr /\ g.dim = e /\ g.pred_dim = e
  BY <1>2, ZenonT(30) DEF Frame, Labels
<1>5. Below(l, k, e)
  <2>1. ASSUME NEW j \in Dim, j < e PROVE Coord(l, j) = Coord(k, j)
    <3>1. CASE j < f.dim
      BY <3>1 DEF Shares
    <3>2. CASE ~(j < f.dim)
      <4>1. f.dim <= j
        BY <1>1, <3>2, Sizes DEF Dim
      <4>2. DiffAt(e, k, l, f.dim)
        BY <1>1, FirstDiffFacts
      <4> HIDE DEF k, l
      <4> QED
        BY <2>1, <4>1, <4>2 DEF DiffAt
    <3> QED
      BY <3>1, <3>2
  <2> QED
    BY <1>1, <2>1, CoordType DEF Below, Shares
<1> HIDE DEF g
<1>6. WalkInv(g, k)
  BY <1>4, <1>5 DEF WalkInv, PredInv, Passing, HasOld, Placed
<1>7. ~Placed(f)
  BY DEF Placed
<1> QED
  BY <1>3, <1>4, <1>6, <1>7, WalkGood DEF OpLabels, AdoptLabels

\* LocatePred starts from the head.
LEMMA LocatingHead ==
  ASSUME TypeOK, NEW d \in Desc, NEW f \in Frame, NEW op \in Operator,
         f.back = "return", f.pc # "adopt", f.opid <= Len(ops[d]),
         op = ops[d][f.opid], InOp(f) \/ status[d] = "ACTIVE",
         f.curr = m_head, f.dim = 0
  PROVE  Good(f, Locating(f, op), d)
<1> DEFINE k == op.key
           e == FirstDiff(k, 0, 0)
<1>1. k \in Keys /\ 0 \in Keys /\ 0 \in 0..DIMENSION /\ k \in Key
  BY Sizes DEF Operator, Keys
<1>2. KeyOf(f.curr) = 0 /\ Ready(f.curr) /\ f.curr # Null
  BY NullAssumption DEF KeyOf, Ready
<1>3. PICK i \in Dim : Coord(k, i) # 0
  BY <1>1, CoordNonzero
<1>4. DiffAt(e, k, 0, 0)
  BY <1>1, FirstDiffFacts
<1> HIDE DEF e
<1>5. e < DIMENSION
  <2>1. ~(i < e)
    <3>1. i \in Dim /\ 0 <= i /\ Coord(0, i) = 0
      BY CoordHead, Sizes DEF Dim
    <3> HIDE DEF k
    <3> QED
      BY <1>3, <1>4, <3>1 DEF DiffAt
  <2> QED
    BY <1>4, <2>1, Sizes DEF Dim, DiffAt
<1>6. e \in Dim /\ Coord(k, e) > Coord(0, e)
  BY <1>1, <1>4, <1>5, CoordHead, CoordType DEF DiffAt
<1>7. Shares(0, k, 0)
  BY Sizes DEF Shares, Dim
<1>8. e = FirstDiff(k, KeyOf(f.curr), f.dim)
  BY <1>2 DEF e
<1> QED
  BY <1>2, <1>6, <1>7, <1>8, LocatingPasses

\* LocatePred starts again from pred.
LEMMA LocatingPred ==
  ASSUME TypeOK, NEW d \in Desc, NEW f \in Frame, NEW op \in Operator,
         f.back = "return", f.pc # "adopt", f.opid <= Len(ops[d]),
         op = ops[d][f.opid], InOp(f) \/ status[d] = "ACTIVE",
         f.curr # Null, Ready(f.curr), f.dim \in Dim, Below(KeyOf(f.curr), op.key, f.dim)
  PROVE  Good(f, Locating(f, op), d)
<1> DEFINE k == op.key
           l == KeyOf(f.curr)
           e == FirstDiff(k, l, f.dim)
<1>1. k \in Keys /\ l \in Keys /\ f.dim \in 0..DIMENSION
  BY KeyOfType DEF Operator, Keys, Frame
<1>2. e \in 0..DIMENSION /\ e >= f.dim
      /\ (\A j \in Dim : f.dim <= j /\ j < e => Coord(k, j) = Coord(l, j))
  BY <1>1, FirstDiffFacts DEF DiffAt
<1>3. Coord(k, f.dim) > Coord(l, f.dim) /\ Coord(k, f.dim) \in Nat /\ Coord(l, f.dim) \in Nat
      /\ Shares(l, k, f.dim)
  BY <1>1, CoordType DEF Below
<1>4. ~(f.dim < e)
  BY <1>1, <1>2, <1>3
<1>5. e = f.dim
  BY <1>1, <1>2, <1>4
<1> QED
  BY <1>3, <1>5, LocatingPasses

\* LocatePred goes on from curr, below pred.
LEMMA LocatingHere ==
  ASSUME TypeOK, NEW d \in Desc, NEW f \in Frame, NEW op \in Operator,
         f.back = "return", f.pc # "adopt", f.opid <= Len(ops[d]), f.opid \in 1..MaxOps,
         op = ops[d][f.opid], InOp(f) \/ status[d] = "ACTIVE",
         PredInv(f, op.key), PlaceInv(f, op.key)
  PROVE  Good(f, Locating(f, op), d)
<1> DEFINE k == op.key
           e == IF f.curr = Null THEN f.dim ELSE FirstDiff(k, KeyOf(f.curr), f.dim)
           passes == f.curr # Null /\ e < DIMENSION /\ Coord(k, e) > Coord(KeyOf(f.curr), e)
           slot == [f EXCEPT !.dim = e, !.pc = "slot"]
           read == [f EXCEPT !.dim = e, !.pc = "read"]
<1>1. k \in Keys /\ f.dim \in 0..DIMENSION /\ f.pred_dim \in Dim
  BY DEF Operator, Keys, Frame
<1>2. f.curr # Null => KeyOf(f.curr) \in Keys /\ Ready(f.curr) /\ f.curr \in Node
  BY KeyOfType DEF PredInv
<1>3. e \in 0..DIMENSION /\ e >= f.dim
  BY <1>1, <1>2, FirstDiffFacts DEF DiffAt
<1>4. f.curr # Null =>
        /\ \A j \in Dim : f.dim <= j /\ j < e => Coord(k, j) = Coord(KeyOf(f.curr), j)
        /\ e < DIMENSION => e \in Dim /\ Coord(k, e) # Coord(KeyOf(f.curr), e)
  <2> SUFFICES ASSUME f.curr # Null
               PROVE  /\ \A j \in Dim : f.dim <= j /\ j < e =>
                           Coord(k, j) = Coord(KeyOf(f.curr), j)
                      /\ e < DIMENSION => e \in Dim /\ Coord(k, e) # Coord(KeyOf(f.curr), e)
    OBVIOUS
  <2>1. e = FirstDiff(k, KeyOf(f.curr), f.dim)
    OBVIOUS
  <2>2. DiffAt(e, k, KeyOf(f.curr), f.dim)
    BY <1>1, <1>2, <2>1, FirstDiffFacts
  <2> HIDE DEF e, k
  <2> QED
    BY <2>2 DEF DiffAt
<1>5. f.curr = Null => e = f.pred_dim
  BY DEF PlaceInv
<1>6. f.curr = m_head => e = DIMENSION
  BY <1>1, <1>3 DEF PlaceInv
<1>7. ~Placed(f)
  BY DEF Placed
<1>8. /\ passes => Locating(f, op) =
                     [f EXCEPT !.dim = e, !.pc = "pending", !.pred = f.curr, !.pred_dim = e]
      /\ ~passes /\ op.type = "INSERT" => Locating(f, op) = slot
      /\ ~passes /\ op.type # "INSERT" =>
           Locating(f, op) = IF e = DIMENSION THEN read ELSE Finished(f, FALSE)
  BY DEF Locating
<1>9. CASE passes
  <2>1. e \in Dim /\ e = FirstDiff(k, KeyOf(f.curr), f.dim)
        /\ Coord(k, e) > Coord(KeyOf(f.curr), e) /\ f.curr # Null
    BY <1>4, <1>9
  <2>2. f.curr # m_head
    BY <1>6, <1>9, Sizes
  <2>3. Leads(k, KeyOf(f.curr), f.dim) /\ f.dim < DIMENSION
    <3>1. e < DIMENSION
      BY <1>9
    <3> HIDE DEF e
    <3> QED
      BY <1>1, <1>3, <2>1, <2>2, <3>1, Sizes DEF PlaceInv
  <2>4. Shares(KeyOf(f.curr), k, f.dim)
    BY <1>1, <2>3, Sizes DEF Leads, Shares, Dim
  <2> HIDE DEF e
  <2> QED
    BY <1>2, <2>1, <2>4, LocatingPasses
<1>10. ASSUME ~passes PROVE PlaceInv([f EXCEPT !.dim = e], k)
  <2> DEFINE g == [f EXCEPT !.dim = e]
  <2>1. g.dim = e /\ g.pred = f.pred /\ g.pred_dim = f.pred_dim /\ g.curr = f.curr
    BY DEF Frame
  <2>2. f.pred_dim <= e
    BY <1>1, <1>3, Sizes DEF PlaceInv, Dim
  <2>3. f.curr \notin {Null, m_head} => Leads(k, KeyOf(f.curr), e)
    <3> SUFFICES ASSUME f.curr \notin {Null, m_head}, NEW j \in Dim, j < e
                 PROVE  \/ Coord(k, j) = Coord(KeyOf(f.curr), j)
                        \/ j = DIMENSION - 1 /\ Coord(k, j) < Coord(KeyOf(f.curr), j)
      BY DEF Leads
    <3>1. CASE j < f.dim
      BY <3>1 DEF PlaceInv, Leads
    <3>2. CASE ~(j < f.dim)
      <4>1. f.dim <= j
        BY <1>1, <3>2, Sizes DEF Dim
      <4> QED
        BY <1>4, <4>1
    <3> QED
      BY <3>1, <3>2
  <2> HIDE DEF g, e
  <2> QED
    BY <1>5, <1>6, <2>1, <2>2, <2>3 DEF PlaceInv
<1>11. ASSUME ~passes, f.curr # Null, e < DIMENSION
       PROVE  Coord(k, e) < Coord(KeyOf(f.curr), e)
  <2>1. Coord(k, e) \in Nat /\ Coord(KeyOf(f.curr), e) \in Nat
    BY <1>1, <1>2, <1>4, <1>11, CoordType
  <2> QED
    BY <1>4, <1>11, <2>1
<1>12. CASE ~passes /\ op.type = "INSERT"
  <2>1. /\ slot \in Frame /\ slot.pc = "slot" /\ slot.back = "return"
        /\ slot.opid = f.opid /\ slot.curr = f.curr /\ slot.dim = e
        /\ slot.pred = f.pred /\ slot.pred_dim = f.pred_dim
    BY <1>3, ZenonT(30) DEF Frame, Labels
  <2>2. PlaceInv(slot, k)
    <3>1. PICK g : g = [f EXCEPT !.dim = e]
      OBVIOUS
    <3>2. /\ g.pred = slot.pred /\ g.pred_dim = slot.pred_dim /\ g.curr = slot.curr
          /\ g.dim = slot.dim
      BY <2>1, <3>1 DEF Frame
    <3>3. PlaceInv(g, k)
      BY <1>10, <1>12, <3>1
    <3> HIDE DEF slot
    <3> QED
      BY <3>2, <3>3 DEF PlaceInv
  <2>3. slot.curr # Null /\ slot.dim < DIMENSION =>
          Coord(k, slot.dim) < Coord(KeyOf(slot.curr), slot.dim)
    BY <1>11, <1>12, <2>1
  <2> HIDE DEF slot, e
  <2>4. WalkInv(slot, k)
    BY <2>1, <2>2, <2>3 DEF WalkInv, PredInv, Passing, HasOld, Placed
  <2>5. Locating(f, op) = slot
    BY <1>8, <1>12
  <2> QED
    BY <1>7, <2>1, <2>4, <2>5, WalkGood DEF OpLabels, AdoptLabels
<1>13. CASE ~passes /\ op.type # "INSERT" /\ e = DIMENSION
  <2>1. /\ read \in Frame /\ read.pc = "read" /\ read.back = "return"
        /\ read.opid = f.opid /\ read.curr = f.curr /\ read.dim = DIMENSION
        /\ read.pred = f.pred /\ read.pred_dim = f.pred_dim
    <3>1. e = DIMENSION /\ e \in 0..DIMENSION
      BY <1>3, <1>13
    <3> HIDE DEF e
    <3> QED
      BY <3>1, ZenonT(30) DEF Frame, Labels
  <2>2. PlaceInv(read, k)
    <3>1. PICK g : g = [f EXCEPT !.dim = e]
      OBVIOUS
    <3>2. /\ g.pred = read.pred /\ g.pred_dim = read.pred_dim /\ g.curr = read.curr
          /\ g.dim = read.dim
      BY <1>13, <2>1, <3>1 DEF Frame
    <3>3. PlaceInv(g, k)
      BY <1>10, <1>13, <3>1
    <3> HIDE DEF read
    <3> QED
      BY <3>2, <3>3 DEF PlaceInv
  <2>3. read.curr # Null
    BY <1>1, <1>5, <1>13, <2>1, Sizes DEF Dim
  <2> HIDE DEF read, e
  <2>4. WalkInv(read, k)
    BY <2>1, <2>2, <2>3 DEF WalkInv, PredInv, Passing, HasOld, Placed
  <2>5. Locating(f, op) = read
    BY <1>8, <1>13
  <2> QED
    BY <1>7, <2>1, <2>4, <2>5, WalkGood DEF OpLabels, AdoptLabels
<1>14. CASE ~passes /\ op.type # "INSERT" /\ e # DIMENSION
  BY <1>8, <1>14, FinishedGood
<1> QED
  BY <1>9, <1>12, <1>13, <1>14

\* Frames that stand at the same place.
SamePlace(f, g) ==
  g.pred = f.pred /\ g.pred_dim = f.pred_dim /\ g.curr = f.curr /\ g.dim = f.dim

LEMMA SamePlaceInv ==
  ASSUME NEW f, NEW g, NEW k, SamePlace(f, g)
  PROVE  /\ PredInv(f, k) => PredInv(g, k)
         /\ PlaceInv(f, k) => PlaceInv(g, k)
BY DEF SamePlace, PredInv, PlaceInv

\* A slot of a node that may be found.
LEMMA SlotFacts ==
  ASSUME IInv, NEW n \in Node, NEW i \in Dim
  PROVE  /\ child[n][i] \in Ptr
         /\ Hangs(child[n][i], n, i)
         /\ child[n][i].n # m_head
         /\ child[n][i].n # Null => /\ Ready(n) /\ KeyOf(n) \in Keys
                                    /\ KeyOf(child[n][i].n) \in Keys
<1>1. child[n][i] \in Ptr /\ TypeOK
  BY DEF IInv, TypeOK
<1>2. Hangs(child[n][i], n, i) /\ (child[n][i].n # Null => Ready(n))
  BY DEF IInv, HeapInv
<1>3. child[n][i].n # Null => KeyOf(n) \in Keys /\ KeyOf(child[n][i].n) \in Keys
  BY <1>1, <1>2, KeyOfType DEF Hangs
<1>4. child[n][i].n # m_head
  <2> SUFFICES ASSUME child[n][i].n = m_head PROVE FALSE
    OBVIOUS
  <2>1. KeyOf(child[n][i].n) = 0 /\ child[n][i].n # Null
    BY NullAssumption DEF KeyOf
  <2>2. Coord(KeyOf(n), i) < 0
    BY <1>2, <2>1, CoordHead DEF Hangs, Below
  <2>3. Coord(KeyOf(n), i) \in Nat
    BY <1>3, <2>1, CoordType
  <2> QED
    BY <2>2, <2>3
<1> QED
  BY <1>1, <1>2, <1>3, <1>4

-----------------------------------------------------------------------------
(* The actions: the walk.                                                  *)

LEMMA OpLoopStep ==
  ASSUME IInv, NEW t \in Thread, OpLoop(t) PROVE IInv'
<1> DEFINE d == Top(t)
           f == Fr(t)
           end == [f EXCEPT !.pc = "decide"]
           more == status[d] = "ACTIVE" /\ f.ret /\ f.opid <= Len(ops[d])
<1>1. Busy(t) /\ f.pc = "loop" /\ UNCHANGED <<heap, ops, status, pstatus, stack>>
  BY DEF OpLoop, At
<1>2. /\ f \in Frame /\ FrameInv(f, d) /\ d \in Desc /\ TypeOK
      /\ f.opid \in 1..(MaxOps + 1)
  BY <1>1, Running
<1>3. f.back = "return"
  BY <1>1, <1>2 DEF FrameInv, AdoptInv, EndInv, AdoptLabels, Frame
<1>4. CASE more
  <2>1. f.opid \in 1..MaxOps /\ Op(t) \in Operator /\ Op(t) = ops[d][f.opid]
    BY <1>2, <1>4, OpsType, ConstantsAssumption DEF Op
  <2>2. SetFrame(t, Locating(f, Op(t)))
    BY <1>4 DEF OpLoop
  <2>3. f.curr = m_head /\ f.dim = 0
    BY <1>1, <1>2 DEF FrameInv
  <2>4. Good(f, Locating(f, Op(t)), d)
    BY <1>1, <1>2, <1>3, <1>4, <2>1, <2>3, LocatingHead
  <2> QED
    BY <1>1, <2>2, <2>4, GoodStep
<1>5. CASE ~more
  <2>1. /\ end \in Frame /\ end.pc = "decide" /\ end.back = "return" /\ end.opid = f.opid
    BY <1>2, <1>3 DEF Frame, Labels
  <2>2. SetFrame(t, end)
    BY <1>5 DEF OpLoop
  <2> HIDE DEF end
  <2>3. ~Placed(f)
    BY <1>1, <1>3 DEF Placed
  <2>4. Good(f, end, d)
    BY <2>1, <2>3, LooseInv DEF Good, Onward
  <2> QED
    BY <1>1, <2>2, <2>4, GoodStep
<1> QED
  BY <1>4, <1>5

LEMMA AdoptingGood ==
  ASSUME NEW f \in Frame, NEW d, NEW n \in Node, NEW task \in AdoptDesc, task # NoTask,
         Adopts(n, task), NEW back \in {"child", "adopt", "done"},
         InOp(f), f.opid <= Len(ops[d]), Placed(f) => back # "child",
         PredInv(f, ops[d][f.opid].key),
         back = "child" => f.curr = f.pred /\ f.dim = f.pred_dim,
         back # "child" => /\ PlaceInv(f, ops[d][f.opid].key)
                           /\ f.curr \notin {Null, m_head} /\ f.pred_dim < f.dim
  PROVE  Good(f, Adopting(f, n, task, back), d)
<1> DEFINE g == [f EXCEPT !.pc = "give", !.n = n, !.task = task, !.i = task.pred_dim,
                          !.back = back]
<1>1. task.pred_dim \in 0..DIMENSION /\ task.pred_dim \in Nat
  BY Sizes DEF AdoptDesc, Dim, NoTask
<1>2. /\ g \in Frame /\ g.pc = "give" /\ g.n = n /\ g.task = task
      /\ g.i = task.pred_dim /\ g.back = back /\ g.opid = f.opid
      /\ SamePlace(f, g)
  BY <1>1, ZenonT(30) DEF Frame, Labels, SamePlace
<1>3. Adopting(f, n, task, back) = g
  BY DEF Adopting
<1> HIDE DEF g
<1>4. PICK k : k = ops[d][f.opid].key
  OBVIOUS
<1>5. WalkInv(g, k)
  BY <1>2, <1>4, SamePlaceInv DEF WalkInv, Passing, HasOld, Placed, SamePlace
<1>6. AdoptInv(g)
  BY <1>1, <1>2, NodeType DEF AdoptInv, AdoptLabels, Adopts
<1>7. EndInv(g, d)
  BY <1>2 DEF EndInv, PersistLabels
<1>8. Onward(f, g, d)
  BY <1>2 DEF Onward, Placed
<1> QED
  BY <1>2, <1>3, <1>4, <1>5, <1>6, <1>7, <1>8 DEF Good, FrameInv

LEMMA ReadPendingStep ==
  ASSUME IInv, NEW t \in Thread, ReadPending(t) PROVE IInv'
<1> DEFINE d == Top(t)
           f == Fr(t)
           task == pending[f.curr]
           on == [f EXCEPT !.pc = "child"]
<1>1. At(t, "pending") /\ UNCHANGED <<heap, ops, status, pstatus, stack>>
  BY DEF ReadPending
<1>2. /\ Busy(t) /\ TypeOK /\ d \in Desc /\ f \in Frame /\ f.pc = "pending" /\ InOp(f)
      /\ f.back = "return" /\ WalkInv(f, Op(t).key) /\ Op(t) = ops[d][f.opid]
      /\ f.opid <= Len(ops[d])
  BY <1>1, InOpFacts DEF OpLabels, AdoptLabels
<1>3. f.curr = f.pred /\ f.dim = f.pred_dim /\ f.curr \in Node /\ ~Placed(f)
      /\ PredInv(f, Op(t).key)
  BY <1>2 DEF WalkInv, Passing, PredInv, Frame, Placed
<1>4. CASE HelpsTask(f, task)
  <2>1. task \in AdoptDesc /\ task # NoTask /\ Adopts(f.curr, task)
    BY <1>2, <1>3, <1>4 DEF TypeOK, HelpsTask, IInv, TasksInv
  <2>2. SetFrame(t, Adopting(f, f.curr, task, "child"))
    BY <1>4 DEF ReadPending
  <2> HIDE DEF task
  <2>3. Good(f, Adopting(f, f.curr, task, "child"), d)
    BY <1>2, <1>3, <2>1, AdoptingGood
  <2> QED
    BY <1>1, <1>2, <2>2, <2>3, GoodStep
<1>5. CASE ~HelpsTask(f, task)
  <2>1. /\ on \in Frame /\ on.pc = "child" /\ on.back = "return" /\ on.opid = f.opid
        /\ SamePlace(f, on)
    BY <1>2 DEF Frame, Labels, SamePlace
  <2>2. SetFrame(t, on)
    BY <1>5 DEF ReadPending
  <2> HIDE DEF on
  <2>3. WalkInv(on, Op(t).key)
    BY <1>3, <2>1, SamePlaceInv DEF WalkInv, Passing, HasOld, Placed, SamePlace
  <2>4. Good(f, on, d)
    BY <1>2, <1>3, <2>1, <2>3, WalkGood DEF OpLabels, AdoptLabels
  <2> QED
    BY <1>1, <1>2, <2>2, <2>4, GoodStep
<1> QED
  BY <1>4, <1>5

LEMMA ReadChildStep ==
  ASSUME IInv, NEW t \in Thread, ReadChild(t) PROVE IInv'
<1> DEFINE d == Top(t)
           f == Fr(t)
           x == child[f.pred][f.pred_dim].n
           g == [f EXCEPT !.curr = x]
           k == Op(t).key
<1>1. At(t, "child") /\ UNCHANGED <<heap, ops, status, pstatus, stack>>
  BY DEF ReadChild
<1>2. /\ Busy(t) /\ TypeOK /\ d \in Desc /\ f \in Frame /\ f.pc = "child" /\ InOp(f)
      /\ f.back = "return" /\ WalkInv(f, k) /\ Op(t) = ops[d][f.opid]
      /\ f.opid <= Len(ops[d]) /\ f.opid \in 1..MaxOps /\ k \in Keys /\ Op(t) \in Operator
  BY <1>1, InOpFacts DEF OpLabels, AdoptLabels
<1>3. /\ f.curr = f.pred /\ f.dim = f.pred_dim /\ f.pred \in Node /\ f.pred_dim \in Dim
      /\ PredInv(f, k)
  BY <1>2 DEF WalkInv, Passing, PredInv, Frame
<1>4. SetFrame(t, Locating(g, Op(t)))
  BY <1>3 DEF ReadChild
<1>5. /\ x \in Node \union {Null} /\ x # m_head
      /\ x # Null => Ready(x) /\ Below(KeyOf(f.pred), KeyOf(x), f.pred_dim)
  BY <1>3, SlotFacts DEF Hangs, Ptr
<1>6. /\ g \in Frame /\ Alike(f, g) /\ g.curr = x /\ g.dim = f.pred_dim
      /\ g.pred = f.pred /\ g.pred_dim = f.pred_dim
  BY <1>2, <1>3, <1>5 DEF Frame, Alike
<1> HIDE DEF g
<1>7. PredInv(g, k)
  BY <1>3, <1>5, <1>6 DEF PredInv
<1>8. x # Null => Leads(k, KeyOf(x), f.pred_dim)
  BY <1>3, <1>5 DEF PredInv, Below, Shares, Leads
<1>9. PlaceInv(g, k)
  BY <1>3, <1>5, <1>6, <1>8, Sizes DEF PlaceInv, Dim
<1>10. Good(g, Locating(g, Op(t)), d)
  BY <1>2, <1>6, <1>7, <1>9, LocatingHere DEF Alike, InOp
<1> QED
  BY <1>1, <1>2, <1>4, <1>6, <1>10, AlikeGood, GoodStep

-----------------------------------------------------------------------------
(* The actions: an operation at the place of its key.                      *)

LEMMA ReadSlotStep ==
  ASSUME IInv, NEW t \in Thread, ReadSlot(t) PROVE IInv'
<1> DEFINE d == Top(t)
           f == Fr(t)
           c == child[f.pred][f.pred_dim]
           g == [f EXCEPT !.slot = c,
                   !.pc = IF f.dim = DIMENSION /\ ~c.del THEN "read" ELSE "absent"]
           k == Op(t).key
<1>1. At(t, "slot") /\ UNCHANGED <<heap, ops, status, pstatus, stack>>
  BY DEF ReadSlot
<1>2. /\ Busy(t) /\ d \in Desc /\ f \in Frame /\ f.pc = "slot" /\ InOp(f)
      /\ f.back = "return" /\ WalkInv(f, k) /\ Op(t) = ops[d][f.opid]
      /\ f.opid <= Len(ops[d])
  BY <1>1, InOpFacts DEF OpLabels, AdoptLabels
<1>3. /\ f.pred \in Node /\ f.pred_dim \in Dim /\ ~Placed(f)
      /\ PredInv(f, k) /\ PlaceInv(f, k)
  BY <1>2 DEF WalkInv, Passing, PredInv, Frame, Placed
<1>4. c \in Ptr /\ (c.n = Null => ~c.del)
  BY <1>3, SlotFacts DEF Hangs
<1>5. /\ g \in Frame /\ g.back = "return" /\ g.opid = f.opid /\ SamePlace(f, g)
      /\ g.slot = c
      /\ g.pc = "absent" \/ (g.pc = "read" /\ f.dim = DIMENSION)
  <2> HIDE DEF c
  <2> QED
    BY <1>2, <1>4, ZenonT(30) DEF Frame, Labels, SamePlace
<1>6. SetFrame(t, g)
  BY DEF ReadSlot
<1>7. g.pc = "read" => f.curr # Null
  BY <1>3, <1>5, Sizes DEF PlaceInv, Dim
<1> HIDE DEF g
<1>8. WalkInv(g, k)
  BY <1>2, <1>3, <1>4, <1>5, <1>7, SamePlaceInv
     DEF WalkInv, Passing, HasOld, Placed, SamePlace
<1>9. Good(f, g, d)
  BY <1>2, <1>3, <1>5, <1>8, WalkGood DEF OpLabels, AdoptLabels
<1> QED
  BY <1>1, <1>2, <1>6, <1>9, GoodStep

LEMMA ReadNodeDescStep ==
  ASSUME IInv, NEW t \in Thread, ReadNodeDesc(t) PROVE IInv'
<1> DEFINE d == Top(t)
           f == Fr(t)
           c == nd[f.curr]
           gone == [f EXCEPT !.pc = "null"]
           marked == [f EXCEPT !.pc = "invalidate"]
           on == [f EXCEPT !.old = c, !.pc = IF c.desc = Top(t) THEN "exist" ELSE "help"]
           k == Op(t).key
<1>1. At(t, "read") /\ UNCHANGED <<heap, ops, status, pstatus, stack>>
  BY DEF ReadNodeDesc
<1>2. /\ Busy(t) /\ TypeOK /\ d \in Desc /\ f \in Frame /\ f.pc = "read" /\ InOp(f)
      /\ f.back = "return" /\ WalkInv(f, k) /\ Op(t) = ops[d][f.opid]
      /\ f.opid <= Len(ops[d]) /\ f.opid \in 1..MaxOps
  BY <1>1, InOpFacts DEF OpLabels, AdoptLabels
<1>3. /\ f.curr # Null /\ f.curr \in Node /\ f.dim = DIMENSION /\ ~Placed(f)
      /\ PredInv(f, k) /\ PlaceInv(f, k)
  BY <1>2 DEF WalkInv, Passing, Frame, Placed
<1>4. CASE f.curr = m_head
  <2>1. /\ gone \in Frame /\ gone.pc = "null" /\ gone.back = "return"
        /\ gone.opid = f.opid /\ SamePlace(f, gone)
    BY <1>2 DEF Frame, Labels, SamePlace
  <2>2. SetFrame(t, gone)
    BY <1>4 DEF ReadNodeDesc, GoTo
  <2> HIDE DEF gone
  <2>3. WalkInv(gone, k)
    BY <1>3, <2>1, SamePlaceInv DEF WalkInv, Passing, HasOld, Placed
  <2>4. Good(f, gone, d)
    BY <1>2, <1>3, <2>1, <2>3
       DEF Good, FrameInv, Onward, AdoptInv, EndInv, AdoptLabels, PersistLabels
  <2> QED
    BY <1>1, <1>2, <2>2, <2>4, GoodStep
<1>5. CASE f.curr # m_head
  <2>1. f.curr \in NodeDesc /\ c \in NodeDesc /\ c # Null /\ c \in NodeDesc \union {Null}
    BY <1>2, <1>3, <1>5, NodeDescType DEF Node, TypeOK
  <2>2. PICK h \in {marked, on, Finished(f, FALSE)} : SetFrame(t, h)
    BY <1>5 DEF ReadNodeDesc
  <2>3. /\ on \in Frame /\ on.back = "return" /\ on.opid = f.opid /\ SamePlace(f, on)
        /\ on.old = c /\ on.pc \in {"exist", "help"}
    <3> HIDE DEF c
    <3> QED
      BY <1>2, <2>1, ZenonT(30) DEF Frame, Labels, SamePlace
  <2>4. /\ marked \in Frame /\ marked.back = "return" /\ marked.opid = f.opid
        /\ SamePlace(f, marked) /\ marked.pc = "invalidate"
    BY <1>2 DEF Frame, Labels, SamePlace
  <2> HIDE DEF on, marked
  <2>5. WalkInv(on, k)
    BY <1>3, <1>5, <2>1, <2>3, SamePlaceInv DEF WalkInv, Passing, HasOld, Placed, SamePlace
  <2>6. WalkInv(marked, k)
    BY <1>3, <1>5, <2>4, SamePlaceInv DEF WalkInv, Passing, HasOld, Placed, SamePlace
  <2>7. Good(f, on, d)
    BY <1>2, <1>3, <2>3, <2>5, WalkGood DEF OpLabels, AdoptLabels
  <2>8. Good(f, marked, d)
    BY <1>2, <1>3, <2>4, <2>6, WalkGood DEF OpLabels, AdoptLabels
  <2>9. Good(f, Finished(f, FALSE), d)
    BY <1>2, FinishedGood
  <2> QED
    BY <1>1, <1>2, <2>2, <2>7, <2>8, <2>9, GoodStep
<1> QED
  BY <1>4, <1>5

\* A frame that goes on to the next check of the node it has read.
LEMMA ChecksOn ==
  ASSUME IInv, NEW t \in Thread,
         NEW p \in {"help", "cycle", "exist", "active", "update"}, At(t, p),
         NEW q \in {"cycle", "exist", "active", "update"}
  PROVE  Good(Fr(t), [Fr(t) EXCEPT !.pc = q], Top(t))
<1> DEFINE d == Top(t)
           f == Fr(t)
           g == [f EXCEPT !.pc = q]
           k == Op(t).key
<1>1. /\ d \in Desc /\ f \in Frame /\ f.pc = p /\ InOp(f)
      /\ f.back = "return" /\ WalkInv(f, k) /\ Op(t) = ops[d][f.opid]
      /\ f.opid <= Len(ops[d])
  BY InOpFacts DEF OpLabels, AdoptLabels
<1>2. /\ f.curr \notin {Null, m_head} /\ f.dim = DIMENSION /\ ~Placed(f)
      /\ PredInv(f, k) /\ PlaceInv(f, k) /\ f.old # Null
  BY <1>1 DEF WalkInv, Passing, Placed, HasOld
<1>3. /\ g \in Frame /\ g.back = "return" /\ g.opid = f.opid /\ SamePlace(f, g)
      /\ g.old = f.old /\ g.pc = q
  BY <1>1, ZenonT(30) DEF Frame, Labels, SamePlace
<1> HIDE DEF g
<1>4. WalkInv(g, k)
  BY <1>2, <1>3, SamePlaceInv DEF WalkInv, Passing, HasOld, Placed, SamePlace
<1>5. Good(f, g, d)
  BY <1>1, <1>2, <1>3, <1>4, WalkGood DEF OpLabels, AdoptLabels
<1> QED
  BY <1>5 DEF g

LEMMA CheckKeyExistStep ==
  ASSUME IInv, NEW t \in Thread, CheckKeyExist(t) PROVE IInv'
<1> DEFINE f == Fr(t)
           on == [f EXCEPT !.pc = "active"]
<1>1. At(t, "exist") /\ UNCHANGED <<heap, ops, status, pstatus, stack>>
  BY DEF CheckKeyExist
<1>2. Busy(t) /\ f \in Frame /\ f.opid \in 1..MaxOps
  BY <1>1, InOpFacts DEF OpLabels
<1>3. Good(f, on, Top(t))
  BY <1>1, ChecksOn
<1>4. PICK g \in {on, Finished(f, TRUE), Finished(f, FALSE)} : SetFrame(t, g)
  BY DEF CheckKeyExist
<1>5. Good(f, g, Top(t))
  BY <1>2, <1>3, <1>4, FinishedGood
<1> QED
  BY <1>1, <1>2, <1>4, <1>5, GoodStep

LEMMA CheckActiveStep ==
  ASSUME IInv, NEW t \in Thread, CheckActive(t) PROVE IInv'
<1> DEFINE f == Fr(t)
           on == [f EXCEPT !.pc = "update"]
<1>1. At(t, "active") /\ UNCHANGED <<heap, ops, status, pstatus, stack>>
  BY DEF CheckActive
<1>2. Busy(t) /\ f \in Frame /\ f.opid \in 1..MaxOps
  BY <1>1, InOpFacts DEF OpLabels
<1>3. Good(f, on, Top(t))
  BY <1>1, ChecksOn
<1>4. PICK g \in {on, Finished(f, FALSE)} : SetFrame(t, g)
  BY DEF CheckActive
<1>5. Good(f, g, Top(t))
  BY <1>2, <1>3, <1>4, FinishedGood
<1> QED
  BY <1>1, <1>2, <1>4, <1>5, GoodStep

LEMMA UpdateDescStep ==
  ASSUME IInv, NEW t \in Thread, UpdateDesc(t) PROVE IInv'
<1> DEFINE d == Top(t)
           f == Fr(t)
           again == [f EXCEPT !.old = Null]
           k == Op(t).key
<1>1. At(t, "update") /\ UNCHANGED <<child, pending, ndmark, ops, status, pstatus, stack>>
  BY DEF UpdateDesc
<1>2. /\ Busy(t) /\ TypeOK /\ d \in Desc /\ f \in Frame /\ f.pc = "update" /\ InOp(f)
      /\ f.back = "return" /\ WalkInv(f, k) /\ Op(t) = ops[d][f.opid]
      /\ f.opid <= Len(ops[d]) /\ f.opid \in 1..MaxOps /\ Op(t) \in Operator
      /\ Mine(t) \in NodeDesc
  BY <1>1, InOpFacts DEF OpLabels, AdoptLabels
<1>3. /\ f.curr \in NodeDesc /\ f.pred \in Node
      /\ PredInv(f, k) /\ PlaceInv(f, k)
  BY <1>2 DEF WalkInv, Passing, HasOld, PredInv, Frame, Node
<1>4. ndmark' \in [NodeDesc -> BOOLEAN]
  BY <1>1, <1>2 DEF TypeOK
<1>5. CASE CanTake(f.curr, f.old)
  <2>1. nd' = [nd EXCEPT ![f.curr] = Mine(t)] /\ SetFrame(t, FinishedAt(f, Op(t).type, f.curr))
    BY <1>5 DEF UpdateDesc
  <2>2. nd' \in [NodeDesc -> NodeDesc]
    BY <1>2, <1>3, <2>1 DEF TypeOK
  <2>3. Good(f, FinishedAt(f, Op(t).type, f.curr), d)
    BY <1>2, <1>3, NodeType, FinishedAtGood DEF Operator
  <2> QED
    BY <1>1, <1>2, <1>4, <2>1, <2>2, <2>3, LocalStep DEF Good
<1>6. CASE ~CanTake(f.curr, f.old)
  <2>1. UNCHANGED nd /\ SetFrame(t, Locating(again, Op(t)))
    BY <1>6 DEF UpdateDesc
  <2>2. again \in Frame /\ Alike(f, again) /\ SamePlace(f, again)
    BY <1>2 DEF Frame, Alike, SamePlace
  <2> HIDE DEF again
  <2>3. PredInv(again, k) /\ PlaceInv(again, k)
    BY <1>3, <2>2, SamePlaceInv
  <2>4. Good(again, Locating(again, Op(t)), d)
    BY <1>2, <2>2, <2>3, LocatingHere DEF Alike, InOp
  <2>5. nd' \in [NodeDesc -> NodeDesc]
    BY <1>2, <2>1 DEF TypeOK
  <2> QED
    BY <1>1, <1>2, <1>4, <2>1, <2>2, <2>4, <2>5, AlikeGood, LocalStep DEF Good
<1> QED
  BY <1>5, <1>6

-----------------------------------------------------------------------------
(* The actions: Insert of a key that no node holds.                        *)

\* Insert looks for its place again.
LEMMA RetryGood ==
  ASSUME TypeOK, NEW d \in Desc, NEW f \in Frame, NEW op \in Operator, NEW v,
         f.back = "return", f.pc # "adopt", f.opid <= Len(ops[d]), f.opid \in 1..MaxOps,
         op = ops[d][f.opid], InOp(f), PredInv(f, op.key),
         ~v.adp /\ v.n = f.curr => PlaceInv(f, op.key)
  PROVE  Good(f, Retry(f, op, v), d)
<1> DEFINE start == [f EXCEPT !.pred = Null, !.curr = m_head, !.dim = 0, !.pred_dim = 0]
           back == [f EXCEPT !.curr = f.pred, !.dim = f.pred_dim]
<1>1. CASE v.adp
  <2>1. 0 \in Dim /\ 0 \in 0..DIMENSION
    BY Sizes DEF Dim
  <2>2. start \in Frame /\ Alike(f, start) /\ start.curr = m_head /\ start.dim = 0
    BY <2>1, NodeType DEF Frame, Alike
  <2>3. Retry(f, op, v) = Locating(start, op)
    BY <1>1 DEF Retry
  <2> HIDE DEF start
  <2>4. Good(start, Locating(start, op), d)
    BY <2>2, LocatingHead DEF Alike, InOp
  <2> QED
    BY <2>2, <2>3, <2>4, AlikeGood
<1>2. CASE ~v.adp /\ v.n # f.curr
  <2>1. f.pred_dim \in Dim /\ f.pred_dim \in 0..DIMENSION /\ f.pred \in Node
    BY Sizes DEF Dim, Frame, PredInv
  <2>2. /\ back \in Frame /\ Alike(f, back) /\ back.curr = f.pred
        /\ back.dim = f.pred_dim
    BY <2>1 DEF Frame, Alike
  <2>3. Retry(f, op, v) = Locating(back, op)
    BY <1>2 DEF Retry
  <2> HIDE DEF back
  <2>4. /\ back.curr # Null /\ Ready(back.curr) /\ back.dim \in Dim
        /\ Below(KeyOf(back.curr), op.key, back.dim)
    BY <2>1, <2>2 DEF PredInv
  <2>5. Good(back, Locating(back, op), d)
    BY <2>2, <2>4, LocatingPred DEF Alike, InOp
  <2> QED
    BY <2>2, <2>3, <2>5, AlikeGood
<1>3. CASE ~v.adp /\ v.n = f.curr
  <2>1. Retry(f, op, v) = Locating(f, op)
    BY <1>3 DEF Retry
  <2> QED
    BY <1>3, <2>1, LocatingHere
<1> QED
  BY <1>1, <1>2, <1>3

LEMMA ExpectedIs ==
  ASSUME NEW f
  PROVE  Expected(f) = [n |-> f.curr, adp |-> FALSE, del |-> f.slot.del]
<1>1. Expected(f) = [[n |-> f.curr, adp |-> FALSE, del |-> FALSE] EXCEPT !.del = f.slot.del]
  BY Zenon DEF Expected, To
<1> QED
  BY ONLY <1>1, Zenon

LEMMA InsertAbsentStep ==
  ASSUME IInv, NEW t \in Thread, InsertAbsent(t) PROVE IInv'
<1> DEFINE d == Top(t)
           f == Fr(t)
           g == IF f.slot.del /\ f.dim = DIMENSION - 1
                THEN [f EXCEPT !.dim = DIMENSION] ELSE f
           on == [g EXCEPT !.pc = "link"]
           k == Op(t).key
<1>1. At(t, "absent") /\ UNCHANGED <<heap, ops, status, pstatus, stack>>
  BY DEF InsertAbsent
<1>2. /\ Busy(t) /\ TypeOK /\ d \in Desc /\ f \in Frame /\ f.pc = "absent" /\ InOp(f)
      /\ f.back = "return" /\ WalkInv(f, k) /\ Op(t) = ops[d][f.opid]
      /\ f.opid <= Len(ops[d]) /\ f.opid \in 1..MaxOps /\ Op(t) \in Operator
  BY <1>1, InOpFacts DEF OpLabels, AdoptLabels
<1>3. /\ PredInv(f, k) /\ PlaceInv(f, k) /\ ~Placed(f)
      /\ f.slot \in Ptr /\ (f.slot.n = Null => ~f.slot.del)
  BY <1>2 DEF WalkInv, Passing, Placed, Frame
<1>4. DIMENSION \in 0..DIMENSION
  BY Sizes
<1>5. /\ g \in Frame /\ Alike(f, g) /\ g.slot = f.slot
      /\ g.pred = f.pred /\ g.pred_dim = f.pred_dim /\ g.curr = f.curr
      /\ g.dim = IF f.slot.del /\ f.dim = DIMENSION - 1 THEN DIMENSION ELSE f.dim
  BY <1>2, <1>4 DEF Frame, Alike
<1>6. PredInv(g, k)
  <2> HIDE DEF g
  <2> QED
    BY <1>3, <1>5 DEF PredInv
<1>7. CASE status[d] # "ACTIVE"
  BY <1>1, <1>2, <1>7, FinishedGood, GoodStep DEF InsertAbsent
<1>8. CASE status[d] = "ACTIVE" /\ f.slot = Expected(f)
  <2>1. SetFrame(t, on)
    BY <1>8 DEF InsertAbsent
  <2>2. /\ on \in Frame /\ on.pc = "link" /\ on.back = "return" /\ on.opid = f.opid
        /\ on.slot = f.slot /\ SamePlace(g, on)
    <3> HIDE DEF g
    <3> QED
      BY <1>2, <1>5, ZenonT(30) DEF Frame, Labels, Alike, SamePlace
  <2>3. f.slot.n = f.curr
    BY <1>8 DEF Expected, To
  <2>4. Expected(on) = Expected(f)
    BY <1>5, <2>2 DEF Expected, SamePlace
  <2> HIDE DEF g, on
  <2>5. CASE f.slot.del /\ f.dim = DIMENSION - 1
    <3>1. f.curr \notin {Null, m_head} /\ f.dim < DIMENSION /\ g.dim = DIMENSION
      BY <1>3, <1>5, <2>3, <2>5, Sizes DEF PlaceInv
    <3>2. Coord(k, f.dim) < Coord(KeyOf(f.curr), f.dim)
      BY <1>2, <3>1 DEF WalkInv
    <3>3. Leads(k, KeyOf(f.curr), DIMENSION)
      <4> SUFFICES ASSUME NEW j \in Dim
                   PROVE  \/ Coord(k, j) = Coord(KeyOf(f.curr), j)
                          \/ j = DIMENSION - 1 /\ Coord(k, j) < Coord(KeyOf(f.curr), j)
        BY DEF Leads
      <4>1. CASE j < f.dim
        BY <1>3, <3>1, <4>1 DEF PlaceInv, Leads
      <4>2. CASE ~(j < f.dim)
        <5>1. j = DIMENSION - 1 /\ j = f.dim
          BY <2>5, <4>2, Sizes DEF Dim
        <5> QED
          BY <3>2, <5>1
      <4> QED
        BY <4>1, <4>2
    <3>4. PlaceInv(g, k)
      <4>1. f.pred_dim <= DIMENSION
        BY <1>2, Sizes DEF Frame, Dim
      <4> QED
        BY <1>3, <1>5, <3>1, <3>3, <4>1 DEF PlaceInv
    <3>5. PredInv(on, k) /\ PlaceInv(on, k)
      BY <1>6, <2>2, <3>4, SamePlaceInv
    <3>6. on.curr # Null /\ on.dim = DIMENSION /\ on.slot = Expected(on)
      BY <1>5, <1>8, <2>2, <2>4, <3>1 DEF SamePlace
    <3>7. ~(on.dim < DIMENSION)
      BY <3>6, Sizes
    <3>8. WalkInv(on, k)
      BY <2>2, <3>5, <3>6, <3>7 DEF WalkInv, Passing, HasOld, Placed
    <3> QED
      BY <1>1, <1>2, <1>3, <2>1, <2>2, <3>8, WalkGood, GoodStep DEF OpLabels, AdoptLabels
  <2>6. CASE ~(f.slot.del /\ f.dim = DIMENSION - 1)
    <3>1. SamePlace(f, on)
      BY <1>5, <2>2, <2>6 DEF SamePlace
    <3>2. f.curr # Null /\ f.dim < DIMENSION => Coord(k, f.dim) < Coord(KeyOf(f.curr), f.dim)
      BY <1>2 DEF WalkInv
    <3>3. WalkInv(on, k)
      BY <1>3, <1>8, <2>2, <2>3, <2>4, <3>1, <3>2, SamePlaceInv
         DEF WalkInv, Passing, HasOld, Placed, SamePlace
    <3> QED
      BY <1>1, <1>2, <1>3, <2>1, <2>2, <3>3, WalkGood, GoodStep DEF OpLabels, AdoptLabels
  <2> QED
    BY <2>5, <2>6
<1>9. CASE status[d] = "ACTIVE" /\ f.slot # Expected(f)
  <2>1. SetFrame(t, Retry(g, Op(t), f.slot))
    BY <1>9 DEF InsertAbsent
  <2>2. ~(~f.slot.adp /\ f.slot.n = f.curr)
    <3>1. PICK v \in Ptr : v = f.slot
      BY <1>3
    <3>2. Expected(f) = [n |-> f.curr, adp |-> FALSE, del |-> v.del]
      BY <3>1, ExpectedIs
    <3> HIDE DEF g, on, f
    <3>3. v # [n |-> f.curr, adp |-> FALSE, del |-> v.del]
      BY <1>9, <3>1, <3>2
    <3>4. ~(~v.adp /\ v.n = f.curr)
      BY <3>3 DEF Ptr
    <3> QED
      BY <3>1, <3>4
  <2> HIDE DEF g
  <2>3. Good(g, Retry(g, Op(t), f.slot), d)
    BY <1>2, <1>5, <1>6, <2>2, RetryGood DEF Alike, InOp
  <2> QED
    BY <1>1, <1>2, <1>5, <2>1, <2>3, AlikeGood, GoodStep
<1> QED
  BY <1>7, <1>8, <1>9

\* A step of thread t that changes the pointers.
LEMMA HeapStep ==
  ASSUME IInv, NEW t \in Thread, Busy(t), NEW f, Good(Fr(t), f, Top(t)), SetFrame(t, f),
         UNCHANGED <<nd, ndmark, ops, status, pstatus, stack>>,
         child' \in [Node -> [Dim -> Ptr]], pending' \in [Node -> AdoptDesc],
         Keeps, HeapInv', TasksInv'
  PROVE  IInv'
<1>1. TypeOK /\ PreInv /\ f \in Frame /\ FrameInv(f, Top(t))
  BY DEF IInv, Good
<1>2. FrameInv(f, Top(t))'
  <2>1. PICK d \in Desc : d = Top(t)
    BY <1>1, TopInStack
  <2>2. FrameInv(f, d)'
    BY <1>1, <2>1, FrameInvStable
  <2>3. Top(t)' = d
    BY <2>1 DEF Top
  <2> QED
    BY <2>2, <2>3
<1>3. PreInv'
  BY <1>1 DEF PreInv
<1>4. /\ nd' \in [NodeDesc -> NodeDesc]
      /\ ndmark' \in [NodeDesc -> BOOLEAN]
      /\ ops' \in [Desc -> OpArrays \union {<<>>}]
      /\ status' \in [AllDesc -> {"ACTIVE", "COMMITTED", "ABORTED"}]
      /\ pstatus' \in [AllDesc -> {"MAYBE", "IN_PROGRESS", "PERSISTED"}]
  BY <1>1 DEF TypeOK
<1> QED
  BY <1>1, <1>2, <1>3, <1>4, FrameStep

\* A write of one slot.
LEMMA SlotWritten ==
  ASSUME IInv, NEW n \in Node, NEW i \in Dim, NEW p \in Ptr,
         child' = [child EXCEPT ![n][i] = p],
         child[n][i].n # Null => p.n # Null, Hangs(p, n, i), p.n # Null => Ready(n)
  PROVE  /\ child' \in [Node -> [Dim -> Ptr]]
         /\ \A m \in Node, j \in Dim : child[m][j].n # Null => child'[m][j].n # Null
         /\ Keeps => HeapInv'
<1>1. TypeOK /\ child \in [Node -> [Dim -> Ptr]]
  BY DEF IInv, TypeOK
<1>2. \A m \in Node, j \in Dim : child'[m][j] = IF m = n /\ j = i THEN p ELSE child[m][j]
  BY <1>1
<1>3. child' \in [Node -> [Dim -> Ptr]]
  BY <1>1
<1>4. ASSUME Keeps PROVE HeapInv'
  <2> SUFFICES ASSUME NEW m \in Node, NEW j \in Dim
               PROVE  Hangs(child[m][j], m, j)' /\ (child'[m][j].n # Null => Ready(m)')
    BY DEF HeapInv
  <2>1. PICK q : q = IF m = n /\ j = i THEN p ELSE child[m][j]
    OBVIOUS
  <2>2. Hangs(q, m, j) /\ (q.n # Null => Ready(m))
    <3>1. Hangs(child[m][j], m, j) /\ (child[m][j].n # Null => Ready(m))
      BY DEF IInv, HeapInv
    <3> QED
      BY <2>1, <3>1
  <2>3. Hangs(q, m, j)' /\ (q.n # Null => Ready(m)')
    BY <1>1, <1>4, <2>2, HangsStable, ReadyStable
  <2>4. child'[m][j] = q
    BY <1>2, <2>1
  <2> QED
    BY <2>3, <2>4 DEF Hangs
<1> QED
  BY <1>2, <1>3, <1>4

\* A step that writes one slot and no task.
LEMMA SlotStep ==
  ASSUME IInv, NEW t \in Thread, Busy(t), NEW f, Good(Fr(t), f, Top(t)), SetFrame(t, f),
         UNCHANGED <<pending, nd, ndmark, ops, status, pstatus, stack>>,
         NEW n \in Node, NEW i \in Dim, NEW p \in Ptr,
         child' = [child EXCEPT ![n][i] = p],
         child[n][i].n # Null => p.n # Null, Hangs(p, n, i), p.n # Null => Ready(n)
  PROVE  IInv'
<1>1. TypeOK /\ TasksInv
  BY DEF IInv
<1>2. /\ child' \in [Node -> [Dim -> Ptr]]
      /\ \A m \in Node, j \in Dim : child[m][j].n # Null => child'[m][j].n # Null
      /\ Keeps => HeapInv'
  BY SlotWritten
<1>3. Keeps
  BY <1>1, <1>2, OnwardKeeps DEF Good
<1>4. HeapInv' /\ TasksInv'
  BY <1>1, <1>2, <1>3, TasksStable
<1>5. pending' \in [Node -> AdoptDesc]
  BY <1>1 DEF TypeOK
<1> QED
  BY <1>2, <1>3, <1>4, <1>5, HeapStep

LEMMA InvalidateStep ==
  ASSUME IInv, NEW t \in Thread, Invalidate(t) PROVE IInv'
<1> DEFINE d == Top(t)
           f == Fr(t)
           c == child[f.pred][f.pred_dim]
           p == [c EXCEPT !.del = TRUE]
           g == [f EXCEPT !.curr = m_head]
           k == Op(t).key
<1>1. /\ At(t, "invalidate") /\ UNCHANGED <<pending, nd, ndmark, ops, status, pstatus, stack>>
      /\ SetFrame(t, Locating(g, Op(t)))
      /\ child' = [child EXCEPT ![f.pred][f.pred_dim].del = TRUE]
  BY DEF Invalidate
<1>2. /\ Busy(t) /\ TypeOK /\ d \in Desc /\ f \in Frame /\ f.pc = "invalidate" /\ InOp(f)
      /\ f.back = "return" /\ WalkInv(f, k) /\ Op(t) = ops[d][f.opid]
      /\ f.opid <= Len(ops[d]) /\ f.opid \in 1..MaxOps /\ Op(t) \in Operator
  BY <1>1, InOpFacts DEF OpLabels, AdoptLabels
<1>3. /\ f.curr # Null /\ f.dim = DIMENSION /\ f.pred \in Node /\ f.pred_dim \in Dim
      /\ PredInv(f, k) /\ PlaceInv(f, k) /\ c.n # Null
  BY <1>2 DEF WalkInv, Passing, PlaceInv, PredInv, Frame
<1>4. c \in Ptr /\ Hangs(c, f.pred, f.pred_dim) /\ Ready(f.pred)
  BY <1>3, SlotFacts DEF PredInv
<1>5. child' = [child EXCEPT ![f.pred][f.pred_dim] = p]
  BY <1>1
<1> HIDE DEF c
<1>6. p \in Ptr /\ p.n = c.n
  BY <1>4 DEF Ptr
<1>7. Hangs(p, f.pred, f.pred_dim)
  BY <1>3, <1>4, <1>6 DEF Hangs
<1> HIDE DEF p
<1>8. g \in Frame /\ Alike(f, g) /\ g.curr = m_head /\ g.dim = DIMENSION
      /\ g.pred = f.pred /\ g.pred_dim = f.pred_dim
  BY <1>2, <1>3, NodeType DEF Frame, Alike
<1> HIDE DEF g
<1>9. PredInv(g, k)
  BY <1>3, <1>8 DEF PredInv, Ready
<1>10. PlaceInv(g, k)
  BY <1>3, <1>8, NullAssumption DEF PlaceInv, c
<1>11. Good(g, Locating(g, Op(t)), d)
  BY <1>2, <1>8, <1>9, <1>10, LocatingHere DEF Alike, InOp
<1>12. Good(f, Locating(g, Op(t)), d)
  BY <1>8, <1>11, AlikeGood
<1> QED
  BY <1>1, <1>2, <1>3, <1>4, <1>5, <1>6, <1>7, <1>12, SlotStep

\* The task of a new node.
LEMMA OwnTaskFacts ==
  ASSUME NEW f \in Frame, NEW k, PredInv(f, k), PlaceInv(f, k),
         f.curr # m_head, f.pred_dim # f.dim
  PROVE  /\ OwnTask(f) \in AdoptDesc /\ OwnTask(f) # NoTask
         /\ OwnTask(f).curr = f.curr /\ f.curr \in Node /\ f.curr # Null
         /\ OwnTask(f).pred_dim = f.pred_dim /\ OwnTask(f).dim = f.dim
         /\ f.pred_dim < f.dim /\ Ready(f.curr) /\ Leads(k, KeyOf(f.curr), f.dim)
<1>1. f.curr # Null /\ f.curr \in Node
  BY DEF PlaceInv, Frame
<1>2. f.pred_dim \in Dim /\ f.dim \in 0..DIMENSION
  BY DEF Frame
<1>3. f.pred_dim < f.dim
  BY <1>2, Sizes DEF PlaceInv, Dim
<1>4. OwnTask(f) = [curr |-> f.curr, pred_dim |-> f.pred_dim, dim |-> f.dim]
  BY DEF OwnTask
<1> QED
  BY <1>1, <1>2, <1>3, <1>4, NodeType DEF AdoptDesc, NoTask, PredInv, PlaceInv

\* The node of a frame that has linked it may be found.
LEMMA MineReady ==
  ASSUME IInv, NEW t \in Thread, NEW p \in OpLabels, At(t, p), Placed(Fr(t))
  PROVE  Ready(Mine(t))
<1>1. /\ Mine(t) \in NodeDesc /\ Fr(t).opid <= Len(ops[Top(t)]) /\ Fr(t).opid \in 1..MaxOps
      /\ Top(t) \in Desc
  BY InOpFacts
<1>2. fr[Mine(t).by][Mine(t).desc] = Fr(t) /\ Mine(t).opid = Fr(t).opid
      /\ Mine(t).desc = Top(t)
  BY DEF Mine, Fr
<1>3. ~Unborn(Mine(t))
  BY <1>1, <1>2, ConstantsAssumption DEF Unborn
<1> QED
  BY <1>1, <1>2, <1>3 DEF Ready

LEMMA AdoptBelowStep ==
  ASSUME IInv, NEW t \in Thread, AdoptBelow(t) PROVE IInv'
<1> DEFINE d == Top(t)
           f == Fr(t)
           k == Op(t).key
<1>1. At(t, "adopt") /\ UNCHANGED <<heap, ops, status, pstatus, stack>>
  BY DEF AdoptBelow
<1>2. /\ Busy(t) /\ TypeOK /\ d \in Desc /\ f \in Frame /\ f.pc = "adopt" /\ InOp(f)
      /\ f.back = "return" /\ WalkInv(f, k) /\ Op(t) = ops[d][f.opid]
      /\ f.opid <= Len(ops[d]) /\ Mine(t) \in NodeDesc /\ KeyOf(Mine(t)) = k
  BY <1>1, InOpFacts DEF OpLabels, AdoptLabels
<1>3. /\ PredInv(f, k) /\ PlaceInv(f, k) /\ Placed(f)
      /\ f.curr \notin {Null, m_head} /\ f.pred_dim < f.dim
  BY <1>2 DEF WalkInv, Passing, Placed
<1>4. f.curr \in Node
  BY <1>2, <1>3 DEF Frame
<1>5. CASE TaskBelow(f) # NoTask
  <2>1. SetFrame(t, Adopting(f, f.curr, TaskBelow(f), "adopt"))
    BY <1>5 DEF AdoptBelow
  <2>2. TaskBelow(f) \in AdoptDesc /\ Adopts(f.curr, TaskBelow(f))
    BY <1>2, <1>4 DEF TaskBelow, TypeOK, IInv, TasksInv
  <2>3. Good(f, Adopting(f, f.curr, TaskBelow(f), "adopt"), d)
    BY <1>2, <1>3, <1>4, <1>5, <2>2, AdoptingGood
  <2> QED
    BY <1>1, <1>2, <2>1, <2>3, GoodStep
<1>6. CASE ~(TaskBelow(f) # NoTask)
  <2>1. SetFrame(t, Adopting(f, Mine(t), OwnTask(f), "done"))
    BY <1>6 DEF AdoptBelow
  <2>2. f.pred_dim # f.dim
    BY <1>2, <1>3, Sizes DEF Frame, Dim
  <2>3. Ready(Mine(t))
    BY <1>1, <1>3, MineReady DEF OpLabels
  <2>4. OwnTask(f) \in AdoptDesc /\ OwnTask(f) # NoTask /\ Adopts(Mine(t), OwnTask(f))
    BY <1>2, <1>3, <2>2, <2>3, OwnTaskFacts DEF Adopts
  <2>5. Good(f, Adopting(f, Mine(t), OwnTask(f), "done"), d)
    BY <1>2, <1>3, <2>4, NodeType, AdoptingGood
  <2> QED
    BY <1>1, <1>2, <2>1, <2>5, GoodStep
<1> QED
  BY <1>5, <1>6

\* A new node gets the slot of its predecessor, and leads to what was there.
LEMMA LinkedSlots ==
  ASSUME TypeOK, NEW f \in Frame, NEW n \in NodeDesc, f.pred \in Node, n # f.pred,
         NewChildren(f) \in [Dim -> Ptr],
         child' = [child EXCEPT ![f.pred][f.pred_dim] = To(n), ![n] = NewChildren(f)]
  PROVE  /\ child' \in [Node -> [Dim -> Ptr]]
         /\ \A m \in Node, j \in Dim :
              child'[m][j] = IF m = n THEN NewChildren(f)[j]
                             ELSE IF m = f.pred /\ j = f.pred_dim THEN To(n)
                             ELSE child[m][j]
<1>1. child \in [Node -> [Dim -> Ptr]] /\ n \in Node /\ f.pred_dim \in Dim /\ To(n) \in Ptr
  BY NodeDescType, PtrType DEF TypeOK, Frame
<1>2. PICK next \in [Dim -> Ptr] : next = NewChildren(f)
  OBVIOUS
<1>3. PICK p \in Ptr : p = To(n)
  BY <1>1
<1>4. child' = [[child EXCEPT ![f.pred][f.pred_dim] = p] EXCEPT ![n] = next]
  BY <1>2, <1>3
<1>5. PICK mid \in [Node -> [Dim -> Ptr]] : mid = [child EXCEPT ![f.pred][f.pred_dim] = p]
  BY <1>1
<1>6. child' = [mid EXCEPT ![n] = next]
  BY <1>4, <1>5
<1>7. \A m \in Node, j \in Dim : mid[m][j] = IF m = f.pred /\ j = f.pred_dim THEN p
                                             ELSE child[m][j]
  BY <1>1, <1>5
<1>8. \A m \in Node : child'[m] = IF m = n THEN next ELSE mid[m]
  BY <1>1, <1>6
<1> QED
  BY <1>1, <1>2, <1>3, <1>6, <1>7, <1>8

\* The slots of a new node of key k.
LEMMA NewChildrenFacts ==
  ASSUME TypeOK, NEW f \in Frame, NEW k \in Keys, PredInv(f, k), PlaceInv(f, k),
         f.curr # m_head, f.slot.del \in BOOLEAN, f.curr = Null => ~f.slot.del,
         f.curr # Null /\ f.dim < DIMENSION => Coord(k, f.dim) < Coord(KeyOf(f.curr), f.dim)
  PROVE  /\ NewChildren(f) \in [Dim -> Ptr]
         /\ \A j \in Dim :
              LET p == NewChildren(f)[j]
              IN  /\ p.n = Null => ~p.del
                  /\ p.n # Null => Ready(p.n) /\ Below(k, KeyOf(p.n), j)
<1>1. \A j \in Dim : NewChildren(f)[j] = IF j < f.pred_dim THEN Invalid
                                         ELSE IF j = f.dim THEN Expected(f) ELSE To(Null)
  BY DEF NewChildren
<1>2. Expected(f) = [n |-> f.curr, adp |-> FALSE, del |-> f.slot.del]
  BY ExpectedIs
<1>3. f.curr \in Node \union {Null} /\ f.dim \in 0..DIMENSION
  BY DEF Frame
<1>4. Expected(f) \in Ptr /\ Expected(f).n = f.curr /\ Expected(f).del = f.slot.del
  BY <1>2, <1>3 DEF Ptr
<1>5. NewChildren(f) \in [Dim -> Ptr]
  BY <1>4, PtrType DEF NewChildren
<1>6. ASSUME f.curr # Null, f.dim \in Dim
      PROVE  Ready(f.curr) /\ Below(k, KeyOf(f.curr), f.dim)
  <2>1. Ready(f.curr)
    BY <1>6 DEF PredInv
  <2>2. Leads(k, KeyOf(f.curr), f.dim) /\ f.dim < DIMENSION
    BY <1>6, Sizes DEF PlaceInv, Dim
  <2>3. Shares(k, KeyOf(f.curr), f.dim)
    BY <1>3, <2>2, Sizes DEF Leads, Shares, Dim
  <2> QED
    BY <1>6, <2>1, <2>2, <2>3 DEF Below
<1>7. ASSUME NEW j \in Dim
      PROVE  LET p == NewChildren(f)[j]
             IN  /\ p.n = Null => ~p.del
                 /\ p.n # Null => Ready(p.n) /\ Below(k, KeyOf(p.n), j)
  BY <1>1, <1>4, <1>6, PtrType
<1> QED
  BY <1>5, <1>7

LEMMA InsertLinkStep ==
  ASSUME IInv, NEW t \in Thread, InsertLink(t) PROVE IInv'
<1>1. At(t, "link") /\ UNCHANGED <<nd, ndmark, ops, status, pstatus, stack>>
  BY DEF InsertLink
<1>2. PICK d \in Desc, f \in Frame, n \in NodeDesc, k \in Keys :
        d = Top(t) /\ f = Fr(t) /\ n = Mine(t) /\ k = Op(t).key
  BY <1>1, InOpFacts DEF OpLabels
<1>3. /\ Busy(t) /\ TypeOK /\ f.pc = "link" /\ InOp(f) /\ f.back = "return"
      /\ WalkInv(f, k) /\ Op(t) = ops[d][f.opid] /\ f.opid \in 1..MaxOps
      /\ f.opid <= Len(ops[d]) /\ Op(t) \in Operator /\ KeyOf(n) = k
  BY <1>1, <1>2, InOpFacts DEF OpLabels, AdoptLabels
<1>4. n.by = t /\ n.desc = d /\ n.opid = f.opid /\ fr[t][d] = f
  BY <1>2 DEF Mine, Fr
<1>5. /\ PredInv(f, k) /\ PlaceInv(f, k) /\ ~Placed(f) /\ f.slot \in Ptr
      /\ f.slot = Expected(f) /\ (f.curr = Null => ~f.slot.del)
      /\ f.curr # Null /\ f.dim < DIMENSION => Coord(k, f.dim) < Coord(KeyOf(f.curr), f.dim)
  BY <1>3 DEF WalkInv, Passing, Placed, Frame
<1>6. f.pred \in Node /\ f.pred_dim \in Dim /\ Ready(f.pred) /\ f.pred # Null
  BY <1>5 DEF PredInv, Frame
<1>7. PICK g \in Frame : g = [f EXCEPT !.slot = To(Null)]
  BY PtrType, ZenonT(30) DEF Frame
<1>8. SamePlace(f, g) /\ Alike(f, g)
  BY <1>7 DEF SamePlace, Alike, Frame
<1>9. CASE child[f.pred][f.pred_dim] # Expected(f)
  <2>1. PICK v : v = child[f.pred][f.pred_dim]
    OBVIOUS
  <2>2. SetFrame(t, Retry(g, Op(t), v)) /\ UNCHANGED <<child, pending>>
    BY <1>2, <1>7, <1>9, <2>1 DEF InsertLink
  <2>3. PredInv(g, k) /\ PlaceInv(g, k) /\ InOp(g)
    BY <1>3, <1>5, <1>8, SamePlaceInv DEF InOp, Alike
  <2>4. Good(g, Retry(g, Op(t), v), d)
    BY <1>2, <1>3, <1>8, <2>3, RetryGood DEF Alike
  <2>5. Good(f, Retry(g, Op(t), v), d)
    BY <1>8, <2>4, AlikeGood
  <2> QED
    BY <1>1, <1>2, <1>3, <2>2, <2>5, GoodStep DEF heap
<1>10. CASE child[f.pred][f.pred_dim] = Expected(f)
  <2>1. PICK h : h = IF OwnTask(f) = NoTask THEN FinishedAt(f, "INSERT", n)
                     ELSE [g EXCEPT !.pc = "adopt"]
    OBVIOUS
  <2>2. /\ child' = [child EXCEPT ![f.pred][f.pred_dim] = To(n), ![n] = NewChildren(f)]
        /\ pending' = [pending EXCEPT ![n] = OwnTask(f)]
        /\ SetFrame(t, h)
    BY <1>2, <1>7, <1>10, <2>1 DEF InsertLink
  <2>3. Unborn(n) /\ n # Null /\ n # m_head /\ n \in Node /\ n.desc # PreDesc
    BY <1>3, <1>4, <1>5, NodeDescType, ConstantsAssumption DEF Unborn
  <2>4. ~Ready(n) /\ n # f.pred
    BY <1>6, <2>3 DEF Ready
  <2>5. f.curr # m_head
    BY <1>6, <1>10, SlotFacts, ExpectedIs
  <2>6. f.slot.del \in BOOLEAN
    BY <1>5 DEF Ptr
  <2>7. /\ NewChildren(f) \in [Dim -> Ptr]
        /\ \A j \in Dim :
              LET p == NewChildren(f)[j]
              IN  /\ p.n = Null => ~p.del
                  /\ p.n # Null => Ready(p.n) /\ Below(k, KeyOf(p.n), j)
    BY <1>3, <1>5, <2>5, <2>6, NewChildrenFacts
  <2>8. /\ child' \in [Node -> [Dim -> Ptr]]
        /\ \A m \in Node, j \in Dim :
              child'[m][j] = IF m = n THEN NewChildren(f)[j]
                             ELSE IF m = f.pred /\ j = f.pred_dim THEN To(n)
                             ELSE child[m][j]
    <3>1. NewChildren(f) \in [Dim -> Ptr]
      BY <2>7
    <3>2. child' = [child EXCEPT ![f.pred][f.pred_dim] = To(n), ![n] = NewChildren(f)]
      BY <2>2
    <3> QED
      BY ONLY <1>3, <1>6, <2>4, <3>1, <3>2, LinkedSlots, f \in Frame, n \in NodeDesc, ZenonT(30)
  <2>9. f.pred_dim # f.dim =>
          /\ OwnTask(f) \in AdoptDesc /\ OwnTask(f) # NoTask
          /\ OwnTask(f).curr = f.curr /\ f.curr \in Node /\ f.curr # Null
          /\ OwnTask(f).pred_dim = f.pred_dim /\ OwnTask(f).dim = f.dim
          /\ f.pred_dim < f.dim /\ Ready(f.curr) /\ Leads(k, KeyOf(f.curr), f.dim)
    BY <1>5, <2>5, OwnTaskFacts
  <2>10. f.pred_dim = f.dim => OwnTask(f) = NoTask
    BY DEF OwnTask
  <2>11. Good(f, h, d) /\ (h.opid = f.opid + 1 \/ (h.opid = f.opid /\ Placed(h)))
    <3>1. CASE OwnTask(f) = NoTask
      <4>1. h = FinishedAt(f, "INSERT", n) /\ "INSERT" \in OpTypes
        BY <2>1, <3>1 DEF OpTypes
      <4> QED
        BY <1>3, <1>6, <2>3, <4>1, FinishedAtGood
    <3>2. CASE OwnTask(f) # NoTask
      <4>1. /\ h = [g EXCEPT !.pc = "adopt"] /\ f.curr \notin {Null, m_head}
            /\ f.pred_dim < f.dim
        BY <2>1, <2>5, <2>9, <2>10, <3>2
      <4>2. /\ h \in Frame /\ SamePlace(g, h) /\ h.back = g.back /\ h.opid = g.opid
            /\ h.pc = "adopt"
        BY <4>1 DEF Frame, Labels, SamePlace
      <4>3. SamePlace(f, h) /\ h.back = "return" /\ h.opid = f.opid
        BY <1>3, <1>8, <4>2 DEF SamePlace, Alike
      <4>4. PredInv(h, k) /\ PlaceInv(h, k)
        BY <1>5, <4>3, SamePlaceInv
      <4>5. WalkInv(h, k)
        BY <4>1, <4>2, <4>3, <4>4 DEF WalkInv, Passing, HasOld, Placed, SamePlace
      <4>6. Good(f, h, d)
        BY <1>2, <1>3, <1>5, <4>2, <4>3, <4>5, WalkGood DEF OpLabels, AdoptLabels
      <4> QED
        BY <4>2, <4>3, <4>6 DEF Placed
    <3> QED
      BY <3>1, <3>2
  <2>12. \A m \in Node, i \in Dim : Ready(m) /\ child[m][i].n # Null => child'[m][i].n # Null
    BY <2>3, <2>4, <2>8, PtrType
  <2>13. /\ \A e \in AllDesc : status[e] # "ACTIVE" => status'[e] # "ACTIVE"
         /\ \A e \in Desc : ops[e] # <<>> => ops'[e] = ops[e]
    BY <1>1
  <2>14. Keeps
    BY <1>2, <1>3, <2>2, <2>11, <2>12, <2>13, OnwardKeeps DEF Good
  <2>15. Ready(n)' /\ KeyOf(n)' = k
    <3>1. fr'[n.by][n.desc] = h
      BY <1>2, <1>3, <1>4, <2>2 DEF SetFrame, TypeOK
    <3>2. ~Unborn(n)'
      BY <1>3, <1>4, <2>11, <3>1 DEF Unborn, Placed
    <3>3. ops' = ops
      BY <1>1
    <3> QED
      BY <1>3, <1>4, <2>3, <3>2, <3>3 DEF Ready, KeyOf
  <2>16. HeapInv'
    <3> SUFFICES ASSUME NEW m \in Node, NEW j \in Dim
                 PROVE  Hangs(child[m][j], m, j)' /\ (child'[m][j].n # Null => Ready(m)')
      BY DEF HeapInv
    <3>1. CASE m = n
      <4>1. PICK p : p = NewChildren(f)[j]
        OBVIOUS
      <4>2. /\ p.n = Null => ~p.del
            /\ p.n # Null => Ready(p.n) /\ Below(k, KeyOf(p.n), j)
        BY <2>7, <4>1
      <4>3. p.n # Null => Ready(p.n)' /\ KeyOf(p.n)' = KeyOf(p.n)
        BY <1>3, <2>14, <4>2, ReadyStable
      <4>4. child'[m][j] = p
        BY <2>8, <3>1, <4>1
      <4> QED
        BY <2>15, <3>1, <4>2, <4>3, <4>4 DEF Hangs
    <3>2. CASE m # n /\ m = f.pred /\ j = f.pred_dim
      <4>1. Ready(f.pred)' /\ KeyOf(f.pred)' = KeyOf(f.pred)
        BY <1>3, <1>6, <2>14, ReadyStable
      <4>2. child'[m][j] = To(n) /\ To(n).n = n
        BY <2>3, <2>8, <3>2, PtrType
      <4>3. Below(KeyOf(f.pred), k, f.pred_dim)
        BY <1>5 DEF PredInv
      <4> QED
        BY <2>3, <2>15, <3>2, <4>1, <4>2, <4>3 DEF Hangs
    <3>3. CASE m # n /\ ~(m = f.pred /\ j = f.pred_dim)
      <4>1. PICK p : p = child[m][j]
        OBVIOUS
      <4>2. Hangs(p, m, j) /\ (p.n # Null => Ready(m))
        BY <4>1 DEF IInv, HeapInv
      <4>3. Hangs(p, m, j)' /\ (p.n # Null => Ready(m)')
        BY <1>3, <2>14, <4>2, HangsStable, ReadyStable
      <4>4. child'[m][j] = p
        BY <2>8, <3>3, <4>1
      <4> QED
        BY <4>3, <4>4 DEF Hangs
    <3> QED
      BY <3>1, <3>2, <3>3
  <2>17. pending' \in [Node -> AdoptDesc]
    BY <1>3, <2>2, <2>3, <2>9, <2>10 DEF TypeOK, AdoptDesc
  <2>18. TasksInv'
    <3> SUFFICES ASSUME NEW m \in Node PROVE Adopts(m, pending[m])'
      BY DEF TasksInv
    <3>1. CASE m = n
      <4>1. pending'[m] = OwnTask(f)
        BY <1>3, <2>2, <2>3, <3>1 DEF TypeOK
      <4>2. CASE f.pred_dim = f.dim
        BY <2>10, <4>1, <4>2 DEF Adopts
      <4>3. CASE f.pred_dim # f.dim
        <5>1. Ready(f.curr)' /\ KeyOf(f.curr)' = KeyOf(f.curr)
          BY <1>3, <2>9, <2>14, <4>3, ReadyStable
        <5>2. PICK task : task = OwnTask(f)
          OBVIOUS
        <5>3. Adopts(n, task)'
          BY <2>9, <2>15, <4>3, <5>1, <5>2 DEF Adopts
        <5> QED
          BY <3>1, <4>1, <5>2, <5>3 DEF Adopts
      <4> QED
        BY <4>2, <4>3
    <3>2. CASE m # n
      <4>1. PICK task : task = pending[m]
        OBVIOUS
      <4>2. Adopts(m, task)'
        BY <1>3, <2>14, <4>1, AdoptsStable DEF IInv, TasksInv
      <4>3. pending'[m] = task
        BY <1>3, <2>2, <2>3, <3>2, <4>1 DEF TypeOK
      <4> QED
        BY <4>2, <4>3 DEF Adopts
    <3> QED
      BY <3>1, <3>2
  <2> QED
    BY <1>1, <1>2, <1>3, <2>2, <2>8, <2>11, <2>14, <2>16, <2>17, <2>18, HeapStep
<1> QED
  BY <1>9, <1>10

-----------------------------------------------------------------------------
(* The actions: FinishInserting.                                           *)

LEMMA AdoptFacts ==
  ASSUME IInv, NEW t \in Thread, NEW p \in AdoptLabels, At(t, p)
  PROVE  LET f == Fr(t)
         IN  /\ f.n \in Node /\ Ready(f.n) /\ KeyOf(f.n) \in Keys
             /\ f.task \in AdoptDesc /\ f.task # NoTask
             /\ f.task.curr \in Node /\ Ready(f.task.curr) /\ KeyOf(f.task.curr) \in Keys
             /\ f.task.dim \in 0..DIMENSION /\ f.i \in Nat /\ f.task.pred_dim \in Nat
             /\ Leads(KeyOf(f.n), KeyOf(f.task.curr), f.task.dim)
             /\ f.task.pred_dim <= f.i
             /\ p # "clear" => f.i \in Dim /\ f.i < f.task.dim
<1>1. PICK f \in Frame : f = Fr(t)
  BY InOpFacts DEF OpLabels
<1>2. TypeOK /\ AdoptInv(f) /\ f.pc = p
  BY <1>1, InOpFacts DEF OpLabels
<1>3. /\ f.n # Null /\ f.task # NoTask /\ Adopts(f.n, f.task)
      /\ f.task.pred_dim <= f.i /\ (p # "clear" => f.i < f.task.dim)
  BY <1>2 DEF AdoptInv
<1>4. f.n \in Node /\ f.task \in AdoptDesc /\ f.i \in Nat
  BY <1>3, Sizes DEF Frame
<1>5. /\ Ready(f.n) /\ Ready(f.task.curr)
      /\ Leads(KeyOf(f.n), KeyOf(f.task.curr), f.task.dim)
  BY <1>3 DEF Adopts
<1>6. KeyOf(f.n) \in Keys /\ KeyOf(f.task.curr) \in Keys /\ f.task.curr \in Node
  BY <1>2, <1>5, KeyOfType
<1>7. f.task.dim \in 0..DIMENSION /\ f.task.pred_dim \in Nat
  BY <1>3, <1>4, Sizes DEF AdoptDesc, Dim
<1>8. p # "clear" => f.i \in Dim
  BY <1>3, <1>4, <1>7, Sizes DEF Dim
<1> QED
  BY <1>1, <1>3, <1>4, <1>5, <1>6, <1>7, <1>8

\* The next step of FinishInserting.
LEMMA AdoptingOn ==
  ASSUME IInv, NEW t \in Thread, NEW p \in AdoptLabels, At(t, p), NEW g \in Frame,
         SamePlace(Fr(t), g), g.back = Fr(t).back, g.opid = Fr(t).opid,
         g.pc \in AdoptLabels, AdoptInv(g)
  PROVE  Good(Fr(t), g, Top(t))
<1>1. PICK f \in Frame, d \in Desc : f = Fr(t) /\ d = Top(t)
  BY InOpFacts DEF OpLabels
<1>2. PICK k : k = Op(t).key
  OBVIOUS
<1>3. /\ f.pc = p /\ InOp(f) /\ AdoptInv(f) /\ WalkInv(f, k) /\ f.opid <= Len(ops[d])
      /\ k = ops[d][f.opid].key
  BY <1>1, <1>2, InOpFacts DEF OpLabels
<1>4. f.back \in {"child", "adopt", "done"}
  BY <1>3 DEF AdoptInv
<1>5. SamePlace(f, g) /\ g.back = f.back /\ g.opid = f.opid
  BY <1>1
<1>6. (Passing(g) <=> Passing(f)) /\ (Placed(g) <=> Placed(f)) /\ ~HasOld(g)
  BY <1>3, <1>4, <1>5 DEF Passing, Placed, HasOld, AdoptLabels
<1>7. PredInv(f, k) /\ (~Passing(f) => PlaceInv(f, k))
  BY <1>3 DEF WalkInv
<1>8. PredInv(g, k) /\ (~Passing(g) => PlaceInv(g, k))
  BY <1>5, <1>6, <1>7, SamePlaceInv
<1>9. /\ Passing(f) => f.curr = f.pred /\ f.dim = f.pred_dim
      /\ Placed(f) => f.curr \notin {Null, m_head} /\ f.pred_dim < f.dim
  BY <1>3 DEF WalkInv
<1>10. WalkInv(g, k)
  BY <1>5, <1>6, <1>8, <1>9 DEF WalkInv, AdoptLabels, SamePlace
<1>11. FrameInv(g, d)
  BY <1>3, <1>4, <1>5, <1>10 DEF FrameInv, EndInv, AdoptLabels, PersistLabels
<1>12. Onward(f, g, d)
  BY <1>3, <1>5, <1>6 DEF Onward
<1> QED
  BY <1>1, <1>11, <1>12 DEF Good

\* FinishInserting goes on with the next dimension.
LEMMA NextGivenFacts ==
  ASSUME IInv, NEW t \in Thread, NEW p \in AdoptLabels \ {"clear"}, At(t, p),
         NEW g \in Frame, g = NextGiven(Fr(t)) \/ g = [NextGiven(Fr(t)) EXCEPT !.value = To(Null)]
  PROVE  Good(Fr(t), g, Top(t))
<1>1. PICK f \in Frame : f = Fr(t)
  BY InOpFacts DEF OpLabels
<1>2. AdoptInv(f) /\ f.pc \in AdoptLabels
  BY <1>1, InOpFacts DEF OpLabels
<1>3. f.i \in Nat /\ f.task.dim \in Nat /\ f.task.pred_dim \in Nat /\ f.i < f.task.dim
  BY <1>1, AdoptFacts, Sizes
<1>4. PICK h : h = NextGiven(f)
  OBVIOUS
<1>5. /\ h.i = f.i + 1 /\ h.pc = (IF f.i + 1 < f.task.dim THEN "give" ELSE "clear")
      /\ SamePlace(f, h) /\ h.back = f.back /\ h.opid = f.opid /\ h.n = f.n
      /\ h.task = f.task
  BY <1>4 DEF NextGiven, Frame, SamePlace
<1>6. /\ g.i = f.i + 1 /\ g.pc = (IF f.i + 1 < f.task.dim THEN "give" ELSE "clear")
      /\ SamePlace(f, g) /\ g.back = f.back /\ g.opid = f.opid /\ g.n = f.n
      /\ g.task = f.task
  <2>1. g = h \/ g = [h EXCEPT !.value = To(Null)]
    BY <1>1, <1>4
  <2>2. h = [f EXCEPT !.i = f.i + 1, !.pc = h.pc]
    BY <1>4, <1>5 DEF NextGiven, Frame
  <2> QED
    BY <1>5, <2>1, <2>2 DEF SamePlace, Frame
<1>7. AdoptInv(g) /\ g.pc \in AdoptLabels
  BY <1>2, <1>3, <1>6 DEF AdoptInv, AdoptLabels
<1> QED
  BY <1>1, <1>6, <1>7, AdoptingOn

LEMMA NextGivenType ==
  ASSUME IInv, NEW t \in Thread, NEW p \in AdoptLabels \ {"clear"}, At(t, p)
  PROVE  /\ NextGiven(Fr(t)) \in Frame
         /\ [NextGiven(Fr(t)) EXCEPT !.value = To(Null)] \in Frame
<1>1. PICK f \in Frame : f = Fr(t)
  BY InOpFacts DEF OpLabels
<1>2. f.i + 1 \in 0..DIMENSION
  BY <1>1, AdoptFacts, Sizes
<1>3. PICK h \in Frame : h = [f EXCEPT !.i = @ + 1]
  BY <1>2 DEF Frame
<1>4. NextGiven(f) \in Frame
  <2>1. PICK pc \in Labels : pc = IF h.i < f.task.dim THEN "give" ELSE "clear"
    BY DEF Labels
  <2>2. NextGiven(f) = [h EXCEPT !.pc = pc]
    BY <1>3, <2>1 DEF NextGiven
  <2> QED
    BY <2>2 DEF Frame
<1>5. To(Null) \in Ptr
  BY PtrType
<1>6. [NextGiven(f) EXCEPT !.value = To(Null)] \in Frame
  <2>1. PICK g \in Frame : g = NextGiven(f)
    BY <1>4
  <2>2. [g EXCEPT !.value = To(Null)] \in Frame
    BY <1>5 DEF Frame
  <2> QED
    BY <2>1, <2>2
<1> QED
  BY <1>1, <1>4, <1>6

LEMMA GiveChildStep ==
  ASSUME IInv, NEW t \in Thread, GiveChild(t) PROVE IInv'
<1>1. At(t, "give") /\ UNCHANGED <<pending, nd, ndmark, ops, status, pstatus, stack>>
  BY DEF GiveChild
<1>2. PICK f \in Frame, d \in Desc : f = Fr(t) /\ d = Top(t)
  BY <1>1, InOpFacts DEF OpLabels, AdoptLabels
<1>3. AdoptInv(f) /\ f.pc = "give" /\ Busy(t)
  BY <1>1, <1>2, InOpFacts DEF OpLabels, AdoptLabels
<1>4. f.task.curr \in Node /\ f.i \in Dim /\ Ready(f.task.curr)
  BY <1>1, <1>2, AdoptFacts DEF AdoptLabels
<1>5. PICK c \in Ptr : c = child[f.task.curr][f.i] /\ Hangs(c, f.task.curr, f.i)
  BY <1>4, SlotFacts
<1>6. PICK q \in Ptr : q = [c EXCEPT !.adp = TRUE]
  BY DEF Ptr
<1>7. child' = [child EXCEPT ![f.task.curr][f.i] = q]
  <2>1. child' = [child EXCEPT ![f.task.curr][f.i].adp = TRUE]
    BY <1>2 DEF GiveChild
  <2> QED
    BY <1>5, <1>6, <2>1
<1>8. q.n = c.n /\ q.del = c.del
  BY <1>6 DEF Ptr
<1>9. Hangs(q, f.task.curr, f.i)
  BY <1>5, <1>8 DEF Hangs
<1>10. PICK g \in Frame : g = [f EXCEPT !.pc = "reread"]
  BY DEF Frame, Labels
<1>11. SetFrame(t, g)
  BY <1>2, <1>10 DEF GiveChild, GoTo
<1>12. /\ SamePlace(f, g) /\ g.back = f.back /\ g.opid = f.opid /\ g.pc = "reread"
       /\ g.n = f.n /\ g.task = f.task /\ g.i = f.i
  BY <1>10 DEF Frame, SamePlace
<1>13. AdoptInv(g)
  BY <1>3, <1>12 DEF AdoptInv, AdoptLabels
<1>14. Good(f, g, d)
  BY <1>1, <1>2, <1>12, <1>13, AdoptingOn DEF AdoptLabels
<1>15. child[f.task.curr][f.i].n # Null => q.n # Null
  BY <1>5, <1>8
<1> QED
  BY <1>1, <1>2, <1>3, <1>4, <1>7, <1>9, <1>11, <1>14, <1>15, SlotStep

LEMMA RereadChildStep ==
  ASSUME IInv, NEW t \in Thread, RereadChild(t) PROVE IInv'
<1>1. At(t, "reread") /\ UNCHANGED <<heap, ops, status, pstatus, stack>>
  BY DEF RereadChild
<1>2. PICK f \in Frame, d \in Desc : f = Fr(t) /\ d = Top(t)
  BY <1>1, InOpFacts DEF OpLabels, AdoptLabels
<1>3. AdoptInv(f) /\ f.pc = "reread" /\ Busy(t)
  BY <1>1, <1>2, InOpFacts DEF OpLabels, AdoptLabels
<1>4. f.task.curr \in Node /\ f.i \in Dim
  BY <1>1, <1>2, AdoptFacts DEF AdoptLabels
<1>5. PICK c \in Ptr : c = child[f.task.curr][f.i] /\ Hangs(c, f.task.curr, f.i)
  BY <1>4, SlotFacts
<1>6. PICK v \in Ptr : v = [c EXCEPT !.adp = FALSE]
  BY DEF Ptr
<1>7. v.n = c.n /\ v.del = c.del /\ ~v.adp
  BY <1>6 DEF Ptr
<1>8. Hangs(v, f.task.curr, f.i)
  BY <1>5, <1>7 DEF Hangs
<1>9. SetFrame(t, IF v = To(Null) THEN NextGiven(f)
                  ELSE [f EXCEPT !.pc = "copy", !.value = v])
  BY <1>2, <1>5, <1>6 DEF RereadChild
<1>10. CASE v = To(Null)
  <2>1. NextGiven(f) \in Frame
    BY <1>1, <1>2, NextGivenType DEF AdoptLabels
  <2>2. Good(f, NextGiven(f), d)
    BY <1>1, <1>2, <2>1, NextGivenFacts DEF AdoptLabels
  <2> QED
    BY <1>1, <1>2, <1>3, <1>9, <1>10, <2>2, GoodStep
<1>11. CASE v # To(Null)
  <2>1. v.n # Null
    <3>1. v.n = Null => ~v.del
      BY <1>8 DEF Hangs
    <3> QED
      BY <1>7, <1>11, <3>1 DEF Ptr, To
  <2>2. PICK g \in Frame : g = [f EXCEPT !.pc = "copy", !.value = v]
    BY DEF Frame, Labels
  <2>3. /\ SamePlace(f, g) /\ g.back = f.back /\ g.opid = f.opid /\ g.pc = "copy"
        /\ g.n = f.n /\ g.task = f.task /\ g.i = f.i /\ g.value = v
    BY <2>2 DEF Frame, SamePlace
  <2>4. AdoptInv(g)
    BY <1>3, <1>8, <2>1, <2>3 DEF AdoptInv, AdoptLabels
  <2>5. Good(f, g, d)
    BY <1>1, <1>2, <2>3, <2>4, AdoptingOn DEF AdoptLabels
  <2>6. SetFrame(t, g)
    BY <1>9, <1>11, <2>2
  <2> QED
    BY <1>1, <1>2, <1>3, <2>5, <2>6, GoodStep
<1> QED
  BY <1>10, <1>11

\* What hangs below the node of the task may hang below the node that adopts.
LEMMA LeadsBelow ==
  ASSUME NEW k \in Keys, NEW l \in Keys, NEW m \in Keys, NEW e \in 0..DIMENSION,
         NEW i \in Dim, i < e, Leads(k, l, e), Below(l, m, i)
  PROVE  Below(k, m, i)
<1>1. ASSUME NEW j \in Dim, j < i PROVE Coord(k, j) = Coord(m, j)
  <2>1. j < e /\ j # DIMENSION - 1
    BY <1>1, Sizes DEF Dim
  <2>2. Coord(k, j) = Coord(l, j)
    BY <2>1 DEF Leads
  <2> QED
    BY <1>1, <2>2 DEF Below, Shares
<1>2. Coord(k, i) \in Nat /\ Coord(l, i) \in Nat /\ Coord(m, i) \in Nat
  BY CoordType
<1>3. Coord(k, i) = Coord(l, i) \/ Coord(k, i) < Coord(l, i)
  BY DEF Leads
<1>4. Coord(l, i) < Coord(m, i)
  BY DEF Below
<1>5. Coord(k, i) < Coord(m, i)
  BY <1>2, <1>3, <1>4
<1> QED
  BY <1>1, <1>5 DEF Below, Shares

LEMMA CopyChildStep ==
  ASSUME IInv, NEW t \in Thread, CopyChild(t) PROVE IInv'
<1>1. At(t, "copy") /\ UNCHANGED <<pending, nd, ndmark, ops, status, pstatus, stack>>
  BY DEF CopyChild
<1>2. PICK f \in Frame, d \in Desc : f = Fr(t) /\ d = Top(t)
  BY <1>1, InOpFacts DEF OpLabels, AdoptLabels
<1>3. AdoptInv(f) /\ f.pc = "copy" /\ Busy(t) /\ TypeOK
  BY <1>1, <1>2, InOpFacts DEF OpLabels, AdoptLabels
<1>4. /\ f.n \in Node /\ Ready(f.n) /\ KeyOf(f.n) \in Keys
      /\ Ready(f.task.curr) /\ KeyOf(f.task.curr) \in Keys
      /\ f.task.dim \in 0..DIMENSION /\ f.i \in Dim /\ f.i < f.task.dim
      /\ Leads(KeyOf(f.n), KeyOf(f.task.curr), f.task.dim)
  BY <1>1, <1>2, AdoptFacts DEF AdoptLabels
<1>5. f.value \in Ptr /\ f.value.n # Null /\ Hangs(f.value, f.task.curr, f.i)
  BY <1>3 DEF AdoptInv, Frame
<1>6. Ready(f.value.n) /\ Below(KeyOf(f.task.curr), KeyOf(f.value.n), f.i)
  BY <1>5 DEF Hangs
<1>7. KeyOf(f.value.n) \in Keys
  BY <1>3, <1>6, KeyOfType
<1>8. Below(KeyOf(f.n), KeyOf(f.value.n), f.i)
  BY <1>4, <1>6, <1>7, LeadsBelow
<1>9. Hangs(f.value, f.n, f.i)
  BY <1>5, <1>6, <1>8 DEF Hangs
<1>10. PICK g \in Frame : g = [NextGiven(f) EXCEPT !.value = To(Null)]
  BY <1>1, <1>2, NextGivenType DEF AdoptLabels
<1>11. Good(f, g, d)
  BY <1>1, <1>2, <1>10, NextGivenFacts DEF AdoptLabels
<1>12. SetFrame(t, g)
  BY <1>2, <1>10 DEF CopyChild
<1>13. CASE CanAdopt(f.n, f.i)
  <2>1. child' = [child EXCEPT ![f.n][f.i] = f.value]
    BY <1>2, <1>13 DEF CopyChild
  <2> QED
    BY <1>1, <1>2, <1>3, <1>4, <1>5, <1>9, <1>11, <1>12, <2>1, SlotStep
<1>14. CASE ~CanAdopt(f.n, f.i)
  <2>1. child' = child
    BY <1>2, <1>14 DEF CopyChild
  <2> QED
    BY <1>1, <1>2, <1>3, <1>11, <1>12, <2>1, GoodStep DEF heap
<1> QED
  BY <1>13, <1>14

LEMMA ClearPendingStep ==
  ASSUME IInv, NEW t \in Thread, ClearPending(t) PROVE IInv'
<1>1. At(t, "clear") /\ UNCHANGED <<child, nd, ndmark, ops, status, pstatus, stack>>
  BY DEF ClearPending
<1>2. PICK f \in Frame, d \in Desc, n \in NodeDesc, k \in Keys :
        f = Fr(t) /\ d = Top(t) /\ n = Mine(t) /\ k = Op(t).key
  BY <1>1, InOpFacts DEF OpLabels, AdoptLabels
<1>3. /\ AdoptInv(f) /\ f.pc = "clear" /\ Busy(t) /\ TypeOK /\ InOp(f) /\ WalkInv(f, k)
      /\ f.opid <= Len(ops[d]) /\ f.opid \in 1..MaxOps /\ k = ops[d][f.opid].key
      /\ KeyOf(n) = k
  BY <1>1, <1>2, InOpFacts DEF OpLabels, AdoptLabels
<1>4. f.n \in Node
  BY <1>1, <1>2, AdoptFacts DEF AdoptLabels
<1>5. f.back \in {"child", "adopt", "done"}
  BY <1>3 DEF AdoptInv, AdoptLabels
<1>6. PICK g \in Frame : g = [f EXCEPT !.n = Null, !.task = NoTask, !.i = 0, !.back = "return"]
  <2>1. 0 \in 0..DIMENSION /\ NoTask \in AdoptDesc
    BY Sizes DEF AdoptDesc
  <2> QED
    BY <2>1 DEF Frame
<1>7. SamePlace(f, g) /\ g.pc = "clear" /\ g.back = "return" /\ g.opid = f.opid
  BY <1>3, <1>6 DEF SamePlace, Frame
<1>8. OwnTask(g) = OwnTask(f)
  BY <1>7 DEF OwnTask, SamePlace
<1>9. PredInv(f, k) /\ PredInv(g, k) /\ f.pred \in Node
  BY <1>3, <1>7, SamePlaceInv DEF WalkInv, PredInv, Frame
<1>10. PICK h : h = CASE f.back = "child" -> [g EXCEPT !.pc = "child"]
                      [] f.back = "adopt" -> Adopting(g, n, OwnTask(f), "done")
                      [] f.back = "done"  -> FinishedAt(f, "INSERT", n)
  OBVIOUS
<1>11. SetFrame(t, h)
  BY <1>2, <1>6, <1>10 DEF ClearPending
<1>12. Good(f, h, d)
  <2>1. CASE f.back = "child"
    <3>1. h = [g EXCEPT !.pc = "child"]
      BY <1>10, <2>1
    <3>2. h \in Frame /\ SamePlace(g, h) /\ h.pc = "child" /\ h.back = "return" /\ h.opid = f.opid
      BY <1>7, <3>1 DEF Frame, Labels, SamePlace
    <3>3. SamePlace(f, h)
      BY <1>7, <3>2 DEF SamePlace
    <3>4. f.curr = f.pred /\ f.dim = f.pred_dim /\ ~Placed(f)
      BY <1>3, <2>1 DEF WalkInv, Passing, Placed
    <3>5. WalkInv(h, k)
      BY <1>9, <3>2, <3>3, <3>4, SamePlaceInv DEF WalkInv, Passing, HasOld, Placed, SamePlace
    <3> QED
      BY <1>3, <3>2, <3>4, <3>5, WalkGood DEF OpLabels, AdoptLabels
  <2>2. CASE f.back = "adopt"
    <3>1. /\ PlaceInv(f, k) /\ Placed(f) /\ f.curr \notin {Null, m_head}
          /\ f.pred_dim < f.dim
      BY <1>3, <2>2 DEF WalkInv, Passing, Placed
    <3>2. f.pred_dim # f.dim
      BY <3>1, Sizes DEF Frame, Dim
    <3>3. Ready(n)
      BY <1>1, <1>2, <3>1, MineReady DEF OpLabels, AdoptLabels
    <3>4. OwnTask(f) \in AdoptDesc /\ OwnTask(f) # NoTask /\ Adopts(n, OwnTask(f))
      BY <1>3, <1>9, <3>1, <3>2, <3>3, OwnTaskFacts DEF Adopts
    <3>5. h = Adopting(g, n, OwnTask(f), "done")
      BY <1>10, <2>2
    <3>6. /\ InOp(g) /\ ~Placed(g) /\ PlaceInv(g, k) /\ g.curr \notin {Null, m_head}
          /\ g.pred_dim < g.dim
      BY <1>7, <3>1, SamePlaceInv DEF InOp, Placed, SamePlace, PersistLabels
    <3>7. n \in Node
      BY NodeType
    <3>8. Good(g, h, d)
      BY <1>3, <1>7, <1>9, <3>4, <3>5, <3>6, <3>7, AdoptingGood
    <3>9. h.back = "done" /\ h.opid = f.opid
      BY <1>7, <3>5 DEF Adopting, Frame
    <3> QED
      BY <1>3, <3>8, <3>9 DEF Good, Onward, Placed
  <2>3. CASE f.back = "done"
    <3>1. h = FinishedAt(f, "INSERT", n) /\ "INSERT" \in OpTypes /\ n \in Node
      BY <1>10, <2>3, NodeType DEF OpTypes
    <3> QED
      BY <1>3, <1>9, <3>1, FinishedAtGood
  <2> QED
    BY <1>5, <2>1, <2>2, <2>3
<1>13. Keeps
  <2>1. /\ \A e \in AllDesc : status[e] # "ACTIVE" => status'[e] # "ACTIVE"
        /\ \A e \in Desc : ops[e] # <<>> => ops'[e] = ops[e]
        /\ \A m \in Node, i \in Dim : Ready(m) /\ child[m][i].n # Null => child'[m][i].n # Null
    BY <1>1
  <2> QED
    BY <1>2, <1>3, <1>11, <1>12, <2>1, OnwardKeeps DEF Good
<1>14. \A m \in Node : pending'[m] = pending[m] \/ pending'[m] = NoTask
  BY <1>2, <1>3, <1>4 DEF ClearPending, TypeOK
<1>15. pending' \in [Node -> AdoptDesc]
  BY <1>2, <1>3, <1>4 DEF ClearPending, TypeOK, AdoptDesc
<1>16. TasksInv'
  <2> SUFFICES ASSUME NEW m \in Node PROVE Adopts(m, pending[m])'
    BY DEF TasksInv
  <2>1. PICK task : task = pending[m]
    OBVIOUS
  <2>2. Adopts(m, task)'
    BY <1>3, <1>13, <2>1, AdoptsStable DEF IInv, TasksInv
  <2>3. pending'[m] = task \/ pending'[m] = NoTask
    BY <1>14, <2>1
  <2> QED
    BY <2>2, <2>3 DEF Adopts
<1>17. HeapInv' /\ child' \in [Node -> [Dim -> Ptr]]
  BY <1>1, <1>3, <1>13, HeapStable DEF IInv, TypeOK
<1> QED
  BY <1>1, <1>2, <1>3, <1>11, <1>12, <1>13, <1>15, <1>16, <1>17, HeapStep

-----------------------------------------------------------------------------
(* The actions: calls, and the end of HelpOps.                             *)

\* A step that leaves some frames as they are.
LEMMA FramesStep ==
  ASSUME IInv, Keeps, TypeOK', PreInv', IdleInv', HeapInv', TasksInv',
         \A u \in Thread, e \in Desc : fr'[u][e] = fr[u][e] \/ FrameInv(fr[u][e], e)'
  PROVE  IInv'
<1>1. TypeOK
  BY DEF IInv
<1>2. ASSUME NEW u \in Thread, NEW e \in Desc PROVE FrameInv(fr[u][e], e)'
  <2>1. CASE fr'[u][e] = fr[u][e]
    <3>1. FrameInv(fr[u][e], e) /\ fr[u][e] \in Frame
      BY <1>1 DEF IInv, FramesInv, TypeOK
    <3>2. PICK g \in Frame : g = fr[u][e]
      BY <3>1
    <3>3. FrameInv(g, e)'
      BY <1>1, <3>1, <3>2, FrameInvStable
    <3>4. fr'[u][e] = g
      BY <2>1, <3>2
    <3> QED
      BY <3>3, <3>4
  <2> QED
    BY <2>1
<1>3. FramesInv'
  BY <1>2 DEF FramesInv
<1> QED
  BY <1>3 DEF IInv

LEMMA ExecuteOpsStep ==
  ASSUME IInv, NEW t \in Thread, ExecuteOps(t) PROVE IInv'
<1>1. TypeOK /\ stack[t] = <<>> /\ UNCHANGED <<heap, status, pstatus, fr>>
  BY DEF IInv, ExecuteOps, Busy
<1>2. PICK d \in Desc, o \in OpArrays :
        ops[d] = <<>> /\ ops' = [ops EXCEPT ![d] = o] /\ stack' = [stack EXCEPT ![t] = <<d>>]
  BY DEF ExecuteOps
<1>3. <<d>> \in Seq(Desc) /\ Contains(<<d>>, d)
  BY DEF Contains
<1>4. TypeOK'
  BY <1>1, <1>2, <1>3 DEF TypeOK, heap
<1>5. \A n \in NodeDesc : n.desc # PreDesc /\ ~Unborn(n) => ~Unborn(n)'
  BY <1>1 DEF Unborn, Placed, InOp
<1>6. Keeps
  BY <1>1, <1>2, <1>5 DEF Keeps, TypeOK, heap
<1>7. PreInv' /\ HeapInv' /\ TasksInv'
  BY <1>1, <1>6, HeapStable, TasksStable DEF IInv, PreInv, heap
<1>8. IdleInv'
  <2> SUFFICES ASSUME NEW u \in Thread, NEW e \in Desc, ~Contains(stack[u], e)'
               PROVE  fr'[u][e] = NewFrame(1)
    BY DEF IdleInv
  <2>1. ~Contains(stack[u], e)
    <3>1. CASE u = t
      BY <1>1, <3>1 DEF Contains
    <3>2. CASE u # t
      BY <1>1, <1>2, <3>2 DEF Contains, TypeOK
    <3> QED
      BY <3>1, <3>2
  <2> QED
    BY <1>1, <2>1 DEF IInv, IdleInv
<1> QED
  BY <1>1, <1>4, <1>6, <1>7, <1>8, FramesStep

\* The descriptor of another transaction whose node is in the way.
LEMMA OldFacts ==
  ASSUME IInv, NEW t \in Thread, NEW p \in {"help", "cycle"}, At(t, p)
  PROVE  LET f == Fr(t)
         IN  /\ f.old \in NodeDesc /\ f.old.desc \in AllDesc /\ f.back = "return"
             /\ ~Placed(f) /\ ~Passing(f) /\ HasOld(f)
<1>1. PICK f \in Frame : f = Fr(t)
  BY InOpFacts DEF OpLabels
<1>2. f.pc = p /\ WalkInv(f, Op(t).key) /\ f.back = "return"
  BY <1>1, InOpFacts DEF OpLabels, AdoptLabels
<1>3. HasOld(f) /\ ~Placed(f) /\ ~Passing(f)
  BY <1>2 DEF HasOld, Placed, Passing
<1>4. f.old \in NodeDesc
  BY <1>2, <1>3 DEF WalkInv, Frame
<1> QED
  BY <1>1, <1>2, <1>3, <1>4, NodeDescType

\* The frame goes on with the node that it has read.
LEMMA OldGood ==
  ASSUME NEW f \in Frame, NEW g \in Frame, NEW d, NEW k, WalkInv(f, k), HasOld(f), InOp(f),
         f.pc # "adopt" /\ (f.back = "return" \/ (f.back = "exist" /\ f.pc \in {"claim", "persist"})),
         SamePlace(f, g), g.old = f.old, g.opid = f.opid,
         g.opid <= Len(ops[d]), k = ops[d][g.opid].key,
         \/ g.back = "return" /\ g.pc \in {"help", "cycle", "exist"}
         \/ g.back = "exist" /\ g.pc \in {"claim", "persist"}
  PROVE  Good(f, g, d)
<1>1. ~Placed(f) /\ ~Placed(g) /\ ~Passing(g) /\ HasOld(g) /\ InOp(g)
  BY DEF Placed, Passing, HasOld, InOp, PersistLabels
<1>2. ~Passing(f)
  BY DEF Passing, HasOld
<1>3. PredInv(g, k) /\ PlaceInv(g, k)
  BY <1>2, SamePlaceInv DEF WalkInv
<1>4. g.curr # Null /\ g.dim = DIMENSION /\ g.curr # m_head /\ g.old # Null
  BY DEF WalkInv, SamePlace
<1>5. WalkInv(g, k)
  BY <1>1, <1>3, <1>4 DEF WalkInv
<1>6. AdoptInv(g) /\ EndInv(g, d)
  BY DEF AdoptInv, EndInv, AdoptLabels, PersistLabels
<1> QED
  BY <1>1, <1>5, <1>6 DEF Good, FrameInv, Onward

\* HelpOps is called for the descriptor e of the node in the way.
LEMMA HelpCallStep ==
  ASSUME IInv, NEW t \in Thread, At(t, "help"), NEW c \in NodeDesc, c = Fr(t).old,
         NEW e, e = c.desc, e # PreDesc, ~Contains(stack[t], e),
         stack' = [stack EXCEPT ![t] = Append(@, e)],
         fr' = [fr EXCEPT ![t] = [@ EXCEPT ![Top(t)].pc = "exist",
                                           ![e] = NewFrame(c.opid + 1)]],
         UNCHANGED <<heap, ops, status, pstatus>>
  PROVE  IInv'
<1>1. PICK f \in Frame, d \in Desc : f = Fr(t) /\ d = Top(t)
  BY InOpFacts DEF OpLabels
<1>2. /\ f.pc = "help" /\ Busy(t) /\ TypeOK /\ InOp(f) /\ WalkInv(f, Op(t).key)
      /\ f.opid <= Len(ops[d]) /\ Op(t) = ops[d][f.opid] /\ f.back = "return"
      /\ fr[t][d] = f
  <2>1. fr[t][d] = f
    BY <1>1 DEF Fr
  <2> QED
    BY <1>1, <2>1, InOpFacts DEF OpLabels, AdoptLabels
<1>3. HasOld(f) /\ ~Placed(f)
  BY <1>1, OldFacts
<1>4. e \in Desc /\ c.opid \in 1..MaxOps /\ e # d
  BY <1>1, <1>2, NodeDescType, TopInStack
<1>5. PICK g \in Frame : g = [f EXCEPT !.pc = "exist"]
  BY ZenonT(30) DEF Frame, Labels
<1>6. SamePlace(f, g) /\ g.old = f.old /\ g.opid = f.opid /\ g.back = "return" /\ g.pc = "exist"
  BY <1>2, <1>5 DEF SamePlace, Frame
<1>7. Good(f, g, d)
  BY <1>2, <1>3, <1>6, OldGood
<1>8. c.opid + 1 \in 1..(MaxOps + 1)
  BY <1>4, ConstantsAssumption
<1>9. PICK h \in Frame : /\ h = NewFrame(c.opid + 1) /\ h.pc = "loop" /\ h.back = "return"
                         /\ h.opid = c.opid + 1 /\ h.curr = m_head /\ h.dim = 0
  BY <1>8, NewFrameType
<1>10. FrameInv(h, e) /\ ~InOp(h) /\ ~Placed(h)
  BY <1>9, LooseInv DEF Placed
<1>11. PICK old \in [Desc -> Frame] : old = fr[t]
  BY <1>2 DEF TypeOK
<1>12. fr' = [fr EXCEPT ![t] = [[old EXCEPT ![d] = g] EXCEPT ![e] = h]]
  <2>1. [old EXCEPT ![d].pc = "exist", ![e] = NewFrame(c.opid + 1)]
          = [[old EXCEPT ![d] = g] EXCEPT ![e] = h]
    BY <1>2, <1>4, <1>5, <1>9, <1>11
  <2>2. fr' = [fr EXCEPT ![t] = [old EXCEPT ![d].pc = "exist", ![e] = NewFrame(c.opid + 1)]]
    BY <1>1, <1>11
  <2> QED
    BY <2>1, <2>2
<1>13. PICK mid \in [Desc -> Frame] : mid = [[old EXCEPT ![d] = g] EXCEPT ![e] = h]
  OBVIOUS
<1>14. /\ mid[d] = g /\ mid[e] = h
       /\ \A x \in Desc : x # d /\ x # e => mid[x] = fr[t][x]
  BY <1>4, <1>11, <1>13
<1>15. fr' = [fr EXCEPT ![t] = mid]
  BY <1>12, <1>13
<1>16. /\ fr' \in [Thread -> [Desc -> Frame]]
       /\ fr'[t][d] = g /\ fr'[t][e] = h
       /\ \A u \in Thread, x \in Desc : u # t \/ (x # d /\ x # e) => fr'[u][x] = fr[u][x]
  BY <1>2, <1>14, <1>15, ZenonT(30) DEF TypeOK
<1>17. /\ stack[t] \in Seq(Desc) /\ stack' \in [Thread -> Seq(Desc)]
       /\ stack'[t] = Append(stack[t], e)
       /\ \A u \in Thread : u # t => stack'[u] = stack[u]
  BY <1>2, <1>4 DEF TypeOK
<1>18. TypeOK'
  BY <1>2, <1>16, <1>17 DEF TypeOK, heap
<1>19. fr[t][e] = NewFrame(1) /\ 1 \in 1..(MaxOps + 1)
  BY <1>4, ConstantsAssumption DEF IInv, IdleInv
<1>20. fr[t][e].opid = 1 /\ ~Placed(fr[t][e])
  BY <1>19, NewFrameType DEF Placed
<1>21. ASSUME NEW n \in NodeDesc, n.desc # PreDesc, ~Unborn(n) PROVE ~Unborn(n)'
  <2>1. n.by \in Thread /\ n.desc \in Desc /\ n.opid \in 1..MaxOps
    BY <1>21, NodeDescType
  <2>2. CASE n.by = t /\ n.desc = d
    <3>1. fr'[n.by][n.desc] = g /\ fr[n.by][n.desc] = f
      BY <1>2, <1>16, <2>2
    <3>2. ~Placed(g) /\ InOp(g)
      BY <1>6 DEF Placed, InOp, PersistLabels
    <3> QED
      BY <1>2, <1>3, <1>6, <1>21, <3>1, <3>2 DEF Unborn
  <2>3. CASE n.by = t /\ n.desc = e
    <3>1. n.opid > 1 \/ n.opid = 1
      BY <2>1, ConstantsAssumption
    <3>2. status[n.desc] # "ACTIVE"
      BY <1>20, <1>21, <2>3, <3>1 DEF Unborn
    <3>3. fr'[n.by][n.desc] = h
      BY <1>16, <2>3
    <3> QED
      BY <1>10, <3>2, <3>3 DEF Unborn
  <2>4. CASE ~(n.by = t /\ n.desc \in {d, e})
    <3>1. fr'[n.by][n.desc] = fr[n.by][n.desc]
      BY <1>16, <2>1, <2>4
    <3> QED
      BY <1>21, <3>1 DEF Unborn
  <2> QED
    BY <2>2, <2>3, <2>4
<1>22. Keeps
  BY <1>2, <1>21 DEF Keeps, heap
<1>23. PreInv' /\ HeapInv' /\ TasksInv'
  BY <1>2, <1>22, HeapStable, TasksStable DEF IInv, PreInv, heap
<1>24. IdleInv'
  <2> SUFFICES ASSUME NEW u \in Thread, NEW x \in Desc, ~Contains(stack[u], x)'
               PROVE  fr'[u][x] = NewFrame(1)
    BY DEF IdleInv
  <2>1. ~Contains(stack'[u], x)
    BY DEF Contains
  <2>2. CASE u # t
    BY <1>16, <1>17, <2>1, <2>2 DEF IInv, IdleInv
  <2>3. CASE u = t
    <3>1. x # e /\ ~Contains(stack[t], x)
      BY <1>17, <2>1, <2>3 DEF Contains
    <3>2. x # d
      BY <1>1, <1>2, <3>1, TopInStack
    <3> QED
      BY <1>16, <2>3, <3>1, <3>2 DEF IInv, IdleInv
  <2> QED
    BY <2>2, <2>3
<1>25. FrameInv(g, d)' /\ FrameInv(h, e)'
  BY <1>2, <1>4, <1>7, <1>10, <1>22, FrameInvStable DEF Good
<1>26. \A u \in Thread, x \in Desc : fr'[u][x] = fr[u][x] \/ FrameInv(fr[u][x], x)'
  BY <1>16, <1>25
<1> QED
  BY <1>18, <1>22, <1>23, <1>24, <1>26, FramesStep

LEMMA FinishPendingTxnStep ==
  ASSUME IInv, NEW t \in Thread, FinishPendingTxn(t) PROVE IInv'
<1>1. At(t, "help") /\ UNCHANGED <<heap, ops, status, pstatus>>
  BY DEF FinishPendingTxn
<1>2. PICK f \in Frame, d \in Desc : f = Fr(t) /\ d = Top(t)
  BY <1>1, InOpFacts DEF OpLabels
<1>3. /\ f.pc = "help" /\ Busy(t) /\ TypeOK /\ InOp(f) /\ WalkInv(f, Op(t).key)
      /\ f.opid <= Len(ops[d]) /\ Op(t) = ops[d][f.opid] /\ f.back = "return"
  BY <1>1, <1>2, InOpFacts DEF OpLabels, AdoptLabels
<1>4. f.old \in NodeDesc /\ HasOld(f)
  BY <1>1, <1>2, OldFacts
<1>5. PICK c \in NodeDesc, e \in AllDesc : c = f.old /\ e = c.desc
  BY <1>4 DEF NodeDesc, AllDesc
<1>6. CASE UNCHANGED stack /\ (GoTo(t, "exist") \/ GoTo(t, "cycle"))
  <2>1. PICK p \in {"exist", "cycle"} : GoTo(t, p)
    BY <1>6
  <2>2. PICK g \in Frame : g = [f EXCEPT !.pc = p]
    BY ZenonT(30) DEF Frame, Labels
  <2>3. SetFrame(t, g)
    BY <1>2, <2>1, <2>2 DEF GoTo
  <2>4. /\ SamePlace(f, g) /\ g.old = f.old /\ g.opid = f.opid /\ g.back = "return"
        /\ g.pc = p
    BY <1>3, <2>2 DEF SamePlace, Frame
  <2>5. Good(f, g, d)
    BY <1>3, <1>4, <2>4, OldGood
  <2> QED
    BY <1>1, <1>2, <1>3, <1>6, <2>3, <2>5, GoodStep
<1>7. CASE /\ ~(status[e] # "ACTIVE" /\ pstatus[e] = "PERSISTED")
           /\ ~Contains(stack[t], e)
           /\ stack' = [stack EXCEPT ![t] = Append(@, e)]
           /\ fr' = [fr EXCEPT ![t] = [@ EXCEPT ![Top(t)].pc = "exist",
                                                ![e] = NewFrame(c.opid + 1)]]
  <2>1. e # PreDesc
    BY <1>7 DEF IInv, PreInv
  <2> QED
    BY <1>1, <1>2, <1>5, <1>7, <2>1, HelpCallStep
<1> QED
  BY <1>2, <1>5, <1>6, <1>7 DEF FinishPendingTxn

\* A step that changes what the descriptors say.
LEMMA StatusStep ==
  ASSUME IInv, NEW t \in Thread, Busy(t), NEW f \in Frame, SetFrame(t, f),
         Onward(Fr(t), f, Top(t)), FrameInv(f, Top(t))' \/ FrameInv(f, Top(t)),
         UNCHANGED <<heap, ops, stack>>,
         status' \in [AllDesc -> {"ACTIVE", "COMMITTED", "ABORTED"}],
         pstatus' \in [AllDesc -> {"MAYBE", "IN_PROGRESS", "PERSISTED"}],
         \A d \in AllDesc : status[d] # "ACTIVE" => status'[d] # "ACTIVE",
         PreInv'
  PROVE  IInv'
<1>1. TypeOK
  BY DEF IInv
<1>2. Keeps
  BY <1>1, OnwardKeeps DEF heap
<1>3. HeapInv' /\ TasksInv'
  BY <1>1, <1>2, HeapStable, TasksStable DEF IInv, heap
<1>4. FrameInv(f, Top(t))'
  <2>1. CASE FrameInv(f, Top(t))
    <3>1. PICK d \in Desc : d = Top(t)
      BY <1>1, TopInStack
    <3>2. FrameInv(f, d)'
      BY <1>1, <1>2, <2>1, <3>1, FrameInvStable
    <3>3. Top(t)' = d
      BY <3>1 DEF Top
    <3> QED
      BY <3>2, <3>3
  <2> QED
    BY <2>1
<1>5. /\ child' \in [Node -> [Dim -> Ptr]]
      /\ pending' \in [Node -> AdoptDesc]
      /\ nd' \in [NodeDesc -> NodeDesc]
      /\ ndmark' \in [NodeDesc -> BOOLEAN]
      /\ ops' \in [Desc -> OpArrays \union {<<>>}]
  BY <1>1 DEF TypeOK, heap
<1> QED
  BY <1>2, <1>3, <1>4, <1>5, FrameStep

LEMMA CycleAbortStep ==
  ASSUME IInv, NEW t \in Thread, CycleAbort(t) PROVE IInv'
<1>1. At(t, "cycle") /\ UNCHANGED <<heap, ops, pstatus, stack>>
  BY DEF CycleAbort
<1>2. PICK f \in Frame, d \in Desc : f = Fr(t) /\ d = Top(t)
  BY <1>1, InOpFacts DEF OpLabels
<1>3. /\ f.pc = "cycle" /\ Busy(t) /\ TypeOK /\ InOp(f) /\ WalkInv(f, Op(t).key)
      /\ f.opid <= Len(ops[d]) /\ Op(t) = ops[d][f.opid] /\ f.back = "return"
  BY <1>1, <1>2, InOpFacts DEF OpLabels, AdoptLabels
<1>4. f.old \in NodeDesc /\ HasOld(f) /\ f.old.desc \in AllDesc
  BY <1>1, <1>2, OldFacts
<1>5. PICK g \in Frame : g = [f EXCEPT !.pc = "claim", !.back = "exist"]
  BY ZenonT(30) DEF Frame, Labels
<1>6. SetFrame(t, g)
  BY <1>2, <1>5 DEF CycleAbort
<1>7. SamePlace(f, g) /\ g.old = f.old /\ g.opid = f.opid /\ g.back = "exist" /\ g.pc = "claim"
  BY <1>5 DEF SamePlace, Frame
<1>8. Good(f, g, d)
  BY <1>3, <1>4, <1>7, OldGood
<1>9. PICK e \in AllDesc : e = f.old.desc
  BY <1>4
<1>10. status' = [status EXCEPT ![e] = IF @ = "ACTIVE" THEN "ABORTED" ELSE @]
  BY <1>2, <1>9 DEF CycleAbort
<1>11. /\ status' \in [AllDesc -> {"ACTIVE", "COMMITTED", "ABORTED"}]
       /\ \A x \in AllDesc : status[x] # "ACTIVE" => status'[x] = status[x]
  BY <1>3, <1>10 DEF TypeOK
<1>12. PreInv' /\ pstatus' \in [AllDesc -> {"MAYBE", "IN_PROGRESS", "PERSISTED"}]
  BY <1>1, <1>3, <1>11 DEF IInv, PreInv, TypeOK, AllDesc
<1> QED
  BY <1>1, <1>2, <1>3, <1>6, <1>8, <1>11, <1>12, StatusStep DEF Good

\* HelpOps returns: the frame of its descriptor is gone.
LEMMA ReturnStep ==
  ASSUME IInv, NEW t \in Thread, Busy(t), Return(t), status[Top(t)] # "ACTIVE",
         UNCHANGED <<pending, ops, status>>,
         child' \in [Node -> [Dim -> Ptr]],
         nd' \in [NodeDesc -> NodeDesc],
         ndmark' \in [NodeDesc -> BOOLEAN],
         pstatus' \in [AllDesc -> {"MAYBE", "IN_PROGRESS", "PERSISTED"}],
         \A n \in Node, i \in Dim : child[n][i].n # Null => child'[n][i].n # Null,
         PreInv', Keeps => HeapInv'
  PROVE  IInv'
<1>1. TypeOK
  BY DEF IInv
<1>2. PICK d \in Desc : d = Top(t)
  BY <1>1, TopInStack
<1>3. /\ stack[t] \in Seq(Desc) /\ Len(stack[t]) \in Nat \ {0} /\ d = stack[t][Len(stack[t])]
  BY <1>1, <1>2, TopInStack
<1>4. stack' = [stack EXCEPT ![t] = Front(stack[t])]
  BY DEF Return
<1>5. PICK h \in Frame : h = NewFrame(1) /\ h.pc = "loop" /\ h.back = "return"
                         /\ h.curr = m_head /\ h.dim = 0 /\ h.opid = 1
  BY NewFrameType, ConstantsAssumption
<1>6. fr' = [fr EXCEPT ![t][d] = h]
  BY <1>2, <1>5 DEF Return, SetFrame
<1>7. /\ fr' \in [Thread -> [Desc -> Frame]] /\ fr'[t][d] = h
      /\ \A u \in Thread, e \in Desc : u # t \/ e # d => fr'[u][e] = fr[u][e]
  BY <1>1, <1>6 DEF TypeOK
<1>8. /\ Front(stack[t]) \in Seq(Desc)
      /\ \A e : Contains(stack[t], e) => e = d \/ Contains(Front(stack[t]), e)
  <2>1. PICK s \in Seq(Desc) : s = stack[t]
    BY <1>3
  <2>2. Len(s) \in Nat /\ Len(s) > 0 /\ d = s[Len(s)]
    BY <1>3, <2>1
  <2>3. Front(s) = SubSeq(s, 1, Len(s) - 1)
    BY DEF Front
  <2>4. /\ Front(s) \in Seq(Desc) /\ Len(Front(s)) = Len(s) - 1
        /\ \A i \in 1..(Len(s) - 1) : Front(s)[i] = s[i]
    <3>1. PICK n \in Nat : n = Len(s) - 1
      <4>1. Len(s) - 1 \in Nat
        BY ONLY <2>2
      <4> QED
        BY <4>1
    <3>2. n <= Len(s) /\ \A i \in 1..n : s[i] \in Desc
      BY <2>2, <3>1
    <3>3. /\ SubSeq(s, 1, n) \in Seq(Desc)
          /\ Len(SubSeq(s, 1, n)) = IF 1 <= n THEN n - 1 + 1 ELSE 0
          /\ \A i \in 1..(n - 1 + 1) : SubSeq(s, 1, n)[i] = s[1 + i - 1]
      BY <3>2, SubSeqProperties
    <3>4. n - 1 + 1 = n /\ \A i \in 1..n : 1 + i - 1 = i
      OBVIOUS
    <3> QED
      BY <2>3, <3>1, <3>3, <3>4
  <2>5. ASSUME NEW e, NEW i \in 1..Len(s), s[i] = e, e # d PROVE Contains(Front(s), e)
    <3>1. i \in 1..(Len(s) - 1)
      BY <2>2, <2>5
    <3> QED
      BY <2>4, <2>5, <3>1 DEF Contains
  <2>6. \A e : Contains(s, e) => e = d \/ Contains(Front(s), e)
    BY <2>5 DEF Contains
  <2> QED
    BY <2>1, <2>4, <2>6
<1>9. /\ stack' \in [Thread -> Seq(Desc)] /\ stack'[t] = Front(stack[t])
      /\ \A u \in Thread : u # t => stack'[u] = stack[u]
  BY <1>1, <1>4, <1>8 DEF TypeOK
<1>10. TypeOK'
  BY <1>1, <1>7, <1>9 DEF TypeOK
<1>11. FrameInv(h, d) /\ ~InOp(h)
  BY ONLY <1>5, LooseInv
<1>12. ASSUME NEW n \in NodeDesc, n.desc # PreDesc, ~Unborn(n) PROVE ~Unborn(n)'
  <2>1. n.by \in Thread /\ n.desc \in Desc
    BY <1>12, NodeDescType
  <2>2. CASE n.by = t /\ n.desc = d
    <3>1. fr'[n.by][n.desc] = h /\ status'[n.desc] # "ACTIVE"
      BY <1>2, <1>7, <2>2
    <3> QED
      BY <1>11, <3>1 DEF Unborn
  <2>3. CASE ~(n.by = t /\ n.desc = d)
    <3>1. fr'[n.by][n.desc] = fr[n.by][n.desc]
      BY <1>7, <2>1, <2>3
    <3> QED
      BY <1>12, <3>1 DEF Unborn
  <2> QED
    BY <2>2, <2>3
<1>13. Keeps
  BY <1>12 DEF Keeps
<1>14. HeapInv' /\ TasksInv'
  BY <1>1, <1>13, TasksStable DEF IInv
<1>15. IdleInv'
  <2> SUFFICES ASSUME NEW u \in Thread, NEW e \in Desc, ~Contains(stack[u], e)'
               PROVE  fr'[u][e] = NewFrame(1)
    BY DEF IdleInv
  <2>1. ~Contains(stack'[u], e)
    BY DEF Contains
  <2>2. CASE u = t /\ e = d
    BY <1>5, <1>7, <2>2
  <2>3. CASE ~(u = t /\ e = d)
    <3>1. ~Contains(stack[u], e)
      BY <1>8, <1>9, <2>1, <2>3
    <3> QED
      BY <1>7, <2>3, <3>1 DEF IInv, IdleInv
  <2> QED
    BY <2>2, <2>3
<1>16. FrameInv(h, d)'
  BY <1>1, <1>11, <1>13, FrameInvStable
<1>17. \A u \in Thread, e \in Desc : fr'[u][e] = fr[u][e] \/ FrameInv(fr[u][e], e)'
  BY <1>7, <1>16
<1> QED
  BY <1>10, <1>13, <1>14, <1>15, <1>17, FramesStep

\* A frame that persists, or marks what its transaction has deleted.
LEMMA EndGood ==
  ASSUME NEW f \in Frame, NEW g \in Frame, NEW d, f.opid = g.opid, ~Placed(f),
         g.pc \in PersistLabels, g.back = "return",
         g.pc \in {"marknode", "markedge"} => g.todo # <<>>
  PROVE  /\ Onward(f, g, d)
         /\ status[d] # "ACTIVE" => FrameInv(g, d)
BY DEF Onward, InOp, FrameInv, AdoptInv, EndInv, PersistLabels, AdoptLabels

LEMMA EndFacts ==
  ASSUME IInv, NEW t \in Thread, NEW p \in PersistLabels, At(t, p)
  PROVE  /\ Busy(t) /\ TypeOK /\ Top(t) \in Desc /\ Fr(t) \in Frame /\ Fr(t).pc = p
         /\ ~Placed(Fr(t))
         /\ \/ Fr(t).back = "return" /\ status[Top(t)] # "ACTIVE"
            \/ Fr(t).back = "exist" /\ p \in {"claim", "persist"}
         /\ p \in {"marknode", "markedge"} => Fr(t).todo # <<>>
         /\ Fr(t).back = "exist" =>
              /\ InOp(Fr(t)) /\ HasOld(Fr(t)) /\ Fr(t).opid <= Len(ops[Top(t)])
              /\ WalkInv(Fr(t), ops[Top(t)][Fr(t).opid].key)
              /\ Fr(t).old \in NodeDesc /\ Fr(t).old.desc \in AllDesc
<1>1. PICK f \in Frame, d \in Desc : f = Fr(t) /\ d = Top(t)
  BY Running DEF At
<1>2. Busy(t) /\ f.pc = p /\ TypeOK /\ FrameInv(f, d)
  BY <1>1, Running DEF At
<1>3. f.back \in {"return", "exist"}
  BY <1>2 DEF FrameInv, AdoptInv, AdoptLabels, PersistLabels, Frame
<1>4. ~Placed(f)
  BY <1>2, <1>3 DEF Placed, PersistLabels
<1>5. /\ f.back = "return" => status[d] # "ACTIVE"
      /\ f.back = "exist" => p \in {"claim", "persist"}
      /\ p \in {"marknode", "markedge"} => f.todo # <<>>
  BY <1>2 DEF FrameInv, EndInv
<1>6. ASSUME f.back = "exist"
      PROVE  /\ InOp(f) /\ HasOld(f) /\ f.opid <= Len(ops[d])
             /\ WalkInv(f, ops[d][f.opid].key)
             /\ f.old \in NodeDesc /\ f.old.desc \in AllDesc
  <2>1. InOp(f) /\ HasOld(f)
    BY <1>6 DEF InOp, HasOld
  <2>2. f.opid <= Len(ops[d]) /\ WalkInv(f, ops[d][f.opid].key)
    BY <1>2, <2>1 DEF FrameInv
  <2>3. f.old \in NodeDesc
    BY <2>1, <2>2 DEF WalkInv, Frame
  <2> QED
    BY <2>1, <2>2, <2>3, NodeDescType
<1> QED
  BY <1>1, <1>2, <1>3, <1>4, <1>5, <1>6

LEMMA DecideTxnStep ==
  ASSUME IInv, NEW t \in Thread, DecideTxn(t) PROVE IInv'
<1>1. Busy(t) /\ Fr(t).pc = "decide" /\ UNCHANGED <<heap, ops, pstatus>>
  BY DEF DecideTxn, At
<1>2. PICK f \in Frame, d \in Desc : f = Fr(t) /\ d = Top(t)
  BY <1>1, Running
<1>3. f.pc = "decide" /\ TypeOK /\ FrameInv(f, d)
  BY <1>1, <1>2, Running
<1>4. f.back = "return" /\ ~Placed(f)
  BY <1>3 DEF FrameInv, AdoptInv, EndInv, AdoptLabels, Placed, Frame
<1>5. CASE status[d] = "ACTIVE"
  <2>1. PICK g : g = [f EXCEPT !.pc = "claim", !.todo = ToMark(f), !.ins = <<>>, !.del = <<>>]
    OBVIOUS
  <2>2. ToMark(f) \in Seq(Done) /\ <<>> \in Seq(Done)
    BY DEF ToMark, Frame
  <2>3. g \in Frame /\ g.pc = "claim" /\ g.back = "return" /\ g.opid = f.opid
    BY <1>4, <2>1, <2>2 DEF Frame, Labels
  <2>4. /\ SetFrame(t, g) /\ UNCHANGED stack
        /\ status' = [status EXCEPT ![d] = Verdict(f)]
    BY <1>2, <1>5, <2>1 DEF DecideTxn
  <2>5. Onward(f, g, d)
    BY <1>4, <2>3, EndGood DEF PersistLabels
  <2>6. d \in AllDesc /\ d # PreDesc /\ Verdict(f) \in {"COMMITTED", "ABORTED"}
    BY ConstantsAssumption DEF AllDesc, Verdict
  <2>7. /\ status' \in [AllDesc -> {"ACTIVE", "COMMITTED", "ABORTED"}]
        /\ status'[d] # "ACTIVE" /\ status'[PreDesc] = status[PreDesc]
        /\ \A e \in AllDesc : status[e] # "ACTIVE" => status'[e] # "ACTIVE"
    BY <1>3, <2>4, <2>6 DEF TypeOK, AllDesc
  <2>8. FrameInv(g, Top(t))'
    <3>1. FrameInv(g, d)'
      BY <2>3, <2>7
         DEF FrameInv, InOp, AdoptInv, EndInv, PersistLabels, AdoptLabels
    <3>2. Top(t)' = d
      BY <1>2, <2>4 DEF Top
    <3> QED
      BY <3>1, <3>2
  <2>9. PreInv'
    BY <1>1, <2>7 DEF IInv, PreInv
  <2>10. pstatus' \in [AllDesc -> {"MAYBE", "IN_PROGRESS", "PERSISTED"}]
    BY <1>1, <1>3 DEF TypeOK
  <2> QED
    BY <1>1, <1>2, <2>3, <2>4, <2>5, <2>7, <2>8, <2>9, <2>10, StatusStep
<1>6. CASE status[d] # "ACTIVE"
  <2>1. Return(t) /\ UNCHANGED status
    BY <1>2, <1>6 DEF DecideTxn
  <2>2. PreInv'
    BY <1>1, <2>1 DEF IInv, PreInv
  <2>3. Keeps => HeapInv'
    BY <1>1, <1>3, HeapStable DEF IInv, heap
  <2> QED
    BY <1>1, <1>2, <1>3, <1>6, <2>1, <2>2, <2>3, ReturnStep DEF TypeOK, heap
<1> QED
  BY <1>5, <1>6

\* MarkForDeletion goes on with todo.
LEMMA MarkingStep ==
  ASSUME IInv, NEW t \in Thread, NEW p \in PersistLabels, At(t, p), Fr(t).back = "return",
         NEW todo \in Seq(Done), Marking(t, todo),
         UNCHANGED <<pending, ops, status>>,
         child' \in [Node -> [Dim -> Ptr]],
         nd' \in [NodeDesc -> NodeDesc],
         ndmark' \in [NodeDesc -> BOOLEAN],
         pstatus' \in [AllDesc -> {"MAYBE", "IN_PROGRESS", "PERSISTED"}],
         \A n \in Node, i \in Dim : child[n][i].n # Null => child'[n][i].n # Null,
         PreInv', Keeps => HeapInv'
  PROVE  IInv'
<1>1. PICK f \in Frame, d \in Desc : f = Fr(t) /\ d = Top(t)
  BY EndFacts
<1>2. Busy(t) /\ TypeOK /\ status[d] # "ACTIVE" /\ ~Placed(f)
  BY <1>1, EndFacts
<1>3. CASE todo = <<>>
  <2>1. Return(t)
    BY <1>3 DEF Marking
  <2> QED
    BY <1>1, <1>2, <2>1, ReturnStep
<1>4. CASE todo # <<>>
  <2>1. PICK g : g = [f EXCEPT !.pc = "marknode", !.todo = todo]
    OBVIOUS
  <2>2. /\ g \in Frame /\ g.pc = "marknode" /\ g.back = f.back /\ g.opid = f.opid
        /\ g.todo = todo
    BY <2>1 DEF Frame, Labels
  <2>3. SetFrame(t, g) /\ UNCHANGED stack
    BY <1>1, <1>4, <2>1 DEF Marking
  <2>4. Onward(f, g, d) /\ FrameInv(g, d)
    BY <1>1, <1>2, <1>4, <2>2, EndGood DEF PersistLabels
  <2>5. Keeps
    BY <1>1, <1>2, <2>2, <2>3, <2>4, OnwardKeeps
  <2>6. HeapInv' /\ TasksInv'
    BY <1>2, <2>5, TasksStable DEF IInv
  <2>7. FrameInv(g, Top(t))'
    <3>1. FrameInv(g, d)'
      BY <1>2, <2>2, <2>4, <2>5, FrameInvStable
    <3>2. Top(t)' = d
      BY <1>1, <2>3 DEF Top
    <3> QED
      BY <3>1, <3>2
  <2>8. /\ pending' \in [Node -> AdoptDesc]
        /\ ops' \in [Desc -> OpArrays \union {<<>>}]
        /\ status' \in [AllDesc -> {"ACTIVE", "COMMITTED", "ABORTED"}]
    BY <1>2 DEF TypeOK
  <2> QED
    BY <1>2, <2>2, <2>3, <2>5, <2>6, <2>7, <2>8, FrameStep
<1> QED
  BY <1>3, <1>4

\* persistDesc returns to the cyclic dependency check, or to HelpOps.
LEMMA EndPersistStep ==
  ASSUME IInv, NEW t \in Thread, NEW p \in {"claim", "persist"}, At(t, p), EndPersist(t),
         UNCHANGED <<heap, ops, status>>, PreInv',
         pstatus' \in [AllDesc -> {"MAYBE", "IN_PROGRESS", "PERSISTED"}]
  PROVE  IInv'
<1>1. PICK f \in Frame, d \in Desc : f = Fr(t) /\ d = Top(t)
  BY EndFacts DEF PersistLabels
<1>2. Busy(t) /\ TypeOK /\ ~Placed(f) /\ f.pc = p
  BY <1>1, EndFacts DEF PersistLabels
<1>3. CASE f.back = "exist"
  <2>1. /\ InOp(f) /\ HasOld(f) /\ f.opid <= Len(ops[d]) /\ WalkInv(f, ops[d][f.opid].key)
    BY <1>1, <1>3, EndFacts DEF PersistLabels
  <2>2. PICK g : g = [f EXCEPT !.pc = "exist", !.back = "return"]
    OBVIOUS
  <2>3. /\ g \in Frame /\ SamePlace(f, g) /\ g.old = f.old /\ g.opid = f.opid
        /\ g.back = "return" /\ g.pc = "exist"
    BY <2>2 DEF Frame, Labels, SamePlace
  <2>4. Good(f, g, d)
    BY <1>2, <1>3, <2>1, <2>3, OldGood
  <2>5. SetFrame(t, g) /\ UNCHANGED stack
    BY <1>1, <1>3, <2>2 DEF EndPersist
  <2>6. status' \in [AllDesc -> {"ACTIVE", "COMMITTED", "ABORTED"}]
    BY <1>2 DEF TypeOK
  <2> QED
    BY <1>1, <1>2, <2>3, <2>4, <2>5, <2>6, StatusStep DEF Good
<1>4. CASE f.back # "exist"
  <2>1. f.back = "return" /\ f.todo \in Seq(Done)
    BY <1>1, <1>4, EndFacts DEF PersistLabels, Frame
  <2>2. Marking(t, f.todo)
    BY <1>1, <1>4 DEF EndPersist
  <2>3. Keeps => HeapInv'
    BY <1>2, HeapStable DEF IInv, heap
  <2>4. /\ child' \in [Node -> [Dim -> Ptr]]
        /\ nd' \in [NodeDesc -> NodeDesc]
        /\ ndmark' \in [NodeDesc -> BOOLEAN]
    BY <1>2 DEF TypeOK, heap
  <2>5. /\ \A n \in Node, i \in Dim : child[n][i].n # Null => child'[n][i].n # Null
        /\ UNCHANGED <<pending, ops, status>>
    BY DEF heap
  <2>6. p \in PersistLabels
    BY DEF PersistLabels
  <2> QED
    BY <1>1, <2>1, <2>2, <2>3, <2>4, <2>5, <2>6, MarkingStep
<1> QED
  BY <1>3, <1>4

LEMMA PersistTargetType ==
  ASSUME IInv, NEW t \in Thread, NEW p \in {"claim", "persist"}, At(t, p)
  PROVE  PersistTarget(t) \in AllDesc
BY EndFacts DEF PersistTarget, PersistLabels, AllDesc

LEMMA PersistClaimStep ==
  ASSUME IInv, NEW t \in Thread, PersistClaim(t) PROVE IInv'
<1>1. At(t, "claim") /\ UNCHANGED <<heap, ops, status>>
  BY DEF PersistClaim
<1>2. PICK f \in Frame, d \in Desc : f = Fr(t) /\ d = Top(t)
  BY <1>1, EndFacts DEF PersistLabels
<1>3. Busy(t) /\ TypeOK /\ ~Placed(f) /\ f.pc = "claim"
  BY <1>1, <1>2, EndFacts DEF PersistLabels
<1>4. PICK e \in AllDesc : e = PersistTarget(t)
  BY <1>1, PersistTargetType
<1>5. CASE pstatus[e] = "PERSISTED"
  <2>1. EndPersist(t) /\ UNCHANGED pstatus
    BY <1>4, <1>5 DEF PersistClaim
  <2>2. PreInv' /\ pstatus' \in [AllDesc -> {"MAYBE", "IN_PROGRESS", "PERSISTED"}]
    BY <1>1, <1>3, <2>1 DEF IInv, PreInv, TypeOK
  <2> QED
    BY <1>1, <2>1, <2>2, EndPersistStep
<1>6. CASE pstatus[e] # "PERSISTED"
  <2>1. /\ GoTo(t, "persist") /\ UNCHANGED stack
        /\ pstatus' = [pstatus EXCEPT ![e] = "IN_PROGRESS"]
    BY <1>4, <1>6 DEF PersistClaim
  <2>2. e # PreDesc
    BY <1>6 DEF IInv, PreInv
  <2>3. /\ PreInv' /\ pstatus' \in [AllDesc -> {"MAYBE", "IN_PROGRESS", "PERSISTED"}]
        /\ status' \in [AllDesc -> {"ACTIVE", "COMMITTED", "ABORTED"}]
    BY <1>1, <1>3, <2>1, <2>2 DEF IInv, PreInv, TypeOK, AllDesc
  <2>4. PICK g : g = [f EXCEPT !.pc = "persist"]
    OBVIOUS
  <2>5. /\ g \in Frame /\ SamePlace(f, g) /\ g.old = f.old /\ g.opid = f.opid
        /\ g.back = f.back /\ g.pc = "persist"
    BY <2>4 DEF Frame, Labels, SamePlace
  <2>6. SetFrame(t, g)
    BY <1>2, <2>1, <2>4 DEF GoTo
  <2>7. Good(f, g, d)
    <3>1. CASE f.back = "exist"
      <4>1. /\ InOp(f) /\ HasOld(f) /\ f.opid <= Len(ops[d])
            /\ WalkInv(f, ops[d][f.opid].key)
        BY <1>1, <1>2, <3>1, EndFacts DEF PersistLabels
      <4> QED
        BY <1>3, <2>5, <3>1, <4>1, OldGood
    <3>2. CASE f.back # "exist"
      <4>1. f.back = "return" /\ status[d] # "ACTIVE"
        BY <1>1, <1>2, <3>2, EndFacts DEF PersistLabels
      <4> QED
        BY <1>3, <2>5, <4>1, EndGood DEF Good, PersistLabels
    <3> QED
      BY <3>1, <3>2
  <2> QED
    BY <1>1, <1>2, <1>3, <2>1, <2>3, <2>5, <2>6, <2>7, StatusStep DEF Good
<1> QED
  BY <1>5, <1>6

LEMMA persistDescStep ==
  ASSUME IInv, NEW t \in Thread, persistDesc(t) PROVE IInv'
<1>1. At(t, "persist") /\ UNCHANGED <<heap, ops, status>> /\ EndPersist(t)
  BY DEF persistDesc
<1>2. TypeOK
  BY DEF IInv
<1>3. PICK e \in AllDesc : e = PersistTarget(t)
  BY <1>1, PersistTargetType
<1>4. pstatus' = [pstatus EXCEPT ![e] = "PERSISTED"]
  BY <1>3 DEF persistDesc
<1>5. PreInv' /\ pstatus' \in [AllDesc -> {"MAYBE", "IN_PROGRESS", "PERSISTED"}]
  BY <1>1, <1>2, <1>4 DEF IInv, PreInv, TypeOK, AllDesc
<1> QED
  BY <1>1, <1>5, EndPersistStep

\* What MarkForDeletion is at.
LEMMA TodoFacts ==
  ASSUME IInv, NEW t \in Thread, NEW p \in {"marknode", "markedge"}, At(t, p)
  PROVE  /\ Head(Fr(t).todo) \in Done /\ Tail(Fr(t).todo) \in Seq(Done)
         /\ Fr(t).back = "return"
<1>1. PICK f \in Frame : f = Fr(t)
  BY EndFacts DEF PersistLabels
<1>2. f.todo # <<>> /\ f.back = "return"
  BY <1>1, EndFacts DEF PersistLabels
<1>3. PICK s \in Seq(Done) : s = f.todo
  BY DEF Frame
<1>4. Head(s) \in Done /\ Tail(s) \in Seq(Done)
  BY <1>2, <1>3, HeadTailProperties
<1> QED
  BY <1>1, <1>2, <1>3, <1>4

LEMMA MarkNodeStep ==
  ASSUME IInv, NEW t \in Thread, MarkNode(t) PROVE IInv'
<1>1. At(t, "marknode") /\ UNCHANGED <<child, pending, nd, ops, status, pstatus>>
  BY DEF MarkNode
<1>2. PICK f \in Frame, d \in Desc, n \in {Head(Fr(t).todo).n} :
        f = Fr(t) /\ d = Top(t) /\ n = Head(f.todo).n
  BY <1>1, EndFacts DEF PersistLabels
<1>3. /\ Busy(t) /\ TypeOK /\ ~Placed(f) /\ f.pc = "marknode" /\ f.todo # <<>>
      /\ f.back = "return" /\ status[d] # "ACTIVE"
  BY <1>1, <1>2, EndFacts DEF PersistLabels
<1>4. ndmark' \in [NodeDesc -> BOOLEAN] /\ nd' \in [NodeDesc -> NodeDesc]
  BY <1>1, <1>3 DEF MarkNode, TypeOK
<1>5. CASE nd[n].desc = Top(t) /\ ~ndmark[n]
  <2>1. GoTo(t, "markedge") /\ UNCHANGED stack
    BY <1>2, <1>5 DEF MarkNode
  <2>2. PICK g : g = [f EXCEPT !.pc = "markedge"]
    OBVIOUS
  <2>3. /\ g \in Frame /\ g.opid = f.opid /\ g.back = f.back /\ g.pc = "markedge"
        /\ g.todo = f.todo
    BY <2>2 DEF Frame, Labels
  <2>4. SetFrame(t, g)
    BY <1>2, <2>1, <2>2 DEF GoTo
  <2>5. Onward(f, g, d) /\ FrameInv(g, d)
    BY <1>3, <2>3, EndGood DEF PersistLabels
  <2> QED
    BY <1>1, <1>2, <1>3, <1>4, <2>1, <2>3, <2>4, <2>5, LocalStep
<1>6. CASE ~(nd[n].desc = Top(t) /\ ~ndmark[n])
  <2>1. Marking(t, Tail(f.todo)) /\ UNCHANGED ndmark
    BY <1>2, <1>6 DEF MarkNode
  <2>2. Tail(f.todo) \in Seq(Done)
    BY <1>1, <1>2, TodoFacts
  <2>3. PreInv' /\ (Keeps => HeapInv')
    BY <1>1, <1>3, HeapStable DEF IInv, PreInv
  <2>4. /\ child' \in [Node -> [Dim -> Ptr]]
        /\ pstatus' \in [AllDesc -> {"MAYBE", "IN_PROGRESS", "PERSISTED"}]
        /\ \A m \in Node, i \in Dim : child[m][i].n # Null => child'[m][i].n # Null
        /\ UNCHANGED <<pending, ops, status>>
    BY <1>1, <1>3 DEF TypeOK
  <2> QED
    BY <1>1, <1>2, <1>3, <1>4, <2>1, <2>2, <2>3, <2>4, MarkingStep DEF PersistLabels
<1> QED
  BY <1>5, <1>6

LEMMA MarkEdgeStep ==
  ASSUME IInv, NEW t \in Thread, MarkEdge(t) PROVE IInv'
<1>1. At(t, "markedge") /\ UNCHANGED <<pending, nd, ndmark, ops, status, pstatus>>
  BY DEF MarkEdge
<1>2. PICK f \in Frame, x \in Done : f = Fr(t) /\ x = Head(f.todo)
  BY <1>1, EndFacts, TodoFacts DEF PersistLabels
<1>3. TypeOK /\ f.back = "return" /\ Tail(f.todo) \in Seq(Done)
  BY <1>1, <1>2, EndFacts, TodoFacts DEF PersistLabels
<1>4. Marking(t, Tail(f.todo))
  BY <1>2 DEF MarkEdge
<1>5. x.n \in Node /\ x.pred \in Node /\ x.pred_dim \in Dim /\ x.n # Null
  BY NodeType DEF Done
<1>6. /\ child' \in [Node -> [Dim -> Ptr]]
      /\ \A m \in Node, i \in Dim : child[m][i].n # Null => child'[m][i].n # Null
      /\ Keeps => HeapInv'
  <2>1. CASE child[x.pred][x.pred_dim] = To(x.n)
    <3>1. PICK c \in Ptr : c = child[x.pred][x.pred_dim]
      BY <1>5, SlotFacts
    <3>2. c.n = x.n /\ Hangs(c, x.pred, x.pred_dim) /\ Ready(x.pred)
      BY <1>5, <2>1, <3>1, SlotFacts, PtrType
    <3>3. PICK q \in Ptr : q = [c EXCEPT !.del = TRUE]
      BY DEF Ptr
    <3>4. q.n = c.n
      BY <3>3 DEF Ptr
    <3>5. Hangs(q, x.pred, x.pred_dim)
      BY <1>5, <3>2, <3>4 DEF Hangs
    <3>6. child' = [child EXCEPT ![x.pred][x.pred_dim] = q]
      <4>1. child' = [child EXCEPT ![x.pred][x.pred_dim].del = TRUE]
        BY <1>2, <2>1 DEF MarkEdge
      <4> QED
        BY <3>1, <3>3, <4>1
    <3> QED
      BY <1>5, <3>1, <3>2, <3>4, <3>5, <3>6, SlotWritten
  <2>2. CASE child[x.pred][x.pred_dim] # To(x.n)
    <3>1. child' = child
      BY <1>2, <2>2 DEF MarkEdge
    <3> QED
      BY <1>3, <3>1, HeapStable DEF IInv, TypeOK
  <2> QED
    BY <2>1, <2>2
<1>7. /\ PreInv'
      /\ nd' \in [NodeDesc -> NodeDesc]
      /\ ndmark' \in [NodeDesc -> BOOLEAN]
      /\ pstatus' \in [AllDesc -> {"MAYBE", "IN_PROGRESS", "PERSISTED"}]
      /\ UNCHANGED <<pending, ops, status>>
  BY <1>1, <1>3 DEF IInv, PreInv, TypeOK
<1> QED
  BY <1>1, <1>2, <1>3, <1>4, <1>6, <1>7, MarkingStep DEF PersistLabels

-----------------------------------------------------------------------------
(* The list that the prefill has built.                                    *)

\* The largest smaller key.
LEMMA LargestSmaller ==
  ASSUME NEW S \in SUBSET Key, NEW k \in S, NEW b, b = Max({l \in S \union {0} : l < k})
  PROVE  b \in S \union {0} /\ b < k /\ b \in Keys /\ k \in Keys
<1>1. k \in Nat /\ k > 0 /\ S \subseteq Nat /\ S \subseteq Keys /\ 0 \in Keys
  BY Sizes DEF Keys
<1> DEFINE T == {l \in S \union {0} : l < k}
           gaps == {k - l : l \in T}
<1>2. 0 \in T /\ T \subseteq Nat /\ \A l \in T : l < k
  <2>1. 0 \in T
    BY <1>1
  <2>2. \A l \in T : l \in S \union {0} /\ l < k
    OBVIOUS
  <2>3. S \union {0} \subseteq Nat
    BY <1>1
  <2> HIDE DEF T
  <2> QED
    BY ONLY <2>1, <2>2, <2>3
<1>3. gaps \subseteq Nat /\ k - 0 \in gaps
  BY <1>1, <1>2
<1>4. PICK g \in gaps : \A h \in gaps : g <= h
  <2> HIDE DEF gaps
  <2> QED
    BY <1>3, LeastNumber
<1>5. PICK l \in T : g = k - l
  BY <1>4
<1>6. \A m \in T : l >= m
  <2> SUFFICES ASSUME NEW m \in T PROVE l >= m
    OBVIOUS
  <2>1. k - m \in gaps
    OBVIOUS
  <2>2. k - l <= k - m
    BY <1>4, <1>5, <2>1
  <2>3. l \in Nat /\ m \in Nat
    BY <1>2
  <2> QED
    BY <1>1, <2>2, <2>3
<1>7. b = CHOOSE x \in T : \A y \in T : x >= y
  BY DEF Max
<1>8. b \in T
  <2> HIDE DEF T
  <2> QED
    BY <1>6, <1>7
<1> QED
  BY <1>1, <1>8

\* The first key that has the coordinates of b beyond dimension i.
LEMMA FirstWith ==
  ASSUME NEW S \in SUBSET Key, NEW b \in S \union {0}, NEW i \in Dim,
         NEW p, p = Min({l \in S \union {0} : FirstDiff(l, b, 0) > i})
  PROVE  p \in S \union {0} /\ p \in Keys /\ \A j \in Dim : j <= i => Coord(p, j) = Coord(b, j)
<1>1. S \union {0} \subseteq Keys /\ Keys \subseteq Nat /\ b \in Keys /\ 0 \in 0..DIMENSION
  BY Sizes DEF Keys
<1>2. i < DIMENSION /\ i \in Nat
  BY Sizes DEF Dim
<1> DEFINE T == {l \in S \union {0} : FirstDiff(l, b, 0) > i}
<1>3. b \in T
  <2>1. PICK e : e = FirstDiff(b, b, 0)
    OBVIOUS
  <2>2. DiffAt(e, b, b, 0)
    BY <1>1, <2>1, FirstDiffFacts
  <2>3. e = DIMENSION
    BY <2>2, Sizes DEF DiffAt
  <2> QED
    BY <1>2, <2>1, <2>3
<1>4. T \subseteq Nat
  <2>1. \A l \in T : l \in S \union {0}
    OBVIOUS
  <2> HIDE DEF T
  <2> QED
    BY ONLY <1>1, <2>1
<1>5. PICK x \in T : \A y \in T : x <= y
  <2> HIDE DEF T
  <2> QED
    BY <1>3, <1>4, LeastNumber
<1>6. p = CHOOSE z \in T : \A y \in T : z <= y
  BY DEF Min
<1>7. p \in T
  <2> HIDE DEF T
  <2> QED
    BY <1>5, <1>6
<1>8. PICK e : e = FirstDiff(p, b, 0)
  OBVIOUS
<1>9. p \in S \union {0} /\ e > i /\ p \in Keys
  BY <1>1, <1>7, <1>8
<1>10. DiffAt(e, p, b, 0)
  BY <1>1, <1>8, <1>9, FirstDiffFacts
<1>11. ASSUME NEW j \in Dim, j <= i PROVE Coord(p, j) = Coord(b, j)
  <2>1. e \in 0..DIMENSION /\ j < e /\ 0 <= j
    BY <1>2, <1>9, <1>10, <1>11, Sizes DEF DiffAt, Dim
  <2> QED
    BY <1>10, <2>1 DEF DiffAt
<1> QED
  BY <1>9, <1>11

\* What a slot of the prefilled list holds.
LEMMA LinkedFacts ==
  ASSUME NEW S \in SUBSET Key, NEW n \in Node, NEW i \in Dim, NEW p, p = Linked(S)[n][i]
  PROVE  \/ p = Invalid
         \/ p = To(Null)
         \/ \E k \in S : /\ p = To([by |-> Main, desc |-> PreDesc, opid |-> k])
                         /\ (n = m_head \/ (n.desc = PreDesc /\ n.opid \in S))
                         /\ Below(KeyOf(n), k, i)
<1> DEFINE at(k) == IF k = 0 THEN m_head ELSE [by |-> Main, desc |-> PreDesc, opid |-> k]
           below(k) == Max({l \in S \union {0} : l < k})
           dim(k) == FirstDiff(k, below(k), 0)
           parent(k) == Min({l \in S \union {0} : FirstDiff(l, below(k), 0) > dim(k)})
           C == {k \in S : dim(k) = i /\ parent(k) = KeyOf(n)}
           slot == IF n = m_head \/ (n.desc = PreDesc /\ n.opid \in S)
                   THEN IF n # m_head /\ i < dim(n.opid) THEN Invalid
                        ELSE To(IF C = {} THEN Null ELSE at(CHOOSE k \in C : TRUE))
                   ELSE To(Null)
<1>1. p = slot
  BY DEF Linked
<1>2. CASE /\ (n = m_head \/ (n.desc = PreDesc /\ n.opid \in S))
           /\ ~(n # m_head /\ i < dim(n.opid)) /\ C # {}
  <2>1. PICK k : k = CHOOSE x \in C : TRUE
    OBVIOUS
  <2>2. k \in C
    <3> HIDE DEF C
    <3> QED
      BY <1>2, <2>1
  <2>3. PICK b : b = below(k)
    OBVIOUS
  <2>4. k \in S /\ FirstDiff(k, b, 0) = i /\ KeyOf(n) = parent(k)
    BY <2>2, <2>3
  <2>5. KeyOf(n) = Min({l \in S \union {0} : FirstDiff(l, b, 0) > i})
    BY <2>3, <2>4
  <2>6. p = To(at(k))
    BY <1>1, <1>2, <2>1
  <2> HIDE DEF below, dim, parent, C, slot
  <2>7. b \in S \union {0} /\ b < k /\ b \in Keys /\ k \in Keys
    BY <2>3, <2>4, LargestSmaller DEF below
  <2>8. KeyOf(n) \in Keys /\ \A j \in Dim : j <= i => Coord(KeyOf(n), j) = Coord(b, j)
    <3>1. PICK q : q = KeyOf(n)
      OBVIOUS
    <3>2. q = Min({l \in S \union {0} : FirstDiff(l, b, 0) > i})
      BY <2>5, <3>1
    <3>3. q \in Keys /\ \A j \in Dim : j <= i => Coord(q, j) = Coord(b, j)
      BY ONLY <2>7, <3>2, FirstWith, S \in SUBSET Key, i \in Dim
    <3> QED
      BY <3>1, <3>3
  <2>9. i \in Nat /\ i < DIMENSION /\ 0 \in 0..DIMENSION /\ DIMENSION \in Nat
    BY Sizes DEF Dim
  <2>10. DiffAt(i, k, b, 0)
    BY <2>4, <2>7, <2>9, FirstDiffFacts
  <2>11. \A j \in Dim : j < i => Coord(b, j) = Coord(k, j)
    BY <2>10 DEF DiffAt, Dim
  <2>12. Shares(b, k, i) /\ Coord(b, i) # Coord(k, i)
    BY <2>9, <2>10, <2>11 DEF DiffAt, Shares
  <2>13. Below(b, k, i)
    BY <2>7, <2>12, SmallerKey
  <2>14. Below(KeyOf(n), k, i)
    <3>1. \A j \in Dim : j < i => Coord(KeyOf(n), j) = Coord(k, j)
      BY <2>8, <2>9, <2>11 DEF Dim
    <3>2. Coord(KeyOf(n), i) < Coord(k, i)
      BY <2>8, <2>9, <2>13 DEF Below
    <3> QED
      BY <3>1, <3>2 DEF Below, Shares
  <2>15. at(k) = [by |-> Main, desc |-> PreDesc, opid |-> k]
    BY <2>4, Sizes
  <2> QED
    BY <1>2, <2>4, <2>6, <2>14, <2>15
<1>3. CASE ~(/\ (n = m_head \/ (n.desc = PreDesc /\ n.opid \in S))
             /\ ~(n # m_head /\ i < dim(n.opid)) /\ C # {})
  <2> HIDE DEF C, dim, at
  <2> QED
    BY <1>1, <1>3
<1> QED
  BY <1>2, <1>3

LEMMA InitIInv == Init => IInv
<1> SUFFICES ASSUME Init PROVE IInv
  OBVIOUS
<1>1. PICK S \in SUBSET Key : child = Linked(S)
  BY ConstantsAssumption DEF Init
<1>2. \A n \in Node, i \in Dim :
        /\ child[n][i] \in Ptr
        /\ Hangs(child[n][i], n, i)
        /\ child[n][i].n # Null => Ready(n)
  <2> SUFFICES ASSUME NEW n \in Node, NEW i \in Dim
               PROVE  /\ child[n][i] \in Ptr
                      /\ Hangs(child[n][i], n, i)
                      /\ child[n][i].n # Null => Ready(n)
    OBVIOUS
  <2>1. PICK p : p = child[n][i]
    OBVIOUS
  <2>2. CASE p = Invalid \/ p = To(Null)
    BY <2>1, <2>2, PtrType DEF Hangs
  <2>3. CASE p # Invalid /\ p # To(Null)
    <3>1. PICK k \in S : /\ p = To([by |-> Main, desc |-> PreDesc, opid |-> k])
                         /\ (n = m_head \/ (n.desc = PreDesc /\ n.opid \in S))
                         /\ Below(KeyOf(n), k, i)
      BY <1>1, <2>1, <2>3, LinkedFacts
    <3>2. PICK m \in NodeDesc : m = [by |-> Main, desc |-> PreDesc, opid |-> k]
      BY DEF NodeDesc
    <3>3. p \in Ptr /\ p.n = m /\ m # Null
      BY <3>1, <3>2, PtrType, NodeDescType
    <3>4. Ready(m) /\ KeyOf(m) = k
      BY <3>2, NodeDescType DEF Ready, KeyOf
    <3>5. Ready(n)
      BY <3>1 DEF Ready, Node
    <3> QED
      BY <2>1, <3>1, <3>3, <3>4, <3>5 DEF Hangs
  <2> QED
    BY <2>2, <2>3
<1>3. child \in [Node -> [Dim -> Ptr]]
  <2>1. child = [n \in Node |-> [i \in Dim |-> child[n][i]]]
    BY <1>1 DEF Linked
  <2> QED
    BY <1>2, <2>1
<1>4. HeapInv
  BY <1>2 DEF HeapInv
<1>5. 1 \in 1..(MaxOps + 1)
  BY ConstantsAssumption
<1>6. PICK f \in Frame : /\ f = NewFrame(1) /\ f.pc = "loop" /\ f.back = "return"
                         /\ f.curr = m_head /\ f.dim = 0
  BY <1>5, NewFrameType
<1>7. \A t \in Thread, d \in Desc : fr[t][d] = f
  BY <1>6 DEF Init
<1>8. \A d \in Desc : FrameInv(f, d)
  BY <1>6, LooseInv
<1>9. FramesInv
  BY <1>7, <1>8 DEF FramesInv
<1>10. IdleInv /\ TasksInv
  BY <1>6, <1>7 DEF Init, IdleInv, TasksInv, Adopts
<1>11. PreInv
  BY DEF Init, PreInv, AllDesc
<1>12. TypeOK
  <2>1. fr \in [Thread -> [Desc -> Frame]]
    BY <1>6 DEF Init
  <2>2. NoTask \in AdoptDesc /\ pending \in [Node -> AdoptDesc]
    BY DEF Init, AdoptDesc
  <2>3. /\ ops \in [Desc -> OpArrays \union {<<>>}]
        /\ nd \in [NodeDesc -> NodeDesc]
        /\ ndmark \in [NodeDesc -> BOOLEAN]
    BY DEF Init
  <2>4. /\ status \in [AllDesc -> {"ACTIVE", "COMMITTED", "ABORTED"}]
        /\ pstatus \in [AllDesc -> {"MAYBE", "IN_PROGRESS", "PERSISTED"}]
    BY DEF Init
  <2>5. stack \in [Thread -> Seq(Desc)]
    BY DEF Init
  <2> QED
    BY <1>3, <2>1, <2>2, <2>3, <2>4, <2>5 DEF TypeOK
<1> QED
  BY <1>4, <1>9, <1>10, <1>11, <1>12 DEF IInv

-----------------------------------------------------------------------------
(* The theorems.                                                           *)

LEMMA StepIInv ==
  ASSUME IInv, NEW t \in Thread, Step(t) PROVE IInv'
BY OpLoopStep, ReadPendingStep, ReadChildStep, GiveChildStep, RereadChildStep,
   CopyChildStep, ClearPendingStep, ReadSlotStep, ReadNodeDescStep, InvalidateStep,
   FinishPendingTxnStep, CycleAbortStep, CheckKeyExistStep, CheckActiveStep,
   UpdateDescStep, InsertAbsentStep, InsertLinkStep, AdoptBelowStep, DecideTxnStep,
   PersistClaimStep, persistDescStep, MarkNodeStep, MarkEdgeStep DEF Step

LEMMA StutterIInv ==
  ASSUME IInv, UNCHANGED vars PROVE IInv'
<1>1. Keeps
  <2>1. \A n \in NodeDesc : Unborn(n)' <=> Unborn(n)
    BY DEF Unborn, Placed, InOp, vars
  <2> QED
    BY <2>1 DEF Keeps, vars
<1>2. TypeOK' /\ PreInv' /\ IdleInv'
  BY DEF IInv, TypeOK, PreInv, IdleInv, vars
<1>3. HeapInv' /\ TasksInv'
  BY <1>1, HeapStable, TasksStable DEF IInv, vars
<1> QED
  BY <1>1, <1>2, <1>3, FramesStep DEF vars

LEMMA NextIInv == IInv /\ [Next]_vars => IInv'
<1> SUFFICES ASSUME IInv, [Next]_vars PROVE IInv'
  OBVIOUS
<1>1. CASE UNCHANGED vars
  BY <1>1, StutterIInv
<1>2. CASE \E t \in Thread : ExecuteOps(t) \/ Step(t)
  BY <1>2, ExecuteOpsStep, StepIInv
<1> QED
  BY <1>1, <1>2 DEF Next, Terminated

LEMMA IInvWellFormed == IInv => WellFormed
<1> SUFFICES ASSUME IInv, NEW n \in Node, NEW i \in Dim, child[n][i].n # Null
             PROVE  /\ FirstDiff(KeyOf(n), KeyOf(child[n][i].n), 0) = i
                    /\ Coord(KeyOf(n), i) < Coord(KeyOf(child[n][i].n), i)
  BY DEF IInv, WellFormed, CoordinatesOrdered
<1>1. PICK k \in Keys, l \in Keys : k = KeyOf(n) /\ l = KeyOf(child[n][i].n)
  BY SlotFacts
<1>2. Below(k, l, i)
  BY <1>1, SlotFacts DEF Hangs
<1>3. PICK e : e = FirstDiff(k, l, 0)
  OBVIOUS
<1>4. DiffAt(e, k, l, 0)
  BY <1>3, FirstDiffFacts, Sizes
<1>5. Coord(k, i) \in Nat /\ Coord(l, i) \in Nat /\ Coord(k, i) < Coord(l, i)
  BY <1>2, CoordType DEF Below
<1>6. i \in Nat /\ i < DIMENSION /\ e \in 0..DIMENSION /\ DIMENSION \in Nat
  BY <1>4, Sizes DEF Dim, DiffAt
<1>7. ~(i < e)
  BY <1>4, <1>5, <1>6 DEF DiffAt
<1>8. ~(e < i)
  <2> SUFFICES ASSUME e < i PROVE FALSE
    OBVIOUS
  <2>1. e \in Dim /\ Coord(k, e) # Coord(l, e)
    BY <1>4, <1>6 DEF DiffAt
  <2> QED
    BY <1>2, <2>1 DEF Below, Shares
<1>9. e = i
  BY <1>6, <1>7, <1>8
<1> QED
  BY <1>1, <1>3, <1>5, <1>9

\* What the locals of every frame say of the nodes that they lead to (TxMdListInv)
\* is an invariant of the list.
THEOREM MdInvariance == Spec => []IInv
BY InitIInv, NextIInv, PTL DEF Spec

\* However insertions split, give away and adopt children, helped or not, the child
\* of a node in dimension i has the node's coordinates before i and a larger one at i.
THEOREM CoordinatesKept == Spec => []WellFormed
BY MdInvariance, IInvWellFormed, PTL

LEMMA BelowLarger ==
  ASSUME NEW k \in Keys, NEW l \in Keys, NEW i \in Dim, Below(k, l, i)
  PROVE  k < l
<1>1. Coord(k, i) \in Nat /\ Coord(l, i) \in Nat /\ Coord(k, i) < Coord(l, i)
  BY CoordType DEF Below
<1>2. ~(l < k)
  <2> SUFFICES ASSUME l < k PROVE FALSE
    OBVIOUS
  <2>1. Shares(l, k, i) /\ Coord(l, i) # Coord(k, i)
    BY <1>1 DEF Below, Shares
  <2>2. Below(l, k, i)
    BY <2>1, SmallerKey
  <2> QED
    BY <1>1, <2>2 DEF Below
<1>3. k # l
  BY <1>1
<1>4. k \in Nat /\ l \in Nat
  BY Sizes
<1> QED
  BY <1>2, <1>3, <1>4

LEMMA IInvKeysGrow == IInv => KeysGrow
<1> SUFFICES ASSUME IInv, NEW n \in Node, NEW i \in Dim, child[n][i].n # Null
             PROVE  KeyOf(n) < KeyOf(child[n][i].n)
  BY DEF KeysGrow
<1> QED
  BY SlotFacts, BelowLarger DEF Hangs

LEMMA IInvNobodyEarly == IInv => NobodyEarly
<1> SUFFICES ASSUME IInv, NEW m \in NodeDesc, NEW n \in Node, NEW i \in Dim, Unborn(m)
             PROVE  /\ child[n][i].n # m
                    /\ pending[n] # NoTask => n # m /\ pending[n].curr # m
  BY DEF NobodyEarly
<1>1. m # Null /\ m # m_head
  BY NodeDescType
<1>2. ~Ready(m)
  BY <1>1 DEF Ready, Unborn
<1>3. child[n][i].n # Null => Ready(child[n][i].n)
  BY SlotFacts DEF Hangs
<1>4. pending[n] # NoTask => Ready(n) /\ Ready(pending[n].curr)
  BY DEF IInv, TasksInv, Adopts
<1> QED
  BY <1>1, <1>2, <1>3, <1>4

\* Every pointer leads to a larger key: whatever is moved, a search ends.
THEOREM SearchesDescend == Spec => []KeysGrow
BY MdInvariance, IInvKeysGrow, PTL

\* No thread can come across a node that is still private to another one, through a
\* child or through a task.
THEOREM PrivateUntilLinked == Spec => []NobodyEarly
BY MdInvariance, IInvNobodyEarly, PTL
=============================================================================
