--------------------------- MODULE RecoveryProofs ---------------------------
(***************************************************************************)
(* For every size of the pool, of the cells and of the set of threads: the *)
(* allocator hands out no byte twice, across any number of restarts; the   *)
(* processes of Recovery use it as its specification says; a recovery      *)
(* looks at every cell of the pool, and gives back the list of the crash.  *)
(***************************************************************************)
EXTENDS RecoveryInv, Paths, FiniteSetTheorems, TLAPS

USE DEF First, Second, AllPhases, InUse, KnowsHead

-----------------------------------------------------------------------------
(* The regions.                                                            *)

\* What an integer division returns.
LEMMA Division ==
  ASSUME NEW a \in Nat, NEW b \in Nat \ {0}
  PROVE  /\ a \div b \in Nat
         /\ b * (a \div b) <= a
         /\ a < b * (a \div b) + b
BY SMT

\* A product with a positive factor can be cancelled.
LEMMA Cancel ==
  ASSUME NEW c \in Nat \ {0}, NEW x \in Nat, NEW y \in Nat, c * x < c * y
  PROVE  x < y
<1>1. ASSUME x >= y PROVE FALSE
  <2>1. PICK k \in Nat : x = y + k
    BY <1>1, SMT
  <2>2. c * x = c * y + c * k
    BY <2>1, SMT
  <2>3. c * k \in Nat
    BY SMT
  <2> QED
    BY <2>2, <2>3, SMT
<1> QED
  BY <1>1, SMT

\* Where a region starts is a natural number.
LEMMA OffsetType == \A r \in Region : Offset(r) \in Nat
<1> SUFFICES ASSUME NEW r \in Region PROVE Offset(r) \in Nat
  OBVIOUS
<1>1. r * Total \in Nat
  BY SizesAssumption, SMT DEF Region
<1> QED
  BY <1>1, SizesAssumption, Division DEF Offset

\* So is the share of a thread.
LEMMA ShareType == Share \in Nat
BY SizesAssumption, Division DEF Share

\* The regions are cut by an integer division, and still leave each thread its
\* share.
LEMMA RegionsApart ==
  ASSUME NEW r \in Region, NEW s \in Region, r < s
  PROVE  Offset(r) + Share <= Offset(s)
<1> DEFINE a == r * Total
           b == s * Total
<1>1. a \in Nat /\ b \in Nat /\ r \in Nat /\ s \in Nat
  BY SizesAssumption, SMT DEF Region
<1>2. a + Total <= b
  <2>1. PICK k \in Nat : s = r + 1 + k
    BY <1>1, SMT
  <2>2. s * Total = r * Total + Total + k * Total
    BY <2>1, <1>1, SizesAssumption, SMT
  <2>3. k * Total \in Nat
    BY SizesAssumption, SMT
  <2> QED
    BY <2>2, <2>3, <1>1, SizesAssumption, SMT
<1>3. Count * Offset(r) <= a
  BY <1>1, SizesAssumption, Division DEF Offset
<1>4. b < Count * Offset(s) + Count
  BY <1>1, SizesAssumption, Division DEF Offset
<1>5. Count * Share <= Total
  BY SizesAssumption, Division DEF Share
<1> DEFINE x == Offset(r)
           y == Offset(s)
           z == Share
<1>6. x \in Nat /\ y \in Nat /\ z \in Nat
  BY OffsetType, ShareType
<1>7. Count * x + Count * z < Count * y + Count
  <2>1. Count * x \in Nat /\ Count * y \in Nat /\ Count * z \in Nat
    BY <1>6, SizesAssumption, SMT
  <2> HIDE DEF x, y, z, a, b
  <2>2. Count * x <= a /\ b < Count * y + Count /\ Count * z <= Total
    BY <1>3, <1>4, <1>5 DEF x, y, z
  <2> QED
    BY <2>1, <2>2, <1>1, <1>2, SizesAssumption, SMT
<1> HIDE DEF x, y, z
<1>8. Count * (x + z) < Count * (y + 1)
  BY <1>6, <1>7, SizesAssumption, SMT
<1>9. x + z < y + 1
  BY <1>6, <1>8, SizesAssumption, Cancel
<1> QED
  BY <1>6, <1>9, SMT DEF x, y, z

-----------------------------------------------------------------------------
(* The invariant of the allocator.                                         *)

\* A new pool satisfies the invariant: nothing is handed out yet.
LEMMA AInit == AllocatorInit => AInv
<1> SUFFICES ASSUME AllocatorInit PROVE AInv
  OBVIOUS
<1>1. AllocatorTypeOK
  <2>1. /\ m_pool \in Pools /\ prev_m_pool \in Pools
        /\ m_ticket \in Nat
    BY SMT DEF AllocatorInit
  <2>4. isReloadedMem \in BOOLEAN
    BY Zenon DEF AllocatorInit
  <2>2. /\ mg_freeIndex \in [Region -> Nat]
        /\ up \subseteq Thread
        /\ threadId \in [Thread -> Nat]
        /\ m_base \in [Thread -> Int]
        /\ m_freeIndex \in [Thread -> Nat]
    BY SMT DEF AllocatorInit, Null
  <2>3. given \subseteq Cell
    BY DEF AllocatorInit
  <2> QED
    BY <2>1, <2>2, <2>3, <2>4 DEF AllocatorTypeOK
<1> QED
  BY <1>1, FS_EmptySet, SizesAssumption, SMT DEF AllocatorInit, AInv

\* Drawing a ticket: the region is one that nobody of this process has.
LEMMA InitStep ==
  ASSUME AInv, NEW t \in Thread, Init(t)
  PROVE  AInv'
<1>0. m_ticket \in Region /\ m_ticket' = m_ticket + 1 /\ m_ticket \in Nat
  BY SizesAssumption, SMT DEF AInv, AllocatorTypeOK, Init, Region
<1>1. StartOf(m_ticket) \in Nat
  BY <1>0 DEF AInv, AllocatorTypeOK, StartOf
<1>2. Offset(m_ticket) \in Nat
  BY <1>0, OffsetType
<1>3. AllocatorTypeOK'
  <2>1. m_pool + Offset(m_ticket) \in Int
    BY <1>2, SizesAssumption, SMT DEF AInv, AllocatorTypeOK
  <2> QED
    BY <1>0, <1>1, <2>1, SMT DEF AInv, AllocatorTypeOK, Init
<1>4. (m_ticket <= Count)'
  BY <1>0, SizesAssumption, SMT DEF Region
<1>5. \A u \in up : threadId[u] # m_ticket /\ threadId[u] \in Region
  BY <1>0, SizesAssumption, SMT DEF AInv, AllocatorTypeOK, Region
<1>6. (\A u \in up : /\ threadId[u] < m_ticket
                     /\ m_base[u] = m_pool + Offset(threadId[u])
                     /\ m_freeIndex[u] = mg_freeIndex[threadId[u]])'
  <2> SUFFICES ASSUME NEW u \in up'
               PROVE  /\ threadId'[u] < m_ticket'
                      /\ m_base'[u] = m_pool' + Offset(threadId'[u])
                      /\ m_freeIndex'[u] = mg_freeIndex'[threadId'[u]]
    BY DEF Offset
  <2>1. CASE u = t
    BY <2>1, <1>0, SMT DEF AInv, AllocatorTypeOK, Init
  <2>2. CASE u # t
    <3>1. u \in up
      BY <2>2 DEF Init
    <3>2. threadId'[u] = threadId[u] /\ m_base'[u] = m_base[u] /\ m_freeIndex'[u] = m_freeIndex[u]
          /\ m_pool' = m_pool
      BY <2>2, <3>1 DEF AInv, AllocatorTypeOK, Init
    <3>3. mg_freeIndex'[threadId[u]] = mg_freeIndex[threadId[u]]
      BY <1>5, <3>1 DEF AInv, AllocatorTypeOK, Init
    <3>4. threadId[u] < m_ticket /\ m_base[u] = m_pool + Offset(threadId[u])
          /\ m_freeIndex[u] = mg_freeIndex[threadId[u]] /\ threadId[u] \in Nat
      BY <3>1 DEF AInv, AllocatorTypeOK
    <3> QED
      BY <1>0, <3>2, <3>3, <3>4, SMT
  <2> QED
    BY <2>1, <2>2
<1>7. (\A u, v \in up : u # v => threadId[u] # threadId[v])'
  BY <1>5 DEF AInv, AllocatorTypeOK, Init
<1>8. IsFiniteSet(given)'
  BY DEF AInv, Init
<1>9. (~isReloadedMem => \A c \in given : c.region < m_ticket)'
  <2> SUFFICES ASSUME ~isReloadedMem, NEW c \in given PROVE c.region < m_ticket + 1
    BY <1>0 DEF Init
  <2>1. c.region < m_ticket /\ c.region \in Nat
    BY SMT DEF AInv, AllocatorTypeOK, Cell, Region
  <2> QED
    BY <1>0, <2>1, SMT
<1>10. \A c \in given : mg_freeIndex'[c.region] = mg_freeIndex[c.region]
  <2> SUFFICES ASSUME NEW c \in given PROVE mg_freeIndex'[c.region] = mg_freeIndex[c.region]
    OBVIOUS
  <2>1. c.region \in Region
    BY DEF AInv, AllocatorTypeOK, Cell
  <2>2. CASE c.region = m_ticket
    <3>1. isReloadedMem
      BY <2>2, <1>0, SMT DEF AInv
    <3> QED
      BY <2>1, <2>2, <3>1 DEF AInv, AllocatorTypeOK, Init, StartOf
  <2>3. CASE c.region # m_ticket
    BY <2>1, <2>3 DEF AInv, AllocatorTypeOK, Init
  <2> QED
    BY <2>2, <2>3
<1>11. (\A c \in given : /\ Offset(c.region) <= c.at
                         /\ c.at + Size <= Offset(c.region) + mg_freeIndex[c.region])'
  BY <1>10 DEF AInv, Init, Offset
<1>12. (\A c, d \in given : c # d /\ c.region = d.region => ~Overlap(c, d))'
  BY DEF AInv, Init, Overlap
<1> QED
  BY <1>3, <1>4, <1>6, <1>7, <1>8, <1>9, <1>11, <1>12 DEF AInv

\* Handing out a cell: it lies behind every cell of its region.
LEMMA AllocStep ==
  ASSUME AInv, NEW t \in Thread, Alloc(t)
  PROVE  AInv'
<1> DEFINE r == threadId[t]
           f == m_freeIndex[t]
           new == [region |-> r, at |-> NewCell(t) - m_pool, nth |-> Handed(r)]
<1>0. /\ t \in up
      /\ given' = given \union {new}
      /\ mg_freeIndex' = [mg_freeIndex EXCEPT ![r] = f + Size]
      /\ m_freeIndex' = [m_freeIndex EXCEPT ![t] = f + Size]
      /\ UNCHANGED <<object, up, threadId, m_base>>
  BY DEF Alloc, Recorded
<1>1. r \in Region /\ f \in Nat /\ f = mg_freeIndex[r]
  BY <1>0, SizesAssumption, SMT DEF AInv, AllocatorTypeOK, Region
<1>2. Offset(r) \in Nat
  BY <1>1, OffsetType
<1>3. NewCell(t) - m_pool = Offset(r) + f
  BY <1>0, <1>1, <1>2, SizesAssumption, SMT DEF AInv, AllocatorTypeOK, NewCell
<1>4. Handed(r) \in Nat
  <2>1. IsFiniteSet({c \in given : c.region = r})
    BY FS_Subset DEF AInv
  <2> QED
    BY <2>1, FS_CardinalityType DEF Handed
<1>5. /\ new \in Cell
      /\ new.region = r
      /\ new.at = Offset(r) + f
  BY <1>1, <1>2, <1>3, <1>4, SMT DEF Cell
<1> HIDE DEF new
<1>6. AllocatorTypeOK'
  <2>1. f + Size \in Nat
    BY <1>1, SizesAssumption, SMT
  <2>2. /\ mg_freeIndex' \in [Region -> Nat]
        /\ m_freeIndex' \in [Thread -> Nat]
    BY <1>0, <2>1 DEF AInv, AllocatorTypeOK
  <2>3. given' \subseteq Cell
    BY <1>0, <1>5 DEF AInv, AllocatorTypeOK
  <2> QED
    BY <1>0, <2>2, <2>3 DEF AInv, AllocatorTypeOK, object
<1>7. (m_ticket <= Count)'
  BY <1>0 DEF AInv, object
<1>8. (\A u \in up : /\ threadId[u] < m_ticket
                     /\ m_base[u] = m_pool + Offset(threadId[u])
                     /\ m_freeIndex[u] = mg_freeIndex[threadId[u]])'
  <2> SUFFICES ASSUME NEW u \in up
               PROVE  /\ threadId[u] < m_ticket
                      /\ m_base[u] = m_pool + Offset(threadId[u])
                      /\ m_freeIndex'[u] = mg_freeIndex'[threadId[u]]
    BY <1>0 DEF object, Offset
  <2>1. threadId[u] < m_ticket /\ m_base[u] = m_pool + Offset(threadId[u])
    BY DEF AInv
  <2>2. CASE u = t
    BY <1>0, <1>1, <2>1, <2>2 DEF AInv, AllocatorTypeOK
  <2>3. CASE u # t
    <3>1. threadId[u] # r
      BY <1>0, <2>3 DEF AInv
    <3>2. threadId[u] \in Region
      BY <2>1, SizesAssumption, SMT DEF AInv, AllocatorTypeOK, Region
    <3> QED
      BY <1>0, <2>1, <2>3, <3>1, <3>2 DEF AInv, AllocatorTypeOK
  <2> QED
    BY <2>2, <2>3
<1>9. (\A u, v \in up : u # v => threadId[u] # threadId[v])'
  BY <1>0 DEF AInv
<1>10. IsFiniteSet(given)'
  BY <1>0, FS_AddElement DEF AInv
<1>11. (~isReloadedMem => \A c \in given : c.region < m_ticket)'
  BY <1>0, <1>5 DEF AInv, object
<1>12. \A c \in given : /\ c.region \in Region /\ c.at \in Int
                        /\ Offset(c.region) \in Nat
                        /\ mg_freeIndex[c.region] \in Nat
                        /\ Offset(c.region) <= c.at
                        /\ c.at + Size <= Offset(c.region) + mg_freeIndex[c.region]
  BY OffsetType DEF AInv, AllocatorTypeOK, Cell
<1>13. (\A c \in given : /\ Offset(c.region) <= c.at
                         /\ c.at + Size <= Offset(c.region) + mg_freeIndex[c.region])'
  <2> SUFFICES ASSUME NEW c \in given'
               PROVE  /\ Offset(c.region) <= c.at
                      /\ c.at + Size <= Offset(c.region) + mg_freeIndex'[c.region]
    BY DEF Offset
  <2>1. CASE c = new
    <3>1. mg_freeIndex'[r] = f + Size
      BY <1>0, <1>1 DEF AInv, AllocatorTypeOK
    <3> QED
      BY <2>1, <3>1, <1>1, <1>2, <1>5, SizesAssumption, SMT
  <2>2. CASE c \in given /\ c.region = r
    <3>1. mg_freeIndex'[r] = f + Size
      BY <1>0, <1>1 DEF AInv, AllocatorTypeOK
    <3> QED
      BY <2>2, <3>1, <1>1, <1>12, SizesAssumption, SMT
  <2>3. CASE c \in given /\ c.region # r
    <3>1. mg_freeIndex'[c.region] = mg_freeIndex[c.region]
      BY <1>0, <1>12, <2>3 DEF AInv, AllocatorTypeOK
    <3> QED
      BY <2>3, <3>1, <1>12
  <2> QED
    BY <1>0, <2>1, <2>2, <2>3
<1>14. (\A c, d \in given : c # d /\ c.region = d.region => ~Overlap(c, d))'
  <2> SUFFICES ASSUME NEW c \in given', NEW d \in given', c # d, c.region = d.region
               PROVE  ~Overlap(c, d)
    BY DEF Overlap
  <2>1. \A e \in given : e.region = r => ~Overlap(e, new) /\ ~Overlap(new, e)
    BY <1>1, <1>2, <1>5, <1>12, SizesAssumption, SMT DEF Overlap
  <2> QED
    BY <1>0, <1>5, <2>1 DEF AInv
<1> QED
  BY <1>6, <1>7, <1>8, <1>9, <1>10, <1>11, <1>13, <1>14 DEF AInv

\* A restart forgets the threads, and keeps what the file knows.
LEMMA ReloadStep ==
  ASSUME AInv, Reload
  PROVE  AInv'
<1>1. AllocatorTypeOK'
  <2>1. /\ m_pool' \in Pools /\ prev_m_pool' \in Pools
        /\ m_ticket' \in Nat
        /\ mg_freeIndex' \in [Region -> Nat]
        /\ up' \subseteq Thread
        /\ given' \subseteq Cell
    BY DEF AInv, AllocatorTypeOK, Reload
  <2>2. isReloadedMem' \in BOOLEAN
    BY Zenon DEF Reload
  <2>3. /\ threadId' \in [Thread -> Nat]
        /\ m_base' \in [Thread -> Int]
        /\ m_freeIndex' \in [Thread -> Nat]
    BY SMT DEF Reload, Null
  <2> QED
    BY <2>1, <2>2, <2>3 DEF AllocatorTypeOK
<1>2. (m_ticket <= Count)'
  BY SizesAssumption, SMT DEF Reload
<1>3. /\ up' = {} /\ isReloadedMem' = TRUE
      /\ given' = given /\ mg_freeIndex' = mg_freeIndex
  BY DEF Reload
<1> QED
  BY <1>1, <1>2, <1>3 DEF AInv, Offset, Overlap

\* Steps of the callers that leave the allocator alone keep its invariant.
LEMMA AStutter == ASSUME AInv, UNCHANGED avars PROVE AInv'
BY DEF AInv, AllocatorTypeOK, avars, object, locals, Offset, Overlap

LEMMA AStep ==
  ASSUME AInv, [ANext]_avars
  PROVE  AInv'
<1>1. CASE \E t \in Thread : Init(t)
  BY <1>1, InitStep
<1>2. CASE \E t \in Thread : Alloc(t)
  BY <1>2, AllocStep
<1>3. CASE Reload
  BY <1>3, ReloadStep
<1>4. CASE UNCHANGED avars
  BY <1>4, AStutter
<1> QED
  BY <1>1, <1>2, <1>3, <1>4 DEF ANext

\* What the threads of the allocator have drawn and what its file knows agree at
\* every moment of any number of processes.
THEOREM AllocatorInvariant == ASpec => []AInv
BY AStep, AInit, PTL DEF ASpec

-----------------------------------------------------------------------------
(* What the callers may rely on.                                           *)

\* Cells of one region never overlap, and cells of two regions do not while every
\* region keeps to its share.
LEMMA InvDisjoint == AInv => Disjoint
<1> SUFFICES ASSUME AInv, Within, NEW c \in given, NEW d \in given, c # d
             PROVE  ~Overlap(c, d)
  BY DEF Disjoint
<1>1. \A e \in given : /\ e.region \in Region /\ e.at \in Int
                       /\ Offset(e.region) \in Nat
                       /\ Offset(e.region) <= e.at
                       /\ e.at + Size <= Offset(e.region) + Share
  <2> SUFFICES ASSUME NEW e \in given
               PROVE  /\ e.region \in Region /\ e.at \in Int
                      /\ Offset(e.region) \in Nat
                      /\ Offset(e.region) <= e.at
                      /\ e.at + Size <= Offset(e.region) + Share
    OBVIOUS
  <2>1. e.region \in Region /\ e.at \in Int
    BY DEF AInv, AllocatorTypeOK, Cell
  <2>2. mg_freeIndex[e.region] <= Share /\ mg_freeIndex[e.region] \in Nat
    BY <2>1 DEF Within, AInv, AllocatorTypeOK
  <2>3. Offset(e.region) \in Nat
    BY <2>1, OffsetType
  <2>4. Offset(e.region) <= e.at /\ e.at + Size <= Offset(e.region) + mg_freeIndex[e.region]
    BY DEF AInv
  <2> QED
    BY <2>1, <2>2, <2>3, <2>4, ShareType, SizesAssumption, SMT
<1>2. CASE c.region = d.region
  BY <1>2 DEF AInv
<1>3. CASE c.region < d.region
  <2>1. Offset(c.region) + Share <= Offset(d.region)
    BY <1>1, <1>3, RegionsApart
  <2> QED
    BY <1>1, <2>1, ShareType, SizesAssumption, SMT DEF Overlap
<1>4. CASE d.region < c.region
  <2>1. Offset(d.region) + Share <= Offset(c.region)
    BY <1>1, <1>4, RegionsApart
  <2> QED
    BY <1>1, <2>1, ShareType, SizesAssumption, SMT DEF Overlap
<1> QED
  BY <1>1, <1>2, <1>3, <1>4, SMT DEF Region

\* What the steps of Recovery are for the allocator.
LEMMA UsesAllocator ==
  ASSUME [RNext]_vars
  PROVE  [ANext]_avars
<1>1. CASE ConstructAdaptor \/ InitMain
  BY <1>1, MainAssumption DEF ConstructAdaptor, InitMain, ANext
<1>2. CASE NewTail \/ NewHead \/ ConstructHead
  BY <1>2, MainAssumption DEF NewTail, NewHead, ConstructHead, ANext
<1>3. CASE \E w \in Worker :
             InitWorker(w) \/ PassBarrier(w) \/ MarkDesc(w) \/ MarkNext(w) \/ Unlink(w)
  BY <1>3 DEF InitWorker, PassBarrier, MarkDesc, MarkNext, Unlink, ANext, Worker
<1>4. CASE \E t \in Thread : AllocNode(t) \/ LinkNode(t)
  BY <1>4 DEF AllocNode, LinkNode, ANext
<1>5. CASE Crash
  BY <1>5 DEF Crash, ANext
<1>6. CASE FindSentinels \/ VisitDesc \/ NextRegion \/ FixPointer \/ CheckList \/ Ended
  BY <1>6 DEF FindSentinels, VisitDesc, NextRegion, FixPointer, CheckList, Ended, vars
<1>7. CASE UNCHANGED vars
  BY <1>7 DEF vars
<1> QED
  BY <1>1, <1>2, <1>3, <1>4, <1>5, <1>6, <1>7 DEF RNext

\* The constructors, the threads of the driver and the recovery of a second
\* process use the allocator as its specification says.
THEOREM RecoveryUsesAllocator == RSpec => ASpec
<1>1. RInit => AllocatorInit
  BY DEF RInit
<1> QED
  BY <1>1, UsesAllocator, PTL DEF RSpec, ASpec

\* Whatever crashes, and wherever the pool is mapped then, no byte of the pool
\* is handed out twice while every thread keeps to its share.
THEOREM DisjointCells == RSpec => []Disjoint
BY RecoveryUsesAllocator, AllocatorInvariant, InvDisjoint, PTL

\* Hence the invariant of the allocator holds through every crash and recovery
\* of the list.
THEOREM RecoveryInvariant == RSpec => []AInv
BY RecoveryUsesAllocator, AllocatorInvariant, PTL
-----------------------------------------------------------------------------
(* How the cells fill the regions.                                         *)

\* The cells of a region lie in it, one behind the other.
LEMMA RegionCells ==
  ASSUME AInv, NEW r \in Region
  PROVE  /\ \A a \in CellsOf(r) : /\ a \in Int /\ Offset(r) <= a
                                  /\ a + Size <= Offset(r) + mg_freeIndex[r]
         /\ \A a, b \in CellsOf(r) : a < b => a + Size <= b
<1>1. \A c \in given : c.at \in Int
  BY DEF AInv, AllocatorTypeOK, Cell
<1>2. ASSUME NEW a \in CellsOf(r) PROVE \E c \in given : c.region = r /\ c.at = a
  BY DEF CellsOf
<1>3. ASSUME NEW a \in CellsOf(r)
      PROVE  a \in Int /\ Offset(r) <= a /\ a + Size <= Offset(r) + mg_freeIndex[r]
  BY <1>1, <1>2 DEF AInv
<1>4. ASSUME NEW a \in CellsOf(r), NEW b \in CellsOf(r), a < b PROVE a + Size <= b
  <2>1. PICK c \in given : c.region = r /\ c.at = a
    BY <1>2
  <2>2. PICK d \in given : d.region = r /\ d.at = b
    BY <1>2
  <2>3. a \in Int /\ b \in Int
    BY <1>3
  <2>4. c # d
    BY <1>4, <2>1, <2>2, <2>3
  <2>5. ~Overlap(c, d)
    BY <2>1, <2>2, <2>4 DEF AInv
  <2> QED
    BY <1>4, <2>1, <2>2, <2>3, <2>5, SizesAssumption DEF Overlap
<1> QED
  BY <1>3, <1>4

\* A region that has no bytes in use has handed out no cell.
LEMMA EmptyRegion ==
  ASSUME AInv, NEW r \in Region, mg_freeIndex[r] = 0
  PROVE  CellsOf(r) = {}
BY RegionCells, OffsetType, SizesAssumption

\* In the process that creates the pool, a region that no ticket has named is empty.
LEMMA NotDrawn ==
  ASSUME AInv, PackedInv, ~isReloadedMem, NEW r \in Region, r >= m_ticket
  PROVE  mg_freeIndex[r] = 0
<1>1. CellsOf(r) = {}
  <2> SUFFICES ASSUME NEW c \in given, c.region = r PROVE FALSE
    BY DEF CellsOf
  <2>1. c.region < m_ticket
    BY DEF AInv
  <2> QED
    BY <2>1 DEF AInv, AllocatorTypeOK, Region
<1>2. mg_freeIndex[r] \in Nat
  BY DEF AInv, AllocatorTypeOK
<1> QED
  BY <1>1, <1>2 DEF PackedInv

\* So a call of Init leaves every free index as it is.
LEMMA InitKeeps ==
  ASSUME AInv, PackedInv, NEW t \in Thread, Init(t)
  PROVE  mg_freeIndex' = mg_freeIndex
<1>1. m_ticket \in Region
  BY SizesAssumption DEF AInv, AllocatorTypeOK, Init, Region
<1>2. StartOf(m_ticket) = mg_freeIndex[m_ticket]
  BY <1>1, NotDrawn DEF StartOf, AInv, AllocatorTypeOK
<1> QED
  BY <1>1, <1>2 DEF Init, AInv, AllocatorTypeOK

\* What Alloc does: a cell at the free index of the region of its caller.
Adds(t, r) ==
  /\ r = threadId[t] /\ t \in up
  /\ mg_freeIndex' = [mg_freeIndex EXCEPT ![r] = mg_freeIndex[r] + Size]
  /\ NewCell(t) = m_pool + Offset(r) + mg_freeIndex[r]
  /\ CellsOf(r)' = CellsOf(r) \union {Offset(r) + mg_freeIndex[r]}
  /\ \A s \in Region \ {r} : CellsOf(s)' = CellsOf(s)
  /\ Taken' = Taken \union {Offset(r) + mg_freeIndex[r]}
  /\ UNCHANGED <<object, up, threadId, m_base>>

LEMMA AllocAdds ==
  ASSUME AInv, NEW t \in Thread, Alloc(t)
  PROVE  \E r \in Region : Adds(t, r)
<1>1. t \in up /\ threadId[t] \in Region
  BY SizesAssumption DEF Alloc, AInv, AllocatorTypeOK, Region
<1>2. PICK r \in Region : r = threadId[t]
  BY <1>1
<1> DEFINE f == m_freeIndex[t]
           new == [region |-> r, at |-> NewCell(t) - m_pool, nth |-> Handed(r)]
<1>3. /\ given' = given \union {new}
      /\ mg_freeIndex' = [mg_freeIndex EXCEPT ![r] = f + Size]
      /\ UNCHANGED <<object, up, threadId, m_base>>
  BY <1>2 DEF Alloc, Recorded
<1>4. f \in Nat /\ f = mg_freeIndex[r]
  BY <1>1, <1>2 DEF AInv, AllocatorTypeOK
<1>5. Offset(r) \in Nat
  BY OffsetType
<1>6. NewCell(t) = m_pool + Offset(r) + f /\ NewCell(t) - m_pool = Offset(r) + f
  BY <1>1, <1>2, <1>4, <1>5, SizesAssumption DEF AInv, AllocatorTypeOK, NewCell
<1>7. new.region = r /\ new.at = Offset(r) + f
  BY <1>6
<1> HIDE DEF new
<1>8. Taken' = Taken \union {Offset(r) + f}
  BY <1>3, <1>7 DEF Taken
<1>9. CellsOf(r)' = CellsOf(r) \union {Offset(r) + f}
  BY <1>3, <1>7 DEF CellsOf
<1>10. ASSUME NEW s \in Region \ {r} PROVE CellsOf(s)' = CellsOf(s)
  BY <1>3, <1>7 DEF CellsOf
<1> QED
  BY <1>1, <1>2, <1>3, <1>4, <1>6, <1>8, <1>9, <1>10 DEF Adds

\* The cells stay side by side.
LEMMA PackedStep ==
  ASSUME AInv, PackedInv, [ANext]_avars
  PROVE  PackedInv'
<1>1. ASSUME mg_freeIndex' = mg_freeIndex, given' = given PROVE PackedInv'
  BY <1>1 DEF PackedInv, CellsOf, Offset
<1>2. CASE \E t \in Thread : Init(t)
  BY <1>1, <1>2, InitKeeps DEF Init
<1>3. ASSUME NEW t \in Thread, Alloc(t) PROVE PackedInv'
  <2>0. PICK r \in Region : Adds(t, r)
    BY <1>3, AllocAdds
  <2> DEFINE f == mg_freeIndex[r]
  <2>1. /\ mg_freeIndex' = [mg_freeIndex EXCEPT ![r] = f + Size]
        /\ CellsOf(r)' = CellsOf(r) \union {Offset(r) + f}
        /\ \A s \in Region \ {r} : CellsOf(s)' = CellsOf(s)
    BY <2>0 DEF Adds
  <2>2. mg_freeIndex \in [Region -> Nat] /\ f \in Nat /\ Offset(r) \in Nat
    BY <2>1, OffsetType DEF AInv, AllocatorTypeOK
  <2> SUFFICES ASSUME NEW s \in Region
               PROVE  /\ mg_freeIndex'[s] > 0 => Offset(s) \in CellsOf(s)'
                      /\ \A a \in CellsOf(s)' : a + Size < Offset(s) + mg_freeIndex'[s]
                                                => a + Size \in CellsOf(s)'
    BY DEF PackedInv, Offset
  <2>3. CASE s # r
    BY <2>1, <2>2, <2>3 DEF PackedInv
  <2>4. CASE s = r
    <3>1. mg_freeIndex'[r] = f + Size
      BY <2>1, <2>2
    <3>2. Offset(r) \in CellsOf(r)'
      <4>1. CASE f = 0
        BY <2>1, <2>2, <4>1
      <4>2. CASE f > 0
        BY <2>1, <4>2 DEF PackedInv
      <4> QED
        BY <2>2, <4>1, <4>2
    <3>3. ASSUME NEW a \in CellsOf(r)', a + Size < Offset(r) + f + Size
          PROVE  a + Size \in CellsOf(r)'
      <4>1. CASE a \in CellsOf(r) /\ a + Size < Offset(r) + f
        BY <2>1, <4>1 DEF PackedInv
      <4>2. CASE a \in CellsOf(r) /\ ~(a + Size < Offset(r) + f)
        <5>1. a \in Int /\ a + Size <= Offset(r) + f
          BY <2>1, <4>2, RegionCells
        <5>2. a + Size = Offset(r) + f
          BY <2>2, <4>2, <5>1, SizesAssumption
        <5> QED
          BY <2>1, <5>2
      <4>3. CASE a = Offset(r) + f
        BY <2>2, <3>3, <4>3, SizesAssumption
      <4> QED
        BY <2>1, <3>3, <4>1, <4>2, <4>3
    <3> HIDE DEF f
    <3>4. \A a \in CellsOf(s)' : a + Size < Offset(s) + mg_freeIndex'[s]
                                  => a + Size \in CellsOf(s)'
      <4> SUFFICES ASSUME NEW a \in CellsOf(s)', a + Size < Offset(s) + mg_freeIndex'[s]
                   PROVE  a + Size \in CellsOf(s)'
        OBVIOUS
      <4>1. a \in CellsOf(r)' /\ a + Size < Offset(r) + (f + Size)
        BY <2>4, <3>1
      <4>2. Offset(r) + (f + Size) = Offset(r) + f + Size
        BY <2>2, SizesAssumption
      <4> QED
        BY <2>4, <3>3, <4>1, <4>2
    <3> QED
      BY <2>4, <3>2, <3>4
  <2> QED
    BY <2>3, <2>4
<1>4. CASE Reload
  BY <1>1, <1>4 DEF Reload
<1>5. CASE UNCHANGED avars
  BY <1>1, <1>5 DEF avars
<1> QED
  BY <1>2, <1>3, <1>4, <1>5 DEF ANext

\* A region keeps its share inside of the pool.
LEMMA RegionEnds == \A r \in Region : Offset(r) + Share <= Total
<1> SUFFICES ASSUME NEW r \in Region PROVE Offset(r) + Share <= Total
  OBVIOUS
<1> DEFINE x == Offset(r)
           z == Share
           a == r * Total
<1>1. x \in Nat /\ z \in Nat /\ a \in Nat
  BY OffsetType, ShareType, SizesAssumption, SMT DEF Region
<1>2. Count * x <= a /\ Count * z <= Total
  BY <1>1, SizesAssumption, Division DEF Offset, Share
<1>3. a + Total <= Count * Total
  <2>1. PICK k \in Nat : Count = r + 1 + k
    BY SizesAssumption, SMT DEF Region
  <2>2. r \in Nat
    BY DEF Region
  <2>3. Count * Total = r * Total + Total + k * Total
    BY <2>1, <2>2, SizesAssumption, SMT
  <2>4. k * Total \in Nat
    BY SizesAssumption, SMT
  <2> QED
    BY <1>1, <2>3, <2>4, SizesAssumption, SMT
<1> HIDE DEF x, z, a
<1>4. Count * x + Count * z < Count * Total + Count
  <2>1. Count * x \in Nat /\ Count * z \in Nat /\ Count * Total \in Nat
    BY <1>1, SizesAssumption, SMT
  <2> QED
    BY <1>1, <1>2, <1>3, <2>1, SizesAssumption, SMT
<1>5. Count * (x + z) < Count * (Total + 1)
  BY <1>1, <1>4, SizesAssumption, SMT
<1>6. x + z < Total + 1
  BY <1>1, <1>5, SizesAssumption, Cancel
<1> QED
  BY <1>1, <1>6, SizesAssumption DEF x, z

\* The first region starts with the pool.
LEMMA FirstRegion == 0 \in Region /\ Offset(0) = 0
<1>1. 0 \in Region /\ 0 * Total = 0
  BY SizesAssumption DEF Region
<1>2. 0 \div Count \in Nat /\ Count * (0 \div Count) <= 0
  BY SizesAssumption, Division
<1>3. 0 \div Count = 0
  BY <1>2, SizesAssumption, SMT
<1> QED
  BY <1>1, <1>3 DEF Offset

\* Cells are places of the pool.
LEMMA CellPlace ==
  ASSUME AInv, Within
  PROVE  Taken \subseteq Place /\ \A a \in Taken : a \in Nat /\ a + Size <= Total
<1> SUFFICES ASSUME NEW a \in Taken PROVE a \in Place /\ a \in Nat /\ a + Size <= Total
  OBVIOUS
<1>1. PICK c \in given : c.at = a
  BY DEF Taken
<1>2. c.region \in Region /\ a \in Int
  BY <1>1 DEF AInv, AllocatorTypeOK, Cell
<1>3. Offset(c.region) <= a /\ a + Size <= Offset(c.region) + mg_freeIndex[c.region]
  BY <1>1 DEF AInv
<1>4. mg_freeIndex[c.region] <= Share /\ mg_freeIndex[c.region] \in Nat
  BY <1>2 DEF Within, AInv, AllocatorTypeOK
<1>5. Offset(c.region) \in Nat /\ Offset(c.region) + Share <= Total /\ Share \in Nat
  BY <1>2, OffsetType, RegionEnds, ShareType
<1>6. a \in Nat /\ a + Size <= Total
  BY <1>2, <1>3, <1>4, <1>5, SizesAssumption
<1>7. Count * Size \in Nat
  BY SizesAssumption, SMT
<1> QED
  BY <1>6, <1>7, SizesAssumption DEF Place

\* Places of the sentinels, once they are built.
LEMMA SentinelPlaces ==
  /\ HeadPlace \in Place /\ TailPlace \in Place
  /\ HeadPlace # TailPlace
<1>1. Count * Size \in Nat /\ Size <= Count * Size
  <2>1. PICK k \in Nat : Count = 1 + k
    BY SizesAssumption, SMT
  <2>2. Count * Size = Size + k * Size /\ k * Size \in Nat
    BY <2>1, SizesAssumption, SMT
  <2> QED
    BY <2>2, SizesAssumption
<1> QED
  BY <1>1, SizesAssumption DEF Place, HeadPlace, TailPlace

\* The free indices never fall, so a share that is exceeded stays so.
LEMMA IndexGrows ==
  ASSUME AInv, PackedInv, [ANext]_avars
  PROVE  /\ \A r \in Region : mg_freeIndex[r] <= mg_freeIndex'[r]
         /\ Taken \subseteq Taken'
         /\ Within' => Within
<1>1. \A r \in Region : mg_freeIndex[r] \in Nat
  BY DEF AInv, AllocatorTypeOK
<1>2. Taken \subseteq Taken' /\ \A r \in Region : mg_freeIndex[r] <= mg_freeIndex'[r]
  <2>1. CASE mg_freeIndex' = mg_freeIndex /\ given' = given
    BY <1>1, <2>1 DEF Taken
  <2>2. CASE \E t \in Thread : Init(t)
    BY <2>1, <2>2, InitKeeps DEF Init
  <2>3. ASSUME NEW t \in Thread, Alloc(t)
        PROVE  Taken \subseteq Taken' /\ \A r \in Region : mg_freeIndex[r] <= mg_freeIndex'[r]
    <3>1. PICK r \in Region : Adds(t, r)
      BY <2>3, AllocAdds
    <3>2. Taken \subseteq Taken' /\ mg_freeIndex' = [mg_freeIndex EXCEPT ![r] = mg_freeIndex[r] + Size]
      BY <3>1 DEF Adds
    <3> QED
      BY <1>1, <3>2, SizesAssumption DEF AInv, AllocatorTypeOK
  <2>4. CASE Reload \/ UNCHANGED avars
    BY <2>1, <2>4 DEF Reload, avars
  <2> QED
    BY <2>2, <2>3, <2>4 DEF ANext
<1>3. ASSUME Within' PROVE Within
  <2> SUFFICES ASSUME NEW r \in Region PROVE mg_freeIndex[r] <= Share
    BY DEF Within
  <2>1. mg_freeIndex'[r] <= Share
    BY <1>3 DEF Within, Share
  <2>2. \A s \in Region : mg_freeIndex'[s] \in Nat
    <3>1. AInv'
      BY AStep
    <3> QED
      BY <3>1 DEF AInv, AllocatorTypeOK
  <2> QED
    BY <1>1, <1>2, <2>1, <2>2, ShareType
<1> QED
  BY <1>2, <1>3

-----------------------------------------------------------------------------
(* Where the main thread is.                                               *)

\* The numbers that the phases speak of.
LEMMA Numbers ==
  ASSUME AInv
  PROVE  /\ m_pool \in Nat \ {0} /\ prev_m_pool \in Nat \ {0}
         /\ m_pool \in Pools /\ prev_m_pool \in Pools
         /\ m_ticket \in Nat /\ mg_freeIndex \in [Region -> Nat]
         /\ mg_freeIndex[0] \in Nat /\ Size \in Nat \ {0}
BY SizesAssumption, FirstRegion DEF AInv, AllocatorTypeOK

LEMMA PhaseInit == RInit => PhaseInv
<1> SUFFICES ASSUME RInit PROVE PhaseInv
  OBVIOUS
<1>1. /\ phase = "construct" /\ m_ticket = 0 /\ isReloadedMem = FALSE
      /\ prev_m_pool = m_pool /\ base = m_pool /\ m_pool \in Pools
      /\ work = [w \in Worker |-> "init"]
  BY DEF RInit, AllocatorInit
<1>2. work \in [Worker -> {"init", "wait", "work"}]
  BY <1>1
<1> QED
  BY <1>1, <1>2 DEF PhaseInv

\* A ticket is drawn: the main thread has the first region then.
LEMMA ConstructAdaptorPhase ==
  ASSUME AInv, PackedInv, PhaseInv, ConstructAdaptor
  PROVE  PhaseInv'
<1>1. /\ phase \in {"construct", "reconstruct"} /\ Init(Main)
      /\ phase' = (IF phase = "construct" THEN "tail" ELSE "find")
      /\ UNCHANGED <<work, m_arrived, mine, list, walk, history>>
  BY DEF ConstructAdaptor
<1>2. m_ticket = 0 /\ m_ticket' = 1 /\ mg_freeIndex' = mg_freeIndex
      /\ UNCHANGED <<m_pool, prev_m_pool, isReloadedMem>>
  <2>1. m_ticket = 0
    BY <1>1 DEF PhaseInv
  <2>2. mg_freeIndex' = mg_freeIndex
    BY <1>1, InitKeeps, MainAssumption
  <2> QED
    BY <1>1, <2>1, <2>2 DEF Init
<1>3. Main \in up' /\ threadId'[Main] = 0
  BY <1>1, <1>2, MainAssumption DEF Init, AInv, AllocatorTypeOK
<1>4. phase = "construct" => mg_freeIndex[0] = 0
  BY <1>2, FirstRegion, NotDrawn DEF PhaseInv
<1> QED
  BY <1>1, <1>2, <1>3, <1>4 DEF PhaseInv, list, walk, history, HeadGiven

\* The main thread allocates the sentinels at the start of the first region.
LEMMA MainAlloc ==
  ASSUME AInv, PhaseInv, phase \in {"tail", "head"}, Alloc(Main)
  PROVE  /\ NewCell(Main) = m_pool + mg_freeIndex[0]
         /\ mg_freeIndex'[0] = mg_freeIndex[0] + Size
         /\ mg_freeIndex[0] = IF phase = "tail" THEN 0 ELSE Size
         /\ Taken' = Taken \union {mg_freeIndex[0]}
         /\ UNCHANGED <<object, up, threadId, m_base>>
<1>1. PICK r \in Region : Adds(Main, r)
  BY MainAssumption, AllocAdds
<1>2. r = 0
  BY <1>1 DEF Adds, PhaseInv
<1> QED
  BY <1>1, <1>2, FirstRegion, Numbers DEF Adds, PhaseInv

LEMMA NewTailPhase ==
  ASSUME AInv, PhaseInv, NewTail
  PROVE  PhaseInv'
<1>1. /\ phase = "tail" /\ Alloc(Main) /\ m_tail' = NewCell(Main) /\ phase' = "head"
      /\ UNCHANGED <<work, base>>
  BY DEF NewTail, history
<1> QED
  BY <1>1, MainAlloc, Numbers DEF PhaseInv, object, TailPlace

LEMMA NewHeadPhase ==
  ASSUME AInv, PhaseInv, NewHead
  PROVE  PhaseInv'
<1>1. /\ phase = "head" /\ Alloc(Main) /\ m_head' = NewCell(Main) /\ phase' = "ctor"
      /\ UNCHANGED <<work, base, m_tail>>
  BY DEF NewHead, history
<1> QED
  BY <1>1, MainAlloc, Numbers DEF PhaseInv, object, TailPlace, HeadPlace, HeadGiven

LEMMA ConstructHeadPhase ==
  ASSUME PhaseInv, ConstructHead
  PROVE  PhaseInv'
<1>1. /\ phase = "ctor" /\ phase' = "prefill"
      /\ UNCHANGED <<object, mg_freeIndex, work, base, m_head, m_tail>>
  BY DEF ConstructHead, avars, history
<1> QED
  BY <1>1 DEF PhaseInv, HeadGiven, object

LEMMA InitMainPhase ==
  ASSUME AInv, PackedInv, PhaseInv, InitMain
  PROVE  PhaseInv'
<1>1. /\ phase = "prefill" /\ Init(Main) /\ phase' = "run"
      /\ UNCHANGED <<work, base, m_head, m_tail>>
  BY DEF InitMain, history, list
<1>2. mg_freeIndex' = mg_freeIndex /\ m_ticket' = m_ticket + 1
      /\ UNCHANGED <<m_pool, prev_m_pool, isReloadedMem>>
  BY <1>1, InitKeeps, MainAssumption DEF Init
<1> QED
  BY <1>1, <1>2, Numbers DEF PhaseInv, HeadGiven

LEMMA InitWorkerPhase ==
  ASSUME AInv, PackedInv, PhaseInv, NEW w \in Worker, InitWorker(w)
  PROVE  PhaseInv'
<1>1. /\ phase = "run" /\ Init(w) /\ work' = [work EXCEPT ![w] = "wait"]
      /\ UNCHANGED <<phase, base, m_head, m_tail>>
  BY DEF InitWorker, history, list
<1>2. mg_freeIndex' = mg_freeIndex /\ m_ticket' = m_ticket + 1
      /\ UNCHANGED <<m_pool, prev_m_pool, isReloadedMem>>
  BY <1>1, InitKeeps DEF Init, Worker
<1> QED
  BY <1>1, <1>2, Numbers DEF PhaseInv, HeadGiven

LEMMA PassBarrierPhase ==
  ASSUME PhaseInv, NEW w \in Worker, PassBarrier(w)
  PROVE  PhaseInv'
<1>1. work' = [work EXCEPT ![w] = "work"]
      /\ UNCHANGED <<object, up, threadId, mg_freeIndex, phase, base, m_head, m_tail>>
  BY DEF PassBarrier, history, list, avars, locals
<1> QED
  BY <1>1 DEF PhaseInv, HeadGiven, object

LEMMA AllocNodePhase ==
  ASSUME AInv, PackedInv, PhaseInv, NEW t \in Thread, AllocNode(t)
  PROVE  PhaseInv'
<1>1. /\ phase = "run" /\ Alloc(t)
      /\ UNCHANGED <<phase, work, base, m_head, m_tail>>
  BY DEF AllocNode, Working, history, list
<1>2. [ANext]_avars
  BY <1>1 DEF ANext
<1>3. mg_freeIndex[0] <= mg_freeIndex'[0]
  BY <1>2, IndexGrows, FirstRegion
<1>4. UNCHANGED <<m_pool, prev_m_pool, m_ticket, isReloadedMem>>
  BY <1>1 DEF Alloc, object
<1>5. mg_freeIndex'[0] \in Nat
  BY <1>2, AStep, FirstRegion DEF AInv, AllocatorTypeOK
<1> QED
  BY <1>1, <1>3, <1>4, <1>5, Numbers DEF PhaseInv, HeadGiven

LEMMA LinkNodePhase ==
  ASSUME PhaseInv, NEW t \in Thread, LinkNode(t)
  PROVE  PhaseInv'
BY DEF PhaseInv, LinkNode, First, HeadGiven, avars, object, locals, history

LEMMA RemovalPhase ==
  ASSUME PhaseInv, NEW w \in Worker, MarkDesc(w) \/ MarkNext(w) \/ Unlink(w)
  PROVE  PhaseInv'
<1>1. UNCHANGED <<object, up, threadId, mg_freeIndex, phase, work, base, m_head, m_tail>>
  BY DEF MarkDesc, MarkNext, Unlink, avars, locals, history
<1> QED
  BY <1>1 DEF PhaseInv, HeadGiven, object

LEMMA CrashPhase ==
  ASSUME AInv, PhaseInv, Crash
  PROVE  PhaseInv'
<1>1. /\ m_ticket' = 0 /\ isReloadedMem' = TRUE /\ phase' = "reconstruct"
      /\ work' = [w \in Worker |-> "init"] /\ base' = base
  BY DEF Crash, Reload
<1> QED
  BY <1>1 DEF PhaseInv

LEMMA FindSentinelsPhase ==
  ASSUME AInv, PhaseInv, FindSentinels
  PROVE  PhaseInv'
<1>1. /\ phase = "find" /\ m_tail' = getFirst(Main)
      /\ m_head' = getNext(Main, getFirst(Main))
      /\ phase' = (IF m_head' = Null \/ base # prev_m_pool THEN "unusable" ELSE "walk")
      /\ UNCHANGED <<object, up, threadId, mg_freeIndex, work, base>>
  BY DEF FindSentinels, avars, locals, history
<1>2. m_base[Main] = m_pool /\ m_freeIndex[Main] = mg_freeIndex[0]
  BY <1>1, FirstRegion, Numbers DEF PhaseInv, AInv
<1>3. m_tail' = m_pool
      /\ m_head' = IF m_pool + Size >= m_pool + mg_freeIndex[0] THEN Null ELSE m_pool + Size
  BY <1>1, <1>2 DEF getFirst, getNext
<1> QED
  BY <1>1, <1>3, Numbers DEF PhaseInv, HeadGiven, object, TailPlace, HeadPlace, Null

LEMMA VisitDescPhase ==
  ASSUME PhaseInv, VisitDesc
  PROVE  PhaseInv'
BY DEF PhaseInv, VisitDesc, First, HeadGiven, avars, object, locals, history, list

LEMMA NextRegionPhase ==
  ASSUME AInv, PhaseInv, NextRegion
  PROVE  PhaseInv'
<1>1. /\ phase = "walk"
      /\ \/ UNCHANGED <<phase, base>>
         \/ phase' = "fix" /\ base' = (IF m_pool = base THEN base ELSE Null)
      /\ UNCHANGED <<object, up, threadId, mg_freeIndex, work, m_head, m_tail>>
  BY DEF NextRegion, avars, locals
<1> QED
  BY <1>1, Numbers DEF PhaseInv, HeadGiven, object

LEMMA FixPhase ==
  ASSUME AInv, PhaseInv, FixPointer \/ CheckList
  PROVE  PhaseInv'
<1>1. /\ phase = "fix"
      /\ \/ phase' \in {"fix", "fault"} /\ base' = base
         \/ phase' \in {"run", "fault"} /\ base' = m_pool
      /\ UNCHANGED <<object, up, threadId, mg_freeIndex, work, m_head, m_tail>>
  BY DEF FixPointer, CheckList, avars, locals, list, history
<1> QED
  BY <1>1, Numbers DEF PhaseInv, HeadGiven, object

LEMMA PhaseStutter == ASSUME PhaseInv, UNCHANGED vars PROVE PhaseInv'
BY DEF PhaseInv, HeadGiven, vars, avars, object, locals, history, list

LEMMA PhaseStep ==
  ASSUME AInv, PackedInv, PhaseInv, [RNext]_vars
  PROVE  PhaseInv'
<1>1. CASE ConstructAdaptor \/ NewTail \/ NewHead \/ ConstructHead \/ InitMain
  BY <1>1, ConstructAdaptorPhase, NewTailPhase, NewHeadPhase, ConstructHeadPhase,
     InitMainPhase
<1>2. CASE \E w \in Worker :
             InitWorker(w) \/ PassBarrier(w) \/ MarkDesc(w) \/ MarkNext(w) \/ Unlink(w)
  BY <1>2, InitWorkerPhase, PassBarrierPhase, RemovalPhase
<1>3. CASE \E t \in Thread : AllocNode(t) \/ LinkNode(t)
  BY <1>3, AllocNodePhase, LinkNodePhase
<1>4. CASE Crash \/ FindSentinels \/ VisitDesc \/ NextRegion
  BY <1>4, CrashPhase, FindSentinelsPhase, VisitDescPhase, NextRegionPhase
<1>5. CASE FixPointer \/ CheckList
  BY <1>5, FixPhase
<1>6. CASE Ended \/ UNCHANGED vars
  BY <1>6, PhaseStutter DEF Ended
<1> QED
  BY <1>1, <1>2, <1>3, <1>4, <1>5, <1>6 DEF RNext
-----------------------------------------------------------------------------
(* The walk over the regions.                                              *)

\* The walk starts at the first place of a region, which is one to look at.
LEMMA WalkStarts ==
  ASSUME AInv, PackedInv, NEW r \in Region
  PROVE  /\ getFirstForThread(r) \in Int /\ getFirstForThread(r) # Null
         /\ At(getFirstForThread(r)) = Offset(r)
         /\ Offset(r) \in Marks(r)
         /\ \A a \in Marks(r) : a \in Int /\ Offset(r) <= a
<1>1. Offset(r) \in Nat /\ m_pool \in Nat \ {0} /\ mg_freeIndex[r] \in Nat
  BY OffsetType, Numbers
<1>2. Offset(r) \in Marks(r)
  BY <1>1 DEF Marks, PackedInv
<1>3. \A a \in Marks(r) : a \in Int /\ Offset(r) <= a
  BY <1>1, RegionCells DEF Marks
<1> QED
  BY <1>1, <1>2, <1>3 DEF getFirstForThread, At, Null

\* It goes on to the next one behind, and past the last one it ends.
LEMMA WalkGoesOn ==
  ASSUME AInv, PackedInv, NEW r \in Region, NEW p \in Int, At(p) \in Marks(r)
  PROVE  LET q == getNextForThread(p, r)
         IN  /\ q \in Int
             /\ q # Null => /\ At(q) \in Marks(r) /\ At(p) < At(q)
                            /\ \A a \in Marks(r) : At(p) < a => At(q) <= a
             /\ q = Null => \A a \in Marks(r) : a <= At(p)
<1> DEFINE q == getNextForThread(p, r)
           e == Offset(r) + mg_freeIndex[r]
           b == At(p)
<1>1. Offset(r) \in Nat /\ m_pool \in Nat \ {0} /\ mg_freeIndex[r] \in Nat
      /\ Size \in Nat \ {0} /\ b \in Int /\ p = m_pool + b
  BY OffsetType, Numbers DEF At
<1>2. q = IF b + Size >= e THEN Null ELSE p + Size
  BY <1>1 DEF getNextForThread
<1>3. b >= 0
  BY <1>1, WalkStarts
<1>4. CASE b + Size >= e
  <2>1. q = Null
    BY <1>2, <1>4
  <2>2. ASSUME NEW a \in Marks(r) PROVE a <= b
    <3>1. CASE mg_freeIndex[r] = 0
      BY <1>1, <2>2, <3>1 DEF Marks
    <3>2. CASE mg_freeIndex[r] # 0
      <4>1. a \in CellsOf(r)
        BY <2>2, <3>2 DEF Marks
      <4>2. a \in Int /\ a + Size <= e
        BY <4>1, RegionCells
      <4> HIDE DEF b, e
      <4>3. e \in Int
        BY <1>1 DEF e
      <4> QED
        BY <1>1, <1>4, <4>2, <4>3
    <3> QED
      BY <3>1, <3>2
  <2> QED
    BY <2>1, <2>2 DEF Null
<1>5. CASE b + Size < e
  <2>1. q = p + Size /\ q # Null /\ q \in Int /\ At(q) = b + Size
    BY <1>1, <1>2, <1>3, <1>5 DEF Null, At
  <2>2. mg_freeIndex[r] # 0
    BY <1>1, <1>5, WalkStarts
  <2>3. Marks(r) = CellsOf(r)
    BY <2>2 DEF Marks
  <2>4. b + Size \in CellsOf(r)
    BY <1>5, <2>3 DEF PackedInv
  <2>5. \A a \in Marks(r) : b < a => b + Size <= a
    BY <2>3, RegionCells
  <2> HIDE DEF b, e, q
  <2> QED
    BY <1>1, <2>1, <2>3, <2>4, <2>5 DEF b, q
<1> QED
  BY <1>1, <1>4, <1>5

\* The regions behind the walk grow one by one.
LEMMA EarlierGrows ==
  /\ Earlier(0) = {}
  /\ \A r \in Region : Earlier(r + 1) = Earlier(r) \union Marks(r)
<1>1. Earlier(0) = {}
  BY DEF Earlier, Region
<1>2. ASSUME NEW r \in Region PROVE Earlier(r + 1) = Earlier(r) \union Marks(r)
  <2>1. {q \in Region : q < r + 1} = {q \in Region : q < r} \union {r}
    BY DEF Region
  <2> QED
    BY <2>1 DEF Earlier
<1> QED
  BY <1>1, <1>2

\* What the walk has passed depends on the allocator and on curr only.
LEMMA EarlierSame ==
  ASSUME UNCHANGED avars, NEW r
  PROVE  Earlier(r)' = Earlier(r) /\ Marks(r)' = Marks(r)
BY DEF Earlier, avars, object, Marks, CellsOf, Offset

LEMMA PassedSame ==
  ASSUME UNCHANGED avars, NEW r, NEW p
  PROVE  /\ Passed(r, p)' = Passed(r, p) /\ At(p)' = At(p)
         /\ getNextForThread(p, r)' = getNextForThread(p, r)
BY DEF Passed, avars, object, Marks, CellsOf, Offset, At, getNextForThread

\* The walk stands at p in region r.
Stands(r, p, q) ==
  /\ r \in Region /\ p \in Int
  /\ p # Null => At(p) \in Marks(r) /\ q = getNextForThread(p, r)

\* It stands as well after a step that leaves the allocator alone.
LEMMA StandsNext ==
  ASSUME UNCHANGED avars, phase' = "walk", NEW r, NEW p, NEW q,
         region' = r, curr' = p, following' = q, Stands(r, p, q),
         visited' = Earlier(r) \union Passed(r, p)
  PROVE  VisitInv'
<1>1. Earlier(r)' = Earlier(r) /\ Passed(r, p)' = Passed(r, p) /\ At(p)' = At(p)
      /\ Marks(r)' = Marks(r) /\ getNextForThread(p, r)' = getNextForThread(p, r)
  BY EarlierSame, PassedSame
<1>2. visited' = Earlier(r)' \union Passed(r, p)'
  BY <1>1
<1>3. visited' = (Earlier(region) \union Passed(region, curr))'
  BY <1>2 DEF Earlier, Passed, Marks, CellsOf, At, Offset
<1>4. curr' # Null => At(curr)' \in Marks(region)'
                      /\ following' = getNextForThread(curr, region)'
  BY <1>1 DEF Stands, At, Marks, CellsOf, Offset, getNextForThread
<1> QED
  BY <1>3, <1>4 DEF VisitInv, Stands

LEMMA FindSentinelsVisit ==
  ASSUME AInv, PackedInv, VisitInv, FindSentinels
  PROVE  VisitInv'
<1>1. /\ phase = "find" /\ phase' \in {"unusable", "walk"}
      /\ curr' = getFirstForThread(0)
      /\ following' = getNextForThread(getFirstForThread(0), 0)
      /\ UNCHANGED <<avars, region, visited>>
  BY DEF FindSentinels
<1>2. region = 0 /\ visited = {}
  BY <1>1 DEF VisitInv
<1>3. 0 \in Region
  BY FirstRegion
<1>4. PICK p : p = getFirstForThread(0)
  OBVIOUS
<1>5. /\ p \in Int /\ At(p) = Offset(0) /\ Offset(0) \in Marks(0)
      /\ p # Null
      /\ \A a \in Marks(0) : a \in Int /\ Offset(0) <= a
  BY <1>3, <1>4, WalkStarts
<1>6. Passed(0, p) = {}
  BY <1>3, <1>5, OffsetType DEF Passed
<1>7. PICK q : q = getNextForThread(p, 0)
  OBVIOUS
<1>8. Stands(0, p, q)
  BY <1>3, <1>5, <1>7 DEF Stands
<1>9. visited' = Earlier(0) \union Passed(0, p)
  BY <1>1, <1>2, <1>6, EarlierGrows
<1>10. CASE phase' = "walk"
  BY <1>1, <1>2, <1>4, <1>7, <1>8, <1>9, <1>10, StandsNext
<1>11. CASE phase' = "unusable"
  BY <1>11 DEF VisitInv
<1> QED
  BY <1>1, <1>10, <1>11

LEMMA VisitDescVisit ==
  ASSUME AInv, PackedInv, VisitInv, VisitDesc
  PROVE  VisitInv'
<1>0. PICK r, p, q : r = region /\ p = curr /\ q = following
  OBVIOUS
<1>1. /\ phase = "walk" /\ phase' = "walk" /\ p # Null
      /\ visited' = visited \union {At(p)}
      /\ curr' = q /\ following' = getNextForThread(q, r) /\ region' = r
      /\ UNCHANGED avars
  BY <1>0 DEF VisitDesc
<1>2. /\ r \in Region /\ p \in Int /\ At(p) \in Marks(r)
      /\ q = getNextForThread(p, r)
      /\ visited = Earlier(r) \union Passed(r, p)
  BY <1>0, <1>1 DEF VisitInv
<1>3. /\ q \in Int
      /\ q # Null => /\ At(q) \in Marks(r) /\ At(p) < At(q)
                     /\ \A a \in Marks(r) : At(p) < a => At(q) <= a
      /\ q = Null => \A a \in Marks(r) : a <= At(p)
  BY <1>2, WalkGoesOn
<1>4. \A a \in Marks(r) : a \in Int
  BY <1>2, WalkStarts
<1>5. At(p) \in Int /\ (q # Null => At(q) \in Int)
  BY <1>2, <1>3, <1>4
<1>6. Passed(r, p) \union {At(p)} = Passed(r, q)
  <2>1. ASSUME NEW a \in Marks(r)
        PROVE  a < At(p) \/ a = At(p) <=> (q # Null => a < At(q))
    BY <1>3, <1>4, <1>5
  <2> QED
    BY <1>1, <1>2, <2>1 DEF Passed
<1>7. visited' = Earlier(r) \union Passed(r, q)
  BY <1>1, <1>2, <1>6
<1>8. PICK z : z = getNextForThread(q, r)
  OBVIOUS
<1>9. Stands(r, q, z)
  BY <1>2, <1>3, <1>8 DEF Stands
<1> QED
  BY <1>1, <1>7, <1>8, <1>9, StandsNext

LEMMA NextRegionVisit ==
  ASSUME AInv, PackedInv, VisitInv, NextRegion
  PROVE  VisitInv'
<1>0. PICK r : r = region
  OBVIOUS
<1>1. phase = "walk" /\ curr = Null /\ visited' = visited /\ UNCHANGED avars
  BY DEF NextRegion
<1>2. r \in Region /\ visited = Earlier(r) \union Passed(r, Null)
  BY <1>0, <1>1 DEF VisitInv
<1>3. visited = Earlier(r + 1)
  BY <1>2, EarlierGrows DEF Passed
<1>4. CASE r + 1 < WalkedRegions
  <2>1. PICK s \in Region : s = r + 1
    BY <1>2, <1>4, SizesAssumption DEF Region, WalkedRegions
  <2>2. PICK p, q : p = getFirstForThread(s) /\ q = getNextForThread(p, s)
    OBVIOUS
  <2>3. region' = s /\ curr' = p /\ phase' = "walk" /\ following' = q
    BY <1>0, <1>1, <1>4, <2>1, <2>2 DEF NextRegion
  <2>4. /\ p \in Int /\ p # Null /\ At(p) = Offset(s)
        /\ Offset(s) \in Marks(s)
        /\ \A a \in Marks(s) : a \in Int /\ Offset(s) <= a
    BY <2>2, WalkStarts
  <2>5. Passed(s, p) = {}
    BY <2>4, OffsetType DEF Passed
  <2>6. Stands(s, p, q)
    BY <2>2, <2>4 DEF Stands
  <2>7. visited' = Earlier(s) \union Passed(s, p)
    BY <1>1, <1>3, <2>1, <2>5
  <2> QED
    BY <1>1, <2>3, <2>6, <2>7, StandsNext
<1>5. CASE ~(r + 1 < WalkedRegions)
  <2>1. phase' = "fix"
    BY <1>0, <1>1, <1>5 DEF NextRegion
  <2>2. r + 1 = Count
    BY <1>2, <1>5, SizesAssumption DEF Region, WalkedRegions
  <2>3. Earlier(Count)' = Earlier(Count)
    BY <1>1, EarlierSame
  <2> QED
    BY <1>1, <1>3, <2>1, <2>2, <2>3 DEF VisitInv
<1> QED
  BY <1>4, <1>5

LEMMA VisitSame ==
  ASSUME VisitInv, UNCHANGED <<avars, phase, region, curr, following, visited>>
  PROVE  VisitInv'
<1>1. CASE phase = "walk"
  <2>1. PICK r, p, q : r = region /\ p = curr /\ q = following
    OBVIOUS
  <2>2. Stands(r, p, q) /\ visited = Earlier(r) \union Passed(r, p)
    BY <1>1, <2>1 DEF VisitInv, Stands
  <2> QED
    BY <1>1, <2>1, <2>2, StandsNext
<1>2. CASE phase = "fix"
  <2>1. Earlier(Count)' = Earlier(Count)
    BY EarlierSame
  <2> QED
    BY <1>2, <2>1 DEF VisitInv
<1>3. CASE phase \notin {"walk", "fix"}
  BY <1>3 DEF VisitInv
<1> QED
  BY <1>1, <1>2, <1>3

LEMMA VisitElsewhere ==
  ASSUME phase' \notin {"reconstruct", "find", "walk", "fix"}
  PROVE  VisitInv'
BY DEF VisitInv

LEMMA VisitStep ==
  ASSUME AInv, PackedInv, VisitInv, [RNext]_vars
  PROVE  VisitInv'
<1>1. CASE NewTail \/ NewHead \/ ConstructHead \/ InitMain
  BY <1>1, VisitElsewhere DEF NewTail, NewHead, ConstructHead, InitMain
<1>2. CASE ConstructAdaptor
  <2>1. phase \in {"construct", "reconstruct"}
        /\ phase' = (IF phase = "construct" THEN "tail" ELSE "find")
        /\ UNCHANGED <<region, visited>>
    BY <1>2 DEF ConstructAdaptor, walk
  <2> QED
    BY <2>1 DEF VisitInv
<1>3. CASE \E w \in Worker : InitWorker(w)
  BY <1>3, VisitElsewhere DEF InitWorker
<1>4. CASE \E t \in Thread : AllocNode(t)
  BY <1>4, VisitElsewhere DEF AllocNode, Working
<1>5. CASE \/ \E w \in Worker : PassBarrier(w) \/ MarkDesc(w) \/ MarkNext(w) \/ Unlink(w)
           \/ \E t \in Thread : LinkNode(t)
  BY <1>5, VisitSame DEF PassBarrier, MarkDesc, MarkNext, Unlink, LinkNode, walk
<1>6. CASE Crash
  BY <1>6 DEF Crash, VisitInv
<1>7. CASE FindSentinels \/ VisitDesc \/ NextRegion
  BY <1>7, FindSentinelsVisit, VisitDescVisit, NextRegionVisit
<1>8. CASE FixPointer \/ CheckList
  <2>1. phase = "fix" /\ UNCHANGED <<avars, visited>>
    BY <1>8 DEF FixPointer, CheckList
  <2>2. phase' \in {"fix", "fault", "run"}
    BY <1>8 DEF FixPointer, CheckList
  <2>3. Earlier(Count)' = Earlier(Count)
    BY <2>1, EarlierSame
  <2> QED
    BY <2>1, <2>2, <2>3 DEF VisitInv
<1>9. CASE Ended \/ UNCHANGED vars
  BY <1>9, VisitSame DEF Ended, vars, walk
<1> QED
  BY <1>1, <1>2, <1>3, <1>4, <1>5, <1>6, <1>7, <1>8, <1>9 DEF RNext

\* What the walk has met when it ends are the cells, and the starts of the regions
\* that have none.
LEMMA VisitMeans == AInv /\ VisitInv => VisitsAll
<1> SUFFICES ASSUME AInv, VisitInv, phase = "fix"
             PROVE  visited = {c.at : c \in given}
                                \union {Offset(r) : r \in {s \in Region : mg_freeIndex[s] = 0}}
  BY DEF VisitsAll
<1>1. visited = UNION {Marks(r) : r \in Region}
  <2>1. {q \in Region : q < Count} = Region
    BY SizesAssumption DEF Region
  <2> QED
    BY <2>1 DEF VisitInv, Earlier
<1>2. \A r \in Region : mg_freeIndex[r] = 0 => CellsOf(r) = {}
  BY EmptyRegion
<1>3. \A c \in given : c.region \in Region
  BY DEF AInv, AllocatorTypeOK, Cell
<1> QED
  BY <1>1, <1>2, <1>3 DEF Marks, CellsOf
-----------------------------------------------------------------------------
(* The list.                                                               *)

\* A list depends on the links of its own nodes.
LEMMA LineSame ==
  ASSUME NEW D, NEW f, NEW g, Line(D, f), \A a \in D : g[a] = f[a]
  PROVE  Line(D, g)
BY DEF Line

\* A node n that enters behind a makes it longer.
LEMMA LineGrows ==
  ASSUME NEW D, NEW f, NEW g, Line(D, f), NEW a \in D, NEW n, n \notin D,
         n # TailPlace, g[a] = n, g[n] = f[a], \A x \in D \ {a} : g[x] = f[x]
  PROVE  Line(D \union {n}, g)
<1> DEFINE E == D \union {n}
<1>1. /\ HeadPlace \in D /\ TailPlace \notin D
      /\ \A x \in D : f[x] \in D \union {TailPlace}
      /\ \A x, y \in D : f[x] = f[y] => x = y
      /\ \A C \in SUBSET D : C # {} => \E x \in C : f[x] \notin C
      /\ \A C \in SUBSET D :
           HeadPlace \in C /\ (\A x \in C : f[x] \in C \union {TailPlace}) => C = D
  BY DEF Line
<1>2. HeadPlace \in E /\ TailPlace \notin E /\ \A x \in E : g[x] \in E \union {TailPlace}
  BY <1>1
<1>3. ASSUME NEW C \in SUBSET E, C # {} PROVE \E x \in C : g[x] \notin C
  <2>1. f[a] # n /\ f[a] \notin {n}
    BY <1>1
  <2>2. CASE C = {n}
    BY <2>1, <2>2
  <2>3. CASE C # {n}
    <3>1. C \ {n} \in SUBSET D /\ C \ {n} # {}
      BY <1>3, <2>3
    <3>2. PICK x \in C \ {n} : f[x] \notin C \ {n}
      BY <1>1, <3>1
    <3>3. x \in D /\ f[x] # n
      BY <1>1, <3>1
    <3>4. CASE x # a
      BY <3>2, <3>3, <3>4
    <3>5. CASE x = a /\ n \in C
      BY <3>2, <3>3, <3>5
    <3>6. CASE x = a /\ n \notin C
      BY <3>2, <3>6
    <3> QED
      BY <3>4, <3>5, <3>6
  <2> QED
    BY <2>2, <2>3
<1>4. ASSUME NEW C \in SUBSET E, HeadPlace \in C, \A x \in C : g[x] \in C \union {TailPlace}
      PROVE  C = E
  <2>1. C \intersect D \in SUBSET D /\ HeadPlace \in C \intersect D
    BY <1>1, <1>4
  <2>2. ASSUME NEW x \in C \intersect D PROVE f[x] \in (C \intersect D) \union {TailPlace}
    <3>1. CASE x = a
      <4>1. n \in C
        BY <1>4, <3>1
      <4>2. g[n] \in C \union {TailPlace}
        BY <1>4, <4>1
      <4> QED
        BY <1>1, <3>1, <4>2
    <3>2. CASE x # a
      BY <1>1, <1>4, <3>2
    <3> QED
      BY <3>1, <3>2
  <2>3. C \intersect D = D
    BY <1>1, <2>1, <2>2
  <2>4. n \in C
    BY <1>4, <2>3
  <2> QED
    BY <2>3, <2>4
<1>5. \A x, y \in E : g[x] = g[y] => x = y
  BY <1>1
<1> QED
  BY <1>2, <1>3, <1>4, <1>5 DEF Line

\* A node b behind a that is taken out makes it shorter.
LEMMA LineShrinks ==
  ASSUME NEW D, NEW f, NEW g, Line(D, f), NEW a \in D, NEW b \in D, b = f[a],
         b # HeadPlace, g[a] = f[b], \A x \in D \ {a} : g[x] = f[x]
  PROVE  Line(D \ {b}, g)
<1> DEFINE E == D \ {b}
<1>1. /\ HeadPlace \in D /\ TailPlace \notin D
      /\ \A x \in D : f[x] \in D \union {TailPlace}
      /\ \A x, y \in D : f[x] = f[y] => x = y
      /\ \A C \in SUBSET D : C # {} => \E x \in C : f[x] \notin C
      /\ \A C \in SUBSET D :
           HeadPlace \in C /\ (\A x \in C : f[x] \in C \union {TailPlace}) => C = D
  BY DEF Line
<1>2. f[b] # b /\ a # b
  <2>1. {b} \in SUBSET D /\ {b} # {}
    OBVIOUS
  <2>2. PICK x \in {b} : f[x] \notin {b}
    BY <1>1, <2>1
  <2>3. f[b] # b
    BY <2>2
  <2> QED
    BY <2>3
<1>3. HeadPlace \in E /\ TailPlace \notin E /\ \A x \in E : g[x] \in E \union {TailPlace}
  BY <1>1, <1>2
<1>4. \A x, y \in E : g[x] = g[y] => x = y
  BY <1>1
<1>5. ASSUME NEW C \in SUBSET E, C # {} PROVE \E x \in C : g[x] \notin C
  <2>1. CASE a \notin C
    <3>1. C \in SUBSET D
      OBVIOUS
    <3>2. PICK x \in C : f[x] \notin C
      BY <1>1, <1>5, <3>1
    <3> QED
      BY <2>1, <3>2
  <2>2. CASE a \in C
    <3>1. C \union {b} \in SUBSET D /\ C \union {b} # {}
      OBVIOUS
    <3>2. PICK x \in C \union {b} : f[x] \notin C \union {b}
      BY <1>1, <3>1
    <3>3. x # a
      BY <3>2
    <3>4. CASE x = b
      BY <2>2, <3>2, <3>4
    <3>5. CASE x # b
      BY <3>2, <3>3, <3>5
    <3> QED
      BY <3>4, <3>5
  <2> QED
    BY <2>1, <2>2
<1>6. ASSUME NEW C \in SUBSET E, HeadPlace \in C, \A x \in C : g[x] \in C \union {TailPlace}
      PROVE  C = E
  <2>1. CASE a \in C
    <3>1. C \union {b} \in SUBSET D /\ HeadPlace \in C \union {b}
      BY <1>6
    <3>2. \A x \in C \union {b} : f[x] \in (C \union {b}) \union {TailPlace}
      BY <1>6, <2>1
    <3>3. C \union {b} = D
      BY <1>1, <3>1, <3>2
    <3> QED
      BY <3>3
  <2>2. CASE a \notin C
    <3>1. C \in SUBSET D /\ \A x \in C : f[x] \in C \union {TailPlace}
      BY <1>6, <2>2
    <3> QED
      BY <1>1, <1>6, <2>2, <3>1
  <2> QED
    BY <2>1, <2>2
<1> QED
  BY <1>3, <1>4, <1>5, <1>6 DEF Line

\* The sentinels of this process.
Sentinels ==
  m_pool \in Nat \ {0} /\ m_tail = m_pool + TailPlace /\ m_head = m_pool + HeadPlace

\* The recursive definition of the list finds the line that begins at the head.
LEMMA ChainIs ==
  Sentinels =>
    \A D \in SUBSET Place : Line(D, [a \in D |-> At(next[a])]) => Chain = D
<1> SUFFICES ASSUME Sentinels, NEW D \in SUBSET Place, Line(D, [a \in D |-> At(next[a])])
             PROVE  Chain = D
  OBVIOUS
<1> DEFINE f == [a \in D |-> At(next[a])]
           g == [a \in Place |-> Follow(a)]
           Follows(F) == F = [a \in Place |-> IF a = At(m_tail) THEN {}
                                              ELSE {a} \union F[Follow(a)]]
<1>1. At(m_tail) = TailPlace /\ At(m_head) = HeadPlace /\ m_head # Null
  BY SizesAssumption DEF Sentinels, At, TailPlace, HeadPlace, Null
<1>2. \A a \in Place : Follow(a) \in Place
  BY <1>1, SentinelPlaces DEF Follow
<1>3. \A a \in D : Follow(a) = At(next[a])
  <2>1. \A a \in D : At(next[a]) \in D \union {TailPlace}
    BY DEF Line
  <2> QED
    BY <2>1, <1>1, SentinelPlaces DEF Follow
<1>4. g \in [Place -> Place] /\ \A a \in Place : g[a] = Follow(a)
  BY <1>2
<1>5. Line(D, g)
  BY <1>3, <1>4, LineSame
<1>6. \A F : Follows(F) <=> Walks(F, Place, g, {TailPlace})
  BY <1>1, <1>4 DEF Walks
<1> HIDE DEF g
<1>7. Follows(CHOOSE F : Follows(F))
  <2>1. \E F : Walks(F, Place, g, {TailPlace})
    BY <1>4, WalksExist
  <2> HIDE DEF Follows
  <2> QED
    BY <1>6, <2>1
<1>8. PICK F : F = (CHOOSE G : Follows(G))
  OBVIOUS
<1>9. Walks(F, Place, g, {TailPlace})
  BY <1>6, <1>7, <1>8
<1>10. F[HeadPlace] = D
  <2>1. D \in SUBSET (Place \ {TailPlace}) /\ HeadPlace \in D
    BY <1>5 DEF Line
  <2>2. Closed(g, {TailPlace}, D) /\ Grounded(D, g) /\ \A x \in D : g[x] \in Place
    BY <1>4, <1>5 DEF Closed, Grounded, Line
  <2>3. \A C \in SUBSET D : HeadPlace \in C /\ Closed(g, {TailPlace}, C) => C = D
    BY <1>5 DEF Closed, Line
  <2> QED
    BY <1>9, <2>1, <2>2, <2>3, WalkWhole
<1> QED
  BY <1>1, <1>8, <1>10 DEF Chain

LEMMA ChainIsNext ==
  Sentinels' =>
    \A D \in SUBSET Place : Line(D, [a \in D |-> At(next[a])])' => Chain' = D
<1>1. (Sentinels =>
         \A D \in SUBSET Place : Line(D, [a \in D |-> At(next[a])]) => Chain = D)'
  BY ChainIs, PTL
<1> QED
  BY <1>1

\* The head of a list has a successor.
LEMMA HeadLinked ==
  Sentinels /\ Chain \subseteq Place /\ Line(Chain, Links) /\ next \in [Place -> Int]
    => next[HeadPlace] # Null
<1> SUFFICES ASSUME Sentinels, Chain \subseteq Place, Line(Chain, Links),
                    next \in [Place -> Int]
             PROVE  next[HeadPlace] # Null
  OBVIOUS
<1>1. HeadPlace \in Chain /\ Links[HeadPlace] \in Chain \union {TailPlace}
  BY DEF Line
<1>2. At(next[HeadPlace]) \in Place
  BY <1>1, SentinelPlaces DEF Links
<1>3. m_pool \in Nat \ {0} /\ next[HeadPlace] \in Int /\ At(next[HeadPlace]) >= 0
  BY <1>1, <1>2 DEF Sentinels, Place
<1> QED
  BY <1>3 DEF At, Null

LEMMA HeadLinkedNext ==
  Sentinels' /\ Chain' \subseteq Place /\ Line(Chain, Links)' /\ next' \in [Place -> Int]
    => next'[HeadPlace] # Null
<1>1. (Sentinels /\ Chain \subseteq Place /\ Line(Chain, Links) /\ next \in [Place -> Int]
         => next[HeadPlace] # Null)'
  BY HeadLinked, PTL
<1> QED
  BY <1>1 DEF Place, HeadPlace, Null

\* The list stays where its pointers do.
LEMMA ChainSame ==
  ASSUME UNCHANGED <<m_pool, next, m_head, m_tail>>
  PROVE  Chain' = Chain /\ Links' = Links
<1>1. Chain' = Chain
  BY DEF Chain, Follow, At
<1> QED
  BY <1>1 DEF Links, At

\* A cell that is handed out is none that was handed out before.
LEMMA FreshCell ==
  ASSUME AInv, PackedInv, Within', NEW t \in Thread, NEW r \in Region, Adds(t, r)
  PROVE  Offset(r) + mg_freeIndex[r] \notin Taken
<1> DEFINE p == Offset(r) + mg_freeIndex[r]
<1> SUFFICES ASSUME NEW c \in given, c.at = p PROVE FALSE
  BY DEF Taken
<1>1. c.region \in Region /\ c.at \in Int
  BY DEF AInv, AllocatorTypeOK, Cell
<1>2. PICK s \in Region : s = c.region
  BY <1>1
<1>3. mg_freeIndex \in [Region -> Nat] /\ Offset(r) \in Nat /\ Offset(s) \in Nat
      /\ Share \in Nat /\ Size \in Nat \ {0}
  BY Numbers, OffsetType, ShareType
<1>4. Offset(s) <= p /\ p + Size <= Offset(s) + mg_freeIndex[s]
  BY <1>2 DEF AInv
<1>5. mg_freeIndex' = [mg_freeIndex EXCEPT ![r] = mg_freeIndex[r] + Size]
  BY DEF Adds
<1>6. \A q \in Region : mg_freeIndex'[q] <= Share
  BY DEF Within, Share
<1>7. mg_freeIndex[r] + Size <= Share
  BY <1>3, <1>5, <1>6
<1>8. CASE s = r
  BY <1>3, <1>4, <1>8
<1>9. CASE s < r
  <2>1. Offset(s) + Share <= Offset(r)
    BY <1>9, RegionsApart
  <2>2. mg_freeIndex[s] <= Share
    BY <1>3, <1>5, <1>6, <1>9
  <2> QED
    BY <1>3, <1>4, <2>1, <2>2
<1>10. CASE r < s
  <2>1. Offset(r) + Share <= Offset(s)
    BY <1>10, RegionsApart
  <2> QED
    BY <1>3, <1>4, <1>7, <2>1
<1> QED
  BY <1>8, <1>9, <1>10 DEF Region

\* Steps that leave the list, the cells and the mapping of the pool alone.
ListVars == <<m_pool, prev_m_pool, isReloadedMem, mg_freeIndex, given,
              next, marked, deleted, mine, links, base>>

\* The links of the last process stay a list while cells are only added.
LEMMA SavedSame ==
  ASSUME SavedInv, UNCHANGED <<isReloadedMem, links>>, Built' => Built, Taken \subseteq Taken'
  PROVE  SavedInv'
BY DEF SavedInv, ListOn, Line

\* The marks stay where they are while cells are only added.
LEMMA MarksSame ==
  ASSUME MarkInv, UNCHANGED <<marked, deleted>>, Taken \subseteq Taken'
  PROVE  MarkInv'
BY DEF MarkInv, HeadPlace, TailPlace

LEMMA QuietStep ==
  ASSUME ListInv, UNCHANGED ListVars, phase \notin InUse,
         phase' \notin InUse \union {"fix", "fault"},
         phase' \in First => phase \in First,
         phase' \in {"reconstruct", "find", "walk", "unusable"}
           => phase \in {"reconstruct", "find", "walk", "unusable"}
  PROVE  ListInv'
<1>1. next' \in [Place -> Int] /\ mine' \in [Thread -> Int]
  BY DEF ListInv, ListVars
<1>2. \A t \in Thread : mine'[t] = Null
  BY DEF ListInv, MineInv, ListVars
<1>3. Taken' = Taken /\ Built' = Built
  BY DEF ListVars, Taken, Built, HeadGiven, HeadPlace
<1>4. SavedInv' /\ MarkInv'
  BY <1>3, SavedSame, MarksSame DEF ListInv, ListVars
<1>5. (phase \in {"reconstruct", "find", "walk", "unusable"} /\ Built /\ base # Null => Pointers)'
  BY <1>3 DEF ListInv, ListVars, Pointers
<1>6. (phase \in First \ {"prefill"} => next[HeadPlace] = Null)'
  BY DEF ListInv, ListVars, HeadPlace
<1> QED
  BY <1>1, <1>2, <1>4, <1>5, <1>6 DEF ListInv, MineInv, Restarted

LEMMA RunningStep ==
  ASSUME ListInv, UNCHANGED <<ListVars, m_head, m_tail>>, phase \in InUse,
         phase' \in InUse, ~Restarted'
  PROVE  ListInv'
<1>1. next' \in [Place -> Int] /\ mine' \in [Thread -> Int]
  BY DEF ListInv, ListVars
<1>2. Chain' = Chain /\ Links' = Links /\ Taken' = Taken
  BY ChainSame DEF ListVars, Taken
<1>3. Built' /\ ListOn(Chain, Links)'
  BY <1>2 DEF ListInv, ListOn, ListVars, Built, HeadGiven, HeadPlace
<1>4. MineInv'
  BY <1>2 DEF ListInv, MineInv, ListVars, At
<1>5. SavedInv' /\ MarkInv'
  BY <1>2, SavedSame, MarksSame DEF ListInv, ListVars
<1> QED
  BY <1>1, <1>3, <1>4, <1>5 DEF ListInv

LEMMA ListStutter ==
  ASSUME ListInv, UNCHANGED <<ListVars, m_head, m_tail, phase, curr>>,
         Restarted' => Restarted
  PROVE  ListInv'
<1>1. Chain' = Chain /\ Links' = Links /\ Taken' = Taken
  BY ChainSame DEF ListVars, Taken
<1>2. next' \in [Place -> Int] /\ mine' \in [Thread -> Int]
      /\ (phase \in First \ {"prefill"} => next[HeadPlace] = Null)'
  BY DEF ListInv, ListVars, HeadPlace
<1>3. Built' = Built
  BY DEF ListVars, Built, HeadGiven, HeadPlace
<1>4. (phase \in InUse => Built /\ ListOn(Chain, Links))'
  BY <1>1, <1>3 DEF ListInv, ListOn
<1>5. MineInv'
  BY <1>1 DEF ListInv, MineInv, ListVars, At
<1>6. SavedInv' /\ MarkInv'
  BY <1>1, <1>3, SavedSame, MarksSame DEF ListInv, ListVars
<1>7. (phase \in {"reconstruct", "find", "walk", "unusable"} /\ Built /\ base # Null => Pointers)'
  BY <1>3 DEF ListInv, ListVars, Pointers
<1>8. Fixed' = Fixed
  BY DEF Fixed, ListVars
<1>9. (phase = "fix" => IF Built THEN FixInv ELSE curr = Null)'
  BY <1>3, <1>8 DEF ListInv, FixInv, ListVars, At
<1>10. (phase = "fault" => ~Built \/ DOMAIN links \intersect deleted # {})'
  BY <1>3 DEF ListInv, ListVars
<1>11. (Restarted => DOMAIN links = Chain /\ \A a \in Chain : At(next[a]) = links[a])'
  BY <1>1 DEF ListInv, ListVars, At
<1> QED
  BY <1>2, <1>4, <1>5, <1>6, <1>7, <1>9, <1>10, <1>11 DEF ListInv

LEMMA ConstructAdaptorList ==
  ASSUME AInv, PackedInv, PhaseInv, ListInv, ConstructAdaptor
  PROVE  ListInv'
<1>1. /\ phase \in {"construct", "reconstruct"} /\ Init(Main)
      /\ phase' = (IF phase = "construct" THEN "tail" ELSE "find")
      /\ UNCHANGED <<mine, list, history>>
  BY DEF ConstructAdaptor
<1>2. mg_freeIndex' = mg_freeIndex
  BY <1>1, InitKeeps, MainAssumption
<1>3. UNCHANGED ListVars
  BY <1>1, <1>2 DEF Init, ListVars, list, marks, history
<1> QED
  BY <1>1, <1>3, QuietStep

\* In the first process no list is to be found.
LEMMA NoListYet ==
  ASSUME PhaseInv, phase' \in First, PhaseInv'
  PROVE  SavedInv' /\ ~Restarted'
BY DEF PhaseInv, SavedInv, Restarted

\* While the first process builds the sentinels.
LEMMA BuildingStep ==
  ASSUME PhaseInv, PhaseInv', ListInv, phase \in First \ {"prefill"},
         phase' \in First \ {"prefill"}, UNCHANGED <<next, marked, deleted, mine>>,
         Taken \subseteq Taken'
  PROVE  ListInv'
<1>1. SavedInv' /\ ~Restarted'
  BY NoListYet
<1>2. \A t \in Thread : mine'[t] = Null
  BY DEF ListInv, MineInv
<1>3. MarkInv'
  BY MarksSame DEF ListInv
<1> QED
  BY <1>1, <1>2, <1>3 DEF ListInv, MineInv, HeadPlace

LEMMA NewTailList ==
  ASSUME AInv, PhaseInv, PhaseInv', ListInv, NewTail
  PROVE  ListInv'
<1>1. phase = "tail" /\ phase' = "head" /\ Alloc(Main) /\ UNCHANGED <<mine, next, marked, deleted>>
  BY DEF NewTail, marks
<1>2. Taken \subseteq Taken'
  BY <1>1, MainAlloc
<1> QED
  BY <1>1, <1>2, BuildingStep

LEMMA NewHeadList ==
  ASSUME AInv, PhaseInv, PhaseInv', ListInv, NewHead
  PROVE  ListInv'
<1>1. phase = "head" /\ phase' = "ctor" /\ Alloc(Main) /\ UNCHANGED <<mine, next, marked, deleted>>
  BY DEF NewHead, marks
<1>2. Taken \subseteq Taken'
  BY <1>1, MainAlloc
<1> QED
  BY <1>1, <1>2, BuildingStep

\* The list of the sentinels.
LEMMA ConstructHeadList ==
  ASSUME AInv, PackedInv, Within, PhaseInv, PhaseInv', ListInv, ConstructHead
  PROVE  ListInv'
<1>1. /\ phase = "ctor" /\ phase' = "prefill"
      /\ UNCHANGED <<avars, mine, m_head, m_tail, marked, deleted>>
      /\ next' = [next EXCEPT ![At(m_head)] = m_tail]
  BY DEF ConstructHead, marks
<1>2. SavedInv' /\ ~Restarted'
  BY <1>1, NoListYet
<1>3. \A t \in Thread : mine'[t] = Null
  BY <1>1 DEF ListInv, MineInv
<1>4. /\ m_pool \in Nat \ {0} /\ Size \in Nat \ {0} /\ m_tail = m_pool + TailPlace
      /\ m_head = m_pool + HeadPlace /\ HeadGiven /\ next \in [Place -> Int]
      /\ m_pool' = m_pool /\ Taken' = Taken /\ HeadGiven'
  BY <1>1, Numbers DEF PhaseInv, ListInv, avars, object, Taken, HeadGiven
<1>5. HeadPlace \in Taken
  <2>1. 0 \in Region /\ Offset(0) = 0 /\ mg_freeIndex[0] \in Nat
    BY FirstRegion, Numbers
  <2>2. 0 \in CellsOf(0)
    BY <1>4, <2>1 DEF PackedInv, HeadGiven
  <2>3. Size \in CellsOf(0)
    BY <1>4, <2>1, <2>2 DEF PackedInv, HeadGiven
  <2> QED
    BY <2>3 DEF CellsOf, Taken, HeadPlace
<1>6. At(m_head) = HeadPlace
  BY <1>4 DEF At, HeadPlace
<1>7. next' \in [Place -> Int] /\ next'[HeadPlace] = m_tail
  BY <1>1, <1>4, <1>6, SentinelPlaces DEF TailPlace
<1>8. At(next[HeadPlace])' = TailPlace
  BY <1>4, <1>7 DEF At, TailPlace, HeadPlace
<1>9. \A f : f[HeadPlace] = TailPlace => Line({HeadPlace}, f)
  BY SentinelPlaces DEF Line
<1> DEFINE D == {HeadPlace}
<1>10. Line(D, [a \in D |-> At(next[a])])'
  <2>1. [a \in D |-> At(next[a])]'[HeadPlace] = TailPlace
    BY <1>8
  <2> QED
    BY <1>9, <2>1 DEF HeadPlace
<1>11. Sentinels'
  BY <1>1, <1>4 DEF Sentinels, TailPlace, HeadPlace
<1>12. Chain' = D
  BY <1>10, <1>11, ChainIsNext, SentinelPlaces
<1>13. ListOn(Chain, Links)'
  BY <1>4, <1>5, <1>10, <1>12 DEF ListOn, Links, HeadPlace
<1>14. Built' /\ MarkInv'
  BY <1>1, <1>4, <1>7, MarksSame DEF Built, Null, TailPlace, HeadPlace, ListInv
<1> QED
  BY <1>1, <1>2, <1>3, <1>7, <1>13, <1>14 DEF ListInv, MineInv

LEMMA InitMainList ==
  ASSUME AInv, PackedInv, PhaseInv, PhaseInv', ListInv, InitMain
  PROVE  ListInv'
<1>1. /\ phase = "prefill" /\ Init(Main) /\ phase' = "run"
      /\ UNCHANGED <<work, mine, list, history>>
  BY DEF InitMain
<1>2. mg_freeIndex' = mg_freeIndex
  BY <1>1, InitKeeps, MainAssumption
<1>3. UNCHANGED ListVars /\ UNCHANGED <<m_head, m_tail>>
  BY <1>1, <1>2 DEF Init, ListVars, list, marks, history
<1>4. ~Restarted'
  BY <1>1, <1>3 DEF PhaseInv, Restarted, ListVars
<1> QED
  BY <1>1, <1>3, <1>4, RunningStep

LEMMA InitWorkerList ==
  ASSUME AInv, PackedInv, PhaseInv, ListInv, NEW w \in Worker, InitWorker(w)
  PROVE  ListInv'
<1>1. /\ phase = "run" /\ Init(w) /\ phase' = "run"
      /\ work' = [work EXCEPT ![w] = "wait"]
      /\ UNCHANGED <<mine, list, history>>
  BY DEF InitWorker
<1>2. mg_freeIndex' = mg_freeIndex
  BY <1>1, InitKeeps DEF Worker
<1>3. UNCHANGED ListVars /\ UNCHANGED <<m_head, m_tail>>
  BY <1>1, <1>2 DEF Init, ListVars, list, marks, history
<1>4. ~Restarted'
  <2>1. work'[w] = "wait"
    BY <1>1 DEF PhaseInv
  <2> QED
    BY <2>1 DEF Restarted
<1> QED
  BY <1>1, <1>3, <1>4, RunningStep

LEMMA PassBarrierList ==
  ASSUME PhaseInv, ListInv, NEW w \in Worker, PassBarrier(w)
  PROVE  ListInv'
<1>1. /\ work[w] = "wait" /\ work' = [work EXCEPT ![w] = "work"] /\ phase' = phase
      /\ UNCHANGED <<avars, mine, list, history>> /\ curr' = curr
  BY DEF PassBarrier, walk
<1>2. UNCHANGED ListVars /\ UNCHANGED <<m_head, m_tail>>
  BY <1>1 DEF avars, object, ListVars, list, marks, history
<1>3. ~Restarted'
  <2>1. work'[w] = "work"
    BY <1>1 DEF PhaseInv
  <2> QED
    BY <2>1 DEF Restarted
<1> QED
  BY <1>1, <1>2, <1>3, ListStutter

\* A thread that works is one that has met the barrier, or the main thread of the
\* first process.
LEMMA NotRestarted ==
  ASSUME NEW t \in Thread, Working(t), UNCHANGED <<isReloadedMem, work>>
  PROVE  ~Restarted'
<1>1. CASE t = Main
  BY <1>1 DEF Working, Restarted
<1>2. CASE t # Main
  <2>1. t \in Worker /\ work'[t] = "work"
    BY <1>2 DEF Working, Worker
  <2> QED
    BY <2>1 DEF Restarted
<1> QED
  BY <1>1, <1>2

LEMMA AllocNodeList ==
  ASSUME AInv, PackedInv, PhaseInv, Within', ListInv, NEW t \in Thread, AllocNode(t)
  PROVE  ListInv'
<1>1. /\ phase = "run" /\ phase' = "run" /\ Working(t) /\ Alloc(t) /\ mine[t] = Null
      /\ mine' = [mine EXCEPT ![t] = NewCell(t)]
      /\ UNCHANGED <<work, next, m_head, m_tail, links, marked, deleted>>
  BY DEF AllocNode, Working, list, marks, history
<1>2. PICK r \in Region : Adds(t, r)
  BY <1>1, AllocAdds
<1>3. PICK p : p = Offset(r) + mg_freeIndex[r]
  OBVIOUS
<1>4. /\ NewCell(t) = m_pool + p /\ Taken' = Taken \union {p} /\ p \notin Taken
      /\ UNCHANGED <<m_pool, prev_m_pool, isReloadedMem>>
      /\ p \in Nat /\ m_pool \in Nat \ {0}
  <2>1. /\ NewCell(t) = m_pool + Offset(r) + mg_freeIndex[r]
        /\ Taken' = Taken \union {p}
        /\ UNCHANGED <<m_pool, prev_m_pool, isReloadedMem>>
    BY <1>2, <1>3 DEF Adds, object
  <2>2. p \notin Taken
    BY <1>2, <1>3, FreshCell
  <2>3. p \in Nat /\ m_pool \in Nat \ {0} /\ Offset(r) \in Nat /\ mg_freeIndex[r] \in Nat
    BY <1>3, Numbers, OffsetType
  <2> QED
    BY <1>3, <2>1, <2>2, <2>3
<1>5. TailPlace \in Taken
  <2>1. mg_freeIndex[0] > 0
    BY <1>1, Numbers DEF PhaseInv, HeadGiven
  <2>2. 0 \in CellsOf(0)
    BY <2>1, FirstRegion DEF PackedInv
  <2> QED
    BY <2>2 DEF CellsOf, Taken, TailPlace
<1>6. Chain' = Chain /\ Links' = Links
  BY <1>1, <1>4, ChainSame
<1>7. ListOn(Chain, Links)'
  BY <1>1, <1>4, <1>6 DEF ListInv, ListOn
<1>8. At(m_pool + p) = p /\ m_pool + p \in Int /\ m_pool + p # Null
  BY <1>4 DEF At, Null
<1>9. next' \in [Place -> Int] /\ mine' \in [Thread -> Int]
  BY <1>1, <1>4, <1>8 DEF ListInv
<1>10. MineInv'
  <2> SUFFICES ASSUME NEW u \in Thread, mine'[u] # Null
               PROVE  /\ At(mine[u])' \in Taken' \ (Chain' \union deleted' \union {TailPlace})
                      /\ \A v \in Thread : v # u => mine'[v] # mine'[u]
    BY <1>1 DEF MineInv
  <2>1. \A v \in Thread : mine[v] # Null =>
          /\ At(mine[v]) \in Taken \ (Chain \union deleted \union {TailPlace})
          /\ \A w \in Thread : w # v => mine[w] # mine[v]
    BY DEF ListInv, MineInv
  <2>2. mine'[t] = m_pool + p /\ \A v \in Thread \ {t} : mine'[v] = mine[v]
    BY <1>1, <1>4 DEF ListInv
  <2>3. \A v \in Thread : mine[v] # m_pool + p
    <3>1. \A v \in Thread : mine[v] # Null => At(mine[v]) # p
      BY <1>4, <2>1
    <3> QED
      BY <1>8, <3>1
  <2>4. Chain \subseteq Taken /\ deleted \subseteq Taken /\ deleted' = deleted
    BY <1>1 DEF ListInv, ListOn, MarkInv
  <2>5. At(mine[u])' = At(mine'[u])
    BY <1>4 DEF At
  <2>6. CASE u = t
    <3>1. At(mine'[u]) = p
      BY <1>8, <2>2, <2>6
    <3> QED
      BY <1>4, <1>5, <1>6, <2>2, <2>3, <2>4, <2>5, <2>6, <3>1
  <2>7. CASE u # t
    <3>1. mine'[u] = mine[u] /\ mine[u] # Null
      BY <2>2, <2>7
    <3> QED
      BY <1>4, <1>6, <2>1, <2>2, <2>3, <2>4, <2>5, <2>7, <3>1
  <2> QED
    BY <2>6, <2>7
<1>11. Built /\ Built'
  <2>1. Built
    BY <1>1 DEF ListInv
  <2>2. mg_freeIndex[0] <= mg_freeIndex'[0]
    <3>1. Alloc(t) => [ANext]_avars
      BY DEF ANext
    <3> QED
      BY <1>1, <3>1, IndexGrows, FirstRegion
  <2>3. mg_freeIndex'[0] \in Nat /\ mg_freeIndex[0] \in Nat /\ Size \in Nat
    <3>1. AInv'
      BY <1>1, AStep DEF ANext
    <3> QED
      BY <3>1, Numbers, FirstRegion DEF AInv, AllocatorTypeOK
  <2> QED
    BY <1>1, <2>1, <2>2, <2>3 DEF Built, HeadGiven, HeadPlace
<1>12. SavedInv' /\ MarkInv'
  BY <1>1, <1>4, <1>11, SavedSame, MarksSame DEF ListInv
<1>13. ~Restarted'
  BY <1>1, <1>4, NotRestarted
<1> QED
  BY <1>1, <1>7, <1>9, <1>10, <1>11, <1>12, <1>13 DEF ListInv

\* The list of a running process, and where its sentinels are.
LEMMA RunningList ==
  ASSUME AInv, Within, PhaseInv, ListInv, phase \in InUse
  PROVE  /\ Sentinels /\ Chain \subseteq Place
         /\ Line(Chain, Links) /\ Chain \subseteq Taken
BY Numbers, CellPlace DEF PhaseInv, ListInv, ListOn, Sentinels

LEMMA LinkNodeList ==
  ASSUME AInv, PackedInv, Within, PhaseInv, ListInv, NEW t \in Thread, LinkNode(t)
  PROVE  ListInv'
<1>1. /\ phase = "run" /\ phase' = "run" /\ Working(t) /\ mine[t] # Null
      /\ mine' = [mine EXCEPT ![t] = Null]
      /\ UNCHANGED <<avars, work, m_head, m_tail, links, marked, deleted>>
  BY DEF LinkNode, Working, marks, history
<1>2. PICK b \in Chain :
        next' = [next EXCEPT ![At(mine[t])] = next[b], ![b] = mine[t]]
  BY DEF LinkNode
<1>3. PICK D, n : D = Chain /\ n = At(mine[t])
  OBVIOUS
<1>4. Sentinels /\ D \subseteq Place /\ Line(D, Links) /\ D \subseteq Taken
  BY <1>1, <1>3, RunningList
<1>5. n \in Taken /\ n \notin D /\ n # TailPlace /\ n \in Place /\ n \notin deleted
  BY <1>1, <1>3, CellPlace DEF ListInv, MineInv
<1>6. next \in [Place -> Int] /\ mine \in [Thread -> Int] /\ m_pool \in Nat
  BY Numbers DEF ListInv
<1>7. /\ next' \in [Place -> Int] /\ next'[b] = mine[t] /\ next'[n] = next[b]
      /\ \A x \in D \ {b} : next'[x] = next[x]
  BY <1>2, <1>3, <1>4, <1>5, <1>6
<1>8. PICK E : E = D \union {n}
  OBVIOUS
<1> DEFINE g == [x \in E |-> At(next[x])]
<1>9. UNCHANGED <<m_pool, prev_m_pool, isReloadedMem, mg_freeIndex, given>>
  BY <1>1 DEF avars, object
<1>10. g' = [x \in E |-> At(next'[x])]
  BY <1>9 DEF At
<1>11. Line(E, g)'
  <2>1. b \in E /\ n \in E /\ \A x \in D \ {b} : x \in E
    BY <1>3, <1>8
  <2>2. g'[b] = n /\ g'[n] = At(next[b]) /\ \A x \in D \ {b} : g'[x] = At(next[x])
    BY <1>3, <1>7, <1>10, <2>1
  <2>3. \A x \in D : Links[x] = At(next[x])
    BY <1>3 DEF Links
  <2>4. b \in D
    BY <1>3
  <2>5. g'[n] = Links[b] /\ \A x \in D \ {b} : g'[x] = Links[x]
    BY <2>2, <2>3, <2>4
  <2> HIDE DEF g
  <2>6. Line(D \union {n}, g')
    BY <1>4, <1>5, <2>2, <2>4, <2>5, LineGrows
  <2> QED
    BY <1>8, <2>6 DEF Line, HeadPlace, TailPlace
<1>12. Sentinels'
  BY <1>1, <1>4, <1>9 DEF Sentinels
<1>13. E \in SUBSET Place
  BY <1>4, <1>5, <1>8
<1>14. Chain' = E
  BY <1>11, <1>12, <1>13, ChainIsNext
<1>15. Taken' = Taken
  BY <1>9 DEF Taken
<1>16. ListOn(Chain, Links)'
  <2>1. Links' = g'
    BY <1>14 DEF Links
  <2>2. Chain' \subseteq Taken'
    BY <1>4, <1>5, <1>8, <1>14, <1>15
  <2> QED
    BY <1>11, <1>14, <2>1, <2>2 DEF ListOn
<1>17. mine' \in [Thread -> Int]
  BY <1>1, <1>6 DEF Null
<1>18. MineInv'
  <2> SUFFICES ASSUME NEW u \in Thread, mine'[u] # Null
               PROVE  /\ At(mine[u])' \in Taken' \ (Chain' \union deleted' \union {TailPlace})
                      /\ \A v \in Thread : v # u => mine'[v] # mine'[u]
    BY <1>1 DEF MineInv
  <2>1. u # t /\ mine'[u] = mine[u]
    BY <1>1, <1>6
  <2>2. /\ At(mine[u]) \in Taken \ (D \union deleted \union {TailPlace})
        /\ \A v \in Thread : v # u => mine[v] # mine[u]
    BY <1>3, <2>1 DEF ListInv, MineInv
  <2>3. At(mine[u]) # n
    BY <1>3, <1>6, <2>1, <2>2 DEF At
  <2>4. At(mine[u])' = At(mine[u])
    BY <1>9, <2>1 DEF At
  <2>5. \A v \in Thread : mine'[v] = mine[v] \/ mine'[v] = Null
    BY <1>1, <1>6
  <2> QED
    BY <1>1, <1>8, <1>14, <1>15, <2>1, <2>2, <2>3, <2>4, <2>5
<1>19. Built'
  BY <1>1, <1>7, <1>9, <1>12, <1>13, <1>14, <1>16, HeadLinkedNext
     DEF Built, HeadGiven, HeadPlace, ListOn, PhaseInv
<1>20. SavedInv' /\ MarkInv'
  <2>1. Built
    BY <1>1 DEF ListInv
  <2> QED
    BY <1>1, <1>9, <1>15, <2>1, SavedSame, MarksSame DEF ListInv
<1>21. ~Restarted'
  BY <1>1, <1>9, NotRestarted
<1> QED
  BY <1>1, <1>7, <1>16, <1>17, <1>18, <1>19, <1>20, <1>21 DEF ListInv

\* The marks of MarkForDeletion leave the list as it is.
LEMMA MarkList ==
  ASSUME AInv, Within, PhaseInv, ListInv, NEW w \in Worker, MarkDesc(w) \/ MarkNext(w)
  PROVE  ListInv'
<1>1. /\ phase = "run" /\ phase' = "run" /\ Working(w) /\ w \in Thread
      /\ UNCHANGED <<avars, work, mine, next, m_head, m_tail, links>>
  BY DEF MarkDesc, MarkNext, Working, history, Worker
<1>2. Sentinels /\ Line(Chain, Links) /\ Chain \subseteq Taken
  BY <1>1, RunningList
<1>3. At(m_head) = HeadPlace /\ TailPlace \notin Chain
  <2>1. m_pool \in Nat /\ Size \in Nat /\ m_head = m_pool + Size
    BY <1>2, SizesAssumption DEF Sentinels, HeadPlace
  <2> QED
    BY <1>2, <2>1 DEF At, Line, HeadPlace
<1>4. /\ MarkInv
      /\ \A t \in Thread : mine[t] # Null => At(mine[t]) \in Taken \ (Chain \union deleted \union {TailPlace})
  BY DEF ListInv, MineInv
<1>5. /\ marked' \subseteq deleted' /\ deleted' \subseteq deleted \union Chain
      /\ HeadPlace \notin deleted'
  BY <1>3, <1>4 DEF MarkDesc, MarkNext, MarkInv
<1>6. Chain' = Chain /\ Links' = Links /\ Taken' = Taken /\ m_pool' = m_pool
  BY <1>1, ChainSame DEF avars, object, Taken
<1>7. MarkInv'
  BY <1>2, <1>3, <1>4, <1>5, <1>6 DEF MarkInv, HeadPlace, TailPlace
<1>8. MineInv'
  <2>1. \A t \in Thread : mine[t] # Null => At(mine[t])' \in Taken' \ (Chain' \union deleted' \union {TailPlace})
    <3>1. \A t \in Thread : mine'[t] = mine[t] /\ At(mine[t])' = At(mine[t])
      BY <1>1, <1>6 DEF At
    <3> QED
      BY <1>4, <1>5, <1>6, <3>1
  <2> QED
    BY <1>1, <2>1 DEF ListInv, MineInv
<1>9. /\ Built' /\ Built /\ ListOn(Chain, Links)'
      /\ next' \in [Place -> Int] /\ mine' \in [Thread -> Int]
  BY <1>1, <1>6 DEF ListInv, ListOn, Built, HeadGiven, HeadPlace, avars
<1>10. SavedInv'
  BY <1>1, <1>6, <1>9, SavedSame DEF ListInv, avars, object
<1>11. ~Restarted'
  BY <1>1, NotRestarted DEF avars, object
<1> QED
  BY <1>1, <1>7, <1>8, <1>9, <1>10, <1>11 DEF ListInv

LEMMA UnlinkList ==
  ASSUME AInv, Within, PhaseInv, ListInv, NEW w \in Worker, Unlink(w)
  PROVE  ListInv'
<1>1. /\ phase = "run" /\ phase' = "run" /\ Working(w) /\ w \in Thread
      /\ UNCHANGED <<avars, work, mine, m_head, m_tail, links, marked, deleted>>
  BY DEF Unlink, Working, marks, history, Worker
<1>2. PICK D, a, b : /\ D = Chain /\ a \in D /\ b = Follow(a) /\ b \in marked
                     /\ next' = [next EXCEPT ![a] = next[b]]
  BY DEF Unlink
<1>3. Sentinels /\ D \subseteq Place /\ Line(D, Links) /\ D \subseteq Taken
  BY <1>1, <1>2, RunningList
<1>4. /\ next \in [Place -> Int] /\ m_pool \in Nat /\ b # HeadPlace /\ b # TailPlace
      /\ b \in deleted
  BY <1>2, Numbers DEF ListInv, MarkInv
<1>5. b = Links[a] /\ b \in D /\ a # b
  <2>1. Links[a] = At(next[a]) /\ Links[a] \in D \union {TailPlace}
    BY <1>2, <1>3 DEF Line, Links
  <2>2. At(next[a]) \in Place
    BY <1>3, <2>1, SentinelPlaces
  <2>3. b = Links[a]
    BY <1>2, <2>1, <2>2 DEF Follow
  <2>4. {a} \in SUBSET D /\ {a} # {}
    BY <1>2
  <2>5. Links[a] # a
    BY <1>3, <2>4 DEF Line
  <2> QED
    BY <1>4, <2>1, <2>3, <2>5
<1>6. /\ next' \in [Place -> Int] /\ next'[a] = next[b]
      /\ \A x \in D \ {a} : next'[x] = next[x]
  BY <1>2, <1>3, <1>4, <1>5
<1>7. PICK E : E = D \ {b}
  OBVIOUS
<1> DEFINE g == [x \in E |-> At(next[x])]
<1>8. UNCHANGED <<m_pool, prev_m_pool, isReloadedMem, mg_freeIndex, given>>
  BY <1>1 DEF avars, object
<1>9. Line(E, g)'
  <2> DEFINE h == [x \in D |-> At(next'[x])]
  <2>1. \A x \in D : Links[x] = At(next[x])
    BY <1>2 DEF Links
  <2>2. h[a] = Links[b] /\ \A x \in D \ {a} : h[x] = Links[x]
    BY <1>2, <1>5, <1>6, <2>1
  <2>3. Line(D \ {b}, h)
    <3> HIDE DEF h
    <3> QED
      BY <1>2, <1>3, <1>4, <1>5, <2>2, LineShrinks
  <2>4. \A x \in E : g'[x] = h[x]
    BY <1>7, <1>8 DEF At
  <2> HIDE DEF g, h
  <2>5. Line(E, g')
    BY <1>7, <2>3, <2>4, LineSame
  <2> QED
    BY <2>5 DEF Line, HeadPlace, TailPlace
<1>10. Sentinels'
  BY <1>1, <1>3, <1>8 DEF Sentinels
<1>11. E \in SUBSET Place
  BY <1>3, <1>7
<1>12. Chain' = E
  BY <1>9, <1>10, <1>11, ChainIsNext
<1>13. Taken' = Taken
  BY <1>8 DEF Taken
<1>14. ListOn(Chain, Links)'
  <2>1. Links' = g'
    BY <1>12 DEF Links
  <2>2. Chain' \subseteq Taken'
    BY <1>3, <1>7, <1>12, <1>13
  <2> QED
    BY <1>9, <1>12, <2>1, <2>2 DEF ListOn
<1>15. MineInv'
  <2>1. \A t \in Thread : At(mine[t])' = At(mine[t])
    BY <1>1, <1>8 DEF At
  <2>2. Chain' \subseteq Chain
    BY <1>2, <1>7, <1>12
  <2> QED
    BY <1>1, <1>13, <2>1, <2>2 DEF ListInv, MineInv
<1>16. Built'
  BY <1>1, <1>6, <1>8, <1>10, <1>11, <1>12, <1>14, HeadLinkedNext
     DEF Built, HeadGiven, HeadPlace, ListOn, PhaseInv
<1>17. SavedInv' /\ MarkInv'
  <2>1. Built
    BY <1>1 DEF ListInv
  <2> QED
    BY <1>1, <1>8, <1>13, <2>1, SavedSame, MarksSame DEF ListInv
<1>18. ~Restarted'
  BY <1>1, <1>8, NotRestarted
<1> QED
  BY <1>1, <1>6, <1>14, <1>15, <1>16, <1>17, <1>18 DEF ListInv

\* A crash keeps the list, in the pointers of the process that has written it.
LEMMA CrashList ==
  ASSUME AInv, PackedInv, Within, PhaseInv, ListInv, Crash
  PROVE  ListInv'
<1>1. /\ phase # "fault" /\ phase' = "reconstruct" /\ mine' = [t \in Thread |-> Null]
      /\ isReloadedMem' = TRUE
      /\ links' = IF phase \in InUse THEN Links ELSE links
      /\ UNCHANGED <<next, base, mg_freeIndex, given, marked, deleted>>
  BY DEF Crash, Reload, Links, marks
<1>2. next' \in [Place -> Int] /\ mine' \in [Thread -> Int]
  BY <1>1 DEF ListInv, Null
<1>3. Taken' = Taken /\ Built' = Built
  BY <1>1 DEF Taken, Built, HeadGiven, HeadPlace
<1>4. MarkInv'
  BY <1>1, <1>3, MarksSame DEF ListInv
<1>5. CASE phase \in InUse
  <2>1. next \in [Place -> Int] /\ m_pool \in Nat
    BY Numbers DEF ListInv
  <2>2. links' = Links /\ DOMAIN links' = Chain /\ Chain \subseteq Place
        /\ Line(Chain, Links) /\ Chain \subseteq Taken /\ base = m_pool
    BY <1>1, <1>5, RunningList DEF PhaseInv, Links
  <2>3. SavedInv'
    BY <1>3, <2>2 DEF SavedInv, ListOn, Line, HeadPlace, TailPlace
  <2>4. Pointers'
    <3> SUFFICES ASSUME NEW a \in DOMAIN links' PROVE next'[a] = base' + links'[a]
      BY DEF Pointers
    <3>1. links'[a] = next[a] - m_pool /\ next[a] \in Int
      BY <2>1, <2>2 DEF Links, At
    <3> QED
      BY <1>1, <2>1, <2>2, <3>1
  <2> QED
    BY <1>1, <1>2, <1>4, <2>3, <2>4 DEF ListInv, MineInv, Restarted
<1>6. CASE phase \in First \ {"prefill"}
  <2>1. ~Built
    BY <1>6 DEF ListInv, Built
  <2> QED
    BY <1>1, <1>2, <1>3, <1>4, <2>1 DEF ListInv, MineInv, SavedInv, Restarted
<1>7. CASE phase \in Second
  <2>1. links' = links /\ isReloadedMem
    BY <1>1, <1>7 DEF PhaseInv
  <2>2. SavedInv'
    BY <1>1, <1>3, <2>1, SavedSame DEF ListInv
  <2>3. ASSUME Built, base # Null PROVE Pointers
    <3>1. CASE phase # "fix"
      BY <1>1, <1>7, <2>3, <3>1 DEF ListInv
    <3>2. CASE phase = "fix"
      <4>1. base = m_pool /\ m_pool = prev_m_pool
        BY <2>3, <3>2 DEF PhaseInv
      <4> QED
        BY <2>3, <3>2, <4>1 DEF ListInv, FixInv, Pointers
    <3> QED
      BY <3>1, <3>2
  <2>4. (phase \in {"reconstruct", "find", "walk", "unusable"} /\ Built /\ base # Null => Pointers)'
    BY <1>1, <1>3, <2>1, <2>3 DEF Pointers
  <2> QED
    BY <1>1, <1>2, <1>4, <2>2, <2>4 DEF ListInv, MineInv, Restarted
<1>8. phase \in AllPhases
  BY DEF PhaseInv
<1> QED
  BY <1>5, <1>6, <1>7, <1>8

LEMMA FindSentinelsList ==
  ASSUME ListInv, FindSentinels
  PROVE  ListInv'
<1>1. phase = "find" /\ phase' \in {"unusable", "walk"} /\ UNCHANGED ListVars
  BY DEF FindSentinels, ListVars, avars, object, history, marks
<1> QED
  BY <1>1, QuietStep

LEMMA VisitDescList ==
  ASSUME ListInv, VisitDesc
  PROVE  ListInv'
<1>1. phase = "walk" /\ phase' = "walk" /\ UNCHANGED ListVars
  BY DEF VisitDesc, ListVars, avars, object, history, list, marks
<1> QED
  BY <1>1, QuietStep

\* What getNewPointer makes of a pointer of the process that has built the pool.
LEMMA NewPointer ==
  ASSUME AInv, NEW a \in Nat
  PROVE  /\ getNewPointer(prev_m_pool + a) = m_pool + a
         /\ prev_m_pool + a # Null /\ m_pool + a # Null
BY Numbers DEF getNewPointer, Null

\* The list that recovery has to restore.
LEMMA SavedList ==
  ASSUME AInv, Within, PhaseInv, ListInv, phase \in {"walk", "fix"}, Built
  PROVE  /\ Line(DOMAIN links, links) /\ DOMAIN links \subseteq Place
         /\ DOMAIN links \subseteq Taken
         /\ HeadPlace \in DOMAIN links /\ TailPlace \notin DOMAIN links
         /\ \A a \in DOMAIN links : /\ links[a] \in DOMAIN links \union {TailPlace}
                                    /\ links[a] \in Nat /\ a \in Nat
         /\ Sentinels /\ isReloadedMem
<1>1. isReloadedMem /\ Sentinels
  BY Numbers DEF PhaseInv, Sentinels
<1>2. Line(DOMAIN links, links) /\ DOMAIN links \subseteq Taken
  BY <1>1 DEF ListInv, SavedInv, ListOn
<1>3. Taken \subseteq Place /\ \A a \in Taken : a \in Nat
  BY CellPlace
<1>4. HeadPlace \in DOMAIN links /\ TailPlace \notin DOMAIN links
      /\ \A a \in DOMAIN links : links[a] \in DOMAIN links \union {TailPlace}
  BY <1>2 DEF Line
<1> QED
  BY <1>1, <1>2, <1>3, <1>4 DEF TailPlace

LEMMA NextRegionList ==
  ASSUME AInv, Within, PhaseInv, ListInv, NextRegion
  PROVE  ListInv'
<1>1. phase = "walk" /\ UNCHANGED <<avars, work, mine, m_head, m_tail, links, marked, deleted>>
  BY DEF NextRegion, marks
<1>2. CASE region + 1 < WalkedRegions
  <2>1. UNCHANGED ListVars /\ phase' = "walk"
    BY <1>1, <1>2 DEF NextRegion, ListVars, avars, object
  <2> QED
    BY <1>1, <2>1, QuietStep
<1>3. CASE ~(region + 1 < WalkedRegions) /\ ~Built
  <2>1. m_head = m_pool + HeadPlace /\ next[HeadPlace] = Null
    BY <1>1, <1>3 DEF PhaseInv, Built
  <2>2. At(m_head) = HeadPlace
    BY <2>1, Numbers DEF At, HeadPlace
  <2>3. phase' = "fix" /\ next' = next /\ curr' = Null
    <3>1. /\ phase' = "fix"
          /\ next' = [next EXCEPT ![At(m_head)] = getNewPointer(next[At(m_head)])]
          /\ curr' = getNewPointer(next[At(m_head)])
      BY <1>1, <1>3 DEF NextRegion
    <3>2. getNewPointer(next[HeadPlace]) = Null
      BY <2>1 DEF getNewPointer
    <3>3. next \in [Place -> Int]
      BY DEF ListInv
    <3> QED
      BY <2>1, <2>2, <3>1, <3>2, <3>3
  <2>4. Taken' = Taken /\ ~Built'
    BY <1>1, <1>3, <2>3 DEF avars, Taken, Built, HeadGiven, HeadPlace
  <2>5. MarkInv' /\ SavedInv'
    BY <1>1, <2>4, MarksSame DEF ListInv, SavedInv
  <2> QED
    BY <1>1, <2>3, <2>4, <2>5 DEF ListInv, MineInv, Restarted
<1>4. CASE ~(region + 1 < WalkedRegions) /\ Built
  <2> DEFINE D == DOMAIN links
             h == HeadPlace
  <2>1. /\ phase' = "fix"
        /\ next' = [next EXCEPT ![At(m_head)] = getNewPointer(next[At(m_head)])]
        /\ curr' = getNewPointer(next[At(m_head)])
    BY <1>1, <1>4 DEF NextRegion
  <2>2. /\ Line(D, links) /\ D \subseteq Place /\ h \in D /\ TailPlace \notin D
        /\ \A a \in D : links[a] \in D \union {TailPlace} /\ links[a] \in Nat /\ a \in Nat
        /\ Sentinels
    BY <1>1, <1>4, SavedList
  <2>3. /\ \A a \in D : next[a] = prev_m_pool + links[a]
        /\ m_pool \in Nat \ {0} /\ prev_m_pool \in Nat \ {0}
        /\ next \in [Place -> Int] /\ At(m_head) = h
    <3>1. base = prev_m_pool /\ base # Null
      BY <1>1, Numbers DEF PhaseInv, Null
    <3>2. Pointers
      BY <1>1, <1>4, <3>1 DEF ListInv
    <3>3. At(m_head) = h
      BY <2>2 DEF Sentinels, At, HeadPlace
    <3> QED
      BY <3>1, <3>2, <3>3, Numbers DEF Pointers, ListInv
  <2>4. getNewPointer(next[h]) = m_pool + links[h]
    BY <2>2, <2>3, NewPointer
  <2>5. /\ next' \in [Place -> Int] /\ next'[h] = m_pool + links[h]
        /\ \A a \in D \ {h} : next'[a] = prev_m_pool + links[a]
        /\ curr' = m_pool + links[h]
    BY <2>1, <2>2, <2>3, <2>4
  <2>6. UNCHANGED <<m_pool, prev_m_pool, isReloadedMem, mg_freeIndex, given>>
    BY <1>1 DEF avars, object
  <2>7. At(curr)' = links[h] /\ curr' \in Int
    BY <2>2, <2>3, <2>5, <2>6 DEF At
  <2>8. Fixed' = {a \in D : next'[a] = m_pool + links[a]}
    BY <1>1, <2>6 DEF Fixed
  <2>9. m_pool # prev_m_pool => Fixed' = {h}
    BY <2>2, <2>3, <2>5, <2>8
  <2>10. links[h] # h
    <3>1. {h} \in SUBSET D /\ {h} # {}
      BY <2>2
    <3> HIDE DEF D, h
    <3>2. \A C \in SUBSET D : C # {} => \E a \in C : links[a] \notin C
      BY <2>2 DEF Line
    <3> QED
      BY <3>1, <3>2
  <2>11. FixInv'
    <3>1. At(curr)' \in D \union {TailPlace} /\ curr' \in Int
      BY <2>2, <2>7
    <3>2. \A a \in D : next'[a] \in {m_pool + links[a], prev_m_pool + links[a]}
      BY <2>5
    <3>3. h \in Fixed'
      BY <2>2, <2>5, <2>8
    <3>4. m_pool # prev_m_pool =>
            /\ At(curr)' \notin Fixed'
            /\ \A a \in Fixed' : links[a] \in Fixed' \union {At(curr)'}
      BY <2>7, <2>9, <2>10
    <3> QED
      BY <1>1, <2>6, <3>1, <3>2, <3>3, <3>4 DEF FixInv, TailPlace, HeadPlace
  <2>12. SavedInv'
    BY <1>1, <1>4, <2>6, SavedSame DEF ListInv, Taken
  <2>13. \A t \in Thread : mine'[t] = Null
    BY <1>1 DEF ListInv, MineInv
  <2>14. MarkInv'
    BY <1>1, <2>6, MarksSame DEF ListInv, Taken
  <2>15. Built'
    <3>1. next'[h] # Null
      BY <2>2, <2>3, <2>5 DEF Null
    <3> QED
      BY <1>4, <2>6, <3>1 DEF Built, HeadGiven, HeadPlace
  <2> QED
    BY <1>1, <2>1, <2>5, <2>11, <2>12, <2>13, <2>14, <2>15 DEF ListInv, MineInv, Restarted
<1> QED
  BY <1>2, <1>3, <1>4

\* At the end of fixPointers every pointer of the list is one of this process, if
\* the mappings are apart.
LEMMA AllFixed ==
  ASSUME PoolsApart, AInv, Within, PhaseInv, ListInv, phase = "fix", Built, ~MoreToFix
  PROVE  Fixed = DOMAIN links
<1> DEFINE D == DOMAIN links
           c == At(curr)
<1>1. /\ Line(D, links) /\ D \subseteq Taken /\ TailPlace \notin D
      /\ \A a \in D : links[a] \in D \union {TailPlace} /\ links[a] \in Nat
      /\ Sentinels
  BY SavedList
<1>2. FixInv
  BY DEF ListInv
<1>3. m_pool \in Nat \ {0} /\ prev_m_pool \in Nat \ {0}
      /\ m_pool \in Pools /\ prev_m_pool \in Pools
  BY Numbers
<1>4. CASE m_pool = prev_m_pool
  BY <1>2, <1>4 DEF FixInv, Fixed
<1>5. CASE m_pool # prev_m_pool
  <2>1. c = TailPlace
    <3> SUFFICES ASSUME c # TailPlace PROVE FALSE
      OBVIOUS
    <3>1. c \in D /\ c \notin Fixed /\ curr \in Int
      BY <1>2, <1>5 DEF FixInv
    <3>2. next[c] = prev_m_pool + links[c]
      BY <1>2, <3>1 DEF FixInv, Fixed
    <3>3. curr # m_tail
      <4>1. curr = m_tail => c = TailPlace
        BY <1>1, <1>3, <3>1 DEF Sentinels, At, TailPlace
      <4> QED
        BY <4>1
    <3>4. next[c] \in {Null, m_tail}
      <4>1. c \in Nat
        BY <1>1, <3>1, CellPlace
      <4>2. curr # Null
        BY <1>3, <3>1, <4>1 DEF At, Null
      <4> QED
        BY <3>3, <4>2 DEF MoreToFix
    <3>5. prev_m_pool + links[c] = m_pool
      BY <1>1, <1>3, <3>1, <3>2, <3>4 DEF Sentinels, Null, TailPlace
    <3>6. links[c] # TailPlace
      BY <1>3, <1>5, <3>5 DEF TailPlace
    <3>7. links[c] \in Taken /\ links[c] \in Nat
      BY <1>1, <3>1, <3>6
    <3>8. links[c] + Size <= Total
      BY <3>7, CellPlace
    <3>9. prev_m_pool < m_pool
      BY <1>3, <1>5, <3>5, <3>7
    <3>10. prev_m_pool + Total <= m_pool
      BY <1>3, <3>9 DEF PoolsApart
    <3> HIDE DEF c
    <3> QED
      BY <1>3, <3>5, <3>7, <3>8, <3>10, SizesAssumption
  <2>2. HeadPlace \in Fixed /\ Fixed \subseteq D
        /\ \A a \in Fixed : links[a] \in Fixed \union {TailPlace}
    BY <1>2, <1>5, <2>1 DEF FixInv, Fixed
  <2>3. \A C \in SUBSET D :
          HeadPlace \in C /\ (\A a \in C : links[a] \in C \union {TailPlace}) => C = D
    BY <1>1 DEF Line
  <2> QED
    BY <2>2, <2>3
<1> QED
  BY <1>4, <1>5

LEMMA FixPointerList ==
  ASSUME AInv, Within, PhaseInv, ListInv, FixPointer
  PROVE  ListInv'
<1> DEFINE D == DOMAIN links
<1>1. /\ phase = "fix" /\ MoreToFix
      /\ UNCHANGED <<avars, work, mine, m_head, m_tail, links, marked, deleted>>
      /\ phase' = IF GoesAstray(At(curr)) THEN "fault" ELSE "fix"
  BY DEF FixPointer, marks, history
<1>2. Built /\ FixInv
  BY <1>1 DEF ListInv, MoreToFix
<1>3. /\ Line(D, links) /\ D \subseteq Place /\ D \subseteq Taken
      /\ HeadPlace \in D /\ TailPlace \notin D
      /\ \A a \in D : links[a] \in D \union {TailPlace} /\ links[a] \in Nat /\ a \in Nat
      /\ Sentinels
  BY <1>1, <1>2, SavedList
<1>4. m_pool \in Nat \ {0} /\ prev_m_pool \in Nat \ {0}
      /\ next \in [Place -> Int] /\ mine \in [Thread -> Int]
  BY Numbers DEF ListInv
<1>5. UNCHANGED <<m_pool, prev_m_pool, isReloadedMem, mg_freeIndex, given>>
  BY <1>1 DEF avars, object
<1>6. SavedInv' /\ MarkInv'
  BY <1>1, <1>2, <1>5, SavedSame, MarksSame DEF ListInv, Taken
<1>7. \A t \in Thread : mine'[t] = Null
  BY <1>1 DEF ListInv, MineInv
<1>8. PICK c : c = At(curr)
  OBVIOUS
<1>9. /\ next' = [next EXCEPT ![c] = getNewPointer(next[c])]
      /\ curr' = getNewPointer(next[c])
  BY <1>8 DEF FixPointer
<1>10. c \in D
  <2>1. c # TailPlace
    BY <1>1, <1>2, <1>3, <1>4, <1>8 DEF MoreToFix, Sentinels, At, FixInv, TailPlace
  <2> QED
    BY <1>2, <1>8, <2>1 DEF FixInv
<1>11. next[c] = prev_m_pool + links[c]
  <2>1. CASE m_pool = prev_m_pool
    BY <1>2, <1>10, <2>1 DEF FixInv
  <2>2. CASE m_pool # prev_m_pool
    <3>1. c \notin Fixed
      BY <1>2, <1>8, <2>2 DEF FixInv
    <3> QED
      BY <1>2, <1>10, <3>1 DEF FixInv, Fixed
  <2> QED
    BY <2>1, <2>2
<1>12. getNewPointer(next[c]) = m_pool + links[c]
  BY <1>3, <1>10, <1>11, NewPointer
<1>13. /\ next' \in [Place -> Int] /\ next'[c] = m_pool + links[c]
       /\ \A a \in D \ {c} : next'[a] = next[a]
       /\ curr' = m_pool + links[c] /\ curr' \in Int
  BY <1>3, <1>4, <1>9, <1>10, <1>12
<1>14. At(curr)' = links[c]
  BY <1>3, <1>4, <1>5, <1>10, <1>13 DEF At
<1>15. Fixed' = Fixed \union {c}
  BY <1>1, <1>5, <1>10, <1>13 DEF Fixed
<1>16. FixInv'
  <2>1. At(curr)' \in D \union {TailPlace} /\ curr' \in Int
    BY <1>3, <1>10, <1>13, <1>14
  <2>2. \A a \in D : next'[a] \in {m_pool + links[a], prev_m_pool + links[a]}
    BY <1>2, <1>13 DEF FixInv
  <2>3. HeadPlace \in Fixed'
    BY <1>2, <1>15 DEF FixInv
  <2>4. ASSUME m_pool # prev_m_pool
        PROVE  /\ At(curr)' \notin Fixed'
               /\ \A a \in Fixed' : links[a] \in Fixed' \union {At(curr)'}
    <3>1. \A a \in Fixed : links[a] \in Fixed \union {c}
      BY <1>2, <1>8, <2>4 DEF FixInv
    <3>2. Fixed \union {c} \in SUBSET D /\ Fixed \union {c} # {}
      BY <1>10 DEF Fixed
    <3>3. \A C \in SUBSET D : C # {} => \E a \in C : links[a] \notin C
      BY <1>3 DEF Line
    <3>4. links[c] \notin Fixed \union {c}
      BY <3>1, <3>2, <3>3
    <3> QED
      BY <1>14, <1>15, <3>1, <3>4
  <2> QED
    BY <1>1, <1>5, <2>1, <2>2, <2>3, <2>4 DEF FixInv, TailPlace, HeadPlace
<1>17. Built'
  <2>1. HeadPlace \in D /\ next'[HeadPlace] # Null
    <3>1. next'[HeadPlace] = m_pool' + links'[HeadPlace]
      BY <1>16 DEF FixInv, Fixed, HeadPlace
    <3> QED
      BY <1>1, <1>3, <1>4, <1>5, <3>1 DEF Null
  <2> QED
    BY <1>2, <1>5, <2>1 DEF Built, HeadGiven, HeadPlace
<1>18. phase' = "fault" => DOMAIN links' \intersect deleted' # {}
  <2>1. ASSUME phase' = "fault" PROVE c \in deleted
    BY <1>1, <1>8, <2>1 DEF GoesAstray, ListInv, MarkInv
  <2> QED
    BY <1>1, <1>10, <2>1
<1> QED
  BY <1>1, <1>4, <1>6, <1>7, <1>13, <1>16, <1>17, <1>18 DEF ListInv, MineInv, Restarted

\* When the loop has ended, the list is the old one, or there is no list.
LEMMA CheckListList ==
  ASSUME PoolsApart, AInv, Within, PhaseInv, ListInv, CheckList
  PROVE  ListInv'
<1> DEFINE D == DOMAIN links
<1>1. /\ phase = "fix" /\ ~MoreToFix
      /\ phase' = IF next[At(m_head)] = Null THEN "fault" ELSE "run"
      /\ UNCHANGED <<avars, work, mine, next, m_head, m_tail, links, marked, deleted>>
  BY DEF CheckList, list, marks
<1>2. UNCHANGED <<m_pool, prev_m_pool, isReloadedMem, mg_freeIndex, given>>
  BY <1>1 DEF avars, object
<1>3. Built' = Built /\ Taken' = Taken
  BY <1>1, <1>2 DEF Built, HeadGiven, HeadPlace, Taken
<1>4. SavedInv' /\ MarkInv'
  BY <1>1, <1>2, <1>3, SavedSame, MarksSame DEF ListInv
<1>5. next' \in [Place -> Int] /\ mine' \in [Thread -> Int] /\ \A t \in Thread : mine'[t] = Null
  BY <1>1 DEF ListInv, MineInv
<1>6. m_pool \in Nat \ {0} /\ m_head = m_pool + HeadPlace /\ HeadGiven
  BY <1>1, Numbers DEF PhaseInv
<1>7. At(m_head) = HeadPlace
  BY <1>6, SizesAssumption DEF At, HeadPlace
<1>8. CASE ~Built
  <2>1. phase' = "fault"
    BY <1>1, <1>6, <1>7, <1>8 DEF Built
  <2> QED
    BY <1>3, <1>4, <1>5, <1>8, <2>1 DEF ListInv, MineInv, Restarted
<1>9. CASE Built
  <2>1. phase' = "run"
    BY <1>1, <1>7, <1>9 DEF Built
  <2>2. /\ Line(D, links) /\ D \subseteq Place /\ D \subseteq Taken
        /\ \A a \in D : links[a] \in D \union {TailPlace} /\ links[a] \in Nat /\ a \in Nat
        /\ Sentinels
    BY <1>1, <1>9, SavedList
  <2>3. \A a \in D : next'[a] = m_pool + links[a]
    BY <1>1, <1>9, AllFixed DEF Fixed
  <2>4. \A a \in D : At(next[a])' = links[a]
    BY <1>2, <1>6, <2>2, <2>3 DEF At
  <2> DEFINE g == [a \in D |-> At(next[a])]
  <2>5. Line(D, g)'
    <3>1. D' = D
      BY <1>1
    <3>2. \A a \in D : g'[a] = links[a]
      BY <2>4, <3>1
    <3> HIDE DEF g, D
    <3>3. Line(D, g')
      BY <2>2, <3>2, LineSame
    <3> QED
      BY <3>1, <3>3 DEF Line, HeadPlace, TailPlace
  <2>6. Sentinels'
    BY <1>1, <1>2, <2>2 DEF Sentinels
  <2>7. Chain' = D
    BY <1>1, <2>2, <2>5, <2>6, ChainIsNext
  <2>8. ListOn(Chain, Links)'
    <3>1. Links' = g'
      BY <1>1, <2>7 DEF Links
    <3>2. Chain' \subseteq Taken'
      BY <1>3, <2>2, <2>7
    <3> QED
      BY <1>1, <2>5, <2>7, <3>1, <3>2 DEF ListOn
  <2>9. (DOMAIN links = Chain /\ \A a \in Chain : At(next[a]) = links[a])'
    BY <1>1, <2>4, <2>7
  <2> QED
    BY <1>3, <1>4, <1>5, <1>9, <2>1, <2>8, <2>9 DEF ListInv, MineInv
<1> QED
  BY <1>8, <1>9

\* Every step keeps what is known of the list, as long as no region overflows.
LEMMA ListStep ==
  ASSUME PoolsApart, AInv, PackedInv, PhaseInv, Within => ListInv, [RNext]_vars
  PROVE  (Within => ListInv)'
<1> SUFFICES ASSUME Within' PROVE ListInv'
  OBVIOUS
<1>1. [ANext]_avars /\ AInv' /\ PhaseInv'
  BY UsesAllocator, AStep, PhaseStep
<1>2. Within /\ ListInv
  BY <1>1, IndexGrows
<1>3. CASE ConstructAdaptor \/ NewTail \/ NewHead \/ ConstructHead \/ InitMain
  BY <1>1, <1>2, <1>3, ConstructAdaptorList, NewTailList, NewHeadList, ConstructHeadList,
     InitMainList
<1>4. CASE \E w \in Worker :
             InitWorker(w) \/ PassBarrier(w) \/ MarkDesc(w) \/ MarkNext(w) \/ Unlink(w)
  BY <1>1, <1>2, <1>4, InitWorkerList, PassBarrierList, MarkList, UnlinkList
<1>5. CASE \E t \in Thread : AllocNode(t) \/ LinkNode(t)
  BY <1>1, <1>2, <1>5, AllocNodeList, LinkNodeList
<1>6. CASE Crash \/ FindSentinels \/ VisitDesc \/ NextRegion \/ FixPointer \/ CheckList
  BY <1>1, <1>2, <1>6, CrashList, FindSentinelsList, VisitDescList, NextRegionList,
     FixPointerList, CheckListList
<1>7. CASE Ended \/ UNCHANGED vars
  <2>1. UNCHANGED vars
    BY <1>7 DEF Ended
  <2>2. UNCHANGED <<ListVars, m_head, m_tail, phase, curr, work, isReloadedMem>>
    BY <2>1 DEF vars, avars, object, list, marks, walk, history, ListVars
  <2> QED
    BY <1>2, <2>2, ListStutter DEF Restarted
<1> QED
  BY <1>3, <1>4, <1>5, <1>6, <1>7 DEF RNext

-----------------------------------------------------------------------------
(* The theorems.                                                           *)

\* Before the first allocation.
LEMMA RecInit == RInit => RecInv
<1> SUFFICES ASSUME RInit PROVE RecInv
  OBVIOUS
<1>1. /\ AllocatorInit /\ phase = "construct" /\ mine = [t \in Thread |-> Null]
      /\ next = [a \in Place |-> Null] /\ marked = {} /\ deleted = {}
  BY DEF RInit
<1>2. given = {} /\ mg_freeIndex = [r \in Region |-> 0] /\ isReloadedMem = FALSE
  BY <1>1 DEF AllocatorInit
<1>3. AInv /\ PhaseInv
  BY <1>1, AInit, PhaseInit
<1>4. PackedInv
  BY <1>2 DEF PackedInv, CellsOf
<1>5. VisitInv
  BY <1>1 DEF VisitInv
<1>6. ListInv
  <2>1. next \in [Place -> Int] /\ mine \in [Thread -> Int] /\ \A t \in Thread : mine[t] = Null
    BY <1>1 DEF Null
  <2>2. next[HeadPlace] = Null
    BY <1>1, SentinelPlaces
  <2> QED
    BY <1>1, <1>2, <2>1, <2>2 DEF ListInv, MineInv, MarkInv, SavedInv, Restarted
<1> QED
  BY <1>3, <1>4, <1>5, <1>6 DEF RecInv

\* The walk of a recovery over the regions looks at every descriptor that was
\* handed out, and otherwise only at the first place of an empty region: in any
\* pool, after any crash, wherever the pool is mapped.
THEOREM RecoveryVisits == RSpec => []VisitsAll
<1> DEFINE V == AInv /\ PackedInv /\ VisitInv
<1>1. RInit => V
  BY RecInit DEF RecInv
<1>2. V /\ [RNext]_vars => V'
  BY UsesAllocator, AStep, PackedStep, VisitStep
<1>3. V => VisitsAll
  BY VisitMeans
<1> QED
  BY <1>1, <1>2, <1>3, PTL DEF RSpec

\* Where the mappings of the pool do not lie over one another: how the cells fill
\* their regions, what the walk has met, and that the list from before the crash
\* is there in the pointers of one process or the other.
THEOREM RecoverySafety == PoolsApart => (RSpec => []RecInv)
<1> SUFFICES ASSUME PoolsApart PROVE RSpec => []RecInv
  OBVIOUS
<1>1. RInit => RecInv
  BY RecInit
<1>2. RecInv /\ [RNext]_vars => RecInv'
  <2> SUFFICES ASSUME RecInv, [RNext]_vars PROVE RecInv'
    OBVIOUS
  <2>1. AInv /\ PackedInv /\ VisitInv /\ PhaseInv /\ (Within => ListInv)
    BY DEF RecInv
  <2>2. AInv' /\ PackedInv'
    BY <2>1, UsesAllocator, AStep, PackedStep
  <2>3. VisitInv' /\ PhaseInv'
    BY <2>1, VisitStep, PhaseStep
  <2>4. (Within => ListInv)'
    BY <2>1, ListStep
  <2> QED
    BY <2>2, <2>3, <2>4 DEF RecInv
<1> QED
  BY <1>1, <1>2, PTL DEF RSpec

\* fixPointers gives back the list of the crash, node for node, wherever the pool
\* is mapped, unless the new mapping lies over the old one.
THEOREM RecoveryRestores == PoolsApart => (RSpec => []ChainRestored)
<1>1. RecInv => ChainRestored
  <2> SUFFICES ASSUME RecInv PROVE ChainRestored
    OBVIOUS
  <2>1. AInv /\ PhaseInv /\ (Within => ListInv)
    BY DEF RecInv
  <2>2. ASSUME phase = "fault", Within
        PROVE  next[At(m_head)] = Null \/ DOMAIN links \intersect deleted # {}
    <3>1. ~Built \/ DOMAIN links \intersect deleted # {}
      BY <2>1, <2>2 DEF ListInv
    <3>2. HeadGiven /\ m_head = m_pool + HeadPlace
      BY <2>1, <2>2 DEF PhaseInv
    <3>3. At(m_head) = HeadPlace
      BY <2>1, <3>2, Numbers DEF At, HeadPlace
    <3> QED
      BY <3>1, <3>2, <3>3 DEF Built
  <2> QED
    BY <2>1, <2>2 DEF ChainRestored, ListInv, Restarted
<1> QED
  BY <1>1, RecoverySafety, PTL
=============================================================================
