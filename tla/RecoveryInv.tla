---------------------------- MODULE RecoveryInv ----------------------------
(***************************************************************************)
(* The inductive invariant behind VisitsAll and ChainRestored: how the     *)
(* cells fill their region, what the walk has met, and where the list is   *)
(* between the process that has built it and the one that finds it again.  *)
(***************************************************************************)
EXTENDS Recovery

Taken == {c.at : c \in given}
CellsOf(r) == {c.at : c \in {d \in given : d.region = r}}

\* The cells of a region lie side by side from its start to its free index.
PackedInv ==
  \A r \in Region :
    /\ mg_freeIndex[r] > 0 => Offset(r) \in CellsOf(r)
    /\ \A a \in CellsOf(r) :
         a + Size < Offset(r) + mg_freeIndex[r] => a + Size \in CellsOf(r)

\* What the walk looks at in region r.
Marks(r) == IF mg_freeIndex[r] = 0 THEN {Offset(r)} ELSE CellsOf(r)

\* What it has looked at: the regions below its region, and the places below curr.
Earlier(r) == UNION {Marks(s) : s \in {q \in Region : q < r}}
Passed(r, p) == {a \in Marks(r) : p # Null => a < At(p)}

VisitInv ==
  /\ phase \in {"reconstruct", "find"} => region = 0 /\ visited = {}
  /\ phase = "walk" =>
       /\ region \in Region /\ curr \in Int
       /\ curr # Null => /\ At(curr) \in Marks(region)
                         /\ following = getNextForThread(curr, region)
       /\ visited = Earlier(region) \union Passed(region, curr)
  /\ phase = "fix" => visited = Earlier(Count)

-----------------------------------------------------------------------------
\* The sentinels are the first two cells of the pool.
TailPlace == 0
HeadPlace == Size

\* The cell of the head is handed out, and it has its successor: the list is built.
HeadGiven == mg_freeIndex[0] > Size
Built == HeadGiven /\ next[HeadPlace] # Null

First == {"construct", "tail", "head", "ctor", "prefill"}  \* phases of the first process
Second == {"reconstruct", "find", "walk", "fix", "fault", "unusable"}
AllPhases == First \union Second \union {"run"}

\* The phases in which the list may be read, and those in which the head is known.
InUse == {"prefill", "run"}
KnowsHead == InUse \union {"ctor", "walk", "fix", "fault"}

\* Where the main thread is, and what it knows.
PhaseInv ==
  /\ phase \in AllPhases
  /\ m_ticket = 0 <=> phase \in {"construct", "reconstruct"}
  /\ phase \in First => ~isReloadedMem
  /\ phase \in Second => isReloadedMem
  /\ ~isReloadedMem => prev_m_pool = m_pool
  /\ phase \in First \union {"run"} => base = m_pool
  /\ phase \in {"tail", "head", "find"} => Main \in up /\ threadId[Main] = 0
  /\ phase = "tail" => mg_freeIndex[0] = 0
  /\ phase = "head" => mg_freeIndex[0] = Size
  /\ phase \in {"head"} \union KnowsHead => m_tail = m_pool + TailPlace
  /\ phase \in KnowsHead => HeadGiven /\ m_head = m_pool + HeadPlace
  /\ phase = "walk" => base = prev_m_pool
  /\ phase = "fix" => base = IF m_pool = prev_m_pool THEN m_pool ELSE Null
  /\ base \in Pools \union {Null}
  /\ work \in [Worker -> {"init", "wait", "work"}]

\* A list on the places D with the links f: it begins at the head, ends at the
\* tail, does not go round, and meets all of D.
Line(D, f) ==
  /\ HeadPlace \in D /\ TailPlace \notin D
  /\ \A a \in D : f[a] \in D \union {TailPlace}
  /\ \A a, b \in D : f[a] = f[b] => a = b
  /\ \A C \in SUBSET D : C # {} => \E a \in C : f[a] \notin C
  /\ \A C \in SUBSET D :
       HeadPlace \in C /\ (\A a \in C : f[a] \in C \union {TailPlace}) => C = D

\* Its nodes are cells that were handed out.
ListOn(D, f) == Line(D, f) /\ D \subseteq Taken

\* The links of the list as this process knows it.
Links == [a \in Chain |-> At(next[a])]

\* A node that is allocated and not linked is on no list, and no other thread's.
MineInv ==
  \A t \in Thread : mine[t] # Null =>
    /\ phase \in InUse
    /\ At(mine[t]) \in Taken \ (Chain \union deleted \union {TailPlace})
    /\ \A u \in Thread : u # t => mine[u] # mine[t]

\* A mark on next comes after the mark on nodeDesc; the sentinels have none.
MarkInv == marked \subseteq deleted /\ deleted \subseteq Taken \ {HeadPlace, TailPlace}

\* After a crash links is the list that the last process has left.
SavedInv == isReloadedMem /\ Built => ListOn(DOMAIN links, links)

\* The list as it was, in pointers of the process that has written it.
Pointers == \A a \in DOMAIN links : next[a] = base + links[a]

\* The places whose pointers are those of this process.
Fixed == {a \in DOMAIN links : next[a] = m_pool + links[a]}

FixInv ==
  /\ curr \in Int /\ At(curr) \in DOMAIN links \union {TailPlace}
  /\ \A a \in DOMAIN links : next[a] \in {m_pool + links[a], prev_m_pool + links[a]}
  /\ HeadPlace \in Fixed
  /\ m_pool # prev_m_pool =>
       /\ At(curr) \notin Fixed
       /\ \A a \in Fixed : links[a] \in Fixed \union {At(curr)}

Restarted == isReloadedMem /\ phase = "run" /\ work = [w \in Worker |-> "init"]

ListInv ==
  /\ next \in [Place -> Int] /\ mine \in [Thread -> Int]
  /\ phase \in InUse => Built /\ ListOn(Chain, Links)
  /\ phase \in First \ {"prefill"} => next[HeadPlace] = Null
  /\ MineInv
  /\ MarkInv
  /\ SavedInv
  /\ phase \in {"reconstruct", "find", "walk", "unusable"} /\ Built /\ base # Null => Pointers
  /\ phase = "fix" => IF Built THEN FixInv ELSE curr = Null
  /\ phase = "fault" => ~Built \/ DOMAIN links \intersect deleted # {}
  /\ Restarted => DOMAIN links = Chain /\ \A a \in Chain : At(next[a]) = links[a]

\* As long as every thread keeps to its share: a region that overflows runs into
\* the next one, whose nodes it overwrites.
RecInv == AInv /\ PackedInv /\ VisitInv /\ PhaseInv /\ (Within => ListInv)

\* No two processes map the pool over one another.
PoolsApart == \A p, q \in Pools : p < q => p + Total <= q
=============================================================================
