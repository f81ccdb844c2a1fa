------------------------------ MODULE Recovery ------------------------------
(***************************************************************************)
(* A process that builds a list in a pool of the persistent allocator, is  *)
(* killed at any moment, and a second process that finds the pool again:   *)
(* the constructors of SetAdaptor<TransList> and TransList, the thread     *)
(* start of bench/main.cc, validate_and_recovery and fixPointers.          *)
(*                                                                         *)
(* The cells stand for the list nodes, whose successor is a pointer that   *)
(* the restart makes stale, and for the descriptors, which recovery walks  *)
(* over region by region.  How TransList finds the place for a node is     *)
(* abstracted: a thread allocates a node and links it anywhere, and takes  *)
(* any node out again by the three stores of MarkForDeletion: a mark on    *)
(* nodeDesc, a mark on next, the unlinking.                                *)
(*                                                                         *)
(* Recovery does not mask the marks, nor does it look whether the head is  *)
(* complete.  Where it reads through a marked or a null pointer the model  *)
(* ends, in the phase "fault".  The pools of the nodes, of their nodeDesc  *)
(* and of the descriptors move together here.                              *)
(*                                                                         *)
(* Recovery is not idempotent: reload_pmem leaves prev_m_pool as it is, so *)
(* what one recovery has fixed the next one would fix again, wrongly.  The *)
(* model follows a restart only while every pointer in the pool is still   *)
(* one of the process that built it, or the pool has never moved.          *)
(***************************************************************************)
EXTENDS Allocator

CONSTANTS
  Main,       \* the main thread
  MaxCells,   \* bound on the cells of the pool that are handed out
  MaxRestarts \* bound on the crashes

ASSUME MainAssumption == Main \in Thread

Worker == Thread \ {Main}

\* validate_and_recovery visits thread_count + 1 regions.  main.cc would call it
\* with numThread, which makes the Count of the descriptors' allocator; the call
\* in SetAdaptor::Uninit would visit one region more than there are.
WalkedRegions == Count

VARIABLES
  phase,      \* where the main thread stands
  work,       \* work[w]: where worker w stands
  m_arrived,  \* of the ThreadBarrier
  mine,       \* mine[t]: the cell that t has allocated and not linked yet
  next,       \* next[a]: the pointer in the node at place a of the pool, unmarked
  marked,     \* the places whose next has the mark
  deleted,    \* the places whose nodeDesc has the mark
  m_head, m_tail,
  region, curr, following,  \* the locals of the walk over the regions
  visited,    \* the places that the walk has looked at
  restarts,   \* the number of crashes
  base,       \* history: where the pool was when its pointers were written,
              \* Null while fixPointers is at work on them
  links       \* history: the list as the crash has left it, by places

walk    == <<region, curr, following, visited>>
marks   == <<marked, deleted>>
list    == <<next, marks, m_head, m_tail>>
history == <<restarts, base, links>>
vars    == <<avars, phase, work, m_arrived, mine, list, walk, history>>

Place == 0..(Total + Count * Size)
At(p) == p - m_pool       \* the place that a pointer of this process denotes

\* The place that the node at a leads to; a pointer out of the pool leads nowhere.
Follow(a) == IF At(next[a]) \in Place THEN At(next[a]) ELSE At(m_tail)

\* The places of the nodes from the head to the tail, the tail left out.
Chain ==
  LET from[a \in Place] == IF a = At(m_tail) THEN {} ELSE {a} \union from[Follow(a)]
  IN  IF m_head = Null THEN {} ELSE from[At(m_head)]

RInit ==
  /\ AllocatorInit
  /\ phase = "construct"
  /\ work = [w \in Worker |-> "init"]
  /\ m_arrived = 0
  /\ mine = [t \in Thread |-> Null]
  /\ m_head = Null /\ m_tail = Null
  /\ next = [a \in Place |-> Null]
  /\ marked = {} /\ deleted = {}
  /\ region = 0 /\ curr = Null /\ following = Null /\ visited = {}
  /\ restarts = 0 /\ base = m_pool /\ links = <<>>

-----------------------------------------------------------------------------
(* The first process.                                                      *)

\* SetAdaptor calls Init for the sentinels; so does the second process.
ConstructAdaptor ==
  /\ phase \in {"construct", "reconstruct"}
  /\ Init(Main)
  /\ phase' = IF phase = "construct" THEN "tail" ELSE "find"
  /\ UNCHANGED <<work, m_arrived, mine, list, walk, history>>

\* TransList: the tail is the first cell, whose constructor has no pointer to store,
\* the head the second.
NewTail ==
  /\ phase = "tail"
  /\ Alloc(Main)
  /\ m_tail' = NewCell(Main)
  /\ phase' = "head"
  /\ UNCHANGED <<work, m_arrived, mine, next, marks, m_head, walk, history>>

\* The cell of the head, whose next is still null ...
NewHead ==
  /\ phase = "head"
  /\ Alloc(Main)
  /\ m_head' = NewCell(Main)
  /\ phase' = "ctor"
  /\ UNCHANGED <<work, m_arrived, mine, next, marks, m_tail, walk, history>>

\* ... and the constructor of Node, which stores next.
ConstructHead ==
  /\ phase = "ctor"
  /\ next' = [next EXCEPT ![At(m_head)] = m_tail]
  /\ phase' = "prefill"
  /\ UNCHANGED <<avars, work, m_arrived, mine, marks, m_head, m_tail, walk, history>>

\* Tester: main calls Init again, and goes on in a region of its own.
InitMain ==
  /\ phase = "prefill"
  /\ Init(Main)
  /\ phase' = "run"
  /\ UNCHANGED <<work, m_arrived, mine, list, walk, history>>

-----------------------------------------------------------------------------
(* The threads of either process.                                          *)

InitWorker(w) ==
  /\ phase = "run"
  /\ work[w] = "init"
  /\ Init(w)
  /\ work' = [work EXCEPT ![w] = "wait"]
  /\ m_arrived' = m_arrived + 1
  /\ UNCHANGED <<phase, mine, list, walk, history>>

\* ThreadBarrier::Wait, which main enters last, after its prefill.
Open == m_arrived >= Cardinality(Worker)

PassBarrier(w) ==
  /\ work[w] = "wait"
  /\ Open
  /\ work' = [work EXCEPT ![w] = "work"]
  /\ UNCHANGED <<avars, phase, m_arrived, mine, list, walk, history>>

\* Main inserts before the workers start, the workers after the barrier; those of
\* a second process, too, for which Init is written, although the driver ends them
\* there.
Working(t) ==
  /\ phase = "run"
  /\ IF t = Main THEN work = [w \in Worker |-> "init"] /\ ~isReloadedMem
     ELSE work[t] = "work"

AllocNode(t) ==
  /\ Working(t)
  /\ mine[t] = Null
  /\ Cardinality(given) < MaxCells
  /\ Alloc(t)
  /\ mine' = [mine EXCEPT ![t] = NewCell(t)]
  /\ UNCHANGED <<phase, work, m_arrived, list, walk, history>>

\* The constructor's store and the compare-and-swap on the predecessor, which
\* fails if that has a mark.
LinkNode(t) ==
  /\ Working(t)
  /\ mine[t] # Null
  /\ \E a \in Chain \ marked :
       next' = [next EXCEPT ![At(mine[t])] = next[a], ![a] = mine[t]]
  /\ mine' = [mine EXCEPT ![t] = Null]
  /\ UNCHANGED <<avars, phase, work, m_arrived, marks, m_head, m_tail, walk, history>>

\* MarkForDeletion: the mark on nodeDesc, ...
MarkDesc(w) ==
  /\ Working(w)
  /\ \E a \in Chain \ ({At(m_head)} \union deleted) : deleted' = deleted \union {a}
  /\ UNCHANGED <<avars, phase, work, m_arrived, mine, next, marked, m_head, m_tail,
                 walk, history>>

\* ... the mark on next, ...
MarkNext(w) ==
  /\ Working(w)
  /\ \E a \in deleted \ marked : marked' = marked \union {a}
  /\ UNCHANGED <<avars, phase, work, m_arrived, mine, next, deleted, m_head, m_tail,
                 walk, history>>

\* ... and the unlinking, here or by a search of LocatePred that passes by.
Unlink(w) ==
  /\ Working(w)
  /\ \E a \in Chain \ marked :
       /\ Follow(a) \in marked
       /\ next' = [next EXCEPT ![a] = next[Follow(a)]]
  /\ UNCHANGED <<avars, phase, work, m_arrived, mine, marks, m_head, m_tail,
                 walk, history>>

-----------------------------------------------------------------------------
(* The crash, and the second process.                                      *)

Crash ==
  /\ phase # "fault"
  /\ restarts < MaxRestarts
  /\ restarts' = restarts + 1
  /\ Reload
  /\ links' = IF phase \in {"prefill", "run"} THEN [a \in Chain |-> At(next[a])] ELSE links
  /\ phase' = "reconstruct"
  /\ work' = [w \in Worker |-> "init"]
  /\ m_arrived' = 0
  /\ mine' = [t \in Thread |-> Null]
  /\ m_head' = Null /\ m_tail' = Null
  /\ region' = 0 /\ curr' = Null /\ following' = Null /\ visited' = {}
  /\ UNCHANGED <<next, marks, base>>

\* TransList(..., newList = false), and the start of validate_and_recovery.
\* Without a head the list is not usable: the process was killed before it had
\* allocated the sentinels.  It is not either when pointers would be fixed wrongly.
FindSentinels ==
  /\ phase = "find"
  /\ m_tail' = getFirst(Main)
  /\ m_head' = getNext(Main, getFirst(Main))
  /\ phase' = IF m_head' = Null \/ base # prev_m_pool
              THEN "unusable" ELSE "walk"
  /\ curr' = getFirstForThread(0)
  /\ following' = getNextForThread(getFirstForThread(0), 0)
  /\ UNCHANGED <<avars, work, m_arrived, mine, next, marks, region, visited, history>>

\* The walk looks at a descriptor, or goes on to the next region.
VisitDesc ==
  /\ phase = "walk"
  /\ curr # Null
  /\ visited' = visited \union {At(curr)}
  /\ curr' = following
  /\ following' = getNextForThread(following, region)
  /\ UNCHANGED <<avars, phase, work, m_arrived, mine, list, region, history>>

NextRegion ==
  /\ phase = "walk"
  /\ curr = Null
  /\ IF region + 1 < WalkedRegions
     THEN LET first == getFirstForThread(region + 1)
          IN  /\ region' = region + 1
              /\ curr' = first
              /\ following' = getNextForThread(first, region + 1)
              /\ UNCHANGED <<phase, next, base>>
     ELSE \* fixPointers, up to its loop
          /\ phase' = "fix"
          /\ next' = [next EXCEPT ![At(m_head)] = getNewPointer(@)]
          /\ curr' = getNewPointer(next[At(m_head)])
          /\ region' = 0 /\ following' = Null
          /\ base' = IF m_pool = base THEN base ELSE Null
  /\ UNCHANGED <<avars, work, m_arrived, mine, marks, m_head, m_tail, visited,
                 restarts, links>>

\* Mutant: the loop condition looks at curr->next as it was for the old pool.
MoreToFix_Old ==
  /\ curr \notin {Null, m_tail}
  /\ At(curr) \in marked \/ next[At(curr)] # prev_m_pool + At(m_tail)

\* The condition of the loop of fixPointers: the node has a successor to fix.  A
\* pointer with the mark is not m_tail, wherever it leads.
MoreToFix ==
  /\ curr \notin {Null, m_tail}
  /\ At(curr) \in marked \/ next[At(curr)] \notin {Null, m_tail}

\* The loop leaves the list at place a: curr->next has the mark, so that the next
\* round reads next to the node; or nodeDesc has it, so that desc is relocated at
\* an odd address, which is harmless only if nothing has moved.
GoesAstray(a) == a \in marked \/ (a \in deleted /\ m_pool # prev_m_pool)

FixPointer ==
  LET p == getNewPointer(next[At(curr)])
  IN  /\ phase = "fix"
      /\ MoreToFix
      /\ next' = [next EXCEPT ![At(curr)] = p]
      /\ curr' = p
      /\ phase' = IF GoesAstray(At(curr)) THEN "fault" ELSE "fix"
      /\ UNCHANGED <<avars, work, m_arrived, mine, marks, m_head, m_tail, region,
                     following, visited, history>>

\* After the loop, validate_and_recovery walks through the list, marks masked, and
\* looks at keys and descriptors; m_head->next must not be null.
CheckList ==
  /\ phase = "fix"
  /\ ~MoreToFix
  /\ phase' = IF next[At(m_head)] = Null THEN "fault" ELSE "run"
  /\ curr' = Null
  /\ base' = m_pool
  /\ UNCHANGED <<avars, work, m_arrived, mine, list, region, following, visited,
                 restarts, links>>

-----------------------------------------------------------------------------
\* Nothing is left to do, or there is no list to do it on.
Ended ==
  /\ \/ phase = "fault"
     \/ restarts = MaxRestarts /\ phase \in {"run", "unusable"}
  /\ UNCHANGED vars

RNext ==
  \/ ConstructAdaptor \/ NewTail \/ NewHead \/ ConstructHead \/ InitMain
  \/ \E w \in Worker :
       InitWorker(w) \/ PassBarrier(w) \/ MarkDesc(w) \/ MarkNext(w) \/ Unlink(w)
  \/ \E t \in Thread : AllocNode(t) \/ LinkNode(t)
  \/ Crash \/ FindSentinels \/ VisitDesc \/ NextRegion \/ FixPointer \/ CheckList
  \/ Ended

RSpec == RInit /\ [][RNext]_vars

-----------------------------------------------------------------------------
\* The walk over the regions finds every cell that the first process has handed
\* out in them, and otherwise only the first cell of a region that is empty.
VisitsAll ==
  Within /\ phase = "fix" =>
    visited = {c.at : c \in given}
                \union {Offset(r) : r \in {s \in Region : mg_freeIndex[s] = 0}}

\* After recovery the list holds the nodes that it held at the crash, in the same
\* order, at whatever address the pool is now: a node that was allocated and not
\* linked is not in it, and the sentinels are found by their place.  Recovery only
\* fails to get there when the crash has left the head half-built or a node in the
\* list that was about to be taken out.
ChainRestored ==
  Within /\ isReloadedMem =>
    /\ phase = "run" /\ work = [w \in Worker |-> "init"] =>
         /\ DOMAIN links = Chain
         /\ \A a \in Chain : At(next[a]) = links[a]
    /\ phase = "fault" =>
         next[At(m_head)] = Null \/ DOMAIN links \intersect deleted # {}
=============================================================================
