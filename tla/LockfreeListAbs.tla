-------------------------- MODULE LockfreeListAbs --------------------------
(***************************************************************************)
(* The lock-free list against the linearizable set of LinSet.              *)
(***************************************************************************)
EXTENDS LockfreeList

VARIABLE seen   \* history: whether the key of a call was present so far

\* The nodes on the path from the head to the tail.
Chain ==
  LET from[n \in Node \union {Null}] ==
        IF n \in {m_tail, Null} THEN {} ELSE {n} \union from[next[n]]
  IN  from[next[m_head]]

\* A node holds its key until its next pointer is marked.
PresentKeys == {KeyOf(n) : n \in {m \in Chain : ~marked[m]}}

StateOf(f) == IF f.pc = "idle" THEN "idle"
              ELSE IF f.pc \in {"reread", "swing", "persist"} THEN "done"
              ELSE "open"

Abstract == INSTANCE LinSet WITH
  set  <- PresentKeys,
  call <- [t \in Thread |->
             [state |-> StateOf(fr[t]), type |-> fr[t].type,
              key |-> fr[t].key, res |-> fr[t].res]],
  seen <- seen

HInit == Init /\ seen = [t \in Thread |-> {}]

HNext ==
  /\ Next
  /\ LET present == PresentKeys'
     IN  seen' = [t \in Thread |->
                    IF fr'[t].pc = "idle" THEN {}
                    ELSE seen[t] \union {fr'[t].key \in present}]

HSpec == HInit /\ [][HNext]_<<vars, seen>>

\* Every call appears to take effect at one moment while it runs: an Insert at
\* the compare-and-swap that links its node, a Delete at its mark, and a call
\* that changes nothing when its answer was true.
Linearizable == Abstract!Spec

\* A linked node stays reachable until it is marked: no compare-and-swap on a
\* neighbour takes an inserted key out of the list.
NothingLost ==
  {n \in Inner : next[n] # Null /\ ~marked[n]} \subseteq Chain

\* What a call f that has seen s relies on when it answers or changes the keys.
\* When a traversal reads a successor beyond its key, or has unlinked all that
\* came before such a node, the key is absent at that moment.
SeenBy(f, s) ==
  /\ f.pc = "idle" => s = {}
  /\ f.pc # "idle" /\ f.key \in PresentKeys => TRUE \in s
  /\ f.pc # "idle" /\ f.key \notin PresentKeys => FALSE \in s
  /\ f.pc \in {"search", "unlink"} /\ KeyOf(f.lnext) > f.key => FALSE \in s
  /\ f.pc = "recheck" /\ KeyOf(f.right) > f.key => FALSE \in s
  /\ f.pc = "link" => f.type = "INSERT"
  /\ f.pc \in {"read", "mark"} => f.type = "DELETE"

SeenInv ==
  /\ seen \in [Thread -> SUBSET BOOLEAN]
  /\ \A t \in Thread : SeenBy(fr[t], seen[t])
=============================================================================
