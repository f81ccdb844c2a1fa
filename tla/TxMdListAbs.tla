---------------------------- MODULE TxMdListAbs ----------------------------
(***************************************************************************)
(* The set of keys that a state of the multi-dimensional list stands for,  *)
(* and the properties that relate it to the atomic transactions of TxSet.  *)
(***************************************************************************)
EXTENDS TxMdList

\* The slot i of node n once the tasks that concern it are finished.
Slot ==
  LET slot[n \in Node, i \in Dim] ==
        LET task == pending[n]
        IN  IF /\ task # NoTask /\ task.pred_dim <= i /\ i < task.dim
               /\ child[n][i] = To(Null)
            THEN slot[task.curr, i] ELSE child[n][i]
  IN  slot

\* The node that a search for key k ends at, Null if there is none.
Found(k) ==
  LET slot == Slot
      from[n \in Node \union {Null}, i \in 0..DIMENSION] ==
        IF n = Null \/ i = DIMENSION THEN n
        ELSE IF Coord(k, i) > Coord(KeyOf(n), i) THEN from[slot[n, i].n, i]
        ELSE IF Coord(k, i) < Coord(KeyOf(n), i) THEN Null
        ELSE from[n, i + 1]
  IN  from[m_head, 0]

Holds(k) == LET n == Found(k)
            IN  n # Null /\ ~ndmark[n] /\ IsKeyExist(nd[n])

PresentKeys == {k \in Key : Holds(k)}

\* A commit counts for others once it is persisted.
Outcome(d) == IF status[d] = "ABORTED" THEN "aborted"
              ELSE IF status[d] = "COMMITTED" /\ pstatus[d] = "PERSISTED"
              THEN "committed" ELSE "open"

Abstract == INSTANCE TxSet WITH
  set     <- PresentKeys,
  ops     <- ops,
  outcome <- [d \in Desc |-> Outcome(d)]

\* The three steps at which the code departs from its own protocol.

\* A thread judges a node whose transaction has committed but is not durable
\* yet, and takes it for one that has aborted.
ReadsEarly(t) ==
  /\ At(t, "exist")
  /\ LET c == Fr(t).old
     IN  /\ c.desc # Top(t)
         /\ status[c.desc] = "COMMITTED" /\ pstatus[c.desc] # "PERSISTED"

\* Insert sets DELINV on a pointer to another node than the one it found marked.
InvalidatesOther(t) ==
  At(t, "invalidate") /\ child[Fr(t).pred][Fr(t).pred_dim].n # Fr(t).curr

\* A node gives its children away before it has adopted those it has to.
GivesTooEarly(t) ==
  /\ At(t, "give")
  /\ LET task == pending[Fr(t).task.curr]
     IN  /\ task # NoTask
         /\ task.pred_dim <= Fr(t).i /\ Fr(t).i < task.dim

CoordinatesOrdered ==
  \A n \in Node, i \in Dim :
    LET c == child[n][i]
    IN  c.n # Null => /\ FirstDiff(KeyOf(n), KeyOf(c.n), 0) = i
                      /\ Coord(KeyOf(n), i) < Coord(KeyOf(c.n), i)

\* The child of a node in dimension i has the node's coordinates before i and a
\* larger one at i, wherever it has been moved to.
WellFormed == TypeOK /\ CoordinatesOrdered
=============================================================================
