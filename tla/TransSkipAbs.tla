---------------------------- MODULE TransSkipAbs ----------------------------
(***************************************************************************)
(* The set of keys that a state of the skiplist stands for, and the        *)
(* properties that relate it to the atomic transactions of TxSet.          *)
(***************************************************************************)
EXTENDS TransSkip

\* The nodes on the path from the head to the tail on level i.
Chain(i) ==
  LET from[n \in Node] == IF n = tail THEN {} ELSE {n} \union from[next[i][n]]
  IN  from[next[i][head]]

PresentKeys == {KeyOf(n) : n \in {m \in Chain(0) : IsKeyExist(nd[m])}}

\* A commit counts for others once it is persisted.
Outcome(d) == IF status[d] = "ABORTED" THEN "aborted"
              ELSE IF status[d] = "COMMITTED" /\ Persisted(d) THEN "committed"
              ELSE "open"

Abstract == INSTANCE TxSet WITH
  set     <- PresentKeys,
  ops     <- ops,
  outcome <- [d \in Desc |-> Outcome(d)]

\* A thread judges a node whose transaction has committed but is not durable
\* yet, and takes it for one that has aborted.
ReadsEarly(t) ==
  /\ At(t, "exist")
  /\ LET c == Fr(t).old
     IN  /\ c.desc # Top(t)
         /\ status[c.desc] = "COMMITTED"
         /\ ~Persisted(c.desc)

\* Every level leads to nodes with larger keys, and a node on a level is on all
\* the levels below: a search that comes down finds every key.
LevelsNested ==
  /\ \A i \in Level, n \in Node : next[i][n] # tail => KeyOf(n) < KeyOf(next[i][n])
  /\ \A i \in Level : Chain(i) \subseteq Chain(0)

\* A node stays on every level it has entered: no link of another thread cuts
\* it off again.
NoLostNode ==
  [][\A i \in Level : Chain(i) \subseteq Chain(i)']_vars

\* What an operation takes over belongs to a decided transaction, whoever had
\* to finish it, although FinishPendingTxn asks for the caller's status only.
TakenWhenDecided ==
  [][\A n \in NodeDesc :
       nd'[n].desc # nd[n].desc => status[nd[n].desc] # "LIVE"]_vars
=============================================================================
