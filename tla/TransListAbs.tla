---------------------------- MODULE TransListAbs ----------------------------
(***************************************************************************)
(* The set of keys that a state of the list stands for, and the properties *)
(* that relate the list to the atomic transactions of TxSet.               *)
(***************************************************************************)
EXTENDS TransList

\* The nodes on the path from the head to the tail.
Chain ==
  LET from[n \in Node] == IF n = m_tail THEN {} ELSE {n} \union from[next[n]]
  IN  from[next[m_head]]

\* A node a reader takes for the holder of its key: neither being removed nor
\* without its key in every state of the transaction that touched it last.
Present == {n \in Chain : ~ndmark[n] /\ IsKeyExist(nd[n])}

PresentKeys == {KeyOf(n) : n \in Present}

\* A commit counts for others, and for recovery, once it is persisted.
Outcome(d) == IF status[d] = "ABORTED" THEN "aborted"
              ELSE IF status[d] = "COMMITTED" /\ Persisted(d) THEN "committed"
              ELSE "open"

Abstract == INSTANCE TxSet WITH
  set     <- PresentKeys,
  ops     <- ops,
  outcome <- [d \in Desc |-> Outcome(d)]

\* Every transaction takes effect as a whole, at the step that commits it (and
\* makes it durable): all of its operations see the set as that step finds it,
\* and no other step of any thread adds or removes a key.
Atomic == Abstract!Spec

\* No node drops out of the list before its next pointer is marked: a link
\* that races with an unlink of its neighbour is not lost.
NoLostNode ==
  [][\A n \in Chain : n \notin Chain' => marked[n]]_vars

-----------------------------------------------------------------------------
(* CheckConsistency: the list against the keys that should be in it.       *)

Count(type, k) ==
  LET Done(d, i) == /\ status[d] = "COMMITTED"
                    /\ i <= Len(ops[d])
                    /\ ops[d][i] = [type |-> type, key |-> k]
  IN  Cardinality({e \in Desc \X (1..MaxOps) : Done(e[1], e[2])})

\* When all threads are done, the list holds the keys that the committed
\* transactions have inserted more often than deleted.  For runs with one
\* possible prefill.
NetEffect ==
  (\A t \in Thread : ~Busy(t)) =>
    \A S \in Prefills : \A k \in Key :
      k \in PresentKeys <=>
        (IF k \in S THEN 1 ELSE 0) + Count("INSERT", k) = Count("DELETE", k) + 1

-----------------------------------------------------------------------------
(* validate_and_recovery after a crash in this state.                      *)

\* descMap[k]: the committed transactions with an operation on k that have the
\* largest txid of all of them.
Mentions(d, k) == \E i \in 1..Len(ops[d]) : ops[d][i].key = k
descMap(k) ==
  LET C == {d \in Desc : status[d] = "COMMITTED" /\ Mentions(d, k)}
  IN  {d \in C : \A e \in C : txid[e] <= txid[d]}

\* The node of a key belongs to the transaction that recovery takes for the last
\* one on this key: the txids tell in which order transactions took a node.
TxidsTellOrder ==
  \A n \in Chain : LET d == nd[n].desc
                   IN  d # PreDesc /\ status[d] = "COMMITTED" /\ pstatus[d] = "PERSISTED"
                         => d \in descMap(KeyOf(n))
=============================================================================
