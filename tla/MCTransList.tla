---------------------------- MODULE MCTransList ----------------------------
(***************************************************************************)
(* Small instances of the transactional list for TLC: the operation arrays *)
(* and the prefills that the runs choose from.                             *)
(***************************************************************************)
EXTENDS TransListAbs, TransListSafety

CONSTANT Running   \* the threads that are scheduled for sure

op(type, k) == [type |-> type, key |-> k]

Singles == {<<op(a, k)>> : a \in OpTypes, k \in Key}

Pairs == {<<o[1], p[1]>> : o \in Singles, p \in Singles}
OneOrTwo == Singles \union Pairs
DistinctPairs == {o \in Pairs : o[1].key # o[2].key}

\* An INSERT comes first or not at all, so that no helper inserts.
InsertFirst == {o \in DistinctPairs : o[2].type # "INSERT"}

\* Both operations may insert, but nothing is ever deleted.
NoDelete == {o \in DistinctPairs : "DELETE" \notin {o[1].type, o[2].type}}

\* A chain of transactions: each key is handed from one to the next.
Chained ==
  {<<op(a, 1)>> : a \in OpTypes}
    \union {<<op("INSERT", 2), op("FIND", 1)>>, <<op("DELETE", 1), op("FIND", 2)>>}

\* The families of workloads, each with its number of transactions.
Workloads == {[arrays |-> InsertFirst, txns |-> 2],
              [arrays |-> NoDelete,    txns |-> 2],
              [arrays |-> Chained,     txns |-> 3]}

\* A behaviour takes all its transactions from one family.
InFamily ==
  LET begun == {d \in Desc : ops'[d] # <<>>}
  IN  \E w \in Workloads :
        /\ \A d \in begun : ops'[d] \in w.arrays
        /\ Cardinality(begun) <= w.txns
FamilySpec == Init /\ [][Next /\ InFamily]_vars

\* Two transactions that wait for each other, and one that meets its own node.
Crossing == {<<op("INSERT", 1), op("FIND", 2)>>, <<op("INSERT", 2), op("FIND", 1)>>,
             <<op("DELETE", 1), op("INSERT", 1)>>}

Finds == {<<op("FIND", 1)>>}

AllPrefills == SUBSET Key
Empty == {{}}
Full == {Key}

Symmetry == Permutations(Thread) \union Permutations(Desc)

\* The transactions of the relink run: one descriptor inserts two keys, every
\* other one removes the second of them.
InsertTwo == <<op("INSERT", 1), op("INSERT", 2)>>
RemoveSecond == <<op("FIND", 1), op("DELETE", 2)>>
InsertThenRemove == {InsertTwo, RemoveSecond}
OneInserts ==
  \A d, e \in Desc : d # e => ops'[d] # InsertTwo \/ ops'[e] # InsertTwo
RelinkSpec == Init /\ [][Next /\ OneInserts]_vars

\* The threads in Running keep running; the others may stop anywhere.
LiveSpec == Spec /\ \A t \in Running : WF_vars(Step(t))

\* Non-blocking: a thread that keeps running finishes its transaction, whatever
\* the others do and wherever they stop for ever.
RunningFinish == \A t \in Running : Busy(t) ~> ~Busy(t)

\* When every thread keeps running, each transaction is decided and made durable.
EventuallyDurable ==
  (\A t \in Thread : WF_vars(Step(t))) =>
    \A d \in Desc : ops[d] # <<>> ~> status[d] # "ACTIVE" /\ Persisted(d)
=============================================================================
