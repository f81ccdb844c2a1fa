---------------------------- MODULE MCTransSkip ----------------------------
(***************************************************************************)
(* Small instances of the transactional skiplist for TLC.                  *)
(***************************************************************************)
EXTENDS TransSkipInv

CONSTANT Running   \* the threads that are scheduled for sure

VARIABLE early     \* history: some thread has read a commit before it was durable

op(type, k) == [type |-> type, key |-> k]

\* Two transactions that wait for each other, and one that deletes the key one
\* of them looks for and inserts the key of the other.
Crossing == {<<op("INSERT", 1), op("INSERT", 2)>>, <<op("INSERT", 2), op("FIND", 1)>>,
             <<op("DELETE", 1), op("INSERT", 2)>>}

EmptyOrOne == {{}, {1}}

MCInit == Init /\ early = FALSE
MCNext ==
  /\ Next
  /\ early' = (early \/ \E t \in Thread : ReadsEarly(t) /\ Step(t))
MCSpec == MCInit /\ [][MCNext]_<<vars, early>>

\* The threads in Running keep running; the others may stop anywhere.
LiveSpec == MCSpec /\ \A t \in Running : WF_vars(Step(t))

\* Non-blocking: a thread that keeps running finishes its transaction, whatever
\* the others do and wherever they stop for ever.
RunningFinish == \A t \in Running : Busy(t) ~> ~Busy(t)

abstract == <<PresentKeys, ops, [d \in Desc |-> Outcome(d)]>>

\* As long as nobody reads a commit before it is durable, every transaction
\* takes effect as a whole at the step that makes it durable.
AtomicUnlessEarly ==
  [][\/ UNCHANGED <<heap, ops, status, pstatus>> \/ UNCHANGED abstract
     \/ early' \/ Abstract!Next]_vars
=============================================================================
