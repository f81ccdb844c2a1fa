---------------------------- MODULE MCTxMdList ----------------------------
(***************************************************************************)
(* Small instances of the multi-dimensional list for TLC.                  *)
(***************************************************************************)
EXTENDS TxMdListInv

CONSTANT Running   \* the threads that are scheduled for sure

VARIABLE flawed    \* history: a step has departed from the protocol

op(type, k) == [type |-> type, key |-> k]

\* Keys with the coordinates (1,0), (1,1), (2,0) and (3,0): the first, inserted
\* last, takes the place of the second and adopts what hangs on it, where the
\* others are inserted and looked for at the same time.  The transactions wait for
\* each other, delete what another one looks for, and insert it again.
Crossing == {<<op("INSERT", 4), op("INSERT", 8)>>, <<op("INSERT", 8), op("INSERT", 4)>>,
             <<op("DELETE", 12), op("INSERT", 4)>>, <<op("INSERT", 12), op("DELETE", 5)>>}
FiveAndTwelve == {{5, 12}}

MCInit == Init /\ flawed = FALSE
MCNext ==
  /\ Next
  /\ flawed' = \/ flawed
               \/ \E t \in Thread : /\ Step(t)
                                    /\ ReadsEarly(t) \/ InvalidatesOther(t) \/ GivesTooEarly(t)
MCSpec == MCInit /\ [][MCNext]_<<vars, flawed>>

\* The threads in Running keep running; the others may stop anywhere.
LiveSpec == MCSpec /\ \A t \in Running : WF_vars(Step(t))

\* Non-blocking: a thread that keeps running finishes its transaction, whatever
\* the others do and wherever they stop for ever.
RunningFinish == \A t \in Running : Busy(t) ~> ~Busy(t) \/ Died

abstract == <<PresentKeys, ops, [d \in Desc |-> Outcome(d)]>>

\* As long as no step departs from the protocol, every transaction takes effect
\* as a whole at the step that makes it durable.
AtomicUnlessFlawed ==
  [][\/ UNCHANGED <<heap, ops, status, pstatus>> \/ UNCHANGED abstract
     \/ flawed' \/ Abstract!Next]_vars
=============================================================================
