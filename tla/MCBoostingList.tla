--------------------------- MODULE MCBoostingList ---------------------------
(***************************************************************************)
(* Small instances of the boosting list for TLC.                           *)
(***************************************************************************)
EXTENDS BoostingListAbs

CONSTANT Running   \* the threads that are scheduled for sure

op(type, k) == [type |-> type, key |-> k]

\* The keys in opposite orders, so that threads wait for each other's locks,
\* operations that fail after others have succeeded, and a key twice.
Contended ==
  {<<op("INSERT", 1), op("DELETE", 2)>>, <<op("INSERT", 2), op("DELETE", 1)>>,
   <<op("DELETE", 1), op("FIND", 2)>>, <<op("DELETE", 2), op("INSERT", 2)>>}

\* The threads in Running keep running; the others may stop anywhere but in Lock,
\* where they would keep the entry of the key in m_lockMap.
LiveSpec ==
  /\ Spec
  /\ \A t \in Running : WF_vars(Step(t))
  /\ \A t \in Thread : WF_vars(LeaveLock(t))

\* A thread that keeps running finishes its transaction, whatever locks the
\* others hold for ever, if they leave Lock: the timeout bounds the wait for the
\* lock of a key, and the entry is only held as long as that wait.
RunningFinish == \A t \in Running : pc[t] # "idle" ~> pc[t] = "idle"
=============================================================================
