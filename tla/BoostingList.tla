---------------------------- MODULE BoostingList ----------------------------
(***************************************************************************)
(* Transactional boosting: boostinglist.cc with the key locks of           *)
(* lockkey.h, as the threads of main.cc use it.  A transaction locks the   *)
(* key of each operation, runs the operation on the lock-free list at once *)
(* and logs its inverse.  OnAbort runs the log backwards; OnCommit and     *)
(* OnAbort then release the locks one by one.                              *)
(*                                                                         *)
(* The lock-free list is an atomic set here (LockfreeListAbs shows it to   *)
(* be linearizable).  m_lockMap gives each key one lock, so a lock is      *)
(* named by its key.  A call of Lock holds the key's entry in m_lockMap    *)
(* from m_lockMap.insert, which waits for it, to its return: there are two *)
(* locks on a key, and only the wait for the inner one has a timeout.      *)
(***************************************************************************)
EXTENDS Naturals, SequencesExt

CONSTANTS
  Thread,
  Desc,       \* the transactions
  Key,
  OpArrays,   \* the operations a transaction may run
  None

OpTypes == {"FIND", "INSERT", "DELETE"}
Operator == [type : OpTypes, key : Key]

ASSUME BoostingAssumption ==
  /\ None \notin Thread \union Desc
  /\ \A o \in OpArrays : o \in Seq(Operator) /\ o # <<>>

VARIABLES
  keys,       \* the keys in m_list
  entry,      \* entry[k]: the thread whose accessor holds k's entry of m_lockMap, or None
  owner,      \* owner[k]: the thread that holds the lock of k, or None
  m_lockSet,  \* m_lockSet[t]: the locks that t has taken, or is trying to take
  m_log,      \* m_log[t]: the inverse operations of t's transaction
  pc,         \* pc[t]: what t does next
  txn,        \* txn[t]: the transaction of t, or None
  pos,        \* pos[t]: the number of its current operation
  ops,        \* ops[d]: the operations of d, <<>> before d begins
  outcome     \* outcome[d]: "open", or which of OnCommit and OnAbort runs

vars == <<keys, entry, owner, m_lockSet, m_log, pc, txn, pos, ops, outcome>>

Entry == [type : {"INSERT", "DELETE"}, key : Key]

\* Where a thread stands at an operation of its transaction: before Lock, in
\* Lock with a lock that m_lockSet has already or has just got, after Lock.
Executing == {"lock", "held", "try", "apply"}

TypeOK ==
  /\ keys \subseteq Key
  /\ entry \in [Key -> Thread \union {None}]
  /\ owner \in [Key -> Thread \union {None}]
  /\ m_lockSet \in [Thread -> SUBSET Key]
  /\ m_log \in [Thread -> Seq(Entry)]
  /\ pc \in [Thread -> {"idle", "undo", "unlock"} \union Executing]
  /\ txn \in [Thread -> Desc \union {None}]
  /\ pos \in [Thread -> Nat \ {0}]
  /\ ops \in [Desc -> OpArrays \union {<<>>}]
  /\ outcome \in [Desc -> {"open", "committed", "aborted"}]
  /\ \A t \in Thread : pc[t] \in Executing =>
       txn[t] \in Desc /\ pos[t] \in DOMAIN ops[txn[t]]

At(t, l) == pc[t] = l
Op(t) == ops[txn[t]][pos[t]]
GoTo(t, l) == pc' = [pc EXCEPT ![t] = l]

\* What m_list makes of an operation, and whether it returns true.
Effect(op, S) == CASE op.type = "INSERT" -> S \union {op.key}
                   [] op.type = "DELETE" -> S \ {op.key}
                   [] op.type = "FIND"   -> S
Succeeds(op, S) == op.key \in S <=> op.type # "INSERT"

\* Mutant: the log gets the operation itself.
Logged_Same(op) == IF op.type = "FIND" THEN <<>> ELSE <<op>>

\* The log entry of a successful operation.
Logged(op) ==
  CASE op.type = "INSERT" -> <<[type |-> "DELETE", key |-> op.key]>>
    [] op.type = "DELETE" -> <<[type |-> "INSERT", key |-> op.key]>>
    [] op.type = "FIND"   -> <<>>

-----------------------------------------------------------------------------
Init ==
  /\ keys \in SUBSET Key
  /\ entry = [k \in Key |-> None]
  /\ owner = [k \in Key |-> None]
  /\ m_lockSet = [t \in Thread |-> {}]
  /\ m_log = [t \in Thread |-> <<>>]
  /\ pc = [t \in Thread |-> "idle"]
  /\ txn = [t \in Thread |-> None]
  /\ pos = [t \in Thread |-> 1]
  /\ ops = [d \in Desc |-> <<>>]
  /\ outcome = [d \in Desc |-> "open"]

Begin(t) ==
  /\ At(t, "idle")
  /\ \E d \in Desc, o \in OpArrays :
       /\ ops[d] = <<>>
       /\ ops' = [ops EXCEPT ![d] = o]
       /\ txn' = [txn EXCEPT ![t] = d]
  /\ GoTo(t, "lock")
  /\ UNCHANGED <<keys, entry, owner, m_lockSet, m_log, pos, outcome>>

\* Any result but OK makes the caller run OnAbort.
Abort(t) ==
  /\ outcome' = [outcome EXCEPT ![txn[t]] = "aborted"]
  /\ GoTo(t, "undo")
  /\ UNCHANGED <<keys, owner, m_log, txn, pos, ops>>

\* Lock, up to m_lockSet->insert: m_lockMap.insert waits while another thread has
\* the entry of the key.
FindLock(t) ==
  LET k == Op(t).key
  IN  /\ At(t, "lock")
      /\ entry[k] = None
      /\ entry' = [entry EXCEPT ![k] = t]
      /\ m_lockSet' = [m_lockSet EXCEPT ![t] = @ \union {k}]
      /\ GoTo(t, IF k \in m_lockSet[t] THEN "held" ELSE "try")
      /\ UNCHANGED <<keys, owner, m_log, txn, pos, ops, outcome>>

\* Lock returns, which lets go of the entry.
LeaveEntry(t) == entry' = [entry EXCEPT ![Op(t).key] = None]

\* try_lock_for takes the lock.
Acquire(t) ==
  /\ At(t, "try")
  /\ owner[Op(t).key] = None
  /\ owner' = [owner EXCEPT ![Op(t).key] = t]
  /\ LeaveEntry(t)
  /\ GoTo(t, "apply")
  /\ UNCHANGED <<keys, m_lockSet, m_log, txn, pos, ops, outcome>>

\* Mutant: Lock erases the lock also where it was in m_lockSet before.
LockHeld_Erase(t) ==
  /\ At(t, "held")
  /\ LeaveEntry(t)
  /\ m_lockSet' = [m_lockSet EXCEPT ![t] = @ \ {Op(t).key}]
  /\ Abort(t)

\* Lock returns false for a lock that was in m_lockSet before.
LockHeld(t) ==
  /\ At(t, "held")
  /\ LeaveEntry(t)
  /\ Abort(t)
  /\ UNCHANGED m_lockSet

\* Mutant: the lock is taken without a timeout.
LockTimeout_Never(t) == FALSE /\ Abort(t) /\ UNCHANGED <<entry, m_lockSet>>

\* Mutant: the lock stays in m_lockSet.
LockTimeout_Kept(t) ==
  /\ At(t, "try")
  /\ owner[Op(t).key] \notin {None, t}
  /\ LeaveEntry(t)
  /\ Abort(t)
  /\ UNCHANGED m_lockSet

\* try_lock_for gives up while another thread holds the lock.
LockTimeout(t) ==
  /\ At(t, "try")
  /\ owner[Op(t).key] \notin {None, t}
  /\ LeaveEntry(t)
  /\ m_lockSet' = [m_lockSet EXCEPT ![t] = @ \ {Op(t).key}]
  /\ Abort(t)

OpFails(t) ==
  /\ At(t, "apply")
  /\ ~Succeeds(Op(t), keys)
  /\ Abort(t)
  /\ UNCHANGED <<entry, m_lockSet>>

\* The operation is done; after the last one the caller runs OnCommit, which
\* clears the log before it releases the locks.
OpSucceeds(t) ==
  LET last == pos[t] = Len(ops[txn[t]])
  IN  /\ At(t, "apply")
      /\ Succeeds(Op(t), keys)
      /\ keys' = Effect(Op(t), keys)
      /\ \/ /\ ~last
            /\ m_log' = [m_log EXCEPT ![t] = @ \o Logged(Op(t))]
            /\ pos' = [pos EXCEPT ![t] = @ + 1]
            /\ GoTo(t, "lock")
            /\ UNCHANGED outcome
         \/ /\ last
            /\ m_log' = [m_log EXCEPT ![t] = <<>>]
            /\ outcome' = [outcome EXCEPT ![txn[t]] = "committed"]
            /\ GoTo(t, "unlock")
            /\ UNCHANGED pos
      /\ UNCHANGED <<entry, owner, m_lockSet, txn, ops>>

\* OnAbort runs the log backwards and ignores what m_list returns.
Undo(t) ==
  /\ At(t, "undo")
  /\ m_log[t] # <<>>
  /\ keys' = Effect(Last(m_log[t]), keys)
  /\ m_log' = [m_log EXCEPT ![t] = Front(@)]
  /\ UNCHANGED <<entry, owner, m_lockSet, pc, txn, pos, ops, outcome>>

\* Mutant: the locks are released before the operations are undone.
Unlocking_Early(t) == pc[t] \in {"undo", "unlock"}

Unlocking(t) == At(t, "unlock") \/ (At(t, "undo") /\ m_log[t] = <<>>)

\* Unlock walks through m_lockSet, in any order.
Unlock(t) ==
  /\ Unlocking(t)
  /\ \E k \in m_lockSet[t] :
       /\ owner[k] = t
       /\ owner' = [owner EXCEPT ![k] = None]
  /\ UNCHANGED <<keys, entry, m_lockSet, m_log, pc, txn, pos, ops, outcome>>

\* The thread is done with its transaction.
Idle(t) ==
  /\ GoTo(t, "idle")
  /\ txn' = [txn EXCEPT ![t] = None]
  /\ pos' = [pos EXCEPT ![t] = 1]

Finish(t) ==
  /\ Unlocking(t)
  /\ \A k \in m_lockSet[t] : owner[k] # t
  /\ m_lockSet' = [m_lockSet EXCEPT ![t] = {}]
  /\ Idle(t)
  /\ UNCHANGED <<keys, entry, owner, m_log, ops, outcome>>

\* The end of a call of Lock.
LeaveLock(t) == Acquire(t) \/ LockHeld(t) \/ LockTimeout(t)

Step(t) ==
  \/ FindLock(t) \/ LeaveLock(t)
  \/ OpFails(t) \/ OpSucceeds(t) \/ Undo(t) \/ Unlock(t) \/ Finish(t)

Next == \E t \in Thread : Begin(t) \/ Step(t)

Spec == Init /\ [][Next]_vars
=============================================================================
