-------------------------- MODULE BoostingListAbs --------------------------
(***************************************************************************)
(* What the boosting list promises: the locking discipline, and the atomic *)
(* transactions of TxSet.                                                  *)
(***************************************************************************)
EXTENDS BoostingList

\* Two-phase locking: a thread that may still have to undo an operation holds
\* the lock of its key, so that nobody has built on it.
LoggedIsLocked ==
  \A t \in Thread : \A i \in DOMAIN m_log[t] : owner[m_log[t][i].key] = t

\* Every logged inverse finds its key as its operation has left it: OnAbort
\* may ignore what m_list returns.
UndoApplies ==
  \A t \in Thread : \A i \in DOMAIN m_log[t] : Succeeds(m_log[t][i], keys)

\* A lock that is held is in the m_lockSet of its owner, so that Unlock, whose
\* loop runs over m_lockSet, leaves no lock behind.
NoLockLost ==
  \A k \in Key : owner[k] # None => k \in m_lockSet[owner[k]]

\* Until a thread releases its locks it holds all that are in its m_lockSet, but
\* for the one that it is trying to take: a lock that a timeout left in the set
\* would be unlocked by a thread that does not hold it.
HoldsItsLocks(t) ==
  ~Unlocking(t) =>
    \A k \in m_lockSet[t] : owner[k] = t \/ (At(t, "try") /\ k = Op(t).key)

NoLockLeft == \A t \in Thread : HoldsItsLocks(t)

\* m_lockSet knows the locks of its thread, no fewer and no more.
LockSetExact == NoLockLost /\ NoLockLeft

-----------------------------------------------------------------------------
\* The keys as they are without the operations of undecided transactions.
Restored ==
  {k \in Key :
     \/ k \in keys /\ ~\E t \in Thread : \E i \in DOMAIN m_log[t] :
                        m_log[t][i].key = k
     \/ \E t \in Thread : \E i \in DOMAIN m_log[t] :
          m_log[t][i] = [type |-> "INSERT", key |-> k]}

\* Only a commit shows: no lock, operation, failure or undo of an undecided
\* transaction adds or removes a key for the others.
OnlyCommitsShow ==
  [][(\A d \in Desc : outcome'[d] = "committed" => outcome[d] = "committed")
       => Restored' = Restored]_vars

Abstract == INSTANCE TxSet WITH set <- Restored

\* Every transaction takes effect as a whole, at the step that commits it, on
\* the set as that step finds it; an aborted one leaves no trace.
Atomic == Abstract!Spec

-----------------------------------------------------------------------------
(* The inductive invariant.                                                *)

ThreadInv(t) ==
  /\ HoldsItsLocks(t)
  /\ pc[t] = "idle" => m_lockSet[t] = {} /\ pos[t] = 1
  /\ pc[t] \in {"idle", "unlock"} => m_log[t] = <<>>
  /\ \A i \in DOMAIN m_log[t] : m_log[t][i].key \in m_lockSet[t]
  /\ \A i, j \in DOMAIN m_log[t] :
       m_log[t][i].key = m_log[t][j].key => i = j
  /\ pc[t] \in {"try", "apply"} =>
       /\ Op(t).key \in m_lockSet[t]
       /\ \A i \in DOMAIN m_log[t] : m_log[t][i].key # Op(t).key

CoreInv ==
  /\ TypeOK
  /\ NoLockLost
  /\ \A t \in Thread : ThreadInv(t)
  /\ UndoApplies

\* A transaction belongs to one thread, and is open until its last operation.
TxnInv ==
  /\ \A d \in Desc : ops[d] = <<>> =>
       outcome[d] = "open" /\ \A t \in Thread : txn[t] # d
  /\ \A t, u \in Thread : txn[t] = txn[u] => t = u \/ txn[t] = None
  /\ \A t \in Thread : pc[t] \in Executing => outcome[txn[t]] = "open"

\* The operations that a running transaction has done, and those whose lock it has
\* in m_lockSet.
Past(t) == 1..(pos[t] - 1)
Taken(t) == IF pc[t] \in {"try", "apply"} THEN 1..pos[t] ELSE Past(t)

\* A running transaction has the lock of each of its operations so far, never
\* one twice; the keys are as the operations have left them, and the log has an
\* entry for all but FIND.
Progress(o, locks, log, held, past, S) ==
  /\ locks = {o[i].key : i \in held}
  /\ \A i, j \in held : o[i].key = o[j].key => i = j
  /\ \A i \in past : o[i].key \in S <=> o[i].type # "DELETE"
  /\ {log[i].key : i \in DOMAIN log} = {o[i].key : i \in {j \in past : o[j].type # "FIND"}}

ProgInv(t) == Progress(ops[txn[t]], m_lockSet[t], m_log[t], Taken(t), Past(t), keys)

RunningInv == \A t \in Thread : pc[t] \in Executing => ProgInv(t)

\* The entry of a key is held by the one thread that is in Lock for it.
InLock(t) == pc[t] \in {"held", "try"}

EntryInv ==
  \A t \in Thread, k \in Key : entry[k] = t <=> InLock(t) /\ k = Op(t).key

IInv == CoreInv /\ TxnInv /\ RunningInv /\ EntryInv
=============================================================================
