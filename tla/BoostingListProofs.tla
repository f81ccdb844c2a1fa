------------------------- MODULE BoostingListProofs -------------------------
(***************************************************************************)
(* Theorems about the boosting list: the locking discipline, that an abort *)
(* undoes what it must, and that undecided transactions do not show.       *)
(***************************************************************************)
EXTENDS BoostingListAbs, Paths, SequenceTheorems

USE DEF Executing

\* The log after one more entry, and without its last one.
LEMMA LogPush ==
  ASSUME NEW s \in Seq(Entry), NEW e \in Entry
  PROVE  /\ s \o <<e>> \in Seq(Entry)
         /\ DOMAIN (s \o <<e>>) = DOMAIN s \union {Len(s) + 1}
         /\ Len(s) + 1 \notin DOMAIN s
         /\ \A i \in DOMAIN s : (s \o <<e>>)[i] = s[i]
         /\ (s \o <<e>>)[Len(s) + 1] = e
  OBVIOUS

LEMMA LogPop ==
  ASSUME NEW s \in Seq(Entry), s # <<>>
  PROVE  /\ Front(s) \in Seq(Entry)
         /\ DOMAIN Front(s) = DOMAIN s \ {Len(s)}
         /\ Len(s) \in DOMAIN s
         /\ \A i \in DOMAIN Front(s) : Front(s)[i] = s[i]
         /\ Last(s) = s[Len(s)] /\ Last(s) \in Entry
  BY DEF Front, Last

LEMMA CurrentOp ==
  ASSUME TypeOK, NEW t \in Thread, pc[t] \in Executing
  PROVE  Op(t) \in Operator /\ txn[t] \in Desc
<1>1. txn[t] \in Desc /\ pos[t] \in DOMAIN ops[txn[t]]
  BY DEF TypeOK
<1>2. ops[txn[t]] \in OpArrays \union {<<>>}
  BY <1>1 DEF TypeOK
<1> QED
  BY <1>1, <1>2, BoostingAssumption DEF Op

\* What Insert, Delete and Find log has the opposite effect.
LEMMA LoggedOp ==
  ASSUME NEW op \in Operator
  PROVE  \/ op.type = "FIND" /\ Logged(op) = <<>>
         \/ \E e \in Entry :
              /\ op.type # "FIND" /\ Logged(op) = <<e>> /\ e.key = op.key
              /\ \A S \in SUBSET Key : Succeeds(op, S) => Succeeds(e, Effect(op, S))
  BY DEF Operator, OpTypes, Entry, Logged, Succeeds, Effect

LEMMA LoggedLocked == CoreInv => LoggedIsLocked
  BY DEF CoreInv, TypeOK, ThreadInv, LoggedIsLocked, HoldsItsLocks, Unlocking, At

\* A step of one thread leaves what the invariant says of another one.
LEMMA OtherThread ==
  ASSUME CoreInv, NEW u \in Thread,
         pc'[u] = pc[u], txn'[u] = txn[u], pos'[u] = pos[u],
         m_log'[u] = m_log[u], m_lockSet'[u] = m_lockSet[u],
         pc[u] \in Executing => ops'[txn[u]] = ops[txn[u]],
         \A k \in Key : owner[k] = u => owner'[k] = u
  PROVE  ThreadInv(u)'
<1>1. ThreadInv(u) /\ m_lockSet[u] \subseteq Key
  BY DEF CoreInv, TypeOK
<1>2. pc[u] \in Executing => Op(u)' = Op(u)
  BY DEF Op
<1>3. HoldsItsLocks(u)'
  BY <1>1, <1>2 DEF ThreadInv, HoldsItsLocks, Unlocking, At
<1> QED
  BY <1>1, <1>2, <1>3 DEF ThreadInv

\* Where no log and no key changes, the undo still applies.
LEMMA UndoKept ==
  ASSUME UndoApplies, keys' = keys, m_log' = m_log
  PROVE  UndoApplies'
  BY DEF UndoApplies, Succeeds

-----------------------------------------------------------------------------
(* One lemma per action.                                                   *)

LEMMA BeginStep ==
  ASSUME CoreInv, NEW t \in Thread, Begin(t)
  PROVE  CoreInv'
<1>1. PICK d \in Desc, o \in OpArrays :
        /\ ops[d] = <<>> /\ ops' = [ops EXCEPT ![d] = o]
        /\ txn' = [txn EXCEPT ![t] = d]
  BY DEF Begin
<1>2. /\ TypeOK /\ pc[t] = "idle" /\ pc' = [pc EXCEPT ![t] = "lock"]
      /\ UNCHANGED <<keys, entry, owner, m_lockSet, m_log, pos, outcome>>
  BY DEF CoreInv, Begin, At, GoTo
<1>3. \A u \in Thread \ {t} : pc[u] \in Executing =>
        ops'[txn[u]] = ops[txn[u]]
  BY <1>1, <1>2 DEF TypeOK
<1>4. pos[t] = 1
  BY <1>2 DEF CoreInv, ThreadInv
<1>5. TypeOK'
  BY <1>1, <1>2, <1>3, <1>4, BoostingAssumption DEF TypeOK
<1>6. ThreadInv(t)'
  BY <1>1, <1>2 DEF CoreInv, ThreadInv, TypeOK, HoldsItsLocks, Unlocking, At
<1>7. \A u \in Thread \ {t} : ThreadInv(u)'
  BY <1>1, <1>2, <1>3, OtherThread DEF TypeOK
<1>8. NoLockLost' /\ UndoApplies'
  BY <1>2, UndoKept DEF CoreInv, NoLockLost
<1> QED
  BY <1>5, <1>6, <1>7, <1>8 DEF CoreInv

\* m_lockMap.insert waits for the entry of the key, m_lockSet->insert adds its lock.
LEMMA FindLockStep ==
  ASSUME CoreInv, NEW t \in Thread, FindLock(t)
  PROVE  CoreInv'
<1> DEFINE k == Op(t).key
<1>1. PICK l \in {"held", "try"} :
        /\ pc' = [pc EXCEPT ![t] = l] /\ (l = "try" <=> k \notin m_lockSet[t])
  BY DEF FindLock, GoTo
<1>2. /\ TypeOK /\ pc[t] = "lock"
      /\ entry' = [entry EXCEPT ![k] = t]
      /\ m_lockSet' = [m_lockSet EXCEPT ![t] = @ \union {k}]
      /\ UNCHANGED <<keys, owner, m_log, txn, pos, ops, outcome>>
  BY DEF CoreInv, FindLock, At
<1>3. Op(t) \in Operator /\ Op(t)' = Op(t) /\ k \in Key
  BY <1>2, CurrentOp DEF Op, Operator
<1>4. /\ m_lockSet'[t] = m_lockSet[t] \union {k} /\ pc'[t] = l
      /\ \A u \in Thread \ {t} : m_lockSet'[u] = m_lockSet[u] /\ pc'[u] = pc[u]
      /\ m_lockSet[t] \subseteq Key
  BY <1>1, <1>2 DEF TypeOK
<1>5. TypeOK'
  BY <1>1, <1>2, <1>3 DEF TypeOK
<1>6. /\ ThreadInv(t) /\ \A j \in m_lockSet[t] : owner[j] = t
  BY <1>2 DEF CoreInv, ThreadInv, HoldsItsLocks, Unlocking, At
<1>7. ThreadInv(t)'
  <2>1. HoldsItsLocks(t)'
    BY <1>1, <1>2, <1>3, <1>4, <1>6 DEF HoldsItsLocks, At
  <2>2. l = "try" => \A i \in DOMAIN m_log[t] : m_log[t][i].key # k
    BY <1>1, <1>6 DEF ThreadInv
  <2> HIDE DEF k
  <2> QED
    BY <1>1, <1>2, <1>3, <1>4, <1>6, <2>1, <2>2 DEF ThreadInv, k
<1>8. \A u \in Thread \ {t} : ThreadInv(u)'
  BY <1>2, <1>4, OtherThread
<1>9. NoLockLost'
  BY <1>2, <1>4 DEF CoreInv, NoLockLost, TypeOK
<1>10. UndoApplies'
  BY <1>2, UndoKept DEF CoreInv
<1> QED
  BY <1>5, <1>7, <1>8, <1>9, <1>10 DEF CoreInv

\* OnAbort begins, with every lock in m_lockSet held.
LEMMA AbortStep ==
  ASSUME CoreInv, NEW t \in Thread, pc[t] \in {"held", "apply"}, Abort(t),
         UNCHANGED m_lockSet, entry' \in [Key -> Thread \union {None}]
  PROVE  CoreInv'
<1>1. /\ TypeOK /\ pc' = [pc EXCEPT ![t] = "undo"]
      /\ outcome' = [outcome EXCEPT ![txn[t]] = "aborted"]
      /\ UNCHANGED <<keys, owner, m_lockSet, m_log, txn, pos, ops>>
  BY DEF CoreInv, Abort, GoTo
<1>2. TypeOK'
  BY <1>1 DEF TypeOK
<1>3. ThreadInv(t)'
  BY <1>1 DEF CoreInv, ThreadInv, TypeOK, HoldsItsLocks, Unlocking, At
<1>4. \A u \in Thread \ {t} : ThreadInv(u)'
  BY <1>1, OtherThread DEF TypeOK
<1>5. NoLockLost' /\ UndoApplies'
  BY <1>1, UndoKept DEF CoreInv, NoLockLost
<1> QED
  BY <1>2, <1>3, <1>4, <1>5 DEF CoreInv

\* The entry of a lock that is let go belongs to nobody.
LEMMA EntryLeft ==
  ASSUME TypeOK, NEW t \in Thread, LeaveEntry(t)
  PROVE  entry' \in [Key -> Thread \union {None}]
  BY DEF TypeOK, LeaveEntry

\* The timeout takes the lock out of m_lockSet again.
LEMMA TimeoutStep ==
  ASSUME CoreInv, NEW t \in Thread, LockTimeout(t)
  PROVE  CoreInv'
<1> DEFINE k == Op(t).key
<1>1. /\ TypeOK /\ pc[t] = "try" /\ pc' = [pc EXCEPT ![t] = "undo"]
      /\ owner[k] # t
      /\ m_lockSet' = [m_lockSet EXCEPT ![t] = @ \ {k}]
      /\ outcome' = [outcome EXCEPT ![txn[t]] = "aborted"]
      /\ UNCHANGED <<keys, owner, m_log, txn, pos, ops>>
  BY DEF CoreInv, LockTimeout, Abort, GoTo, At
<1>2. k \in Key /\ entry' \in [Key -> Thread \union {None}]
  BY <1>1, CurrentOp, EntryLeft DEF Operator, LockTimeout
<1>3. TypeOK'
  BY <1>1, <1>2 DEF TypeOK
<1>4. /\ m_lockSet'[t] = m_lockSet[t] \ {k} /\ pc'[t] = "undo"
      /\ \A u \in Thread \ {t} : m_lockSet'[u] = m_lockSet[u] /\ pc'[u] = pc[u]
  BY <1>1 DEF TypeOK
<1>5. /\ ThreadInv(t)
      /\ \A i \in DOMAIN m_log[t] : m_log[t][i].key \in m_lockSet[t] \ {k}
      /\ \A j \in m_lockSet[t] \ {k} : owner[j] = t
  BY <1>1 DEF CoreInv, ThreadInv, HoldsItsLocks, Unlocking, At
<1>6. ThreadInv(t)'
  <2>1. HoldsItsLocks(t)'
    BY <1>1, <1>4, <1>5 DEF HoldsItsLocks
  <2> HIDE DEF k
  <2> QED
    BY <1>1, <1>4, <1>5, <2>1 DEF ThreadInv
<1>7. \A u \in Thread \ {t} : ThreadInv(u)'
  BY <1>1, <1>4, OtherThread
<1>8. NoLockLost'
  BY <1>1, <1>4 DEF CoreInv, NoLockLost, TypeOK
<1>9. UndoApplies'
  BY <1>1, UndoKept DEF CoreInv
<1> QED
  BY <1>3, <1>6, <1>7, <1>8, <1>9 DEF CoreInv

LEMMA AcquireStep ==
  ASSUME CoreInv, NEW t \in Thread, Acquire(t)
  PROVE  CoreInv'
<1> DEFINE k == Op(t).key
<1>1. /\ TypeOK /\ pc[t] = "try" /\ pc' = [pc EXCEPT ![t] = "apply"]
      /\ owner[k] = None
      /\ owner' = [owner EXCEPT ![k] = t]
      /\ UNCHANGED <<keys, m_lockSet, m_log, txn, pos, ops, outcome>>
  BY DEF CoreInv, Acquire, At, GoTo
<1>2. /\ k \in Key /\ Op(t)' = Op(t)
      /\ entry' \in [Key -> Thread \union {None}]
  BY <1>1, CurrentOp, EntryLeft DEF Op, Operator, Acquire
<1>3. TypeOK'
  BY <1>1, <1>2 DEF TypeOK
<1>4. /\ owner'[k] = t /\ pc'[t] = "apply"
      /\ \A j \in Key \ {k} : owner'[j] = owner[j]
      /\ \A u \in Thread \ {t} : pc'[u] = pc[u]
      /\ m_lockSet[t] \subseteq Key
  BY <1>1, <1>2 DEF TypeOK
<1>5. /\ ThreadInv(t) /\ k \in m_lockSet[t]
      /\ \A j \in m_lockSet[t] \ {k} : owner[j] = t
  BY <1>1 DEF CoreInv, ThreadInv, HoldsItsLocks, Unlocking, At
<1>6. ThreadInv(t)'
  <2>1. HoldsItsLocks(t)'
    BY <1>1, <1>4, <1>5 DEF HoldsItsLocks
  <2> HIDE DEF k
  <2> QED
    BY <1>1, <1>2, <1>4, <1>5, <2>1 DEF ThreadInv, k
<1>7. \A u \in Thread \ {t} : ThreadInv(u)'
  <2> SUFFICES ASSUME NEW u \in Thread \ {t} PROVE ThreadInv(u)'
    OBVIOUS
  <2>1. \A j \in Key : owner[j] = u => owner'[j] = u
    BY <1>1, <1>4, BoostingAssumption
  <2> QED
    BY <1>1, <1>4, <2>1, OtherThread
<1>8. NoLockLost'
  <2> SUFFICES ASSUME NEW j \in Key, owner'[j] # None
               PROVE  j \in m_lockSet'[owner'[j]]
    BY DEF NoLockLost
  <2>1. CASE j = k
    BY <1>1, <1>4, <1>5, <2>1
  <2>2. CASE j # k
    BY <1>1, <1>4, <2>2 DEF CoreInv, NoLockLost, TypeOK
  <2> QED
    BY <2>1, <2>2
<1>9. UndoApplies'
  BY <1>1, UndoKept DEF CoreInv
<1> QED
  BY <1>3, <1>6, <1>7, <1>8, <1>9 DEF CoreInv

\* The key of the current operation belongs to no logged one, of any thread.
LEMMA CurrentKey ==
  ASSUME CoreInv, NEW t \in Thread, pc[t] = "apply",
         NEW u \in Thread, NEW i \in DOMAIN m_log[u]
  PROVE  m_log[u][i].key # Op(t).key /\ owner[Op(t).key] = t
<1>1. Op(t).key \in m_lockSet[t] /\ owner[Op(t).key] = t
  BY DEF CoreInv, ThreadInv, HoldsItsLocks, Unlocking, At
<1>2. owner[m_log[u][i].key] = u
  BY LoggedLocked DEF LoggedIsLocked
<1>3. u = t => m_log[u][i].key # Op(t).key
  BY DEF CoreInv, ThreadInv
<1> QED
  BY <1>1, <1>2, <1>3

LEMMA ApplyStep ==
  ASSUME CoreInv, NEW t \in Thread, OpSucceeds(t)
  PROVE  CoreInv'
<1> DEFINE k == Op(t).key
           new == m_log[t] \o Logged(Op(t))
           last == pos[t] = Len(ops[txn[t]])
<1>1. /\ TypeOK /\ pc[t] = "apply" /\ Succeeds(Op(t), keys)
      /\ keys' = Effect(Op(t), keys)
      /\ UNCHANGED <<entry, owner, m_lockSet, txn, ops>>
      /\ m_log[t] \in Seq(Entry)
  BY DEF CoreInv, OpSucceeds, At, TypeOK
<1>2. Op(t) \in Operator /\ k \in Key /\ txn[t] \in Desc
  BY <1>1, CurrentOp DEF Operator
<1>3. /\ keys' \subseteq Key
      /\ \A j \in Key \ {k} : j \in keys' <=> j \in keys
  BY <1>1, <1>2 DEF TypeOK, Effect, Operator, OpTypes
<1>4. /\ ThreadInv(t) /\ k \in m_lockSet[t] /\ UndoApplies
      /\ \A j \in m_lockSet[t] : owner[j] = t
      /\ \A u \in Thread : \A i \in DOMAIN m_log[u] :
           m_log[u][i] \in Entry /\ m_log[u][i].key # k
  BY <1>1, CurrentKey DEF CoreInv, ThreadInv, TypeOK, HoldsItsLocks, Unlocking, At
<1>5. \A u \in Thread : \A i \in DOMAIN m_log[u] : Succeeds(m_log[u][i], keys')
  BY <1>3, <1>4 DEF UndoApplies, Succeeds, Entry
<1>6. \/ new = m_log[t]
      \/ \E e \in Entry : /\ new = m_log[t] \o <<e>> /\ e.key = k
                          /\ Succeeds(e, keys')
  <2>1. CASE Op(t).type = "FIND" /\ Logged(Op(t)) = <<>>
    BY <1>1, <2>1, ConcatEmptySeq
  <2>2. ASSUME NEW e \in Entry, Logged(Op(t)) = <<e>>, e.key = k,
               \A S \in SUBSET Key : Succeeds(Op(t), S) => Succeeds(e, Effect(Op(t), S))
        PROVE  new = m_log[t] \o <<e>> /\ Succeeds(e, keys')
    <3>1. keys \in SUBSET Key
      BY <1>1 DEF TypeOK
    <3> QED
      BY <1>1, <2>2, <3>1
  <2> QED
    BY <1>2, <2>1, <2>2, LoggedOp
<1>7. NoLockLost'
  BY <1>1 DEF CoreInv, NoLockLost
<1>8. \A u \in Thread \ {t} : pc'[u] = pc[u] /\ pos'[u] = pos[u] /\ m_log'[u] = m_log[u]
  BY <1>1 DEF OpSucceeds, GoTo, TypeOK
<1>9. \A u \in Thread \ {t} : ThreadInv(u)'
  BY <1>1, <1>8, OtherThread
<1>10. CASE last
  <2>1. /\ m_log' = [m_log EXCEPT ![t] = <<>>] /\ pos' = pos
        /\ outcome' = [outcome EXCEPT ![txn[t]] = "committed"]
        /\ pc' = [pc EXCEPT ![t] = "unlock"]
    BY <1>10 DEF OpSucceeds, GoTo
  <2>2. TypeOK'
    BY <1>1, <1>2, <1>3, <2>1 DEF TypeOK
  <2>3. pc'[t] = "unlock" /\ m_log'[t] = <<>>
    BY <1>1, <2>1 DEF TypeOK
  <2>4. ThreadInv(t)'
    BY <2>3 DEF ThreadInv, HoldsItsLocks, Unlocking, At
  <2>5. UndoApplies'
    BY <1>5, <1>8, <2>3 DEF UndoApplies, Succeeds
  <2> QED
    BY <1>7, <1>9, <2>2, <2>4, <2>5 DEF CoreInv
<1>11. CASE ~last
  <2>1. /\ m_log' = [m_log EXCEPT ![t] = new] /\ outcome' = outcome
        /\ pos' = [pos EXCEPT ![t] = @ + 1]
        /\ pc' = [pc EXCEPT ![t] = "lock"]
    BY <1>11 DEF OpSucceeds, GoTo
  <2>2. /\ new \in Seq(Entry)
        /\ \A i \in DOMAIN new : new[i].key \in m_lockSet[t] /\ Succeeds(new[i], keys')
        /\ \A i, j \in DOMAIN new : new[i].key = new[j].key => i = j
    <3>1. CASE new = m_log[t]
      BY <1>1, <1>4, <1>5, <3>1 DEF ThreadInv
    <3>2. ASSUME NEW e \in Entry, new = m_log[t] \o <<e>>, e.key = k,
                 Succeeds(e, keys')
          PROVE  <2>2!1 /\ <2>2!2 /\ <2>2!3
      <4>1. /\ new \in Seq(Entry)
            /\ DOMAIN new = DOMAIN m_log[t] \union {Len(m_log[t]) + 1}
            /\ Len(m_log[t]) + 1 \notin DOMAIN m_log[t]
            /\ \A i \in DOMAIN m_log[t] : new[i] = m_log[t][i]
            /\ new[Len(m_log[t]) + 1] = e
        BY <1>1, <3>2, LogPush
      <4> HIDE DEF new, k
      <4> QED
        BY SMTT(30), <1>4, <1>5, <3>2, <4>1 DEF ThreadInv
    <3> QED
      BY <1>6, <3>1, <3>2
  <2> HIDE DEF new
  <2>3. pos[t] + 1 \in DOMAIN ops[txn[t]] /\ pos[t] + 1 \in Nat \ {0}
    <3>1. pos[t] \in DOMAIN ops[txn[t]] /\ ops[txn[t]] \in Seq(Operator)
      BY <1>1, <1>2, BoostingAssumption DEF TypeOK
    <3> QED
      BY <1>11, <3>1
  <2>4. TypeOK'
    BY <1>1, <1>2, <1>3, <2>1, <2>2, <2>3 DEF TypeOK
  <2>5. pc'[t] = "lock" /\ m_log'[t] = new
    BY <1>1, <2>1 DEF TypeOK
  <2>6. ThreadInv(t)'
    BY <1>1, <1>4, <2>2, <2>5 DEF ThreadInv, HoldsItsLocks, Unlocking, At
  <2>7. UndoApplies'
    BY <1>5, <1>8, <2>2, <2>5 DEF UndoApplies, Succeeds
  <2> QED
    BY <1>7, <1>9, <2>4, <2>6, <2>7 DEF CoreInv
<1> QED
  BY <1>10, <1>11

LEMMA UndoStep ==
  ASSUME CoreInv, NEW t \in Thread, Undo(t)
  PROVE  CoreInv'
<1> DEFINE s == m_log[t]
           e == Last(s)
<1>1. /\ TypeOK /\ pc[t] = "undo" /\ s # <<>> /\ s \in Seq(Entry)
      /\ keys' = Effect(e, keys) /\ m_log' = [m_log EXCEPT ![t] = Front(s)]
      /\ UNCHANGED <<entry, owner, m_lockSet, pc, txn, pos, ops, outcome>>
  BY DEF CoreInv, Undo, At, TypeOK
<1>2. /\ Front(s) \in Seq(Entry) /\ DOMAIN Front(s) = DOMAIN s \ {Len(s)}
      /\ Len(s) \in DOMAIN s
      /\ \A i \in DOMAIN Front(s) : Front(s)[i] = s[i]
      /\ e = s[Len(s)] /\ e \in Entry
  BY <1>1, LogPop
<1>3. keys' \subseteq Key /\ \A j \in Key \ {e.key} : j \in keys' <=> j \in keys
  BY <1>1, <1>2 DEF TypeOK, Effect, Entry
<1>4. m_log'[t] = Front(s) /\ \A u \in Thread \ {t} : m_log'[u] = m_log[u]
  BY <1>1 DEF TypeOK
<1>5. TypeOK'
  BY <1>1, <1>2, <1>3 DEF TypeOK
<1>6. NoLockLost'
  BY <1>1 DEF CoreInv, NoLockLost
<1>7. \A u \in Thread \ {t} : ThreadInv(u)'
  BY <1>1, <1>4, OtherThread
<1>8. /\ ThreadInv(t) /\ \A j \in m_lockSet[t] : owner[j] = t
      /\ \A u \in Thread : \A i \in DOMAIN m_log[u] : m_log[u][i] \in Entry
  BY <1>1 DEF CoreInv, ThreadInv, HoldsItsLocks, Unlocking, At, TypeOK
<1>9. ThreadInv(t)'
  BY <1>1, <1>2, <1>4, <1>8 DEF ThreadInv, HoldsItsLocks, Unlocking, At
<1>10. \A u \in Thread : \A i \in DOMAIN m_log[u] :
         u # t \/ i # Len(s) => m_log[u][i].key # e.key
  <2> SUFFICES ASSUME NEW u \in Thread, NEW i \in DOMAIN m_log[u],
                      u # t \/ i # Len(s)
               PROVE  m_log[u][i].key # e.key
    OBVIOUS
  <2>1. owner[m_log[u][i].key] = u /\ owner[e.key] = t
    BY <1>2, LoggedLocked DEF LoggedIsLocked
  <2> QED
    BY <1>2, <1>8, <2>1 DEF ThreadInv
<1>11. UndoApplies'
  <2> SUFFICES ASSUME NEW u \in Thread, NEW i \in DOMAIN m_log'[u]
               PROVE  Succeeds(m_log'[u][i], keys')
    BY DEF UndoApplies, Succeeds
  <2>1. /\ i \in DOMAIN m_log[u] /\ m_log'[u][i] = m_log[u][i]
        /\ u # t \/ i # Len(s)
    BY <1>2, <1>4
  <2>2. m_log[u][i] \in Entry /\ m_log[u][i].key # e.key
    BY <1>8, <1>10, <2>1
  <2>3. Succeeds(m_log[u][i], keys)
    BY <2>1 DEF CoreInv, UndoApplies
  <2> QED
    BY <1>3, <2>1, <2>2, <2>3 DEF Succeeds, Entry
<1> QED
  BY <1>5, <1>6, <1>7, <1>9, <1>11 DEF CoreInv

LEMMA UnlockStep ==
  ASSUME CoreInv, NEW t \in Thread, Unlock(t)
  PROVE  CoreInv'
<1>1. PICK k \in m_lockSet[t] : owner[k] = t /\ owner' = [owner EXCEPT ![k] = None]
  BY DEF Unlock
<1>2. /\ TypeOK /\ Unlocking(t) /\ k \in Key
      /\ UNCHANGED <<keys, entry, m_lockSet, m_log, pc, txn, pos, ops, outcome>>
  BY <1>1 DEF CoreInv, Unlock, TypeOK
<1>3. TypeOK'
  BY <1>1, <1>2 DEF TypeOK
<1>4. ThreadInv(t)'
  BY <1>2 DEF CoreInv, ThreadInv, HoldsItsLocks, Unlocking, At
<1>5. \A j \in Key : owner'[j] = IF j = k THEN None ELSE owner[j]
  BY <1>1, <1>2 DEF TypeOK
<1>6. \A u \in Thread \ {t} : ThreadInv(u)'
  BY <1>1, <1>2, <1>5, OtherThread
<1>7. NoLockLost'
  BY <1>2, <1>5 DEF CoreInv, NoLockLost
<1>8. UndoApplies'
  BY <1>2, UndoKept DEF CoreInv
<1> QED
  BY <1>3, <1>4, <1>6, <1>7, <1>8 DEF CoreInv

LEMMA FinishStep ==
  ASSUME CoreInv, NEW t \in Thread, Finish(t)
  PROVE  CoreInv'
<1>1. /\ TypeOK /\ Unlocking(t) /\ \A k \in m_lockSet[t] : owner[k] # t
      /\ m_lockSet' = [m_lockSet EXCEPT ![t] = {}]
      /\ pc' = [pc EXCEPT ![t] = "idle"]
      /\ txn' = [txn EXCEPT ![t] = None] /\ pos' = [pos EXCEPT ![t] = 1]
      /\ UNCHANGED <<keys, entry, owner, m_log, ops, outcome>>
  BY DEF CoreInv, Finish, Idle, GoTo
<1>2. TypeOK'
  BY <1>1 DEF TypeOK
<1>3. m_log[t] = <<>>
  BY <1>1 DEF CoreInv, ThreadInv, HoldsItsLocks, Unlocking, At
<1>4. ThreadInv(t)'
  BY <1>1, <1>3 DEF ThreadInv, HoldsItsLocks, TypeOK
<1>5. \A u \in Thread \ {t} : ThreadInv(u)'
  BY <1>1, OtherThread DEF TypeOK
<1>6. NoLockLost'
  <2> SUFFICES ASSUME NEW k \in Key, owner[k] # None PROVE k \in m_lockSet'[owner[k]]
    BY <1>1 DEF NoLockLost
  <2>1. k \in m_lockSet[owner[k]] /\ owner[k] \in Thread
    BY <1>1 DEF CoreInv, NoLockLost, TypeOK
  <2> QED
    BY <1>1, <2>1 DEF TypeOK
<1>7. UndoApplies'
  BY <1>1, UndoKept DEF CoreInv
<1> QED
  BY <1>2, <1>4, <1>5, <1>6, <1>7 DEF CoreInv

LEMMA TxnStep ==
  ASSUME TypeOK, TxnInv, NEW t \in Thread, Begin(t) \/ Step(t)
  PROVE  TxnInv'
<1>1. CASE Begin(t)
  <2>1. PICK d \in Desc, o \in OpArrays :
          /\ ops[d] = <<>> /\ ops' = [ops EXCEPT ![d] = o]
          /\ txn' = [txn EXCEPT ![t] = d]
          /\ pc' = [pc EXCEPT ![t] = "lock"] /\ outcome' = outcome
    BY <1>1 DEF Begin, GoTo
  <2>2. o # <<>>
    BY BoostingAssumption
  <2> QED
    BY <2>1, <2>2 DEF TxnInv, TypeOK
<1>2. CASE Finish(t)
  BY <1>2, BoostingAssumption DEF Finish, Idle, GoTo, TxnInv, TypeOK
<1>3. CASE UNCHANGED <<ops, txn, outcome>> /\
           \A u \in Thread : pc'[u] \in Executing => pc[u] \in Executing
  BY <1>3 DEF TxnInv
<1>4. ASSUME pc[t] \in Executing, UNCHANGED <<ops, txn>>,
             NEW r \in {"committed", "aborted"},
             outcome' = [outcome EXCEPT ![txn[t]] = r],
             NEW l \in {"undo", "unlock"}, pc' = [pc EXCEPT ![t] = l]
      PROVE  TxnInv'
  <2>1. txn[t] \in Desc /\ ops[txn[t]] # <<>> /\ txn[t] # None
    BY <1>4, BoostingAssumption DEF TypeOK
  <2>2. \A d \in Desc \ {txn[t]} : outcome'[d] = outcome[d]
    BY <1>4 DEF TypeOK
  <2>3. \A u \in Thread : pc'[u] \in Executing =>
          pc[u] \in Executing /\ txn[u] \in Desc \ {txn[t]}
    BY <1>4, <2>1 DEF TypeOK, TxnInv
  <2> QED
    BY <1>4, <2>1, <2>2, <2>3 DEF TxnInv
<1>5. CASE LockHeld(t) \/ LockTimeout(t) \/ OpFails(t)
  BY <1>4, <1>5 DEF LockHeld, LockTimeout, OpFails, Abort, GoTo, At
<1>6. CASE OpSucceeds(t)
  <2>1. CASE pos[t] = Len(ops[txn[t]])
    <3>1. /\ pc[t] \in Executing /\ UNCHANGED <<ops, txn>>
          /\ outcome' = [outcome EXCEPT ![txn[t]] = "committed"]
          /\ pc' = [pc EXCEPT ![t] = "unlock"]
      BY <1>6, <2>1 DEF OpSucceeds, GoTo, At
    <3> QED
      BY <1>4, <3>1
  <2>2. CASE pos[t] # Len(ops[txn[t]])
    <3>1. /\ pc[t] = "apply" /\ UNCHANGED <<ops, txn, outcome>>
          /\ pc' = [pc EXCEPT ![t] = "lock"]
      BY <1>6, <2>2 DEF OpSucceeds, GoTo, At
    <3> QED
      BY <1>3, <3>1 DEF TypeOK
  <2> QED
    BY <2>1, <2>2
<1>7. CASE FindLock(t) \/ Acquire(t)
  BY <1>3, <1>7 DEF FindLock, Acquire, GoTo, At, TypeOK
<1>8. CASE Undo(t) \/ Unlock(t)
  BY <1>3, <1>8 DEF Undo, Unlock
<1> QED
  BY <1>1, <1>2, <1>5, <1>6, <1>7, <1>8 DEF Step, LeaveLock

\* What a running thread has done stays as it is under the steps of others.
LEMMA ProgKept ==
  ASSUME CoreInv, NEW u \in Thread, pc[u] \in Executing, ProgInv(u),
         pc'[u] = pc[u], txn'[u] = txn[u], pos'[u] = pos[u],
         m_log'[u] = m_log[u], m_lockSet'[u] = m_lockSet[u],
         ops'[txn[u]] = ops[txn[u]],
         \A k \in Key : owner[k] = u => (k \in keys' <=> k \in keys)
  PROVE  ProgInv(u)'
<1> DEFINE o == ops[txn[u]]
<1>1. Past(u)' = Past(u) /\ Taken(u)' = Taken(u) /\ Past(u) \subseteq Taken(u)
  BY DEF Past, Taken, At, CoreInv, TypeOK
<1>2. ProgInv(u)' = Progress(o, m_lockSet[u], m_log[u], Taken(u), Past(u), keys')
  BY <1>1 DEF ProgInv
<1>3. Progress(o, m_lockSet[u], m_log[u], Taken(u), Past(u), keys)
  BY DEF ProgInv
<1>4. ASSUME NEW i \in Past(u) PROVE o[i].key \in Key /\ owner[o[i].key] = u
  <2>1. o[i].key \in m_lockSet[u] /\ o[i].key \in Key
    BY <1>1, <1>3 DEF Progress, CoreInv, TypeOK
  <2>2. pc[u] = "try" => o[i].key # Op(u).key
    <3>1. pc[u] = "try" => pos[u] \in Taken(u) /\ i # pos[u]
      BY DEF Taken, Past, CoreInv, TypeOK
    <3> QED
      BY <1>1, <1>3, <3>1 DEF Progress, Op
  <2> QED
    BY <2>1, <2>2 DEF CoreInv, ThreadInv, HoldsItsLocks, Unlocking, At
<1> HIDE DEF o
<1>5. \A i \in Past(u) : o[i].key \in keys' <=> o[i].key \in keys
  BY <1>4
<1>6. Progress(o, m_lockSet[u], m_log[u], Taken(u), Past(u), keys')
  BY ONLY <1>3, <1>5 DEF Progress
<1> QED
  BY <1>2, <1>6

\* A step of t changes no key that another thread has locked.
LEMMA KeysKept ==
  ASSUME CoreInv, NEW t \in Thread, Begin(t) \/ Step(t),
         NEW k \in Key, owner[k] # t
  PROVE  k \in keys' <=> k \in keys
<1>1. CASE OpSucceeds(t)
  <2>1. pc[t] = "apply" /\ keys' = Effect(Op(t), keys)
    BY <1>1 DEF OpSucceeds, At
  <2>2. Op(t) \in Operator
    BY <2>1, CurrentOp DEF CoreInv
  <2>3. owner[Op(t).key] = t
    BY <2>1 DEF CoreInv, ThreadInv, HoldsItsLocks, Unlocking, At
  <2> QED
    BY <2>1, <2>2, <2>3 DEF Effect, Operator, OpTypes
<1>2. CASE Undo(t)
  <2>1. m_log[t] # <<>> /\ m_log[t] \in Seq(Entry) /\ keys' = Effect(Last(m_log[t]), keys)
    BY <1>2 DEF Undo, CoreInv, TypeOK
  <2>2. /\ Len(m_log[t]) \in DOMAIN m_log[t]
        /\ Last(m_log[t]) = m_log[t][Len(m_log[t])] /\ Last(m_log[t]) \in Entry
    BY <2>1, LogPop
  <2>3. owner[Last(m_log[t]).key] = t
    BY <2>2, LoggedLocked DEF LoggedIsLocked
  <2> QED
    BY <2>1, <2>2, <2>3 DEF Effect, Entry
<1>3. CASE keys' = keys
  BY <1>3
<1> QED
  BY <1>1, <1>2, <1>3 DEF Step, Begin, FindLock, LeaveLock, Acquire, LockHeld, LockTimeout, OpFails, Abort,
                          Unlock, Finish

LEMMA OthersProg ==
  ASSUME CoreInv, TxnInv, RunningInv, NEW t \in Thread, Begin(t) \/ Step(t),
         NEW u \in Thread, u # t, pc'[u] \in Executing
  PROVE  ProgInv(u)'
<1>1. /\ pc'[u] = pc[u] /\ txn'[u] = txn[u] /\ pos'[u] = pos[u]
      /\ m_log'[u] = m_log[u] /\ m_lockSet'[u] = m_lockSet[u]
  BY DEF CoreInv, TypeOK, Begin, Step, FindLock, LeaveLock, Acquire, LockHeld, LockTimeout, OpFails, Abort,
         OpSucceeds, Undo, Unlock, Finish, Idle, GoTo
<1>2. ops'[txn[u]] = ops[txn[u]]
  <2>1. CASE Begin(t)
    <3>1. PICK d \in Desc, o \in OpArrays : ops[d] = <<>> /\ ops' = [ops EXCEPT ![d] = o]
      BY <2>1 DEF Begin
    <3>2. txn[u] # d
      BY <3>1 DEF TxnInv
    <3> QED
      BY <1>1, <3>1, <3>2 DEF CoreInv, TypeOK
  <2>2. CASE Step(t)
    BY <2>2 DEF Step, FindLock, LeaveLock, Acquire, LockHeld, LockTimeout, OpFails, Abort,
         OpSucceeds, Undo, Unlock, Finish
  <2> QED
    BY <2>1, <2>2
<1>3. \A k \in Key : owner[k] = u => (k \in keys' <=> k \in keys)
  BY KeysKept
<1> QED
  BY <1>1, <1>2, <1>3, ProgKept DEF RunningInv

LEMMA BeginProg ==
  ASSUME CoreInv, NEW t \in Thread, Begin(t)
  PROVE  ProgInv(t)'
<1>1. /\ m_lockSet[t] = {} /\ pos[t] = 1 /\ m_log[t] = <<>>
      /\ m_lockSet' = m_lockSet /\ pos' = pos /\ m_log' = m_log /\ pc'[t] = "lock"
  BY DEF CoreInv, ThreadInv, Begin, At, GoTo, TypeOK
<1>2. Past(t)' = {} /\ Taken(t)' = {}
  BY <1>1 DEF Past, Taken, At
<1> QED
  BY <1>1, <1>2 DEF ProgInv, Progress

LEMMA FindLockProg ==
  ASSUME CoreInv, RunningInv, NEW t \in Thread, FindLock(t)
  PROVE  ProgInv(t)'
<1> DEFINE o == ops[txn[t]]
           p == pos[t]
<1>1. /\ pc[t] = "lock" /\ p \in Nat \ {0}
      /\ m_lockSet'[t] = m_lockSet[t] \union {o[p].key}
      /\ pc'[t] = IF o[p].key \in m_lockSet[t] THEN "held" ELSE "try"
      /\ UNCHANGED <<keys, m_log, txn, pos, ops>>
  BY DEF FindLock, At, GoTo, CoreInv, TypeOK, Op
<1>2. Past(t)' = Past(t) /\ Taken(t) = Past(t)
  BY <1>1 DEF Past, Taken, At
<1>3. ProgInv(t)
  BY <1>1 DEF RunningInv
<1>4. CASE o[p].key \in m_lockSet[t]
  <2>1. Taken(t)' = Past(t) /\ m_lockSet'[t] = m_lockSet[t]
    BY <1>1, <1>2, <1>4 DEF Taken
  <2> QED
    BY <1>1, <1>2, <1>3, <2>1 DEF ProgInv
<1>5. CASE o[p].key \notin m_lockSet[t]
  <2> DEFINE locks == m_lockSet[t] \union {o[p].key}
             held == Past(t) \union {p}
  <2>1. Taken(t)' = held
    BY <1>1, <1>5 DEF Past, Taken
  <2>2. ProgInv(t)' = Progress(o, locks, m_log[t], held, Past(t), keys)
    BY <1>1, <1>2, <2>1 DEF ProgInv
  <2> HIDE DEF o, p
  <2>3. Progress(o, m_lockSet[t], m_log[t], Past(t), Past(t), keys)
    BY <1>2, <1>3 DEF ProgInv, o
  <2>4. locks = {o[i].key : i \in held}
    BY <2>3 DEF Progress
  <2>5. \A i, j \in held : o[i].key = o[j].key => i = j
    BY <1>1, <1>5, <2>3 DEF Progress
  <2> HIDE DEF locks, held
  <2>6. Progress(o, locks, m_log[t], held, Past(t), keys)
    BY ONLY <2>3, <2>4, <2>5 DEF Progress
  <2> QED
    BY <2>2, <2>6
<1> QED
  BY <1>4, <1>5

LEMMA AcquireProg ==
  ASSUME CoreInv, RunningInv, NEW t \in Thread, Acquire(t)
  PROVE  ProgInv(t)'
<1>1. /\ pc[t] = "try" /\ pc'[t] = "apply"
      /\ UNCHANGED <<keys, m_lockSet, m_log, txn, pos, ops>>
  BY DEF Acquire, At, GoTo, CoreInv, TypeOK
<1> QED
  BY <1>1 DEF RunningInv, ProgInv, Past, Taken

LEMMA ApplyProg ==
  ASSUME CoreInv, RunningInv, NEW t \in Thread, OpSucceeds(t), pc'[t] \in Executing
  PROVE  ProgInv(t)'
<1> DEFINE o == ops[txn[t]]
           p == pos[t]
           k == Op(t).key
           new == m_log[t] \o Logged(Op(t))
<1>1. /\ pc[t] = "apply" /\ p \in Nat \ {0} /\ Succeeds(Op(t), keys)
      /\ keys' = Effect(Op(t), keys) /\ m_log[t] \in Seq(Entry)
      /\ UNCHANGED <<m_lockSet, txn, ops>> /\ Op(t) = o[p]
  BY DEF OpSucceeds, At, CoreInv, TypeOK, Op
<1>2. pc'[t] = "lock" /\ m_log'[t] = new /\ pos'[t] = p + 1
  BY <1>1 DEF OpSucceeds, GoTo, CoreInv, TypeOK
<1>3. Op(t) \in Operator
  BY <1>1, CurrentOp DEF CoreInv
<1>4. ProgInv(t)
  BY <1>1 DEF RunningInv
<1>5. /\ Taken(t) = Past(t) \union {p} /\ p \notin Past(t)
      /\ Past(t)' = Past(t) \union {p} /\ Taken(t)' = Past(t) \union {p}
  BY <1>1, <1>2 DEF Past, Taken, At
<1>6. \A i \in Past(t) : o[i].key # k
  BY <1>1, <1>4, <1>5 DEF ProgInv, Progress
<1>7. \A i \in Past(t) \union {p} : o[i].key \in keys' <=> o[i].type # "DELETE"
  <2>1. \A i \in Past(t) : o[i].key \in keys' <=> o[i].key \in keys
    BY <1>1, <1>3, <1>6 DEF Effect, Operator, OpTypes
  <2>2. k \in keys' <=> Op(t).type # "DELETE"
    BY <1>1, <1>3 DEF Effect, Succeeds, Operator, OpTypes
  <2> QED
    BY <1>1, <1>4, <2>1, <2>2 DEF ProgInv, Progress
<1> DEFINE L == {m_log[t][i].key : i \in DOMAIN m_log[t]}
           N == {new[i].key : i \in DOMAIN new}
<1>8. N = L \union (IF Op(t).type = "FIND" THEN {} ELSE {k})
  <2>1. CASE Op(t).type = "FIND"
    <3>1. new = m_log[t]
      BY <1>1, <1>3, <2>1, LoggedOp, ConcatEmptySeq
    <3> HIDE DEF new
    <3> QED
      BY <2>1, <3>1
  <2>2. CASE Op(t).type # "FIND"
    <3>1. PICK e \in Entry : Logged(Op(t)) = <<e>> /\ e.key = k
      BY <1>3, <2>2, LoggedOp
    <3>2. /\ DOMAIN new = DOMAIN m_log[t] \union {Len(m_log[t]) + 1}
          /\ Len(m_log[t]) + 1 \notin DOMAIN m_log[t]
          /\ \A i \in DOMAIN m_log[t] : new[i] = m_log[t][i]
          /\ new[Len(m_log[t]) + 1] = e
      BY <1>1, <3>1, LogPush
    <3> HIDE DEF new, k
    <3> QED
      BY <2>2, <3>1, <3>2
  <2> QED
    BY <2>1, <2>2
<1> DEFINE held == Past(t) \union {p}
<1>9. ProgInv(t)' = Progress(o, m_lockSet[t], m_log'[t], held, held, keys')
  BY <1>1, <1>5 DEF ProgInv
<1>10. Progress(o, m_lockSet[t], m_log[t], held, Past(t), keys)
  BY <1>4, <1>5 DEF ProgInv
<1>11. {m_log'[t][i].key : i \in DOMAIN m_log'[t]} = N
  BY <1>2
<1> HIDE DEF o, N, new
<1>12. L = {o[i].key : i \in {j \in Past(t) : o[j].type # "FIND"}}
  BY ONLY <1>10 DEF Progress
<1>13. N = {o[i].key : i \in {j \in held : o[j].type # "FIND"}}
  <2> HIDE DEF L
  <2> QED
    BY <1>1, <1>8, <1>12
<1>14. \A i \in held : o[i].key \in keys' <=> o[i].type # "DELETE"
  BY <1>7
<1> HIDE DEF held
<1>15. Progress(o, m_lockSet[t], m_log'[t], held, held, keys')
  BY ONLY <1>10, <1>11, <1>13, <1>14 DEF Progress
<1> QED
  BY <1>9, <1>15

LEMMA RunningStep ==
  ASSUME CoreInv, TxnInv, RunningInv, NEW t \in Thread, Begin(t) \/ Step(t)
  PROVE  RunningInv'
<1>1. ASSUME pc'[t] \in Executing PROVE ProgInv(t)'
  <2>1. Begin(t) \/ FindLock(t) \/ Acquire(t) \/ OpSucceeds(t)
    BY <1>1 DEF Step, LeaveLock, LockHeld, LockTimeout, OpFails, Abort, Undo, Unlock,
                Finish, Idle, GoTo, CoreInv, TypeOK, At, Unlocking
  <2> QED
    BY <1>1, <2>1, BeginProg, FindLockProg, AcquireProg, ApplyProg
<1>2. ASSUME NEW u \in Thread, pc'[u] \in Executing PROVE ProgInv(u)'
  BY <1>1, <1>2, OthersProg
<1> QED
  BY <1>2 DEF RunningInv

\* A step of t leaves the calls of Lock of the other threads alone.
LEMMA OthersInLock ==
  ASSUME CoreInv, TxnInv, NEW t \in Thread, Begin(t) \/ Step(t),
         NEW u \in Thread, u # t
  PROVE  /\ InLock(u)' <=> InLock(u)
         /\ InLock(u) => Op(u)' = Op(u)
<1>1. pc'[u] = pc[u] /\ txn'[u] = txn[u] /\ pos'[u] = pos[u]
  BY DEF CoreInv, TypeOK, Begin, Step, FindLock, LeaveLock, Acquire, LockHeld,
         LockTimeout, OpFails, Abort, OpSucceeds, Undo, Unlock, Finish, Idle, GoTo
<1>2. InLock(u) => ops'[txn[u]] = ops[txn[u]]
  <2>1. CASE Begin(t)
    <3>1. PICK d \in Desc, o \in OpArrays : ops[d] = <<>> /\ ops' = [ops EXCEPT ![d] = o]
      BY <2>1 DEF Begin
    <3>2. txn[u] # d /\ (InLock(u) => txn[u] \in Desc)
      BY <3>1 DEF TxnInv, InLock, CoreInv, TypeOK
    <3> QED
      BY <3>1, <3>2 DEF CoreInv, TypeOK
  <2>2. CASE Step(t)
    BY <2>2 DEF Step, FindLock, LeaveLock, Acquire, LockHeld, LockTimeout, OpFails,
         Abort, OpSucceeds, Undo, Unlock, Finish
  <2> QED
    BY <2>1, <2>2
<1> QED
  BY <1>1, <1>2 DEF InLock, Op

LEMMA EntryStep ==
  ASSUME CoreInv, TxnInv, EntryInv, NEW t \in Thread, Begin(t) \/ Step(t)
  PROVE  EntryInv'
<1> SUFFICES ASSUME NEW u \in Thread, NEW k \in Key
             PROVE  (entry[k] = u <=> InLock(u) /\ k = Op(u).key)'
  BY DEF EntryInv
<1>1. /\ TypeOK
      /\ entry[k] = u <=> InLock(u) /\ k = Op(u).key
  BY DEF CoreInv, EntryInv
<1>2. u # t => (InLock(u)' <=> InLock(u)) /\ (InLock(u) => Op(u)' = Op(u))
  BY OthersInLock
<1>3. CASE FindLock(t)
  <2>1. /\ entry[Op(t).key] = None /\ entry' = [entry EXCEPT ![Op(t).key] = t]
        /\ InLock(t)' /\ Op(t)' = Op(t)
    BY <1>1, <1>3 DEF FindLock, GoTo, InLock, Op, TypeOK
  <2> QED
    BY <1>1, <1>2, <2>1, BoostingAssumption DEF TypeOK
<1>4. CASE LeaveLock(t)
  <2>1. /\ InLock(t) /\ ~InLock(t)' /\ entry' = [entry EXCEPT ![Op(t).key] = None]
    BY <1>1, <1>4 DEF LeaveLock, Acquire, LockHeld, LockTimeout, Abort, LeaveEntry, At,
                      GoTo, InLock, TypeOK
  <2>2. Op(t).key \in Key /\ entry[Op(t).key] = t
    <3>1. Op(t).key \in Key
      BY <1>1, <2>1, CurrentOp DEF InLock, Operator
    <3> QED
      BY <2>1, <3>1 DEF EntryInv
  <2> QED
    BY <1>1, <1>2, <2>1, <2>2, BoostingAssumption DEF TypeOK
<1>5. CASE entry' = entry /\ ~InLock(t) /\ ~InLock(t)'
  BY <1>1, <1>2, <1>5
<1>6. FindLock(t) \/ LeaveLock(t) \/ (entry' = entry /\ ~InLock(t) /\ ~InLock(t)')
  BY <1>1 DEF Begin, Step, OpFails, Abort, OpSucceeds, Undo, Unlock, Finish, Idle, GoTo,
              At, Unlocking, InLock, TypeOK
<1> QED
  BY <1>3, <1>4, <1>5, <1>6

LEMMA Inductive == IInv /\ [Next]_vars => IInv'
<1> SUFFICES ASSUME IInv, [Next]_vars PROVE IInv'
  OBVIOUS
<1>1. CASE UNCHANGED vars
  <2>1. CoreInv' /\ TxnInv'
    BY <1>1 DEF vars, IInv, CoreInv, TxnInv, TypeOK, NoLockLost, ThreadInv,
                UndoApplies, Succeeds, HoldsItsLocks, Unlocking, At, Op
  <2>2. RunningInv' /\ EntryInv'
    BY <1>1 DEF vars, IInv, RunningInv, ProgInv, Past, Taken, At, EntryInv, InLock, Op
  <2> QED
    BY <2>1, <2>2 DEF IInv
<1>2. ASSUME NEW t \in Thread, Begin(t) \/ Step(t) PROVE IInv'
  <2>1. CoreInv /\ TypeOK /\ TxnInv /\ RunningInv /\ EntryInv
    BY DEF IInv, CoreInv
  <2>2. LockHeld(t) \/ OpFails(t) => CoreInv'
    BY <2>1, AbortStep, EntryLeft DEF LockHeld, OpFails, At, TypeOK
  <2>3. CoreInv'
    BY <1>2, <2>1, <2>2, BeginStep, FindLockStep, AcquireStep, TimeoutStep, ApplyStep,
       UndoStep, UnlockStep, FinishStep DEF Step, LeaveLock
  <2> QED
    BY <1>2, <2>1, <2>3, TxnStep, RunningStep, EntryStep DEF IInv
<1> QED
  BY <1>1, <1>2 DEF Next

LEMMA InitIInv == Init => IInv
  BY BoostingAssumption
     DEF Init, IInv, CoreInv, TxnInv, RunningInv, TypeOK, NoLockLost, ThreadInv,
         UndoApplies, EntryInv, InLock, HoldsItsLocks, Unlocking, At

-----------------------------------------------------------------------------
(* The keys without the operations of undecided transactions.              *)

Touched(k) == \E u \in Thread : \E i \in DOMAIN m_log[u] : m_log[u][i].key = k

LEMMA RestoredKey ==
  CoreInv => \A k \in Key : k \in Restored <=> (k \in keys <=> ~Touched(k))
<1> SUFFICES ASSUME CoreInv, NEW k \in Key
             PROVE  k \in Restored <=> (k \in keys <=> ~Touched(k))
  OBVIOUS
<1>1. \A u \in Thread : \A i \in DOMAIN m_log[u] :
        /\ m_log[u][i] \in Entry
        /\ m_log[u][i].key \in keys <=> m_log[u][i].type # "INSERT"
  BY DEF CoreInv, TypeOK, UndoApplies, Succeeds
<1>2. \A e \in Entry : e.key = k /\ e.type = "INSERT" <=> e = [type |-> "INSERT", key |-> k]
  BY DEF Entry
<1>3. CASE Touched(k)
  BY <1>1, <1>2, <1>3 DEF Restored, Touched
<1>4. CASE ~Touched(k)
  BY <1>1, <1>2, <1>4 DEF Restored, Touched
<1> QED
  BY <1>3, <1>4

\* An operation and its log entry, or an undo and its log entry, cancel.
LEMMA FlipBoth ==
  ASSUME CoreInv, CoreInv', NEW S \in SUBSET Key,
         \A k \in Key \ S : /\ k \in keys' <=> k \in keys
                            /\ Touched(k)' <=> Touched(k),
         \A k \in S : /\ k \in keys' <=> k \notin keys
                      /\ Touched(k)' <=> ~Touched(k)
  PROVE  Restored' = Restored
<1>1. \A k \in Key : k \in Restored <=> (k \in keys <=> ~Touched(k))
  BY RestoredKey
<1>2. (\A k \in Key : k \in Restored <=> (k \in keys <=> ~Touched(k)))'
  BY RestoredKey, PTL
<1>3. Restored \subseteq Key /\ Restored' \subseteq Key
  BY DEF Restored
<1>4. ASSUME NEW k \in Key PROVE k \in Restored' <=> k \in Restored
  BY <1>1, <1>2
<1> QED
  BY <1>3, <1>4

\* An operation that is not the last one of its transaction does not show.
LEMMA ApplyHidden ==
  ASSUME CoreInv, CoreInv', NEW t \in Thread, OpSucceeds(t),
         pos[t] # Len(ops[txn[t]])
  PROVE  Restored' = Restored
<1> DEFINE k == Op(t).key
           new == m_log[t] \o Logged(Op(t))
<1>1. /\ TypeOK /\ pc[t] = "apply" /\ Succeeds(Op(t), keys)
      /\ keys' = Effect(Op(t), keys) /\ m_log[t] \in Seq(Entry)
      /\ m_log' = [m_log EXCEPT ![t] = new]
  BY DEF CoreInv, OpSucceeds, At, TypeOK
<1>2. Op(t) \in Operator /\ k \in Key
  BY <1>1, CurrentOp DEF Operator
<1>3. m_log'[t] = new /\ \A u \in Thread \ {t} : m_log'[u] = m_log[u]
  BY <1>1 DEF TypeOK
<1>4. ~Touched(k)
  BY <1>1, CurrentKey DEF Touched
<1>5. CASE Op(t).type = "FIND"
  <2>1. keys' = keys /\ new = m_log[t]
    BY <1>1, <1>2, <1>5, LoggedOp, ConcatEmptySeq DEF Effect
  <2>2. m_log' = m_log
    BY <1>1, <2>1 DEF TypeOK
  <2> QED
    BY <2>1, <2>2 DEF Restored
<1>6. CASE Op(t).type # "FIND"
  <2>1. PICK e \in Entry : Logged(Op(t)) = <<e>> /\ e.key = k
    BY <1>2, <1>6, LoggedOp
  <2>2. /\ DOMAIN new = DOMAIN m_log[t] \union {Len(m_log[t]) + 1}
        /\ \A i \in DOMAIN m_log[t] : new[i] = m_log[t][i]
        /\ new[Len(m_log[t]) + 1] = e
        /\ Len(m_log[t]) + 1 \notin DOMAIN m_log[t]
    BY <1>1, <2>1, LogPush
  <2>3. PICK c : c = k
    OBVIOUS
  <2> HIDE DEF new, k
  <2>4. Touched(c)' /\ ~Touched(c)
    BY <1>3, <1>4, <2>1, <2>2, <2>3 DEF Touched
  <2>5. ASSUME NEW j \in Key \ {c} PROVE Touched(j)' <=> Touched(j)
    <3>1. ASSUME NEW u \in Thread, NEW i \in DOMAIN m_log[u], m_log[u][i].key = j
          PROVE  i \in DOMAIN m_log'[u] /\ m_log'[u][i] = m_log[u][i]
      BY <1>3, <2>2, <3>1
    <3>2. ASSUME NEW u \in Thread, NEW i \in DOMAIN m_log'[u], m_log'[u][i].key = j
          PROVE  i \in DOMAIN m_log[u] /\ m_log'[u][i] = m_log[u][i]
      BY <1>3, <2>1, <2>2, <2>3, <2>5, <3>2
    <3> QED
      BY <3>1, <3>2 DEF Touched
  <2>6. /\ c \in keys' <=> c \notin keys
        /\ \A j \in Key \ {c} : j \in keys' <=> j \in keys
    BY <1>1, <1>2, <1>6, <2>3 DEF Effect, Succeeds, Operator, OpTypes, k
  <2>7. c \in Key
    BY <1>2, <2>3
  <2> QED
    BY <2>4, <2>5, <2>6, <2>7, FlipBoth
<1> QED
  BY <1>5, <1>6

\* An undo does not show.
LEMMA UndoHidden ==
  ASSUME CoreInv, CoreInv', NEW t \in Thread, Undo(t)
  PROVE  Restored' = Restored
<1> DEFINE s == m_log[t]
           e == Last(s)
<1>1. /\ TypeOK /\ s # <<>> /\ s \in Seq(Entry)
      /\ keys' = Effect(e, keys) /\ m_log' = [m_log EXCEPT ![t] = Front(s)]
  BY DEF CoreInv, Undo, TypeOK
<1>2. /\ DOMAIN Front(s) = DOMAIN s \ {Len(s)} /\ Len(s) \in DOMAIN s
      /\ \A i \in DOMAIN Front(s) : Front(s)[i] = s[i]
      /\ e = s[Len(s)] /\ e \in Entry
  BY <1>1, LogPop
<1>3. m_log'[t] = Front(s) /\ \A u \in Thread \ {t} : m_log'[u] = m_log[u]
  BY <1>1 DEF TypeOK
<1>4. PICK c \in Key : c = e.key
  BY <1>2 DEF Entry
<1>5. ASSUME NEW u \in Thread, NEW i \in DOMAIN m_log[u], m_log[u][i].key = c
      PROVE  u = t /\ i = Len(s)
  <2>1. owner[m_log[u][i].key] = u /\ owner[e.key] = t
    BY <1>2, LoggedLocked DEF LoggedIsLocked
  <2> QED
    BY <1>2, <1>4, <1>5, <2>1 DEF CoreInv, ThreadInv
<1>6. Touched(c)
  BY <1>2, <1>4 DEF Touched
<1>7. ASSUME NEW u \in Thread, NEW i \in DOMAIN m_log'[u]
      PROVE  /\ i \in DOMAIN m_log[u] /\ m_log'[u][i] = m_log[u][i]
             /\ u # t \/ i # Len(s)
  BY <1>2, <1>3
<1>8. ~Touched(c)'
  BY <1>5, <1>7 DEF Touched
<1>9. ASSUME NEW j \in Key \ {c} PROVE Touched(j)' <=> Touched(j)
  <2>1. ASSUME NEW u \in Thread, NEW i \in DOMAIN m_log[u], m_log[u][i].key = j
        PROVE  i \in DOMAIN m_log'[u] /\ m_log'[u][i] = m_log[u][i]
    BY <1>2, <1>3, <1>4, <1>9, <2>1
  <2> QED
    BY <1>7, <2>1 DEF Touched
<1>10. /\ c \in keys' <=> c \notin keys
       /\ \A j \in Key \ {c} : j \in keys' <=> j \in keys
  <2>1. Succeeds(e, keys)
    BY <1>2 DEF CoreInv, UndoApplies
  <2> QED
    BY <1>1, <1>2, <1>4, <2>1 DEF Effect, Succeeds, Entry
<1> QED
  BY <1>6, <1>8, <1>9, <1>10, FlipBoth

-----------------------------------------------------------------------------
(* The theorems.                                                           *)

\* The inductive invariant holds in every state, for any number of threads,
\* transactions and keys.
THEOREM BoostingInvariance == Spec => []IInv
  BY InitIInv, Inductive, PTL DEF Spec

\* Every variable keeps its type; in particular Insert, Delete and Find are
\* only called with an operation of the running transaction.
THEOREM BoostingTypeCorrect == Spec => []TypeOK
<1>1. IInv => TypeOK
  BY DEF IInv, CoreInv
<1> QED
  BY <1>1, BoostingInvariance, PTL

\* Two-phase locking: whoever may have to undo an operation holds its lock.
THEOREM TwoPhaseLocking == Spec => []LoggedIsLocked
<1>1. IInv => LoggedIsLocked
  BY LoggedLocked DEF IInv
<1> QED
  BY <1>1, BoostingInvariance, PTL

\* OnAbort finds every key as the operation it undoes has left it.
THEOREM UndoWorks == Spec => []UndoApplies
<1>1. IInv => UndoApplies
  BY DEF IInv, CoreInv
<1> QED
  BY <1>1, BoostingInvariance, PTL

\* m_lockSet knows the locks of its thread: Unlock, which walks through it, leaves
\* none behind, and finds none that a timeout (lockkey.h:58-61) should have erased.
THEOREM UnlockIsComplete == Spec => []LockSetExact
<1>1. IInv => LockSetExact
  BY DEF IInv, CoreInv, ThreadInv, LockSetExact, NoLockLeft
<1> QED
  BY <1>1, BoostingInvariance, PTL

\* No step but the one that commits a transaction changes the set that
\* committed transactions have built.
THEOREM Invisible == Spec => OnlyCommitsShow
<1> DEFINE Quiet == \A d \in Desc : outcome'[d] = "committed"
                                     => outcome[d] = "committed"
<1>1. ASSUME IInv, IInv', NEW t \in Thread, Begin(t) \/ Step(t), Quiet
      PROVE  Restored' = Restored
  <2>1. CoreInv /\ CoreInv' /\ TypeOK /\ TxnInv
    BY <1>1 DEF IInv, CoreInv
  <2>2. CASE OpSucceeds(t)
    <3>1. CASE pos[t] # Len(ops[txn[t]])
      BY <2>1, <2>2, <3>1, ApplyHidden
    <3>2. CASE pos[t] = Len(ops[txn[t]])
      <4>1. txn[t] \in Desc /\ outcome[txn[t]] = "open"
        BY <2>1, <2>2 DEF TypeOK, TxnInv, OpSucceeds, At
      <4>2. outcome'[txn[t]] = "committed"
        BY <2>1, <2>2, <3>2, <4>1 DEF OpSucceeds, TypeOK
      <4> QED
        BY <1>1, <4>1, <4>2
    <3> QED
      BY <3>1, <3>2
  <2>3. CASE Undo(t)
    BY <2>1, <2>3, UndoHidden
  <2>4. CASE UNCHANGED <<keys, m_log>>
    BY <2>4 DEF Restored
  <2> QED
    BY <1>1, <2>2, <2>3, <2>4
    DEF Step, Begin, FindLock, LeaveLock, Acquire, LockHeld, LockTimeout, OpFails, Abort, Unlock,
        Finish
<1>2. ASSUME IInv, IInv', [Next]_vars
      PROVE  [Quiet => Restored' = Restored]_vars
  <2>1. CASE UNCHANGED vars
    BY <2>1
  <2>2. CASE Next
    BY <1>1, <1>2, <2>2 DEF Next
  <2> QED
    BY <1>2, <2>1, <2>2
<1> QED
  BY <1>2, BoostingInvariance, PTL DEF Spec, OnlyCommitsShow

-----------------------------------------------------------------------------
(* Runs of operations on different keys.                                   *)

Different(o) == \A i, j \in 1..Len(o) : o[i].key = o[j].key => i = j

\* The keys of the operations of one type among the first i.
KeysOf(o, i, type) == {o[j].key : j \in {h \in 1..i : o[h].type = type}}

\* S after the first i operations of o, if they are on different keys.
Ran(o, S, i) == (S \ KeysOf(o, i, "DELETE")) \union KeysOf(o, i, "INSERT")

\* What the recursive definition in TxSet says of a function r.
Runs(r, o, S) ==
  r = [i \in 0..Len(o) |-> IF i = 0 THEN S ELSE Abstract!Apply(o[i], r[i-1])]

LEMMA RanStep ==
  ASSUME NEW o \in Seq(Operator), Different(o), NEW S, NEW i \in 1..Len(o)
  PROVE  Ran(o, S, i) = Abstract!Apply(o[i], Ran(o, S, i - 1))
<1>1. /\ o[i] \in Operator /\ i \in Nat /\ 1..i = (1..(i-1)) \union {i}
      /\ i \notin 1..(i-1) /\ 1..(i-1) \subseteq 1..Len(o)
  OBVIOUS
<1>2. ASSUME NEW type
      PROVE  KeysOf(o, i, type) = KeysOf(o, i - 1, type)
                                    \union (IF o[i].type = type THEN {o[i].key} ELSE {})
  BY <1>1 DEF KeysOf
<1>3. ASSUME NEW type PROVE o[i].key \notin KeysOf(o, i - 1, type)
  BY <1>1 DEF KeysOf, Different
<1>4. CASE o[i].type = "INSERT"
  BY <1>2, <1>3, <1>4 DEF Ran, Abstract!Apply
<1>5. CASE o[i].type = "DELETE"
  BY <1>2, <1>3, <1>5 DEF Ran, Abstract!Apply
<1>6. CASE o[i].type = "FIND"
  BY <1>2, <1>6 DEF Ran, Abstract!Apply
<1> QED
  BY <1>1, <1>4, <1>5, <1>6 DEF Operator, OpTypes

LEMMA RunIsRan ==
  ASSUME NEW o \in Seq(Operator), Different(o), NEW S, NEW n \in 0..Len(o)
  PROVE  Abstract!Run(o, S)[n] = Ran(o, S, n)
<1> DEFINE W == [i \in 0..Len(o) |-> Ran(o, S, i)]
           r == Abstract!Run(o, S)
<1>1. Runs(W, o, S)
  <2>1. ASSUME NEW i \in 0..Len(o)
        PROVE  W[i] = IF i = 0 THEN S ELSE Abstract!Apply(o[i], W[i-1])
    <3>1. CASE i = 0
      BY <3>1 DEF Ran, KeysOf
    <3>2. CASE i # 0
      <4>1. i \in 1..Len(o) /\ i - 1 \in 0..Len(o)
        BY <3>2
      <4> QED
        BY <3>2, <4>1, RanStep
    <3> QED
      BY <3>1, <3>2
  <2> QED
    BY <2>1 DEF Runs
<1> HIDE DEF W
<1>2. Runs(CHOOSE f : Runs(f, o, S), o, S)
  BY <1>1
<1>3. r = CHOOSE f : Runs(f, o, S)
  BY DEF Abstract!Run, Runs
<1>4. Runs(r, o, S)
  BY <1>2, <1>3
<1> HIDE DEF r
<1> DEFINE T == {i \in 0..Len(o) : r[i] # W[i]}
<1>5. SUFFICES ASSUME T # {} PROVE FALSE
  <2>1. r[n] = W[n] => r[n] = Ran(o, S, n)
    BY DEF W
  <2> QED
    BY <1>5, <2>1 DEF r
<1>6. T \subseteq Nat /\ T \subseteq 0..Len(o)
  OBVIOUS
<1>7. \A i \in 0..Len(o) : i \in T <=> r[i] # W[i]
  OBVIOUS
<1> HIDE DEF T
<1>8. PICK i \in T : \A j \in T : i <= j
  BY <1>5, <1>6, LeastNumber
<1>9. i \in 0..Len(o) /\ r[i] # W[i]
  BY <1>6, <1>7
<1>10. i # 0
  BY <1>1, <1>4, <1>9 DEF Runs
<1>11. i - 1 \in 0..Len(o) /\ i - 1 \notin T
  BY <1>8, <1>9, <1>10
<1>12. r[i-1] = W[i-1]
  BY <1>7, <1>11
<1> QED
  BY <1>1, <1>4, <1>9, <1>10, <1>12 DEF Runs

\* A run is legal if each operation may run on the set from which it starts.
LEMMA RunIsLegal ==
  ASSUME NEW o \in Seq(Operator), Different(o), NEW S,
         \A i \in 1..Len(o) : Abstract!Allowed(o[i], S)
  PROVE  Abstract!Legal(o, S)
<1> SUFFICES ASSUME NEW i \in 1..Len(o)
             PROVE  Abstract!Allowed(o[i], Abstract!Run(o, S)[i-1])
  BY DEF Abstract!Legal
<1>1. i - 1 \in 0..Len(o)
  OBVIOUS
<1>2. Abstract!Run(o, S)[i-1] = Ran(o, S, i - 1)
  BY <1>1, RunIsRan
<1>3. ASSUME NEW type PROVE o[i].key \notin KeysOf(o, i - 1, type)
  BY DEF KeysOf, Different
<1>4. o[i].key \in Ran(o, S, i - 1) <=> o[i].key \in S
  BY <1>3 DEF Ran
<1> QED
  BY <1>2, <1>4 DEF Abstract!Allowed

LEMMA RestoredAfter ==
  ASSUME CoreInv'
  PROVE  \A k \in Key : k \in Restored' <=> (k \in keys' <=> ~Touched(k)')
<1>1. (\A k \in Key : k \in Restored <=> (k \in keys <=> ~Touched(k)))'
  BY RestoredKey, PTL
<1> QED
  BY <1>1

\* The step that commits runs the whole transaction.
LEMMA CommitRuns ==
  ASSUME CoreInv, CoreInv', TxnInv, RunningInv, NEW t \in Thread, OpSucceeds(t),
         pos[t] = Len(ops[txn[t]])
  PROVE  Abstract!Commit(txn[t])
<1>1. /\ pc[t] = "apply" /\ TypeOK /\ Succeeds(Op(t), keys) /\ keys' = Effect(Op(t), keys)
      /\ m_log' = [m_log EXCEPT ![t] = <<>>]
      /\ outcome' = [outcome EXCEPT ![txn[t]] = "committed"]
      /\ ops' = ops
  BY DEF OpSucceeds, At, CoreInv
<1>2. PICK o \in Seq(Operator) : o = ops[txn[t]] /\ o # <<>> /\ txn[t] \in Desc
  BY <1>1, BoostingAssumption DEF TypeOK
<1>3. PICK p \in 1..Len(o) : p = Len(o) /\ p = pos[t] /\ Op(t) = o[p]
  BY <1>1, <1>2 DEF Op
<1>4. /\ Progress(o, m_lockSet[t], m_log[t], 1..p, 1..(p-1), keys)
      /\ \A k \in m_lockSet[t] : k \in Key /\ owner[k] = t
  BY <1>1, <1>2, <1>3
     DEF RunningInv, ProgInv, Taken, Past, At, CoreInv, ThreadInv, HoldsItsLocks, Unlocking, TypeOK
<1>5. \A i \in 1..Len(o) : o[i] \in Operator /\ o[i].key \in Key /\ owner[o[i].key] = t
  <2> SUFFICES ASSUME NEW i \in 1..Len(o)
               PROVE  o[i] \in Operator /\ o[i].key \in Key /\ owner[o[i].key] = t
    OBVIOUS
  <2>1. o[i].key \in m_lockSet[t]
    BY <1>3, <1>4 DEF Progress
  <2> QED
    BY <1>4, <2>1
<1>6. Different(o)
  BY <1>3, <1>4 DEF Different, Progress
<1>7. ASSUME NEW u \in Thread, NEW j \in DOMAIN m_log[u], NEW i \in 1..Len(o),
             m_log[u][j].key = o[i].key
      PROVE  u = t
  BY <1>5, <1>7, LoggedLocked DEF LoggedIsLocked
<1>8. ASSUME NEW i \in 1..Len(o)
      PROVE  Touched(o[i].key) <=> i # p /\ o[i].type # "FIND"
  <2>1. Touched(o[i].key) <=> o[i].key \in {m_log[t][j].key : j \in DOMAIN m_log[t]}
    BY <1>7 DEF Touched
  <2>2. Touched(o[i].key) <=> \E j \in 1..(p-1) : o[j].type # "FIND" /\ o[j].key = o[i].key
    BY <1>4, <2>1 DEF Progress
  <2>3. 1..(p-1) = (1..Len(o)) \ {p}
    BY <1>3
  <2> QED
    BY <1>6, <2>2, <2>3 DEF Different
<1>9. \A k \in Key : k \in Restored <=> (k \in keys <=> ~Touched(k))
  BY RestoredKey
<1>10. ASSUME NEW i \in 1..Len(o)
       PROVE  o[i].key \in Restored <=> o[i].type # "INSERT"
  <2>1. o[i].type \in {"FIND", "INSERT", "DELETE"} /\ o[i].key \in Key
    BY <1>5 DEF Operator, OpTypes
  <2>2. CASE i = p
    BY <1>1, <1>3, <1>8, <1>9, <2>1, <2>2 DEF Succeeds
  <2>3. CASE i # p
    <3>1. i \in 1..(p-1)
      BY <1>3, <2>3
    <3>2. o[i].key \in keys <=> o[i].type # "DELETE"
      BY <1>4, <3>1 DEF Progress
    <3> QED
      BY <1>8, <1>9, <2>1, <2>3, <3>2
  <2> QED
    BY <2>2, <2>3
<1>11. Abstract!Legal(o, Restored)
  BY <1>6, <1>10, RunIsLegal DEF Abstract!Allowed
<1>12. \A k \in Key : k \in Restored' <=> (k \in keys' <=> ~Touched(k)')
  BY RestoredAfter
<1>13. m_log'[t] = <<>> /\ \A u \in Thread \ {t} : m_log'[u] = m_log[u]
  BY <1>1 DEF TypeOK
<1>14. ASSUME NEW k \in Key
       PROVE  Touched(k)' <=> \E u \in Thread \ {t} : \E j \in DOMAIN m_log[u] : m_log[u][j].key = k
  BY <1>13 DEF Touched
<1>15. ASSUME NEW i \in 1..Len(o)
       PROVE  o[i].key \in Restored' <=> o[i].type # "DELETE"
  <2>1. ~Touched(o[i].key)'
    BY <1>5, <1>7, <1>14
  <2>2. o[i].key \in keys' <=> o[i].type # "DELETE"
    <3>1. CASE i = p
      BY <1>1, <1>3, <1>5, <3>1 DEF Effect, Succeeds, Operator, OpTypes
    <3>2. CASE i # p
      <4>1. i \in 1..(p-1) /\ o[i].key # o[p].key
        BY <1>3, <1>6, <3>2 DEF Different
      <4>2. o[i].key \in keys <=> o[i].type # "DELETE"
        BY <1>4, <4>1 DEF Progress
      <4> QED
        BY <1>1, <1>3, <1>5, <4>1, <4>2 DEF Effect, Operator, OpTypes
    <3> QED
      BY <3>1, <3>2
  <2> QED
    BY <1>5, <1>12, <2>1, <2>2
<1>16. ASSUME NEW k \in Key, \A i \in 1..Len(o) : o[i].key # k
       PROVE  k \in Restored' <=> k \in Restored
  <2>1. Touched(k)' <=> Touched(k)
    <3>1. ASSUME NEW j \in DOMAIN m_log[t], m_log[t][j].key = k PROVE FALSE
      <4>1. k \in {o[i].key : i \in {h \in 1..(p-1) : o[h].type # "FIND"}}
        BY <1>4, <3>1 DEF Progress
      <4> QED
        BY <1>3, <1>16, <4>1
    <3> QED
      BY <1>14, <3>1 DEF Touched
  <2>2. k \in keys' <=> k \in keys
    BY <1>1, <1>3, <1>5, <1>16 DEF Effect, Operator, OpTypes
  <2> QED
    BY <1>9, <1>12, <2>1, <2>2
<1>17. Restored' = Ran(o, Restored, Len(o))
  <2>1. Restored \subseteq Key /\ Restored' \subseteq Key
    BY DEF Restored
  <2>2. ASSUME NEW k \in Key
        PROVE  k \in Restored' <=> k \in Ran(o, Restored, Len(o))
    <3>1. CASE \A i \in 1..Len(o) : o[i].key # k
      <4>1. k \notin KeysOf(o, Len(o), "DELETE") /\ k \notin KeysOf(o, Len(o), "INSERT")
        BY <3>1 DEF KeysOf
      <4> QED
        BY <1>16, <3>1, <4>1 DEF Ran
    <3>2. ASSUME NEW i \in 1..Len(o), o[i].key = k
          PROVE  k \in Restored' <=> k \in Ran(o, Restored, Len(o))
      <4>1. ASSUME NEW type PROVE k \in KeysOf(o, Len(o), type) <=> o[i].type = type
        BY <1>6, <3>2 DEF KeysOf, Different
      <4>2. o[i].type \in {"FIND", "INSERT", "DELETE"}
        BY <1>5 DEF Operator, OpTypes
      <4> QED
        BY <1>10, <1>15, <3>2, <4>1, <4>2 DEF Ran
    <3> QED
      BY <3>1, <3>2
  <2>3. Ran(o, Restored, Len(o)) \subseteq Key
    BY <1>5, <2>1 DEF Ran, KeysOf
  <2> QED
    BY <2>1, <2>2, <2>3
<1>18. Restored' = Abstract!After(o, Restored)
  <2>1. Len(o) \in 0..Len(o)
    OBVIOUS
  <2> QED
    BY <1>6, <1>17, <2>1, RunIsRan DEF Abstract!After
<1>19. outcome[txn[t]] = "open"
  BY <1>1 DEF TxnInv
<1> QED
  BY <1>1, <1>2, <1>11, <1>18, <1>19 DEF Abstract!Commit

LEMMA AbsStep ==
  ASSUME IInv, IInv', NEW t \in Thread, Begin(t) \/ Step(t)
  PROVE  Abstract!Next \/ UNCHANGED Abstract!vars
<1>1. CoreInv /\ CoreInv' /\ TypeOK /\ TxnInv /\ RunningInv
  BY DEF IInv, CoreInv
<1>2. CASE OpSucceeds(t)
  <2>1. CASE pos[t] # Len(ops[txn[t]])
    <3>1. Restored' = Restored /\ ops' = ops /\ outcome' = outcome
      BY <1>1, <1>2, <2>1, ApplyHidden DEF OpSucceeds
    <3> QED
      BY <3>1 DEF Abstract!vars
  <2>2. CASE pos[t] = Len(ops[txn[t]])
    <3>1. Abstract!Commit(txn[t]) /\ txn[t] \in Desc
      BY <1>1, <1>2, <2>2, CommitRuns DEF OpSucceeds, At, TypeOK
    <3> QED
      BY <3>1 DEF Abstract!Next
  <2> QED
    BY <2>1, <2>2
<1>3. CASE Undo(t)
  <2>1. Restored' = Restored /\ ops' = ops /\ outcome' = outcome
    BY <1>1, <1>3, UndoHidden DEF Undo
  <2> QED
    BY <2>1 DEF Abstract!vars
<1>4. CASE Begin(t)
  <2>1. PICK d \in Desc, o \in OpArrays :
          ops[d] = <<>> /\ ops' = [ops EXCEPT ![d] = o] /\ outcome' = outcome
    BY <1>4 DEF Begin
  <2>2. Restored' = Restored
    BY <1>4 DEF Begin, Restored
  <2>3. Abstract!Begin(d)
    BY <2>1, <2>2 DEF Abstract!Begin
  <2> QED
    BY <2>3 DEF Abstract!Next
<1>5. CASE LockHeld(t) \/ LockTimeout(t) \/ OpFails(t)
  <2>1. /\ pc[t] \in Executing /\ ops' = ops
        /\ outcome' = [outcome EXCEPT ![txn[t]] = "aborted"]
        /\ keys' = keys /\ m_log' = m_log
    BY <1>5 DEF LockHeld, LockTimeout, OpFails, Abort, At
  <2>2. Restored' = Restored
    BY <2>1 DEF Restored
  <2>3. txn[t] \in Desc /\ ops[txn[t]] # <<>> /\ outcome[txn[t]] = "open"
    BY <1>1, <2>1 DEF TypeOK, TxnInv
  <2>4. Abstract!Abort(txn[t])
    BY <2>1, <2>2, <2>3 DEF Abstract!Abort
  <2> QED
    BY <2>3, <2>4 DEF Abstract!Next
<1>6. CASE FindLock(t) \/ Acquire(t) \/ Unlock(t) \/ Finish(t)
  <2>1. keys' = keys /\ m_log' = m_log /\ ops' = ops /\ outcome' = outcome
    BY <1>6 DEF FindLock, Acquire, Unlock, Finish
  <2>2. Restored' = Restored
    BY <2>1 DEF Restored
  <2> QED
    BY <2>1, <2>2 DEF Abstract!vars
<1> QED
  BY <1>2, <1>3, <1>4, <1>5, <1>6 DEF Step, LeaveLock

\* Every transaction of the boosting list takes effect as a whole at the step
\* that commits it (OnCommit, boostinglist.cc:98), and an aborted one leaves no
\* trace, for any number of threads, transactions and keys.
THEOREM Transactions == Spec => Atomic
<1>1. Init => Abstract!Init
  <2> SUFFICES ASSUME Init PROVE Abstract!Init
    OBVIOUS
  <2>1. Restored \in SUBSET Key
    BY DEF Restored
  <2> QED
    BY <2>1 DEF Init, Abstract!Init
<1>2. IInv /\ IInv' /\ [Next]_vars => [Abstract!Next]_(Abstract!vars)
  <2> SUFFICES ASSUME IInv, IInv', [Next]_vars
               PROVE  [Abstract!Next]_(Abstract!vars)
    OBVIOUS
  <2>1. CASE UNCHANGED vars
    <3>1. Restored' = Restored /\ ops' = ops /\ outcome' = outcome
      BY <2>1 DEF vars, Restored
    <3> QED
      BY <3>1 DEF Abstract!vars
  <2>2. CASE Next
    BY <2>2, AbsStep DEF Next
  <2> QED
    BY <2>1, <2>2
<1> QED
  BY <1>1, <1>2, BoostingInvariance, PTL DEF Spec, Atomic, Abstract!Spec
=============================================================================
