---------------------------- MODULE TransMapAbs ----------------------------
(***************************************************************************)
(* The set of keys that a state of the hash map stands for, the properties *)
(* that relate it to the atomic transactions of TxSet, and the steps known *)
(* to break them.                                                          *)
(***************************************************************************)
EXTENDS TransMap

\* Where a way may come to: an array and the bits used before it.
Stations == {p \in Rights \X DOMAIN spine : p[1] = 0 <=> p[2] = 1}

\* The slot where the way of key k ends.
EndOfRoute(k) ==
  LET from[p \in Stations] ==
        LET s    == spine[p[2]][Digit(k, p[1])]
            next == NextRight(p[1])
        IN  IF IsSpine(s.to) /\ next < KEY_SIZE THEN from[<<next, s.to.spine>>] ELSE s
  IN  from[<<0, 1>>]

\* A commit counts for others once it is persisted.
Outcome(d) == IF status[d] = "ABORTED" THEN "aborted"
              ELSE IF status[d] = "COMMITTED" /\ pstatus[d] = "PERSISTED"
              THEN "committed" ELSE "open"

\* Whether a node with nodeDesc c counts: while the transaction is open, what
\* its first operation on the key has found tells what the others still see.
Counts(c) ==
  IF c.desc \in Desc /\ Outcome(c.desc) = "open"
  THEN LET o == ops[c.desc]
       IN  o[CHOOSE i \in DOMAIN o : o[i].key = OpOf(c).key
                /\ \A j \in 1..(i - 1) : o[j].key # o[i].key].type # "INSERT"
  ELSE IsKeyExist(c)

PresentKeys ==
  {k \in Key : LET n == EndOfRoute(k).to
               IN  IsData(n) /\ OpOf(n).key = k /\ Counts(nd[n])}

\* TxSet knows no values: for the set of keys an UPDATE is a FIND.
KeyOps(o) == [i \in DOMAIN o |-> [type |-> IF o[i].type = "UPDATE" THEN "FIND" ELSE o[i].type,
                                  key |-> o[i].key]]

Abstract == INSTANCE TxSet WITH
  set      <- PresentKeys,
  OpArrays <- {KeyOps(o) : o \in OpArrays},
  ops      <- [d \in Desc |-> KeyOps(ops[d])],
  outcome  <- [d \in Desc |-> Outcome(d)]

\* A thread judges a node whose transaction has committed but is not durable
\* yet, and takes it for one that has aborted.
ReadsEarly(t) ==
  /\ At(t, "exist")
  /\ LET c == Fr(t).old
     IN  c.desc # Top(t) /\ status[c.desc] = "COMMITTED" /\ pstatus[c.desc] # "PERSISTED"

\* An UPDATE of a key that no node holds puts a node there, when another key
\* is in its slot.
UpdateInserts(t) ==
  At(t, "split") /\ Op(t).type = "UPDATE" /\ Len(spine') > Len(spine)

\* A transaction aborts that has more than one operation on a key: its last
\* one no longer tells whether the key was there before.
AbortsOwnChange(d) ==
  /\ status[d] = "ACTIVE" /\ status'[d] = "ABORTED"
  /\ \E i, j \in DOMAIN ops[d] : i # j /\ ops[d][i].key = ops[d][j].key

\* An operation starts again with the first bits of its key, in an array where
\* it should look at later ones.
LosesItsWay(t) ==
  /\ Busy(t) /\ Fr(t).pc \in {"update", "swap"} /\ Fr(t).right > MAIN_POW
  /\ Fr(t)'.pc = "slot" /\ Fr(t)'.right = MAIN_POW

\* Every node lies where the search for its key ends: no key has two nodes, and
\* no expansion and no split has moved a node out of sight.
WellRouted ==
  \A i \in DOMAIN spine : \A j \in DOMAIN spine[i] :
    IsData(spine[i][j].to) => EndOfRoute(OpOf(spine[i][j].to).key) = spine[i][j]

\* No slot is ever marked: a compare-and-swap on a slot fails at most twice.
NeverMarked ==
  /\ \A i \in DOMAIN spine : \A j \in DOMAIN spine[i] : ~spine[i][j].mark
  /\ \A t \in Thread : Busy(t) => Fr(t).fails <= 2
-----------------------------------------------------------------------------
(* The map with a record of the departures, and what holds without them.   *)

VARIABLE flaws     \* history: which of the known departures have happened

HInit == Init /\ flaws = {}
HNext ==
  /\ Next
  /\ flaws' = flaws \union
       (IF \E t \in Thread : ReadsEarly(t) /\ Step(t) THEN {"early"} ELSE {}) \union
       (IF \E t \in Thread : UpdateInserts(t) /\ Step(t) THEN {"upsert"} ELSE {}) \union
       (IF \E d \in Desc : AbortsOwnChange(d) THEN {"own"} ELSE {}) \union
       (IF \E t \in Thread : LosesItsWay(t) THEN {"way"} ELSE {})
HSpec == HInit /\ [][HNext]_<<vars, flaws>>

\* The types; and as long as no operation loses its way, every node can be found,
\* and no slot is ever marked for expansion.
RoutedUnlessLost == TypeOK /\ ("way" \in flaws \/ (WellRouted /\ NeverMarked))

abstract == <<PresentKeys, [d \in Desc |-> KeyOps(ops[d])], [d \in Desc |-> Outcome(d)]>>

\* As long as none of the departures has happened, every transaction takes
\* effect as a whole at the step that makes it durable.
AtomicUnlessFlawed ==
  [][\/ UNCHANGED <<heap, txn>> \/ UNCHANGED abstract
     \/ flaws' # {} \/ Abstract!Next]_vars
=============================================================================
