----------------------------- MODULE MCTransMap -----------------------------
(***************************************************************************)
(* Small instances of the transactional hash map for TLC.                  *)
(***************************************************************************)
EXTENDS TransMapInv

CONSTANT Running   \* the threads that are scheduled for sure

op(type, k, v) == [type |-> type, key |-> k, value |-> v]

\* Transactions that meet at keys 1, 3, 5 and 9, which share their first bits.
Colliding ==
  {<<op("UPDATE", 5, 2), op("INSERT", 9, 3)>>, <<op("INSERT", 3, 2), op("FIND", 5, 0)>>,
   <<op("DELETE", 5, 0), op("INSERT", 3, 3)>>, <<op("INSERT", 1, 2), op("DELETE", 5, 0)>>,
   <<op("DELETE", 5, 0), op("INSERT", 5, 2)>>}

\* No key, or two that have pushed each other down the trie.
EmptyOrTwo == {{}, {1, 5}}

\* The threads in Running keep running; the others may stop anywhere.
LiveSpec == HSpec /\ \A t \in Running : WF_vars(Step(t))

\* Non-blocking: a thread that keeps running finishes its transaction, whatever
\* the others do and wherever they stop for ever.
RunningFinish == \A t \in Running : Busy(t) ~> ~Busy(t)

\* The arrays on the way of key k.
WayOf(k) ==
  LET from[p \in Stations] ==
        LET s    == spine[p[2]][Digit(k, p[1])]
            next == NextRight(p[1])
        IN  {p} \union (IF IsSpine(s.to) /\ next < KEY_SIZE
                        THEN from[<<next, s.to.spine>>] ELSE {})
  IN  from[<<0, 1>>]

\* The places of the arrays, read off the ways of the keys.
PlacesSeen ==
  [i \in DOMAIN spine |->
     IF i = 1 THEN [right |-> 0, key |-> 0]
     ELSE LET w == CHOOSE w \in Key \X Stations : w[2] \in WayOf(w[1]) /\ w[2][2] = i
          IN  [right |-> w[2][1], key |-> w[1]]]

\* The inductive invariant with these places, as TLC cannot try all of Places.
IInvSeen == TypeInv /\ ("way" \in flaws \/ (TrieInv(PlacesSeen) /\ WaysInv(PlacesSeen)))
=============================================================================
