------------------------------- MODULE LinSet -------------------------------
(***************************************************************************)
(* A linearizable set of keys.  A call that changes the set does so in one *)
(* step between its invocation and its response; a call that changes       *)
(* nothing answers what was true of its key at some moment in between.     *)
(* The lock-free list is meant to implement this module.                   *)
(***************************************************************************)
EXTENDS Naturals

CONSTANTS Thread, Key

VARIABLES
  set,     \* the keys present
  call,    \* call[t]: the call of thread t and its last result
  seen     \* seen[t]: whether the key of t's call was present, at each moment
           \* of the call so far

vars == <<set, call, seen>>

OpTypes == {"FIND", "INSERT", "DELETE"}

\* What a call answers on a set that holds its key, or does not.
Answer(type, present) == present <=> type # "INSERT"

Apply(c, S) == IF c.type = "INSERT" THEN S \union {c.key} ELSE S \ {c.key}

NoCall(r) == [state |-> "idle", type |-> "FIND", key |-> 1, res |-> r]

\* The calls that are open after a step have seen the set as it leaves it.
Observe ==
  seen' = [t \in Thread |->
             IF call'[t].state = "idle" THEN {}
             ELSE seen[t] \union {call'[t].key \in set'}]

Init ==
  /\ set \in SUBSET Key
  /\ call = [t \in Thread |-> NoCall(FALSE)]
  /\ seen = [t \in Thread |-> {}]

Invoke(t) ==
  /\ call[t].state = "idle"
  /\ \E type \in OpTypes, k \in Key :
       call' = [call EXCEPT ![t] =
                 [state |-> "open", type |-> type, key |-> k, res |-> FALSE]]
  /\ UNCHANGED set

Change(t) ==
  LET c == call[t]
  IN  /\ c.state = "open"
      /\ c.type # "FIND"
      /\ Answer(c.type, c.key \in set)
      /\ set' = Apply(c, set)
      /\ call' = [call EXCEPT ![t].state = "done"]

Respond(t) ==
  /\ \/ /\ call[t].state = "done"
        /\ call' = [call EXCEPT ![t] = NoCall(TRUE)]
     \/ /\ call[t].state = "open"
        /\ \E p \in seen[t] :
             LET r == Answer(call[t].type, p)
             IN  /\ call[t].type # "FIND" => ~r
                 /\ call' = [call EXCEPT ![t] = NoCall(r)]
  /\ UNCHANGED set

Next == \E t \in Thread : (Invoke(t) \/ Change(t) \/ Respond(t)) /\ Observe

Spec == Init /\ [][Next]_vars
=============================================================================
