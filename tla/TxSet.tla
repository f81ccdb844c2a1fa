------------------------------- MODULE TxSet -------------------------------
(***************************************************************************)
(* What the transactional sets of PETRA promise: a set of keys on which    *)
(* every committed transaction runs all of its operations in one step,     *)
(* and an aborted transaction has no effect.  An INSERT needs its key      *)
(* absent, a DELETE and a FIND need it present; one operation that finds   *)
(* its key in the other state aborts the whole transaction.  The           *)
(* containers in lftt/ are meant to implement this module.                 *)
(***************************************************************************)
EXTENDS Naturals, Sequences

CONSTANTS
  Desc,       \* transactions (one descriptor each)
  Key,        \* keys of the set
  OpArrays    \* the operation arrays a transaction may carry

VARIABLES
  set,        \* the keys present
  ops,        \* ops[d]: the operations of d, <<>> before d begins
  outcome     \* outcome[d]: "open", "committed" or "aborted"

vars == <<set, ops, outcome>>

\* An operation runs only on a set that holds its key or, for INSERT, lacks it.
Allowed(op, S) == (op.key \in S) <=> (op.type # "INSERT")

Apply(op, S) ==
  CASE op.type = "INSERT" -> S \union {op.key}
    [] op.type = "DELETE" -> S \ {op.key}
    [] op.type = "FIND"   -> S

\* The set before operation i+1 of array o when it starts on S.
Run(o, S) ==
  LET run[i \in 0..Len(o)] == IF i = 0 THEN S ELSE Apply(o[i], run[i-1])
  IN  run

Legal(o, S) == \A i \in 1..Len(o) : Allowed(o[i], Run(o, S)[i-1])

After(o, S) == Run(o, S)[Len(o)]

-----------------------------------------------------------------------------
Init ==
  /\ set \in SUBSET Key
  /\ ops = [d \in Desc |-> <<>>]
  /\ outcome = [d \in Desc |-> "open"]

Begin(d) ==
  /\ ops[d] = <<>>
  /\ \E o \in OpArrays : ops' = [ops EXCEPT ![d] = o]
  /\ UNCHANGED <<set, outcome>>

Commit(d) ==
  /\ ops[d] # <<>>
  /\ outcome[d] = "open"
  /\ Legal(ops[d], set)
  /\ set' = After(ops[d], set)
  /\ outcome' = [outcome EXCEPT ![d] = "committed"]
  /\ UNCHANGED ops

\* A transaction may abort at any time: an operation failed, or another
\* thread broke a cycle of transactions that help each other.
Abort(d) ==
  /\ ops[d] # <<>>
  /\ outcome[d] = "open"
  /\ outcome' = [outcome EXCEPT ![d] = "aborted"]
  /\ UNCHANGED <<set, ops>>

Next == \E d \in Desc : Begin(d) \/ Commit(d) \/ Abort(d)

Spec == Init /\ [][Next]_vars
=============================================================================
