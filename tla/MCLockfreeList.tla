--------------------------- MODULE MCLockfreeList ---------------------------
(***************************************************************************)
(* Small instances of the lock-free list for TLC.                          *)
(***************************************************************************)
EXTENDS LockfreeListAbs, LockfreeListInv, TLC, Functions

CONSTANTS
  AllCalls,   \* bound on the calls of all threads together
  Running     \* the threads that are scheduled for sure

AllPrefills == SUBSET Key
EmptyOrFull == {{}, Key}

Symmetry == Permutations(Thread)

\* The threads share AllCalls calls: one makes many while another is inside
\* its only one, or all of them race with one or two each.
SharedCalls == FoldFunctionOnSet(+, 0, calls', Thread) <= AllCalls
SharedSpec == HInit /\ [][HNext /\ SharedCalls]_<<vars, seen>>

LiveSpec == HSpec /\ \A t \in Running : WF_<<vars, seen>>(HNext /\ Step(t))

\* Non-blocking: a thread that keeps running returns from its call, whatever
\* the others do and wherever they stop for ever.
RunningReturns ==
  \A t \in Running : fr[t].pc # "idle" ~> fr[t].pc = "idle"
=============================================================================
