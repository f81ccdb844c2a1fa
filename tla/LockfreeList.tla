---------------------------- MODULE LockfreeList ----------------------------
(***************************************************************************)
(* The lock-free sorted list, lockfreelist/lockfreelist.cc.  A node is     *)
(* deleted by marking its next pointer; LocatePred unlinks marked nodes.   *)
(* One action is one access to shared memory.                              *)
(*                                                                         *)
(* The fields are plain variables that threads race on, so what is read,   *)
(* and when, depends on the build.  With the -O3 of configure.ac the       *)
(* compiler folds the two reads of right->next in the arguments of the     *)
(* compare-and-swap of Delete into one, and drops the second look at       *)
(* right->next after the traversal, for which it still holds the value.    *)
(* Without optimisation (the commented -O0 of configure.ac) it performs    *)
(* all of them and evaluates the last argument first.                      *)
(***************************************************************************)
EXTENDS Naturals, FiniteSets

CONSTANTS
  Thread,
  Main,           \* the thread that fills the list before the others start
  MaxKey,         \* keys are 1..MaxKey, in the order of the keys they stand for
  MaxCalls,       \* bound on the calls of a thread
  Prefills,       \* the sets of keys the list may hold at the start
  m_head, m_tail, \* the sentinel nodes
  Null,           \* the next pointer of a node that is not linked yet
  Optimised       \* TRUE: built with -O3, FALSE: with -O0

Key == 1..MaxKey

OpTypes == {"FIND", "INSERT", "DELETE"}

\* A call allocates at most one node, so its number tells the nodes apart.
Inner == [by : Thread \union {Main}, no : 0..MaxCalls, key : Key]
Node == Inner \union {m_head, m_tail}

ASSUME ListAssumption ==
  /\ MaxKey \in Nat \ {0}
  /\ MaxCalls \in Nat
  /\ Main \notin Thread
  /\ m_head # m_tail
  /\ {m_head, m_tail} \cap Inner = {}
  /\ Null \notin Node
  /\ Optimised \in BOOLEAN
  /\ \A S \in Prefills : S \subseteq Key

VARIABLES
  next,     \* next[n]: the successor of n, without its mark
  marked,   \* marked[n]: the mark bit of n->next
  fr,       \* fr[t]: the locals of the call of thread t
  calls     \* calls[t]: the calls that t has made

vars == <<next, marked, fr, calls>>

Labels == {"idle", "search", "recheck", "unlink", "link", "read", "mark",
           "reread", "swing", "persist"}

Frame == [pc    : Labels,              \* the next access to shared memory
          type  : OpTypes,
          key   : Key,
          left  : Node,
          lnext : Node,                \* left_next of LocatePred
          right : Node,                \* i, and right once located
          want  : Node \union {Null},  \* successor that Delete marks or links
          exp   : Node \union {Null},  \* expected value of that mark
          res   : BOOLEAN]             \* what the last call returned

\* The code compares no key with that of the head, so that key 0, which the
\* head holds too, is a key like others: the head is below all of them.
KeyOf(n) == CASE n = m_head -> 0
              [] n = m_tail -> MaxKey + 1
              [] OTHER      -> n.key

TypeOK ==
  /\ next \in [Node -> Node \union {Null}]
  /\ marked \in [Node -> BOOLEAN]
  /\ fr \in [Thread -> Frame]
  /\ calls \in [Thread -> 0..MaxCalls]

-----------------------------------------------------------------------------
Returned(r) ==
  [pc |-> "idle", type |-> "FIND", key |-> 1, left |-> m_head,
   lnext |-> m_head, right |-> m_head, want |-> Null, exp |-> Null, res |-> r]

\* LocatePred starts over at the head, with all that the caller remembers.
Restart(f) ==
  [f EXCEPT !.pc = "search", !.left = m_head, !.lnext = m_head,
            !.right = m_head, !.want = Null, !.exp = Null]

\* What Find, Insert and Delete do with the right node of LocatePred.
Located(f) ==
  LET found == KeyOf(f.right) = f.key
  IN  CASE f.type = "FIND"              -> Returned(found)
        [] f.type = "INSERT" /\ found   -> Returned(FALSE)
        [] f.type = "DELETE" /\ ~found  -> Returned(FALSE)
        [] f.type = "INSERT" /\ ~found  -> [f EXCEPT !.pc = "link"]
        [] f.type = "DELETE" /\ found   -> [f EXCEPT !.pc = "read"]

\* The end of the traversal: step 2 of LocatePred, or on to step 3.
Arrived(f) ==
  CASE f.lnext # f.right                -> [f EXCEPT !.pc = "unlink"]
    [] f.lnext = f.right /\ (Optimised \/ f.right = m_tail) -> Located(f)
    [] OTHER                            -> [f EXCEPT !.pc = "recheck"]

At(t, l) == fr[t].pc = l
Heap == <<next, marked>>

\* Mutant: the compare-and-swap ignores the mark of left->next.
CanSwing_Blind(f, old) == next[f.left] = old

\* __sync_bool_compare_and_swap on left->next: left unmarked, old successor.
CanSwing(f, old) == ~marked[f.left] /\ next[f.left] = old

\* The node that an Insert of t allocates.
Mine(t) == [by |-> t, no |-> calls[t], key |-> fr[t].key]
Prefilled(k) == [by |-> Main, no |-> 0, key |-> k]

\* Main links the keys of S in order; 0 stands for the head.
IsNext(S, k, j) == j > k /\ \A i \in S : i > k => j <= i
Successor(S, k) ==
  IF \E j \in S : IsNext(S, k, j)
  THEN Prefilled(CHOOSE j \in S : IsNext(S, k, j)) ELSE m_tail

Init ==
  /\ \E S \in Prefills :
       next = [n \in Node |->
                 CASE n = m_tail -> m_tail
                   [] n = m_head -> Successor(S, 0)
                   [] OTHER -> IF n.key \in S /\ n = Prefilled(n.key)
                               THEN Successor(S, n.key) ELSE Null]
  /\ marked = [n \in Node |-> FALSE]
  /\ fr = [t \in Thread |-> Returned(FALSE)]
  /\ calls = [t \in Thread |-> 0]

Call(t) ==
  /\ At(t, "idle")
  /\ calls[t] < MaxCalls
  /\ calls' = [calls EXCEPT ![t] = @ + 1]
  /\ \E type \in OpTypes, k \in Key :
       fr' = [fr EXCEPT ![t] = Restart([Returned(FALSE) EXCEPT
                                          !.type = type, !.key = k])]
  /\ UNCHANGED Heap

\* Mutant: the traversal goes on past the key.
Passed_Equal(i, key) == marked[i] \/ KeyOf(i) <= key

Passed(i, key) == marked[i] \/ KeyOf(i) < key

\* The traversal remembers the last unmarked node as left and stops at the
\* first unmarked node that reaches the key, or at the tail.
Search(t) ==
  LET f == fr[t]
      i == f.right
      step == [f EXCEPT !.left  = IF marked[i] THEN @ ELSE i,
                        !.lnext = IF marked[i] THEN @ ELSE next[i],
                        !.right = next[i]]
  IN  /\ At(t, "search")
      /\ \/ /\ Passed(i, f.key)
            /\ fr' = [fr EXCEPT ![t] =
                        IF next[i] = m_tail THEN Arrived(step) ELSE step]
         \/ /\ ~Passed(i, f.key)
            /\ fr' = [fr EXCEPT ![t] = Arrived(f)]
      /\ UNCHANGED <<Heap, calls>>

\* The second look at right->next, before LocatePred returns.
Recheck(t) ==
  /\ At(t, "recheck")
  /\ fr' = [fr EXCEPT ![t] = IF marked[@.right] THEN Restart(@) ELSE Located(@)]
  /\ UNCHANGED <<Heap, calls>>

\* Mutant: a failed compare-and-swap is tried again without a new traversal.
Unlink_Spin(t) ==
  LET f == fr[t]
  IN  /\ At(t, "unlink")
      /\ CanSwing(f, f.lnext)
      /\ next' = [next EXCEPT ![f.left] = f.right]
      /\ fr' = [fr EXCEPT ![t] = IF f.right = m_tail THEN Located(f)
                                 ELSE [f EXCEPT !.pc = "recheck"]]
      /\ UNCHANGED <<marked, calls>>

\* Step 3: one compare-and-swap takes the marked nodes out of the list.
Unlink(t) ==
  LET f == fr[t]
  IN  /\ At(t, "unlink")
      /\ \/ /\ CanSwing(f, f.lnext)
            /\ next' = [next EXCEPT ![f.left] = f.right]
            /\ fr' = [fr EXCEPT ![t] = IF f.right = m_tail THEN Located(f)
                                       ELSE [f EXCEPT !.pc = "recheck"]]
         \/ /\ ~CanSwing(f, f.lnext)
            /\ fr' = [fr EXCEPT ![t] = Restart(f)]
            /\ UNCHANGED next
      /\ UNCHANGED <<marked, calls>>

Link(t) ==
  LET f == fr[t]
  IN  /\ At(t, "link")
      /\ \/ /\ CanSwing(f, f.right)
            /\ next' = [next EXCEPT ![Mine(t)] = f.right, ![f.left] = Mine(t)]
            /\ fr' = [fr EXCEPT ![t].pc = "persist"]
         \/ /\ ~CanSwing(f, f.right)
            /\ fr' = [fr EXCEPT ![t] = Restart(f)]
            /\ UNCHANGED next
      /\ UNCHANGED <<marked, calls>>

\* Delete reads right->next, for the new value and for the expected one.
ReadNext(t) ==
  LET s == next[fr[t].right]
  IN  /\ At(t, "read")
      /\ \/ /\ fr[t].want = Null
            /\ fr' = [fr EXCEPT ![t] =
                        IF Optimised
                        THEN [@ EXCEPT !.want = s, !.exp = s, !.pc = "mark"]
                        ELSE [@ EXCEPT !.want = s]]
         \/ /\ fr[t].want # Null
            /\ fr' = [fr EXCEPT ![t] = [@ EXCEPT !.exp = s, !.pc = "mark"]]
      /\ UNCHANGED <<Heap, calls>>

\* Mutant: the mark is set whether or not another Delete has set it.
CanMark_Twice(f) == next[f.right] = f.exp

CanMark(f) == ~marked[f.right] /\ next[f.right] = f.exp

Mark(t) ==
  LET f == fr[t]
  IN  /\ At(t, "mark")
      /\ \/ /\ CanMark(f)
            /\ next' = [next EXCEPT ![f.right] = f.want]
            /\ marked' = [marked EXCEPT ![f.right] = TRUE]
            /\ fr' = [fr EXCEPT ![t].pc = "reread"]
         \/ /\ ~CanMark(f)
            /\ fr' = [fr EXCEPT ![t] = Restart(f)]
            /\ UNCHANGED Heap
      /\ UNCHANGED calls

Reread(t) ==
  /\ At(t, "reread")
  /\ fr' = [fr EXCEPT ![t] =
              [@ EXCEPT !.want = next[fr[t].right], !.pc = "swing"]]
  /\ UNCHANGED <<Heap, calls>>

\* The node is unlinked if nobody has changed its predecessor.
Swing(t) ==
  LET f == fr[t]
  IN  /\ At(t, "swing")
      /\ next' = IF CanSwing(f, f.right)
                 THEN [next EXCEPT ![f.left] = f.want] ELSE next
      /\ fr' = [fr EXCEPT ![t].pc = "persist"]
      /\ UNCHANGED <<marked, calls>>

\* left->next is flushed before the call returns true.
Persist(t) ==
  /\ At(t, "persist")
  /\ fr' = [fr EXCEPT ![t] = Returned(TRUE)]
  /\ UNCHANGED <<Heap, calls>>

Step(t) ==
  \/ Search(t) \/ Recheck(t) \/ Unlink(t) \/ Link(t) \/ ReadNext(t)
  \/ Mark(t) \/ Reread(t) \/ Swing(t) \/ Persist(t)

Next == \E t \in Thread : Call(t) \/ Step(t)

Spec == Init /\ [][Next]_vars
=============================================================================
