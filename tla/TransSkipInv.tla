---------------------------- MODULE TransSkipInv ----------------------------
(***************************************************************************)
(* The inductive invariant behind the theorems of TransSkipProofs: what    *)
(* the locals of a frame say at each label, and how the frames of a thread *)
(* hang together.                                                          *)
(***************************************************************************)
EXTENDS TransSkipAbs

PersistLabels == {"claim", "ticket", "store", "persisted"}

\* The frame runs the operation of its opid.
InOp(f) == f.pc \notin {"loop", "decide"} \union PersistLabels \/ f.back = "exist"

\* It has read the nodeDesc of a node into old.
HasOld(f) == f.pc \in {"help", "cycle", "exist", "active", "update"}
               \/ f.back = "exist"

FrameInv(f, d) ==
  /\ InOp(f) => f.opid <= Len(ops[d])
  /\ f.pc = "read" \/ HasOld(f) => f.x \in NodeDesc
  /\ HasOld(f) => f.old # Null
  /\ f.pc = "raise" => f.height > 0
  /\ f.height > 0 => f.rise < f.height
  /\ f.back = "exist" => f.pc \in PersistLabels /\ status[f.old.desc] # "LIVE"
  /\ f.pc \in PersistLabels /\ f.back = "return" => status[d] # "LIVE"

\* What a frame that runs may rely on when it judges a node: FinishPendingTxn
\* does nothing once the transaction of its caller is decided, so only a caller
\* that is still live knows that the other transaction is not.  A frame that
\* has come to UpdateDesc has seen itself live after the help.
Resolved(f, d) ==
  f.pc \in {"exist", "active", "update"} /\ f.old.desc # d =>
    (status[d] = "LIVE" \/ f.pc = "update" => status[f.old.desc] # "LIVE")

\* A caller waits at the point behind FinishPendingTxn for the transaction of
\* the frame above it.
StackInv(t) ==
  /\ \A i, j \in 1..Len(stack[t]) : stack[t][i] = stack[t][j] => i = j
  /\ \A i \in 1..(Len(stack[t]) - 1) :
       /\ fr[t][stack[t][i]].pc = "exist"
       /\ fr[t][stack[t][i]].old.desc = stack[t][i+1]

PreInv == status[PreDesc] = "COMMITTED" /\ (Persist => pstatus[PreDesc] = "PERSISTED")

\* Only a transaction that is decided is persisted.
DecidedBeforePersist == \A d \in Desc : pstatus[d] # "MAYBE" => status[d] # "LIVE"

\* The inductive invariant.
IInv ==
  /\ TypeOK
  /\ PreInv
  /\ \A t \in Thread, d \in Desc : FrameInv(fr[t][d], d)
  /\ \A t \in Thread : StackInv(t)
  /\ \A t \in Thread : Busy(t) => Resolved(Fr(t), Top(t))
  /\ DecidedBeforePersist

-----------------------------------------------------------------------------
(* The shape of the levels.                                                *)

\* The node of this operation is still to be linked by its thread.
Unborn(n) ==
  LET f == fr[n.by][n.desc]
  IN  /\ n.desc # PreDesc
      /\ n.opid > f.opid \/ (n.opid = f.opid /\ f.height = 0)
      /\ status[n.desc] = "LIVE" \/ InOp(f)

\* Pointers that a thread may find in the heap.
Ready(n) ==
  \/ n \in {head, tail}
  \/ /\ n \in NodeDesc
     /\ n.desc # PreDesc => n.opid <= Len(ops[n.desc]) /\ ~Unborn(n)

OnStack(t, d) == \E i \in 1..Len(stack[t]) : stack[t][i] = d

IdleInv == \A t \in Thread, d \in Desc : OnStack(t, d) \/ fr[t][d] = NewFrame(1)

\* Every level leads to larger keys, and nothing points to a node before its
\* Insert has linked it.
LinkInv ==
  \A i \in Level, n \in Node :
    /\ Ready(next[i][n])
    /\ next[i][n] # tail => Ready(n) /\ KeyOf(n) < KeyOf(next[i][n])

\* The head and the nodes of level i.
On(i) == Chain(i) \union {head}

Nested == \A i, j \in Level : j <= i => On(i) \subseteq On(j)

\* The search for k has left level i between these two.
Noted(f, i, k) ==
  /\ f.preds[i] \in On(i) /\ KeyOf(f.preds[i]) < k
  /\ f.succs[i] \in On(i) \union {tail} /\ k <= KeyOf(f.succs[i])

\* Where the operation of frame f stands, when n is the node it allocates.
WalkInv(f, n, op) ==
  /\ f.pc = "search" =>
       /\ f.x \in On(f.lvl) /\ KeyOf(f.x) < op.key
       /\ op.type = "INSERT" => \A j \in Level : j > f.lvl => Noted(f, j, op.key)
  /\ f.pc \in {"absent", "link", "raise"} =>
       op.type = "INSERT" /\ \A j \in Level : Noted(f, j, op.key)
  /\ f.pc \in {"absent", "link"} =>
       f.height = 0 /\ \A j \in Level : op.key < KeyOf(f.succs[j])
  /\ f.height > 0 =>
       /\ f.pc \in {"search", "raise"} /\ op.type = "INSERT"
       /\ \A j \in Level : n \in On(j) <=> j < f.rise

\* The node that the operation of frame f of thread t allocates.
NodeOf(t, d, f) == [by |-> t, desc |-> d, opid |-> f.opid]

OnCourse(f, t, d) == WalkInv(f, NodeOf(t, d, f), ops[d][f.opid])

WalksInv == \A t \in Thread, d \in Desc : OnCourse(fr[t][d], t, d)

ShapeInv == IdleInv /\ LinkInv /\ Nested /\ WalksInv

SafetyInv == IInv /\ ShapeInv
=============================================================================
