---------------------------- MODULE TransListInv ----------------------------
(***************************************************************************)
(* The inductive invariant behind the theorems of TransListProofs: what    *)
(* the locals of a frame say at each label, and how the frames of a thread *)
(* hang together.                                                          *)
(***************************************************************************)
EXTENDS TransList

PersistLabels == {"claim", "ticket", "store", "persisted"}
EndLabels == {"marklist", "markdesc", "marknode", "unlinknode"}

\* The frame runs the operation of its opid.
InOp(f) == f.pc \notin {"loop", "decide"} \union PersistLabels \union EndLabels
             \/ f.back = "exist"

\* It has read the nodeDesc of a node into old.
HasOld(f) == f.pc \in {"help", "cycle", "exist", "active", "update"}
               \/ f.back = "exist"

\* It stands at a node that holds its key.
AtNode(f) == f.pc \in {"read", "helpmark"} \/ HasOld(f)

\* It has won the compare-and-swap on the status of its transaction.
Won(f) == f.pc \in EndLabels \/ (f.pc \in PersistLabels /\ f.back = "marklist")

FrameInv(f, d) ==
  /\ InOp(f) => f.opid <= Len(ops[d])
  /\ AtNode(f) => f.curr \in NodeDesc
  /\ HasOld(f) => f.old # Null
  /\ f.back = "exist" => f.pc \in PersistLabels
  /\ f.pc \in EndLabels \ {"marklist"} => f.todo # <<>>
  /\ Won(f) => status[d] # "ACTIVE"
  /\ f.back = "exist" => status[f.old.desc] # "ACTIVE"

\* What a frame that runs may rely on when it judges a node.
Resolved(f, d) ==
  f.pc \in {"exist", "active", "update"} /\ f.old.desc # d
    => status[f.old.desc] # "ACTIVE"

\* A caller waits at the point behind FinishPendingTxn for the transaction of
\* the frame above it.
StackInv(t) ==
  /\ \A i, j \in 1..Len(stack[t]) : stack[t][i] = stack[t][j] => i = j
  /\ \A i \in 1..(Len(stack[t]) - 1) :
       /\ fr[t][stack[t][i]].pc = "exist"
       /\ fr[t][stack[t][i]].old.desc = stack[t][i+1]

PreInv == status[PreDesc] = "COMMITTED" /\ (Persist => pstatus[PreDesc] = "PERSISTED")

\* The inductive invariant.
IInv ==
  /\ TypeOK
  /\ PreInv
  /\ \A t \in Thread, d \in Desc : FrameInv(fr[t][d], d)
  /\ \A t \in Thread : StackInv(t)
  /\ \A t \in Thread : Busy(t) => Resolved(Fr(t), Top(t))
  /\ PersistAfterDecision
=============================================================================
