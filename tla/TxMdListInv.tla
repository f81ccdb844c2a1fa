---------------------------- MODULE TxMdListInv ----------------------------
(***************************************************************************)
(* The inductive invariant behind the theorems of TxMdListProofs: what the *)
(* locals of a frame say at each label about the coordinates of the nodes  *)
(* they lead to.                                                           *)
(***************************************************************************)
EXTENDS TxMdListAbs

AdoptLabels == {"give", "reread", "copy", "clear"}

PersistLabels == {"claim", "persist", "marknode", "markedge"}

\* The frame runs the operation of its opid.
InOp(f) == f.pc \notin {"loop", "decide"} \union PersistLabels \/ f.back = "exist"

\* It has linked the node that it allocated for it.
Placed(f) == f.pc = "adopt" \/ f.back \in {"adopt", "done"}

\* It has read the nodeDesc of curr into old.
HasOld(f) == f.pc \in {"help", "cycle", "exist", "active", "update"} \/ f.back = "exist"

\* It has just passed curr, which is still its predecessor.
Passing(f) == f.pc \in {"pending", "child"} \/ f.back = "child"

\* The node of this operation is still to be linked by its thread.
Unborn(n) ==
  LET f == fr[n.by][n.desc]
  IN  /\ n.desc # PreDesc
      /\ n.opid > f.opid \/ (n.opid = f.opid /\ ~Placed(f))
      /\ status[n.desc] = "ACTIVE" \/ InOp(f)

\* Nodes that a thread may find in the heap.
Ready(n) ==
  \/ n = m_head
  \/ /\ n \in NodeDesc
     /\ n.desc # PreDesc => n.opid <= Len(ops[n.desc]) /\ ~Unborn(n)

-----------------------------------------------------------------------------
(* The order of the keys.                                                  *)

Shares(k, l, i) == \A j \in Dim : j < i => Coord(k, j) = Coord(l, j)

\* A node of key l may be the child in dimension i of one of key k.
Below(k, l, i) == Shares(k, l, i) /\ Coord(k, i) < Coord(l, i)

\* What is known of the key l of curr in dimension i.  InsertAbsent gives a deleted
\* node in the last dimension the dimension behind it, though the keys differ there.
Leads(k, l, i) ==
  \A j \in Dim : j < i => \/ Coord(k, j) = Coord(l, j)
                          \/ j = DIMENSION - 1 /\ Coord(k, j) < Coord(l, j)

-----------------------------------------------------------------------------
(* The heap.                                                               *)

\* Slot i of node n may hold the pointer p.
Hangs(p, n, i) ==
  /\ p.n # Null => Ready(p.n) /\ Below(KeyOf(n), KeyOf(p.n), i)
  /\ p.n = Null => ~p.del

HeapInv ==
  \A n \in Node, i \in Dim :
    /\ Hangs(child[n][i], n, i)
    /\ child[n][i].n # Null => Ready(n)

\* What node n adopts hangs below a node that shares the coordinates concerned.
Adopts(n, task) ==
  task # NoTask =>
    /\ Ready(n) /\ Ready(task.curr)
    /\ task.pred_dim < task.dim
    /\ Leads(KeyOf(n), KeyOf(task.curr), task.dim)

TasksInv == \A n \in Node : Adopts(n, pending[n])

-----------------------------------------------------------------------------
(* The frames.                                                             *)

\* An operation on key k has gone from pred, a node above the place of k.
PredInv(f, k) ==
  /\ f.pred # Null /\ Ready(f.pred)
  /\ Below(KeyOf(f.pred), k, f.pred_dim)
  /\ f.curr # Null => Ready(f.curr)

\* It has come to the place of k, which is above curr.  Only after Invalidate is
\* curr the head.
PlaceInv(f, k) ==
  /\ f.pred_dim <= f.dim
  /\ f.curr = Null => f.dim = f.pred_dim
  /\ f.curr # Null => child[f.pred][f.pred_dim].n # Null
  /\ f.curr = m_head => f.dim = DIMENSION
  /\ f.curr \notin {Null, m_head} => Leads(k, KeyOf(f.curr), f.dim)

\* The locals of an operation on key k.
WalkInv(f, k) ==
  /\ PredInv(f, k)
  /\ Passing(f) => f.curr = f.pred /\ f.dim = f.pred_dim
  /\ ~Passing(f) => PlaceInv(f, k)
  /\ f.pc \in {"slot", "absent", "link"} /\ f.curr # Null /\ f.dim < DIMENSION =>
       Coord(k, f.dim) < Coord(KeyOf(f.curr), f.dim)
  /\ f.pc = "absent" /\ f.slot.n = Null => ~f.slot.del
  /\ f.pc = "link" => f.slot = Expected(f) /\ (f.curr = Null => ~f.slot.del)
  /\ f.pc \in {"read", "invalidate"} \/ HasOld(f) => f.curr # Null /\ f.dim = DIMENSION
  /\ f.pc = "invalidate" \/ HasOld(f) => f.curr # m_head
  /\ HasOld(f) => f.old # Null
  /\ Placed(f) => f.curr \notin {Null, m_head} /\ f.pred_dim < f.dim

\* The locals of FinishInserting.
AdoptInv(f) ==
  /\ f.pc \in AdoptLabels <=> f.back \in {"child", "adopt", "done"}
  /\ f.pc \in AdoptLabels =>
       /\ f.n # Null /\ f.task # NoTask /\ Adopts(f.n, f.task)
       /\ f.task.pred_dim <= f.i
       /\ f.pc # "clear" => f.i < f.task.dim
  /\ f.pc = "copy" => f.value.n # Null /\ Hangs(f.value, f.task.curr, f.i)

\* The end of HelpOps for descriptor d.
EndInv(f, d) ==
  /\ f.back = "exist" => f.pc \in {"claim", "persist"}
  /\ f.pc \in PersistLabels /\ f.back = "return" => status[d] # "ACTIVE"
  /\ f.pc \in {"marknode", "markedge"} => f.todo # <<>>

FrameInv(f, d) ==
  /\ f.pc = "loop" => f.curr = m_head /\ f.dim = 0
  /\ InOp(f) => f.opid <= Len(ops[d]) /\ WalkInv(f, ops[d][f.opid].key)
  /\ AdoptInv(f)
  /\ EndInv(f, d)

FramesInv == \A t \in Thread, d \in Desc : FrameInv(fr[t][d], d)

\* A thread has locals only for the calls that it runs.
IdleInv ==
  \A t \in Thread, d \in Desc : Contains(stack[t], d) \/ fr[t][d] = NewFrame(1)

PreInv == status[PreDesc] = "COMMITTED" /\ pstatus[PreDesc] = "PERSISTED"

\* Every pointer leads to a larger key, so that no search goes in circles.
KeysGrow ==
  \A n \in Node, i \in Dim :
    child[n][i].n # Null => KeyOf(n) < KeyOf(child[n][i].n)

\* The node of an operation, before the thread that allocated it has linked it, is
\* neither a child nor named in a task of adoption.
NobodyEarly ==
  \A m \in NodeDesc, n \in Node, i \in Dim :
    Unborn(m) => /\ child[n][i].n # m
                 /\ pending[n] # NoTask => n # m /\ pending[n].curr # m

\* The inductive invariant.
IInv == TypeOK /\ PreInv /\ IdleInv /\ HeapInv /\ TasksInv /\ FramesInv
=============================================================================
