------------------------------ MODULE TxMdList ------------------------------
(***************************************************************************)
(* The transactional multi-dimensional list, lftt/mdlist/txmdlist.cc: the  *)
(* descriptors and the helping of TransList on a tree in which a key is a  *)
(* vector of coordinates, and the child of a node in dimension i shares    *)
(* its first i coordinates and has a larger one at i.                      *)
(*                                                                         *)
(* A new node may take the place of a node in a dimension below its own;   *)
(* it then adopts the children that the other node has in the dimensions   *)
(* between, for which it carries a task (m_pending) that whoever passes it *)
(* helps to finish.  The bit ADPINV on a pointer says that the slot is     *)
(* given away, the bit DELINV that the node behind it is deleted, so that  *)
(* an insertion may replace it.                                            *)
(*                                                                         *)
(* One action is one access to shared memory with the local steps around   *)
(* it.  A NodeDesc and a node are published by the compare-and-swap that   *)
(* links them.  Left out: the metrics, txid, which nothing here reads, and *)
(* the read-only optimisation, which the build does not switch on.         *)
(***************************************************************************)
EXTENDS Naturals, FiniteSetsExt, SequencesExt

CONSTANTS
  Thread,     \* worker threads
  Main,       \* the thread that fills the list before the workers start
  Desc,       \* transaction descriptors the workers can allocate
  PreDesc,    \* stands for the descriptors of the prefill transactions
  DIMENSION,
  Base,       \* the coordinates of a key are its digits to this base
  Key,        \* the keys in use
  MaxOps,     \* bound on the size of a transaction
  OpArrays,   \* operation arrays given to ExecuteOps
  Prefills,   \* the sets of keys the list may hold at the start
  m_head,
  Null        \* the null pointer

Dim == 0..(DIMENSION - 1)
OpTypes == {"FIND", "INSERT", "DELETE"}
Operator == [type : OpTypes, key : Key]

ASSUME ConstantsAssumption ==
  /\ DIMENSION \in Nat \ {0} /\ Base \in Nat \ {0, 1}
  /\ Key \subseteq Nat \ {0}
  /\ MaxOps \in Nat \ {0}
  /\ Main \notin Thread /\ PreDesc \notin Desc
  /\ \A o \in OpArrays : o \in Seq(Operator) /\ Len(o) \in 1..MaxOps
  /\ \A S \in Prefills : S \subseteq Key

AllDesc == Desc \union {PreDesc}

\* The NodeDesc and the Node that a thread allocates for an operation of a
\* descriptor are named by the three of them.
NodeDesc == [by : Thread, desc : Desc, opid : 1..MaxOps]
              \union [by : {Main}, desc : {PreDesc}, opid : Key]
Node == NodeDesc \union {m_head}

ASSUME NullAssumption == {m_head, Null} \cap NodeDesc = {} /\ m_head # Null

\* A pointer with the bits ADPINV and DELINV.
Ptr == [n : Node \union {Null}, adp : BOOLEAN, del : BOOLEAN]
To(n) == [n |-> n, adp |-> FALSE, del |-> FALSE]
Invalid == [n |-> Null, adp |-> TRUE, del |-> FALSE]

NoTask == [curr |-> Null, pred_dim |-> 0, dim |-> 0]
AdoptDesc == [curr : Node, pred_dim : Dim, dim : 0..DIMENSION] \union {NoTask}

VARIABLES
  child,    \* child[n][i]: n->m_child[i]
  pending,  \* n->m_pending, NoTask for the null pointer
  nd,       \* nd[n]: n->nodeDesc without its mark
  ndmark,   \* the mark of n->nodeDesc
  ops,      \* ops[d]: desc->ops, <<>> before the descriptor is allocated
  status,   \* desc->status
  pstatus,  \* desc->persistStatus
  stack,    \* stack[t]: descriptors of the HelpOps calls of t, the helpStack
  fr        \* fr[t][d]: the locals of the call of t for d

heap == <<child, pending, nd, ndmark>>
vars == <<child, pending, nd, ndmark, ops, status, pstatus, stack, fr>>

Labels == {"loop", "pending", "child", "give", "reread", "copy", "clear", "slot", "read",
           "invalidate", "help", "cycle", "exist", "active", "update", "absent",
           "link", "adopt", "decide", "claim", "persist", "marknode", "markedge",
           "null"}

\* What HelpOps remembers of an operation, for MarkForDeletion.
Done == [n : Node, pred : Node, pred_dim : Dim]

Frame == [pc       : Labels,
          opid     : 1..(MaxOps + 1),
          ret      : BOOLEAN,             \* not FAIL
          ins      : Seq(Done),
          del      : Seq(Done),
          todo     : Seq(Done),           \* MarkForDeletion: what is left of one of them
          curr     : Node \union {Null},
          dim      : 0..DIMENSION,
          pred     : Node \union {Null},
          pred_dim : Dim,
          old      : NodeDesc \union {Null},     \* oldCurrDesc
          slot     : Ptr,                        \* pred_child
          n        : Node \union {Null},         \* FinishInserting: the new node
          task     : AdoptDesc,                  \* and its desc,
          i        : 0..DIMENSION,               \* the dimension it is at,
          value    : Ptr,                        \* and child
          back     : {"return", "exist", "child", "adopt", "done"}]

NewFrame(i) ==
  [pc |-> "loop", opid |-> i, ret |-> TRUE, ins |-> <<>>, del |-> <<>>,
   todo |-> <<>>, curr |-> m_head, dim |-> 0, pred |-> Null, pred_dim |-> 0,
   old |-> Null, slot |-> To(Null), n |-> Null, task |-> NoTask, i |-> 0,
   value |-> To(Null), back |-> "return"]

TypeOK ==
  /\ child \in [Node -> [Dim -> Ptr]]
  /\ pending \in [Node -> AdoptDesc]
  /\ nd \in [NodeDesc -> NodeDesc]
  /\ ndmark \in [NodeDesc -> BOOLEAN]
  /\ ops \in [Desc -> OpArrays \union {<<>>}]
  /\ status \in [AllDesc -> {"ACTIVE", "COMMITTED", "ABORTED"}]
  /\ pstatus \in [AllDesc -> {"MAYBE", "IN_PROGRESS", "PERSISTED"}]
  /\ stack \in [Thread -> Seq(Desc)]
  /\ fr \in [Thread -> [Desc -> Frame]]

-----------------------------------------------------------------------------
(* Keys, coordinates, and what a NodeDesc stands for.                      *)

\* Shifted[k][j]: the key k without its last j digits.
Shifted == [k \in Key \union {0} |->
  LET shifted[j \in 0..DIMENSION] == IF j = 0 THEN k ELSE shifted[j - 1] \div Base
  IN  shifted]

\* A key has no more digits than there are dimensions.
ASSUME KeyAssumption == \A k \in Key : Shifted[k][DIMENSION] = 0

\* KeyToCoord: coordinate 0 is the most significant digit.
Coord(k, i) == Shifted[k][DIMENSION - 1 - i] % Base

KeyOf(n) == IF n = m_head THEN 0
            ELSE IF n.desc = PreDesc THEN n.opid ELSE ops[n.desc][n.opid].key

\* The first dimension from i on in which two keys differ.
FirstDiff(k, l, i) ==
  LET D == {j \in Dim : j >= i /\ Coord(k, j) # Coord(l, j)}
  IN  IF D = {} THEN DIMENSION ELSE Min(D)

OpType(c) == IF c.desc = PreDesc THEN "INSERT" ELSE ops[c.desc][c.opid].type

IsNodeActive(c) == status[c.desc] = "COMMITTED" /\ pstatus[c.desc] = "PERSISTED"

KeyExists(c, active) ==
  \/ OpType(c) = "FIND"
  \/ active /\ OpType(c) = "INSERT"
  \/ ~active /\ OpType(c) = "DELETE"

IsKeyExist(c) == KeyExists(c, IsNodeActive(c))

\* A transaction sees its own earlier operations as done.
IsKeyExist_mod(c, d) == KeyExists(c, IsNodeActive(c) \/ c.desc = d)

-----------------------------------------------------------------------------
(* The call of HelpOps that thread t runs.                                 *)

Busy(t) == stack[t] # <<>>
Top(t) == Last(stack[t])
Fr(t) == fr[t][Top(t)]
At(t, label) == Busy(t) /\ Fr(t).pc = label
Op(t) == ops[Top(t)][Fr(t).opid]
Mine(t) == [by |-> t, desc |-> Top(t), opid |-> Fr(t).opid]

SetFrame(t, f) == fr' = [fr EXCEPT ![t][Top(t)] = f]
GoTo(t, label) == SetFrame(t, [Fr(t) EXCEPT !.pc = label])

\* The running operation returns to HelpOps, FAIL unless r.
Finished(f, r) == [NewFrame(f.opid + 1) EXCEPT !.ret = r, !.ins = f.ins, !.del = f.del]

\* It has changed node n, which MarkForDeletion may have to take back or remove.
FinishedAt(f, type, n) ==
  LET g == Finished(f, TRUE)
      x == [n |-> n, pred |-> f.pred, pred_dim |-> f.pred_dim]
  IN  CASE type = "FIND"   -> g
        [] type = "INSERT" -> [g EXCEPT !.ins = Append(@, x)]
        [] type = "DELETE" -> [g EXCEPT !.del = Append(@, x)]

Return(t) ==
  /\ stack' = [stack EXCEPT ![t] = Front(@)]
  /\ SetFrame(t, NewFrame(1))

-----------------------------------------------------------------------------
\* A list that the prefill has built in ascending order.  Key k hangs, in the
\* dimension d in which it differs from the largest smaller key, on the first
\* node that has that key's coordinates up to d.
Linked(S) ==
  LET at(k) == IF k = 0 THEN m_head ELSE [by |-> Main, desc |-> PreDesc, opid |-> k]
      below(k) == Max({l \in S \union {0} : l < k})
      dim(k) == FirstDiff(k, below(k), 0)
      parent(k) == Min({l \in S \union {0} : FirstDiff(l, below(k), 0) > dim(k)})
  IN  [n \in Node |-> [i \in Dim |->
         IF n = m_head \/ (n.desc = PreDesc /\ n.opid \in S)
         THEN IF n # m_head /\ i < dim(n.opid) THEN Invalid
              ELSE LET C == {k \in S : dim(k) = i /\ parent(k) = KeyOf(n)}
                   IN  To(IF C = {} THEN Null ELSE at(CHOOSE k \in C : TRUE))
         ELSE To(Null)]]

Init ==
  /\ ops = [d \in Desc |-> <<>>]
  /\ \E S \in Prefills : child = Linked(S)
  /\ pending = [n \in Node |-> NoTask]
  /\ nd = [n \in NodeDesc |-> n]
  /\ ndmark = [n \in NodeDesc |-> FALSE]
  /\ status = [d \in AllDesc |-> IF d = PreDesc THEN "COMMITTED" ELSE "ACTIVE"]
  /\ pstatus = [d \in AllDesc |-> IF d = PreDesc THEN "PERSISTED" ELSE "MAYBE"]
  /\ stack = [t \in Thread |-> <<>>]
  /\ fr = [t \in Thread |-> [d \in Desc |-> NewFrame(1)]]

-----------------------------------------------------------------------------
(* LocatePred.                                                             *)

\* Where LocatePred goes on from f.curr in dimension f.dim, and its caller once
\* it has returned.
Locating(f, op) ==
  LET k == op.key
      d == IF f.curr = Null THEN f.dim ELSE FirstDiff(k, KeyOf(f.curr), f.dim)
      g == [f EXCEPT !.dim = d]
      passes == f.curr # Null /\ d < DIMENSION /\ Coord(k, d) > Coord(KeyOf(f.curr), d)
  IN  CASE passes -> [g EXCEPT !.pc = "pending", !.pred = f.curr, !.pred_dim = d]
        [] ~passes /\ op.type = "INSERT" -> [g EXCEPT !.pc = "slot"]
        [] ~passes /\ op.type # "INSERT" ->
             IF d = DIMENSION THEN [g EXCEPT !.pc = "read"] ELSE Finished(f, FALSE)

\* The adoptDesc of FillNewNode: what curr has below its new place.
OwnTask(f) == IF f.pred_dim = f.dim THEN NoTask
              ELSE [curr |-> f.curr, pred_dim |-> f.pred_dim, dim |-> f.dim]

\* FinishInserting(n, task) starts.
Adopting(f, n, task, back) ==
  [f EXCEPT !.pc = "give", !.n = n, !.task = task, !.i = task.pred_dim, !.back = back]

ExecuteOps(t) ==
  /\ ~Busy(t)
  /\ \E d \in Desc, o \in OpArrays :
       /\ ops[d] = <<>>
       /\ ops' = [ops EXCEPT ![d] = o]
       /\ stack' = [stack EXCEPT ![t] = <<d>>]
  /\ UNCHANGED <<heap, status, pstatus, fr>>

OpLoop(t) ==
  /\ At(t, "loop")
  /\ LET d == Top(t)
         f == Fr(t)
         more == status[d] = "ACTIVE" /\ f.ret /\ f.opid <= Len(ops[d])
     IN  SetFrame(t, IF more THEN Locating(f, Op(t)) ELSE [f EXCEPT !.pc = "decide"])
  /\ UNCHANGED <<heap, ops, status, pstatus, stack>>

\* Mutant: the task of a node that is passed is left to its own thread.
HelpsTask_Never(f, task) == FALSE

HelpsTask(f, task) ==
  task # NoTask /\ f.dim >= task.pred_dim /\ f.dim <= task.dim

ReadPending(t) ==
  /\ At(t, "pending")
  /\ LET f == Fr(t)
         task == pending[f.curr]
     IN  SetFrame(t, IF HelpsTask(f, task) THEN Adopting(f, f.curr, task, "child")
                     ELSE [f EXCEPT !.pc = "child"])
  /\ UNCHANGED <<heap, ops, status, pstatus, stack>>

ReadChild(t) ==
  /\ At(t, "child")
  /\ LET f == Fr(t)
     IN  SetFrame(t, Locating([f EXCEPT !.curr = child[f.curr][f.dim].n], Op(t)))
  /\ UNCHANGED <<heap, ops, status, pstatus, stack>>

-----------------------------------------------------------------------------
(* FinishInserting(f.n, f.task).                                           *)

\* The next dimension of the loop, or what follows it.
NextGiven(f) ==
  LET g == [f EXCEPT !.i = @ + 1]
  IN  [g EXCEPT !.pc = IF g.i < f.task.dim THEN "give" ELSE "clear"]

\* The slot of the old node is closed,
GiveChild(t) ==
  /\ At(t, "give")
  /\ child' = [child EXCEPT ![Fr(t).task.curr][Fr(t).i].adp = TRUE]
  /\ GoTo(t, "reread")
  /\ UNCHANGED <<pending, nd, ndmark, ops, status, pstatus, stack>>

\* and read again.
RereadChild(t) ==
  /\ At(t, "reread")
  /\ LET f == Fr(t)
         value == [child[f.task.curr][f.i] EXCEPT !.adp = FALSE]
     IN  SetFrame(t, IF value = To(Null) THEN NextGiven(f)
                     ELSE [f EXCEPT !.pc = "copy", !.value = value])
  /\ UNCHANGED <<heap, ops, status, pstatus, stack>>

CanAdopt(n, i) == child[n][i] = To(Null)

CopyChild(t) ==
  /\ At(t, "copy")
  /\ LET f == Fr(t)
     IN  /\ child' = IF CanAdopt(f.n, f.i) THEN [child EXCEPT ![f.n][f.i] = f.value]
                     ELSE child
         /\ SetFrame(t, [NextGiven(f) EXCEPT !.value = To(Null)])
  /\ UNCHANGED <<pending, nd, ndmark, ops, status, pstatus, stack>>

\* The task is done; FinishInserting returns.
ClearPending(t) ==
  /\ At(t, "clear")
  /\ LET f == Fr(t)
         g == [f EXCEPT !.n = Null, !.task = NoTask, !.i = 0, !.back = "return"]
     IN  /\ pending' = [pending EXCEPT ![f.n] = IF @ = f.task THEN NoTask ELSE @]
         /\ SetFrame(t,
              CASE f.back = "child" -> [g EXCEPT !.pc = "child"]
                [] f.back = "adopt" -> Adopting(g, Mine(t), OwnTask(f), "done")
                [] f.back = "done"  -> FinishedAt(f, "INSERT", Mine(t)))
  /\ UNCHANGED <<child, nd, ndmark, ops, status, pstatus, stack>>

-----------------------------------------------------------------------------
(* An operation at the place of its key: Insert looks at the pointer that  *)
(* leads there, the others only at the node.                               *)

ReadSlot(t) ==
  /\ At(t, "slot")
  /\ LET f == Fr(t)
         c == child[f.pred][f.pred_dim]
     IN  SetFrame(t, [f EXCEPT !.slot = c,
              !.pc = IF f.dim = DIMENSION /\ ~c.del THEN "read" ELSE "absent"])
  /\ UNCHANGED <<heap, ops, status, pstatus, stack>>

\* A marked node is as good as absent.  An Insert that has come back from
\* Invalidate may have the head for curr, which has no NodeDesc: the process
\* reads through a null pointer and is gone.
ReadNodeDesc(t) ==
  /\ At(t, "read")
  /\ LET f == Fr(t)
     IN  IF f.curr = m_head THEN GoTo(t, "null")
         ELSE LET c == nd[f.curr]
              IN  SetFrame(t,
                    IF ndmark[f.curr]
                    THEN IF Op(t).type = "INSERT" THEN [f EXCEPT !.pc = "invalidate"]
                         ELSE Finished(f, FALSE)
                    ELSE [f EXCEPT !.old = c,
                            !.pc = IF c.desc = Top(t) THEN "exist" ELSE "help"])
  /\ UNCHANGED <<heap, ops, status, pstatus, stack>>

\* Insert sets DELINV on whatever the slot holds by now, and goes on from the
\* head without resetting the dimension.
Invalidate(t) ==
  /\ At(t, "invalidate")
  /\ LET f == Fr(t)
     IN  /\ child' = [child EXCEPT ![f.pred][f.pred_dim].del = TRUE]
         /\ SetFrame(t, Locating([f EXCEPT !.curr = m_head], Op(t)))
  /\ UNCHANGED <<pending, nd, ndmark, ops, status, pstatus, stack>>

\* FinishPendingTxn, up to the loop of the HelpOps that it calls.
FinishPendingTxn(t) ==
  /\ At(t, "help")
  /\ LET c == Fr(t).old
         e == c.desc
         settled == status[e] # "ACTIVE" /\ pstatus[e] = "PERSISTED"
     IN  \/ /\ settled
            /\ GoTo(t, "exist")
            /\ UNCHANGED stack
         \/ /\ ~settled /\ Contains(stack[t], e)
            /\ GoTo(t, "cycle")
            /\ UNCHANGED stack
         \/ /\ ~settled /\ ~Contains(stack[t], e)
            /\ stack' = [stack EXCEPT ![t] = Append(@, e)]
            /\ fr' = [fr EXCEPT ![t] = [@ EXCEPT ![Top(t)].pc = "exist",
                                                ![e] = NewFrame(c.opid + 1)]]
  /\ UNCHANGED <<heap, ops, status, pstatus>>

\* The cyclic dependency check: abort the transaction that waits for itself.
CycleAbort(t) ==
  /\ At(t, "cycle")
  /\ LET e == Fr(t).old.desc
     IN  status' = [status EXCEPT ![e] = IF @ = "ACTIVE" THEN "ABORTED" ELSE @]
  /\ SetFrame(t, [Fr(t) EXCEPT !.pc = "claim", !.back = "exist"])
  /\ UNCHANGED <<heap, ops, pstatus, stack>>

CheckKeyExist(t) ==
  /\ At(t, "exist")
  /\ LET f == Fr(t)
         c == f.old
         same == c.desc = Top(t) /\ c.opid = f.opid
     IN  SetFrame(t,
           IF same THEN Finished(f, TRUE)
           ELSE IF IsKeyExist_mod(c, Top(t)) = (Op(t).type = "INSERT")
           THEN Finished(f, FALSE)
           ELSE [f EXCEPT !.pc = "active"])
  /\ UNCHANGED <<heap, ops, status, pstatus, stack>>

CheckActive(t) ==
  /\ At(t, "active")
  /\ SetFrame(t, IF status[Top(t)] # "ACTIVE" THEN Finished(Fr(t), FALSE)
                 ELSE [Fr(t) EXCEPT !.pc = "update"])
  /\ UNCHANGED <<heap, ops, status, pstatus, stack>>

CanTake(n, old) == nd[n] = old /\ ~ndmark[n]

UpdateDesc(t) ==
  /\ At(t, "update")
  /\ LET f == Fr(t)
     IN  IF CanTake(f.curr, f.old)
         THEN /\ nd' = [nd EXCEPT ![f.curr] = Mine(t)]
              /\ SetFrame(t, FinishedAt(f, Op(t).type, f.curr))
         ELSE /\ SetFrame(t, Locating([f EXCEPT !.old = Null], Op(t)))
              /\ UNCHANGED nd
  /\ UNCHANGED <<child, pending, ndmark, ops, status, pstatus, stack>>

-----------------------------------------------------------------------------
(* Insert of a key that no node holds, or in the place of a deleted node.  *)

\* Mutant: an invalid slot is tried again where it is.
Retry_Stay(f, op, v) ==
  Locating(IF ~v.adp /\ v.n # f.curr
           THEN [f EXCEPT !.curr = f.pred, !.dim = f.pred_dim] ELSE f, op)

\* The place is looked for again after the slot was found to hold v.
Retry(f, op, v) ==
  Locating(
    IF v.adp
    THEN [f EXCEPT !.pred = Null, !.curr = m_head, !.dim = 0, !.pred_dim = 0]
    ELSE IF v.n # f.curr THEN [f EXCEPT !.curr = f.pred, !.dim = f.pred_dim]
    ELSE f, op)

Expected(f) == [To(f.curr) EXCEPT !.del = f.slot.del]

\* A deleted node in the last dimension is not linked again.
InsertAbsent(t) ==
  /\ At(t, "absent")
  /\ LET f == Fr(t)
         g == IF f.slot.del /\ f.dim = DIMENSION - 1
              THEN [f EXCEPT !.dim = DIMENSION] ELSE f
     IN  SetFrame(t,
           IF status[Top(t)] # "ACTIVE" THEN Finished(f, FALSE)
           ELSE IF f.slot = Expected(f) THEN [g EXCEPT !.pc = "link"]
           ELSE Retry(g, Op(t), f.slot))
  /\ UNCHANGED <<heap, ops, status, pstatus, stack>>

\* Mutant: curr becomes the child in the dimension of the parent's slot.
NewChildren_Swapped(f) ==
  [i \in Dim |-> IF i < f.pred_dim THEN Invalid
                 ELSE IF i = f.pred_dim THEN Expected(f) ELSE To(Null)]

\* FillNewNode: the slots below the node's own dimension are invalid, and curr
\* becomes its child unless it is overridden.
NewChildren(f) ==
  [i \in Dim |-> IF i < f.pred_dim THEN Invalid
                 ELSE IF i = f.dim THEN Expected(f) ELSE To(Null)]

InsertLink(t) ==
  /\ At(t, "link")
  /\ LET f == Fr(t)
         c == child[f.pred][f.pred_dim]
         g == [f EXCEPT !.slot = To(Null)]
     IN  IF c = Expected(f)
         THEN /\ child' = [child EXCEPT ![f.pred][f.pred_dim] = To(Mine(t)),
                                       ![Mine(t)] = NewChildren(f)]
              /\ pending' = [pending EXCEPT ![Mine(t)] = OwnTask(f)]
              /\ SetFrame(t, IF OwnTask(f) = NoTask
                             THEN FinishedAt(f, "INSERT", Mine(t))
                             ELSE [g EXCEPT !.pc = "adopt"])
         ELSE /\ SetFrame(t, Retry(g, Op(t), c))
              /\ UNCHANGED <<child, pending>>
  /\ UNCHANGED <<nd, ndmark, ops, status, pstatus, stack>>

TaskBelow(f) == pending[f.curr]

\* The new node adopts after the node below it has.
AdoptBelow(t) ==
  /\ At(t, "adopt")
  /\ LET f == Fr(t)
     IN  SetFrame(t, IF TaskBelow(f) # NoTask
                     THEN Adopting(f, f.curr, TaskBelow(f), "adopt")
                     ELSE Adopting(f, Mine(t), OwnTask(f), "done"))
  /\ UNCHANGED <<heap, ops, status, pstatus, stack>>

-----------------------------------------------------------------------------
(* The end of HelpOps: decide, persist, and MarkForDeletion.               *)

Verdict(f) == IF f.ret THEN "COMMITTED" ELSE "ABORTED"

\* The nodes to mark: what a commit deletes, what an abort has inserted.
ToMark(f) == IF f.ret THEN f.del ELSE f.ins

DecideTxn(t) ==
  /\ At(t, "decide")
  /\ LET d == Top(t)
         f == Fr(t)
     IN  \/ /\ status[d] = "ACTIVE"
            /\ status' = [status EXCEPT ![d] = Verdict(f)]
            /\ SetFrame(t, [f EXCEPT !.pc = "claim", !.todo = ToMark(f),
                                     !.ins = <<>>, !.del = <<>>])
            /\ UNCHANGED stack
         \/ /\ status[d] # "ACTIVE"
            /\ Return(t)
            /\ UNCHANGED status
  /\ UNCHANGED <<heap, ops, pstatus>>

\* The descriptor that persistDesc is called for.
PersistTarget(t) == IF Fr(t).back = "exist" THEN Fr(t).old.desc ELSE Top(t)

\* MarkForDeletion, from the first node of todo on.
Marking(t, todo) ==
  IF todo = <<>> THEN Return(t)
  ELSE SetFrame(t, [Fr(t) EXCEPT !.pc = "marknode", !.todo = todo]) /\ UNCHANGED stack

EndPersist(t) ==
  IF Fr(t).back = "exist"
  THEN SetFrame(t, [Fr(t) EXCEPT !.pc = "exist", !.back = "return"]) /\ UNCHANGED stack
  ELSE Marking(t, Fr(t).todo)

\* persistStatus: MAYBE -> IN_PROGRESS, or join whoever did that.
PersistClaim(t) ==
  /\ At(t, "claim")
  /\ LET e == PersistTarget(t)
     IN  IF pstatus[e] = "PERSISTED"
         THEN EndPersist(t) /\ UNCHANGED pstatus
         ELSE /\ GoTo(t, "persist")
              /\ pstatus' = [pstatus EXCEPT ![e] = "IN_PROGRESS"]
              /\ UNCHANGED stack
  /\ UNCHANGED <<heap, ops, status>>

persistDesc(t) ==
  /\ At(t, "persist")
  /\ pstatus' = [pstatus EXCEPT ![PersistTarget(t)] = "PERSISTED"]
  /\ EndPersist(t)
  /\ UNCHANGED <<heap, ops, status>>

MarkNode(t) ==
  /\ At(t, "marknode")
  /\ LET n == Head(Fr(t).todo).n
     IN  IF nd[n].desc = Top(t) /\ ~ndmark[n]
         THEN /\ ndmark' = [ndmark EXCEPT ![n] = TRUE]
              /\ GoTo(t, "markedge")
              /\ UNCHANGED stack
         ELSE /\ Marking(t, Tail(Fr(t).todo))
              /\ UNCHANGED ndmark
  /\ UNCHANGED <<child, pending, nd, ops, status, pstatus>>

MarkEdge(t) ==
  /\ At(t, "markedge")
  /\ LET x == Head(Fr(t).todo)
     IN  child' = IF child[x.pred][x.pred_dim] = To(x.n)
                  THEN [child EXCEPT ![x.pred][x.pred_dim].del = TRUE] ELSE child
  /\ Marking(t, Tail(Fr(t).todo))
  /\ UNCHANGED <<pending, nd, ndmark, ops, status, pstatus>>

-----------------------------------------------------------------------------
Step(t) ==       \* thread t goes on with its transaction
  \/ OpLoop(t) \/ ReadPending(t) \/ ReadChild(t)
  \/ GiveChild(t) \/ RereadChild(t) \/ CopyChild(t) \/ ClearPending(t)
  \/ ReadSlot(t) \/ ReadNodeDesc(t) \/ Invalidate(t)
  \/ FinishPendingTxn(t) \/ CycleAbort(t)
  \/ CheckKeyExist(t) \/ CheckActive(t) \/ UpdateDesc(t)
  \/ InsertAbsent(t) \/ InsertLink(t) \/ AdoptBelow(t)
  \/ DecideTxn(t) \/ PersistClaim(t) \/ persistDesc(t)
  \/ MarkNode(t) \/ MarkEdge(t)

\* A thread has read through a null pointer: the process is gone.
Died == \E t \in Thread : At(t, "null")

Terminated ==
  /\ Died \/ ((\A d \in Desc : ops[d] # <<>>) /\ (\A t \in Thread : ~Busy(t)))
  /\ UNCHANGED vars

Next == (~Died /\ \E t \in Thread : ExecuteOps(t) \/ Step(t)) \/ Terminated

Spec == Init /\ [][Next]_vars
=============================================================================
