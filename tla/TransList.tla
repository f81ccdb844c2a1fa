----------------------------- MODULE TransList -----------------------------
(***************************************************************************)
(* The transactional linked list, lftt/list/translist.cc.                  *)
(*                                                                         *)
(* A transaction is a descriptor (Desc) that carries an array of           *)
(* operations and a status.  A node of the list points to the NodeDesc     *)
(* <descriptor, operation> that touched it last, and whether the node's    *)
(* key is in the set follows from the status of that descriptor.  A thread *)
(* that meets a node of another undecided transaction finishes that        *)
(* transaction first (HelpOps, recursively), so a thread runs a stack of   *)
(* HelpOps frames.  One action is one access to shared memory: a read, a   *)
(* compare-and-swap or a fetch-or, with the local steps around it.         *)
(*                                                                         *)
(* Memory is sequentially consistent: the build targets x86, and every     *)
(* write to a shared field is a __sync operation, except the two stores of *)
(* persistDesc, which an atomic read-modify-write precedes.                *)
(*                                                                         *)
(* Left out: the g_count metrics, and the fields of a node or NodeDesc     *)
(* that is not linked yet, which no other thread can see.                  *)
(***************************************************************************)
EXTENDS Naturals, FiniteSets, SequencesExt

CONSTANTS
  Thread,     \* worker threads
  Main,       \* the thread that fills the list before the workers start
  Desc,       \* transaction descriptors the workers can allocate
  PreDesc,    \* stands for the descriptors of the prefill transactions
  MaxKey,     \* keys are 1..MaxKey (head holds 0, tail the largest key)
  MaxOps,     \* bound on the size of a transaction
  OpArrays,   \* operation arrays given to ExecuteOps
  Prefills,   \* the sets of keys the list may hold when the workers start
  m_head, m_tail, \* the sentinel nodes
  Null,       \* the null pointer
  Persist     \* TRUE: ENABLE_PERSISTENCE (dtx.h); FALSE: as translist_original.cc

Key == 1..MaxKey

OpTypes == {"FIND", "INSERT", "DELETE"}
Operator == [type : OpTypes, key : Key]

ASSUME ConstantsAssumption ==
  /\ MaxKey \in Nat \ {0}
  /\ MaxOps \in Nat \ {0}
  /\ Persist \in BOOLEAN
  /\ Main \notin Thread
  /\ PreDesc \notin Desc
  /\ \A o \in OpArrays : o \in Seq(Operator) /\ Len(o) \in 1..MaxOps
  /\ \A S \in Prefills : S \subseteq Key

AllDesc == Desc \union {PreDesc}

\* A thread runs an operation of a descriptor at most once, so the thread,
\* the descriptor and the operation identify both the NodeDesc and the Node
\* that the run allocates: pointers are compared as these records.
NodeDesc == [by : Thread, desc : Desc, opid : 1..MaxOps]
              \union [by : {Main}, desc : {PreDesc}, opid : Key]
Node == NodeDesc \union {m_head, m_tail}

ASSUME NullAssumption ==
  /\ m_head # m_tail
  /\ {m_head, m_tail} \cap NodeDesc = {}
  /\ Null \notin Node

VARIABLES
  next,      \* next[n]: the successor of node n, without its mark
  marked,    \* marked[n]: the mark bit of n->next
  nd,        \* nd[n]: n->nodeDesc, without its mark
  ndmark,    \* ndmark[n]: the mark bit of n->nodeDesc
  ops,       \* ops[d]: desc->ops, <<>> before the descriptor is allocated
  status,    \* desc->status
  pstatus,   \* desc->persistStatus
  txid,      \* desc->txid
  lastTxId,  \* the counter that persistDesc draws txid from
  stack,     \* stack[t]: descriptors of the HelpOps frames of t, the helpStack
  fr         \* fr[t][d]: the locals of the frame of t for d

heap    == <<next, marked, nd, ndmark>>
persist == <<pstatus, txid, lastTxId>>
vars    == <<next, marked, nd, ndmark, ops, status, pstatus, txid, lastTxId,
             stack, fr>>

Labels == {"loop", "next", "skip", "unlink", "absent", "link", "read",
           "helpmark", "help", "cycle", "exist", "active", "update",
           "decide", "claim", "ticket", "store", "persisted",
           "marklist", "markdesc", "marknode", "unlinknode"}

\* A node touched by an operation with the predecessor it was found at.
Entry == [node : NodeDesc, pred : Node]

Frame == [pc   : Labels,                    \* the next access to shared memory
          opid : 1..(MaxOps + 1),
          ret  : {"OK", "SKIP", "FAIL"},
          pred : Node,
          curr : Node,
          pnext: Node,                      \* pred_next of LocatePred
          old  : NodeDesc \union {Null},    \* oldCurrDesc
          ins  : Seq(Entry),                \* insNodes with insPredNodes
          del  : Seq(Entry),                \* delNodes with delPredNodes
          todo : Seq(Entry),                \* nodes, preds of MarkForDeletion
          tkt  : Nat,                       \* value of lastTxId++
          back : {"marklist", "exist"}]     \* where persistDesc returns to

NewFrame(i) ==
  [pc |-> "loop", opid |-> i, ret |-> "OK", pred |-> m_head, curr |-> m_head,
   pnext |-> m_head, old |-> Null, ins |-> <<>>, del |-> <<>>, todo |-> <<>>,
   tkt |-> 0, back |-> "marklist"]

\* The tail's NULL successor is written m_tail; the code never follows it.
TypeOK ==
  /\ next \in [Node -> Node]
  /\ marked \in [Node -> BOOLEAN]
  /\ nd \in [NodeDesc -> NodeDesc]
  /\ ndmark \in [NodeDesc -> BOOLEAN]
  /\ ops \in [Desc -> OpArrays \union {<<>>}]
  /\ status \in [AllDesc -> {"ACTIVE", "COMMITTED", "ABORTED"}]
  /\ pstatus \in [AllDesc -> {"MAYBE", "IN_PROGRESS", "PERSISTED"}]
  /\ txid \in [AllDesc -> Nat]
  /\ lastTxId \in Nat
  /\ stack \in [Thread -> Seq(Desc)]
  /\ fr \in [Thread -> [Desc -> Frame]]

-----------------------------------------------------------------------------
(* The operation and the key a node or NodeDesc stands for.                *)

OpType(c) == IF c.desc = PreDesc THEN "INSERT" ELSE ops[c.desc][c.opid].type

KeyOf(n) ==
  CASE n = m_head -> 0
    [] n = m_tail -> MaxKey + 1
    [] OTHER    -> IF n.desc = PreDesc THEN n.opid ELSE ops[n.desc][n.opid].key

Persisted(d) == Persist => pstatus[d] = "PERSISTED"

\* The effect of transaction c.desc counts for a reader of its nodes.
IsNodeActive(c) == status[c.desc] = "COMMITTED" /\ Persisted(c.desc)

KeyExists(c, active) ==
  \/ OpType(c) = "FIND"
  \/ active /\ OpType(c) = "INSERT"
  \/ ~active /\ OpType(c) = "DELETE"

IsKeyExist(c) == KeyExists(c, IsNodeActive(c))

\* Mutant: the outcome of the transaction that inserted is not looked at.
IsKeyExist_mod_AnyOutcome(c, d) == OpType(c) # "DELETE"

\* A transaction sees its own earlier operations as done.
IsKeyExist_mod(c, d) == KeyExists(c, IsNodeActive(c) \/ c.desc = d)

-----------------------------------------------------------------------------
(* The frame that thread t runs.                                           *)

Busy(t) == stack[t] # <<>>
Top(t) == Last(stack[t])
Fr(t) == fr[t][Top(t)]
At(t, label) == Busy(t) /\ Fr(t).pc = label
Op(t) == ops[Top(t)][Fr(t).opid]

\* The NodeDesc that the running operation allocates.
Mine(t) == [by |-> t, desc |-> Top(t), opid |-> Fr(t).opid]

SetFrame(t, f) == fr' = [fr EXCEPT ![t][Top(t)] = f]
GoTo(t, label) == SetFrame(t, [Fr(t) EXCEPT !.pc = label])

\* The running operation returns r to HelpOps; its locals die.
Finished(f, r) ==
  [f EXCEPT !.pc = "loop", !.opid = @ + 1, !.ret = r,
            !.pred = m_head, !.curr = m_head, !.pnext = m_head, !.old = Null]

\* HelpOps returns: the frame dies and its caller, if any, goes on.
Return(t) ==
  /\ stack' = [stack EXCEPT ![t] = Front(@)]
  /\ SetFrame(t, NewFrame(1))

-----------------------------------------------------------------------------
\* The list of prefill nodes with the keys of S, m_head before all of them.
Linked(S) ==
  LET at(k) == [by |-> Main, desc |-> PreDesc, opid |-> k]
      IsNext(k, j) == j > k /\ \A i \in S : i > k => j <= i
      after(k) == IF \E j \in S : IsNext(k, j)
                  THEN at(CHOOSE j \in S : IsNext(k, j)) ELSE m_tail
  IN  [n \in Node |-> IF n = m_head THEN after(0)
                      ELSE IF n \in NodeDesc /\ n.desc = PreDesc /\ n.opid \in S
                      THEN after(n.opid) ELSE m_tail]

Init ==
  /\ \E S \in Prefills : next = Linked(S)
  /\ marked = [n \in Node |-> FALSE]
  /\ nd = [n \in NodeDesc |-> n]
  /\ ndmark = [n \in NodeDesc |-> FALSE]
  /\ ops = [d \in Desc |-> <<>>]
  /\ status = [d \in AllDesc |-> IF d = PreDesc THEN "COMMITTED" ELSE "ACTIVE"]
  /\ pstatus = [d \in AllDesc |-> IF d = PreDesc /\ Persist
                                  THEN "PERSISTED" ELSE "MAYBE"]
  /\ txid = [d \in AllDesc |-> 0]
  /\ lastTxId = 1
  /\ stack = [t \in Thread |-> <<>>]
  /\ fr = [t \in Thread |-> [d \in Desc |-> NewFrame(1)]]

-----------------------------------------------------------------------------
(* ExecuteOps and the loop of HelpOps.                                     *)

\* A worker fills a descriptor (AllocateDesc) and runs it.
ExecuteOps(t) ==
  /\ ~Busy(t)
  /\ \E d \in Desc, o \in OpArrays :
       /\ ops[d] = <<>>
       /\ ops' = [ops EXCEPT ![d] = o]
       /\ stack' = [stack EXCEPT ![t] = <<d>>]
       /\ fr' = [fr EXCEPT ![t][d] = NewFrame(1)]
  /\ UNCHANGED <<heap, status, persist>>

\* The loop condition; an operation starts to locate its key at the head.
HelpLoop(t) ==
  /\ At(t, "loop")
  /\ LET d == Top(t)
         more == /\ status[d] = "ACTIVE"
                 /\ Fr(t).ret # "FAIL"
                 /\ Fr(t).opid <= Len(ops[d])
     IN  GoTo(t, IF more THEN "next" ELSE "decide")
  /\ UNCHANGED <<heap, ops, status, persist, stack>>

-----------------------------------------------------------------------------
(* LocatePred: walk to the key and unlink marked nodes on the way.         *)

\* pred := curr; pred_next := pred->next; curr := pred_next.
LocateNext(t) ==
  /\ At(t, "next")
  /\ LET f == Fr(t)
     IN  SetFrame(t, [f EXCEPT !.pc = "skip", !.pred = f.curr,
                               !.pnext = next[f.curr], !.curr = next[f.curr]])
  /\ UNCHANGED <<heap, ops, status, persist, stack>>

\* Mutant: the walk runs past the node of its key.
Arrived_Past(f, op) ==
  LET k == KeyOf(f.curr)
      g == [f EXCEPT !.pnext = m_head]
  IN  IF k <= op.key THEN [g EXCEPT !.pc = "next"]
      ELSE IF op.type = "INSERT" THEN [g EXCEPT !.pc = "absent"]
      ELSE Finished(g, "FAIL")

\* Where the walk goes from a curr that is not marked.  FIND and DELETE fail
\* at once when they have passed their key.
Arrived(f, op) ==
  LET k == KeyOf(f.curr)
      g == [f EXCEPT !.pnext = m_head]
  IN  IF k < op.key THEN [g EXCEPT !.pc = "next"]
      ELSE IF k = op.key THEN [g EXCEPT !.pc = "read"]
      ELSE IF op.type = "INSERT" THEN [g EXCEPT !.pc = "absent"]
      ELSE Finished(g, "FAIL")

\* while(IS_MARKED(curr->next)) curr = CLR_MARK(curr->next)
LocateSkip(t) ==
  /\ At(t, "skip")
  /\ LET f == Fr(t)
     IN  SetFrame(t, IF marked[f.curr] THEN [f EXCEPT !.curr = next[f.curr]]
                     ELSE IF f.curr # f.pnext THEN [f EXCEPT !.pc = "unlink"]
                     ELSE Arrived(f, Op(t)))
  /\ UNCHANGED <<heap, ops, status, persist, stack>>

\* Mutants: the compare-and-swap ignores the mark, or the expected pointer.
CanSwing_Marked(n, old) == next[n] = old
CanSwing_Blind(n, old) == ~marked[n]

\* A compare-and-swap of n->next from the unmarked pointer old succeeds.
CanSwing(n, old) == ~marked[n] /\ next[n] = old

LocateUnlink(t) ==
  /\ At(t, "unlink")
  /\ LET f == Fr(t)
     IN  \/ /\ CanSwing(f.pred, f.pnext)
            /\ next' = [next EXCEPT ![f.pred] = f.curr]
            /\ SetFrame(t, Arrived(f, Op(t)))
         \/ /\ ~CanSwing(f.pred, f.pnext)      \* start over from the head
            /\ SetFrame(t, [f EXCEPT !.pc = "next", !.curr = m_head])
            /\ UNCHANGED next
  /\ UNCHANGED <<marked, nd, ndmark, ops, status, persist, stack>>

-----------------------------------------------------------------------------
(* Insert of a key that no node holds.                                     *)

InsertAbsent(t) ==
  /\ At(t, "absent")
  /\ SetFrame(t, IF status[Top(t)] # "ACTIVE" THEN Finished(Fr(t), "FAIL")
                 ELSE [Fr(t) EXCEPT !.pc = "link"])
  /\ UNCHANGED <<heap, ops, status, persist, stack>>

InsertLink(t) ==
  /\ At(t, "link")
  /\ LET f == Fr(t)
         n == Mine(t)
     IN  \/ /\ CanSwing(f.pred, f.curr)
            /\ next' = [next EXCEPT ![n] = f.curr, ![f.pred] = n]
            /\ SetFrame(t, Finished([f EXCEPT !.ins = Append(@,
                                [node |-> n, pred |-> f.pred])], "OK"))
         \/ /\ ~CanSwing(f.pred, f.curr)
            /\ SetFrame(t, [f EXCEPT !.pc = "next",
                             !.curr = IF marked[f.pred] THEN m_head ELSE f.pred])
            /\ UNCHANGED next
  /\ UNCHANGED <<marked, nd, ndmark, ops, status, persist, stack>>

-----------------------------------------------------------------------------
(* An operation at the node of its key.                                    *)

ReadNodeDesc(t) ==
  /\ At(t, "read")
  /\ LET f == Fr(t)
         c == nd[f.curr]
     IN  SetFrame(t,
           IF ndmark[f.curr]
           THEN IF Op(t).type = "DELETE" THEN Finished(f, "FAIL")
                ELSE [f EXCEPT !.pc = "helpmark"]
           ELSE [f EXCEPT !.pc = IF c.desc = Top(t) THEN "exist" ELSE "help",
                          !.old = c])
  /\ UNCHANGED <<heap, ops, status, persist, stack>>

\* Mutant: wait for the deleting thread to mark the node.
HelpMark_Wait(t) ==
  /\ At(t, "helpmark")
  /\ SetFrame(t, [Fr(t) EXCEPT !.pc = "next", !.curr = m_head])
  /\ UNCHANGED <<heap, ops, status, persist, stack>>

\* The node is being deleted: mark its next pointer and start over.
HelpMark(t) ==
  /\ At(t, "helpmark")
  /\ marked' = [marked EXCEPT ![Fr(t).curr] = TRUE]
  /\ SetFrame(t, [Fr(t) EXCEPT !.pc = "next", !.curr = m_head])
  /\ UNCHANGED <<next, nd, ndmark, ops, status, persist, stack>>

\* Mutant: nobody is ever helped.
Settled_Always(e) == TRUE

\* HelpOps has nothing to do for e.
Settled(e) == status[e] # "ACTIVE" /\ Persisted(e)

\* FinishPendingTxn, up to the loop of the HelpOps that it calls.  The calls
\* return to "exist".
FinishPendingTxn(t) ==
  /\ At(t, "help")
  /\ LET c == Fr(t).old
         e == c.desc
     IN  \/ /\ Settled(e)
            /\ GoTo(t, "exist")
            /\ UNCHANGED stack
         \/ /\ ~Settled(e)
            /\ Contains(stack[t], e)
            /\ GoTo(t, "cycle")
            /\ UNCHANGED stack
         \/ /\ ~Settled(e)
            /\ ~Contains(stack[t], e)
            /\ stack' = [stack EXCEPT ![t] = Append(@, e)]
            /\ fr' = [fr EXCEPT ![t] = [@ EXCEPT ![Top(t)].pc = "exist",
                                                ![e] = NewFrame(c.opid + 1)]]
  /\ UNCHANGED <<heap, ops, status, persist>>

\* Mutant: the transaction is aborted and not persisted.
CycleAbort_Volatile(t) ==
  /\ At(t, "cycle")
  /\ LET e == Fr(t).old.desc
     IN  status' = [status EXCEPT ![e] = IF @ = "ACTIVE" THEN "ABORTED" ELSE @]
  /\ GoTo(t, "exist")
  /\ UNCHANGED <<heap, ops, persist, stack>>

\* The cyclic dependency check: abort the transaction that waits for itself.
CycleAbort(t) ==
  /\ At(t, "cycle")
  /\ LET e == Fr(t).old.desc
     IN  status' = [status EXCEPT ![e] = IF @ = "ACTIVE" THEN "ABORTED" ELSE @]
  /\ SetFrame(t, IF Persist THEN [Fr(t) EXCEPT !.pc = "claim", !.back = "exist"]
                 ELSE [Fr(t) EXCEPT !.pc = "exist"])
  /\ UNCHANGED <<heap, ops, persist, stack>>

CheckKeyExist(t) ==
  /\ At(t, "exist")
  /\ LET f == Fr(t)
         c == f.old
         same == c.desc = Top(t) /\ c.opid = f.opid
     IN  SetFrame(t,
           IF same THEN Finished(f, "SKIP")
           ELSE IF IsKeyExist_mod(c, Top(t)) = (Op(t).type = "INSERT")
           THEN Finished(f, "FAIL")
           ELSE [f EXCEPT !.pc = "active"])
  /\ UNCHANGED <<heap, ops, status, persist, stack>>

CheckActive(t) ==
  /\ At(t, "active")
  /\ SetFrame(t, IF status[Top(t)] # "ACTIVE" THEN Finished(Fr(t), "FAIL")
                 ELSE [Fr(t) EXCEPT !.pc = "update"])
  /\ UNCHANGED <<heap, ops, status, persist, stack>>

\* Mutant: the nodeDesc is stored without a comparison.
CanTake_Blind(n, old) == ~ndmark[n]

\* A compare-and-swap of n->nodeDesc from the unmarked pointer old succeeds.
CanTake(n, old) == ~ndmark[n] /\ nd[n] = old

\* Take the node over for this operation, if nobody has changed it.
UpdateDesc(t) ==
  /\ At(t, "update")
  /\ LET f == Fr(t)
         e == [node |-> f.curr, pred |-> f.pred]
     IN  \/ /\ CanTake(f.curr, f.old)
            /\ nd' = [nd EXCEPT ![f.curr] = Mine(t)]
            /\ SetFrame(t, Finished(
                  CASE Op(t).type = "INSERT" -> [f EXCEPT !.ins = Append(@, e)]
                    [] Op(t).type = "DELETE" -> [f EXCEPT !.del = Append(@, e)]
                    [] OTHER -> f, "OK"))
         \/ /\ ~CanTake(f.curr, f.old)
            /\ SetFrame(t, [f EXCEPT !.pc = "read", !.old = Null])
            /\ UNCHANGED nd
  /\ UNCHANGED <<next, marked, ndmark, ops, status, persist, stack>>

-----------------------------------------------------------------------------
(* The end of HelpOps: decide, persist the descriptor, remove nodes.       *)

Verdict(f) == IF f.ret # "FAIL" THEN "COMMITTED" ELSE "ABORTED"

\* Mutant: the nodes of a commit are removed on an abort and vice versa.
Doomed_Swapped(f) == IF f.ret # "FAIL" THEN f.ins ELSE f.del

\* MarkForDeletion gets the deleted nodes of a commit, the inserted nodes of
\* an abort.
Doomed(f) == IF f.ret # "FAIL" THEN f.del ELSE f.ins

\* helpStack.Pop comes first in the code, which nothing can observe: this
\* frame makes no further call of HelpOps.
DecideTxn(t) ==
  /\ At(t, "decide")
  /\ LET d == Top(t)
         f == Fr(t)
     IN  \/ /\ status[d] = "ACTIVE"
            /\ status' = [status EXCEPT ![d] = Verdict(f)]
            /\ SetFrame(t, [f EXCEPT !.pc = IF Persist THEN "claim" ELSE "marklist",
                                     !.todo = Doomed(f),
                                     !.ins = <<>>, !.del = <<>>])
            /\ UNCHANGED stack
         \/ /\ status[d] # "ACTIVE"
            /\ Return(t)
            /\ UNCHANGED status
  /\ UNCHANGED <<heap, ops, persist>>

\* The descriptor that persistDesc is called for.
PersistTarget(t) == IF Fr(t).back = "exist" THEN Fr(t).old.desc ELSE Top(t)

\* persistStatus: MAYBE -> IN_PROGRESS, or join whoever did that.
PersistClaim(t) ==
  /\ At(t, "claim")
  /\ LET e == PersistTarget(t)
     IN  IF pstatus[e] = "PERSISTED"
         THEN /\ SetFrame(t, [Fr(t) EXCEPT !.pc = Fr(t).back, !.back = "marklist"])
              /\ UNCHANGED pstatus
         ELSE /\ GoTo(t, "ticket")
              /\ pstatus' = [pstatus EXCEPT ![e] = "IN_PROGRESS"]
  /\ UNCHANGED <<heap, ops, status, txid, lastTxId, stack>>

\* Mutant: the counter is read, not incremented.
PersistTicket_Same(t) ==
  /\ At(t, "ticket")
  /\ SetFrame(t, [Fr(t) EXCEPT !.pc = "store", !.tkt = lastTxId])
  /\ UNCHANGED <<heap, ops, status, persist, stack>>

PersistTicket(t) ==
  /\ At(t, "ticket")
  /\ lastTxId' = lastTxId + 1
  /\ SetFrame(t, [Fr(t) EXCEPT !.pc = "store", !.tkt = lastTxId])
  /\ UNCHANGED <<heap, ops, status, pstatus, txid, stack>>

PersistStore(t) ==
  /\ At(t, "store")
  /\ txid' = [txid EXCEPT ![PersistTarget(t)] = Fr(t).tkt]
  /\ SetFrame(t, [Fr(t) EXCEPT !.pc = "persisted", !.tkt = 0])
  /\ UNCHANGED <<heap, ops, status, pstatus, lastTxId, stack>>

PersistDone(t) ==
  /\ At(t, "persisted")
  /\ pstatus' = [pstatus EXCEPT ![PersistTarget(t)] = "PERSISTED"]
  /\ SetFrame(t, [Fr(t) EXCEPT !.pc = Fr(t).back, !.back = "marklist"])
  /\ UNCHANGED <<heap, ops, status, txid, lastTxId, stack>>

\* MarkForDeletion works on the first node of todo and then drops it.
Dropped(f) == [f EXCEPT !.pc = "marklist", !.todo = Tail(@)]

\* Mutant: the mark on next is set without the mark on nodeDesc.
MarkNext_Early(t) ==
  /\ At(t, "marklist")
  /\ LET f == Fr(t)
     IN  \/ /\ f.todo = <<>>
            /\ Return(t)
         \/ /\ f.todo # <<>>
            /\ SetFrame(t, [f EXCEPT !.pc = "marknode"])
            /\ UNCHANGED stack
  /\ UNCHANGED <<heap, ops, status, persist>>

MarkNext(t) ==
  /\ At(t, "marklist")
  /\ LET f == Fr(t)
     IN  \/ /\ f.todo = <<>>
            /\ Return(t)
         \/ /\ f.todo # <<>>
            /\ LET n == Head(f.todo).node
               IN  SetFrame(t, IF ~ndmark[n] /\ nd[n].desc = Top(t)
                               THEN [f EXCEPT !.pc = "markdesc", !.old = nd[n]]
                               ELSE Dropped(f))
            /\ UNCHANGED stack
  /\ UNCHANGED <<heap, ops, status, persist>>

MarkDesc(t) ==
  /\ At(t, "markdesc")
  /\ LET f == Fr(t)
         n == Head(f.todo).node
         same == CanTake(n, f.old)
         g == [f EXCEPT !.old = Null]
     IN  /\ ndmark' = [ndmark EXCEPT ![n] = @ \/ same]
         /\ SetFrame(t, IF same THEN [g EXCEPT !.pc = "marknode"] ELSE Dropped(g))
  /\ UNCHANGED <<next, marked, nd, ops, status, persist, stack>>

\* succ = CLR_MARK(fetch_and_or(&n->next, 1))
MarkNode(t) ==
  /\ At(t, "marknode")
  /\ LET f == Fr(t)
         n == Head(f.todo).node
     IN  /\ marked' = [marked EXCEPT ![n] = TRUE]
         /\ SetFrame(t, [f EXCEPT !.pc = "unlinknode", !.curr = next[n]])
  /\ UNCHANGED <<next, nd, ndmark, ops, status, persist, stack>>

UnlinkNode(t) ==
  /\ At(t, "unlinknode")
  /\ LET f == Fr(t)
         e == Head(f.todo)
     IN  /\ next' = [next EXCEPT ![e.pred] =
                       IF CanSwing(e.pred, e.node) THEN f.curr ELSE @]
         /\ SetFrame(t, Dropped([f EXCEPT !.curr = m_head]))
  /\ UNCHANGED <<marked, nd, ndmark, ops, status, persist, stack>>

-----------------------------------------------------------------------------
Step(t) ==       \* thread t goes on with its transaction
  \/ HelpLoop(t)
  \/ LocateNext(t) \/ LocateSkip(t) \/ LocateUnlink(t)
  \/ InsertAbsent(t) \/ InsertLink(t)
  \/ ReadNodeDesc(t) \/ HelpMark(t)
  \/ FinishPendingTxn(t) \/ CycleAbort(t)
  \/ CheckKeyExist(t) \/ CheckActive(t) \/ UpdateDesc(t)
  \/ DecideTxn(t)
  \/ PersistClaim(t) \/ PersistTicket(t) \/ PersistStore(t) \/ PersistDone(t)
  \/ MarkNext(t) \/ MarkDesc(t) \/ MarkNode(t) \/ UnlinkNode(t)

\* Every worker has run its transactions.
Terminated ==
  /\ \A d \in Desc : ops[d] # <<>>
  /\ \A t \in Thread : ~Busy(t)
  /\ UNCHANGED vars

Next == (\E t \in Thread : ExecuteOps(t) \/ Step(t)) \/ Terminated

Spec == Init /\ [][Next]_vars

-----------------------------------------------------------------------------
(* Properties of the algorithm that hold in every mode.                    *)

\* A successor has a larger key, for nodes in the list and for nodes cut off
\* from it that a thread still walks on: LocatePred comes to an end, and no
\* key has two nodes in the list.
Sorted ==
  \A n \in Node : next[n] # m_tail => KeyOf(n) < KeyOf(next[n])

\* The mark on nodeDesc, which stops operations on the node, comes before the
\* mark on next, which lets LocatePred unlink it.
MarkOrder == \A n \in NodeDesc : marked[n] => ndmark[n]

\* A node is only removed once the transaction that touched it last is over
\* for every reader, and left the key out of the set.
RemovedIsGone ==
  \A n \in NodeDesc : ndmark[n] =>
    /\ status[nd[n].desc] # "ACTIVE"
    /\ Persisted(nd[n].desc)
    /\ ~IsKeyExist(nd[n])

\* FinishPendingTxn keeps its promise: when it is back, the transaction it was
\* called for is decided, however many threads decide it and whatever cycle of
\* transactions that help each other it was part of.
FinishedIsDecided ==
  \A t \in Thread : \A i \in 1..Len(stack[t]) :
    LET f == fr[t][stack[t][i]]
    IN  /\ i = Len(stack[t])
        /\ f.pc \in {"exist", "active", "update"}
        /\ f.old.desc # stack[t][i]
        => status[f.old.desc] # "ACTIVE"

\* Isolation: no step takes a node away from a transaction that is still
\* undecided, so what an active transaction has read stays as it read it.
TakenWhenDecided ==
  [][\A n \in NodeDesc :
       nd'[n].desc # nd[n].desc => status[nd[n].desc] # "ACTIVE"]_vars

\* Once marked, neither pointer of a node changes: a compare-and-swap on a
\* node that is being removed must fail.
MarkedIsFrozen ==
  [][/\ \A n \in Node : marked[n] => marked'[n] /\ next'[n] = next[n]
     /\ \A n \in NodeDesc : ndmark[n] => ndmark'[n] /\ nd'[n] = nd[n]]_vars

\* A descriptor is made durable only after it is decided, so recovery never
\* meets a persisted descriptor whose status may still change.
PersistAfterDecision ==
  \A d \in Desc : pstatus[d] # "MAYBE" => status[d] # "ACTIVE"

\* Recovery orders the transactions on a key by txid: no two descriptors that
\* are persisted share one.
TxidUnique ==
  \A d, e \in Desc :
    d # e /\ pstatus[d] = "PERSISTED" /\ pstatus[e] = "PERSISTED"
      => txid[d] # txid[e]

\* A worker leaves a transaction only when its outcome is decided.
ReturnIsDecided ==
  [][\A t \in Thread, d \in Desc :
       stack[t] = <<d>> /\ stack'[t] = <<>> => status[d] # "ACTIVE"]_vars
=============================================================================
