----------------------------- MODULE TransSkip -----------------------------
(***************************************************************************)
(* The transactional skiplist, lftt/skiplist/transskip.cc: the descriptors *)
(* and the helping of TransList on Fraser's lock-free skiplist.            *)
(*                                                                         *)
(* What differs from the list: the removal of nodes is commented out, so   *)
(* no pointer is ever marked, nodes stay for ever, and the code for marks  *)
(* (mark_deleted, the swing in strong_search_predecessors, do_full_delete) *)
(* does nothing; weak and strong search become the same walk.  help_ops    *)
(* runs for decided transactions too, and FinishPendingTxn looks at the    *)
(* status of its caller's descriptor, not at the one it is asked to        *)
(* finish.  One action is one access to shared memory with the local steps *)
(* around it.                                                              *)
(*                                                                         *)
(* Left out: the g_count metrics, the epochs of fr_critical_enter (nothing *)
(* that was linked is ever freed), and nodes before they are linked.       *)
(***************************************************************************)
EXTENDS Naturals, FiniteSets, SequencesExt

CONSTANTS
  Thread,     \* worker threads
  Main,       \* the thread that fills the skiplist before the workers start
  Desc,       \* transaction descriptors the workers can allocate
  PreDesc,    \* stands for the descriptors of the prefill transactions
  MaxKey,     \* keys are 1..MaxKey (the sentinels hold 0 and MaxKey + 1)
  MaxOps,     \* bound on the size of a transaction
  OpArrays,   \* operation arrays given to execute_ops
  Prefills,   \* the sets of keys the skiplist may hold at the start
  NumLevels,  \* NUM_LEVELS
  head, tail, \* l->head and l->tail
  Null,       \* the null pointer
  Persist     \* TRUE: ENABLE_PERSISTENCE (dtx.h)

Key == 1..MaxKey
Level == 0..(NumLevels - 1)

OpTypes == {"FIND", "INSERT", "DELETE"}
Operator == [type : OpTypes, key : Key]

ASSUME ConstantsAssumption ==
  /\ MaxKey \in Nat \ {0}
  /\ MaxOps \in Nat \ {0}
  /\ NumLevels \in Nat \ {0}
  /\ Persist \in BOOLEAN
  /\ Main \notin Thread
  /\ PreDesc \notin Desc
  /\ \A o \in OpArrays : o \in Seq(Operator) /\ Len(o) \in 1..MaxOps
  /\ \A S \in Prefills : S \subseteq Key

AllDesc == Desc \union {PreDesc}

\* Pointers: the NodeDesc and the node_t that a thread allocates for an
\* operation of a descriptor are named by the three of them.
NodeDesc == [by : Thread, desc : Desc, opid : 1..MaxOps]
              \union [by : {Main}, desc : {PreDesc}, opid : Key]
Node == NodeDesc \union {head, tail}

ASSUME NullAssumption ==
  /\ head # tail
  /\ {head, tail} \cap NodeDesc = {}
  /\ Null \notin Node

VARIABLES
  next,      \* next[i][n]: n->next[i]
  nd,        \* nd[n]: n->nodeDesc
  ops,       \* ops[d]: desc->ops, <<>> before the descriptor is allocated
  status,    \* desc->status
  pstatus,   \* desc->persistStatus
  txid,      \* desc->txid
  lastTxId,  \* the counter that persistDesc draws txid from
  stack,     \* stack[t]: descriptors of the help_ops calls of t, the helpStack
  fr         \* fr[t][d]: the locals of the call of t for d

heap    == <<next, nd>>
persist == <<pstatus, txid, lastTxId>>
vars    == <<next, nd, ops, status, pstatus, txid, lastTxId, stack, fr>>

Labels == {"loop", "search", "absent", "link", "raise", "read", "help", "cycle",
           "exist", "active", "update", "decide",
           "claim", "ticket", "store", "persisted"}

Frame == [pc     : Labels,                 \* the next access to shared memory
          opid   : 1..(MaxOps + 1),
          ret    : BOOLEAN,
          x      : Node,                   \* where the search stands
          lvl    : Level,                  \* its level
          preds  : [Level -> Node],
          succs  : [Level -> Node],
          height : 0..NumLevels,           \* new_node->level, 0 before the link
          rise   : Level,                  \* the level that Insert links next
          old    : NodeDesc \union {Null}, \* oldCurrDesc
          tkt    : Nat,                    \* value of lastTxId++
          back   : {"return", "exist"}]    \* where persistDesc returns to

NoPath == [i \in Level |-> head]

\* Mutant: a call of help_ops starts one operation late.
NewFrame_Late(i) ==
  [pc |-> "loop", opid |-> i + 1, ret |-> TRUE, x |-> head, lvl |-> 0,
   preds |-> NoPath, succs |-> NoPath, height |-> 0, rise |-> 0,
   old |-> Null, tkt |-> 0, back |-> "return"]

NewFrame(i) ==
  [pc |-> "loop", opid |-> i, ret |-> TRUE, x |-> head, lvl |-> 0,
   preds |-> NoPath, succs |-> NoPath, height |-> 0, rise |-> 0,
   old |-> Null, tkt |-> 0, back |-> "return"]

\* The tail's successors are written tail; the code never follows them.
TypeOK ==
  /\ next \in [Level -> [Node -> Node]]
  /\ nd \in [NodeDesc -> NodeDesc]
  /\ ops \in [Desc -> OpArrays \union {<<>>}]
  /\ status \in [AllDesc -> {"LIVE", "COMMITTED", "ABORTED"}]
  /\ pstatus \in [AllDesc -> {"MAYBE", "IN_PROGRESS", "PERSISTED"}]
  /\ txid \in [AllDesc -> Nat]
  /\ lastTxId \in Nat
  /\ stack \in [Thread -> Seq(Desc)]
  /\ fr \in [Thread -> [Desc -> Frame]]

-----------------------------------------------------------------------------
(* The operation and the key a node or NodeDesc stands for.                *)

OpType(c) == IF c.desc = PreDesc THEN "INSERT" ELSE ops[c.desc][c.opid].type

KeyOf(n) ==
  CASE n = head -> 0
    [] n = tail -> MaxKey + 1
    [] OTHER  -> IF n.desc = PreDesc THEN n.opid ELSE ops[n.desc][n.opid].key

Persisted(d) == Persist => pstatus[d] = "PERSISTED"

IsNodeActive(c) == status[c.desc] = "COMMITTED" /\ Persisted(c.desc)

KeyExists(c, active) ==
  \/ OpType(c) = "FIND"
  \/ active /\ OpType(c) = "INSERT"
  \/ ~active /\ OpType(c) = "DELETE"

IsKeyExist(c) == KeyExists(c, IsNodeActive(c))

\* Mutant: the outcome of the transaction that inserted is not looked at.
IsKeyExist_mod_AnyOutcome(c, d) == OpType(c) # "DELETE"

\* A transaction sees its own earlier operations as done.
IsKeyExist_mod(c, d) == KeyExists(c, IsNodeActive(c) \/ c.desc = d)

-----------------------------------------------------------------------------
(* The call of help_ops that thread t runs.                                *)

Busy(t) == stack[t] # <<>>
Top(t) == Last(stack[t])
Fr(t) == fr[t][Top(t)]
At(t, label) == Busy(t) /\ Fr(t).pc = label
Op(t) == ops[Top(t)][Fr(t).opid]

\* The NodeDesc that the running operation allocates.
Mine(t) == [by |-> t, desc |-> Top(t), opid |-> Fr(t).opid]

SetFrame(t, f) == fr' = [fr EXCEPT ![t][Top(t)] = f]
GoTo(t, label) == SetFrame(t, [Fr(t) EXCEPT !.pc = label])

\* The running operation returns r to help_ops; its locals die.
Finished(f, r) == [NewFrame(f.opid + 1) EXCEPT !.ret = r]

\* help_ops returns: the frame dies and its caller, if any, goes on.
Return(t) ==
  /\ stack' = [stack EXCEPT ![t] = Front(@)]
  /\ SetFrame(t, NewFrame(1))

-----------------------------------------------------------------------------
\* transskip_alloc and the prefill: each key of S has a node by Main, on the
\* levels below its height.
Linked(S, height) ==
  LET at(k) == [by |-> Main, desc |-> PreDesc, opid |-> k]
      on(i) == {k \in S : height[k] > i}
      IsNext(i, k, j) == j > k /\ \A m \in on(i) : m > k => j <= m
      after(i, k) == IF \E j \in on(i) : IsNext(i, k, j)
                     THEN at(CHOOSE j \in on(i) : IsNext(i, k, j)) ELSE tail
  IN  [i \in Level |-> [n \in Node |->
         IF n = head THEN after(i, 0)
         ELSE IF n \in NodeDesc /\ n.desc = PreDesc /\ n.opid \in on(i)
         THEN after(i, n.opid) ELSE tail]]

Init ==
  /\ \E S \in Prefills, height \in [Key -> 1..NumLevels] : next = Linked(S, height)
  /\ nd = [n \in NodeDesc |-> n]
  /\ ops = [d \in Desc |-> <<>>]
  /\ status = [d \in AllDesc |-> IF d = PreDesc THEN "COMMITTED" ELSE "LIVE"]
  /\ pstatus = [d \in AllDesc |-> IF d = PreDesc /\ Persist
                                  THEN "PERSISTED" ELSE "MAYBE"]
  /\ txid = [d \in AllDesc |-> 0]
  /\ lastTxId = 1
  /\ stack = [t \in Thread |-> <<>>]
  /\ fr = [t \in Thread |-> [d \in Desc |-> NewFrame(1)]]

-----------------------------------------------------------------------------
(* execute_ops and the loop of help_ops.                                   *)

execute_ops(t) ==
  /\ ~Busy(t)
  /\ \E d \in Desc, o \in OpArrays :
       /\ ops[d] = <<>>
       /\ ops' = [ops EXCEPT ![d] = o]
       /\ stack' = [stack EXCEPT ![t] = <<d>>]
  /\ UNCHANGED <<heap, status, persist, fr>>

\* A search starts at the head, on the highest level.
Searching(f) == [f EXCEPT !.pc = "search", !.x = head, !.lvl = NumLevels - 1,
                          !.preds = NoPath, !.succs = NoPath]

OpLoop(t) ==
  /\ At(t, "loop")
  /\ LET d == Top(t)
         f == Fr(t)
         more == status[d] = "LIVE" /\ f.ret /\ f.opid <= Len(ops[d])
     IN  SetFrame(t, IF more THEN Searching(f) ELSE [f EXCEPT !.pc = "decide"])
  /\ UNCHANGED <<heap, ops, status, persist, stack>>

-----------------------------------------------------------------------------
(* strong_search_predecessors and weak_search_predecessors.                *)

\* The search has come to y on level 0.  Delete and Find need the node of
\* their key; an Insert that has linked its node goes on to the upper levels.
Located(f, op, y) ==
  CASE f.height > 0       -> [f EXCEPT !.pc = "raise", !.x = head]
    [] f.height = 0 /\ KeyOf(y) = op.key ->
         [f EXCEPT !.pc = "read", !.x = y, !.preds = NoPath, !.succs = NoPath]
    [] f.height = 0 /\ KeyOf(y) # op.key ->
         IF op.type = "INSERT" THEN [f EXCEPT !.pc = "absent", !.x = head]
         ELSE Finished(f, FALSE)

\* Mutant: the search goes on past the node of its key.
Before_Equal(n, k) == KeyOf(n) <= k

Before(n, k) == KeyOf(n) < k

Search(t) ==
  /\ At(t, "search")
  /\ LET f == Fr(t)
         y == next[f.lvl][f.x]
         g == IF Op(t).type = "INSERT"      \* the others pass no arrays
              THEN [f EXCEPT !.preds[f.lvl] = f.x, !.succs[f.lvl] = y] ELSE f
     IN  SetFrame(t, IF Before(y, Op(t).key) THEN [f EXCEPT !.x = y]
                     ELSE IF f.lvl > 0 THEN [g EXCEPT !.lvl = @ - 1]
                     ELSE Located(g, Op(t), y))
  /\ UNCHANGED <<heap, ops, status, persist, stack>>

-----------------------------------------------------------------------------
(* transskip_insert of a key that no node holds.                           *)

InsertAbsent(t) ==
  /\ At(t, "absent")
  /\ SetFrame(t, IF status[Top(t)] # "LIVE" THEN Finished(Fr(t), FALSE)
                 ELSE [Fr(t) EXCEPT !.pc = "link"])
  /\ UNCHANGED <<heap, ops, status, persist, stack>>

\* Mutant: the link does not compare what it overwrites.
CanLink_Blind(n, i, old) == TRUE

\* A compare-and-swap of n->next[i] from old succeeds.
CanLink(n, i, old) == next[i][n] = old

\* Node n enters level i between f.preds[i] and f.succs[i]; its own pointers up
\* to top are those of the search.
LinkAt(i, n, f, top) ==
  next' = [j \in Level |->
             LET own == IF j \in i..top THEN [next[j] EXCEPT ![n] = f.succs[j]]
                        ELSE next[j]
             IN  IF j = i THEN [own EXCEPT ![f.preds[i]] = n] ELSE own]

\* The new node, of a random height, enters level 0.
InsertLink(t) ==
  /\ At(t, "link")
  /\ LET f == Fr(t)
     IN  \/ /\ CanLink(f.preds[0], 0, f.succs[0])
            /\ \E h \in 1..NumLevels :
                 /\ LinkAt(0, Mine(t), f, h - 1)
                 /\ SetFrame(t, IF h = 1 THEN Finished(f, TRUE)
                                ELSE [f EXCEPT !.pc = "raise", !.height = h,
                                               !.rise = 1])
         \/ /\ ~CanLink(f.preds[0], 0, f.succs[0])
            /\ SetFrame(t, Searching(f))
            /\ UNCHANGED next
  /\ UNCHANGED <<nd, ops, status, persist, stack>>

\* Mutant: a failed compare-and-swap is tried again without a new search.
RaiseNode_Stale(t) ==
  /\ At(t, "raise")
  /\ LET f == Fr(t)
         i == f.rise
         can == CanLink(f.preds[i], i, f.succs[i])
     IN  \/ /\ can
            /\ LinkAt(i, Mine(t), f, i)
            /\ SetFrame(t, IF i + 1 < f.height THEN [f EXCEPT !.rise = i + 1]
                           ELSE Finished(f, TRUE))
         \/ ~can /\ UNCHANGED <<next, fr>>
  /\ UNCHANGED <<nd, ops, status, persist, stack>>

\* Insert at each of the other levels in turn.
RaiseNode(t) ==
  /\ At(t, "raise")
  /\ LET f == Fr(t)
         i == f.rise
         can == KeyOf(f.succs[i]) # Op(t).key /\ CanLink(f.preds[i], i, f.succs[i])
     IN  \/ /\ can
            /\ LinkAt(i, Mine(t), f, i)
            /\ SetFrame(t, IF i + 1 < f.height THEN [f EXCEPT !.rise = i + 1]
                           ELSE Finished(f, TRUE))
         \/ /\ ~can
            /\ SetFrame(t, Searching(f))
            /\ UNCHANGED next
  /\ UNCHANGED <<nd, ops, status, persist, stack>>

-----------------------------------------------------------------------------
(* An operation at the node of its key, Fr(t).x.                           *)

ReadNodeDesc(t) ==
  /\ At(t, "read")
  /\ LET c == nd[Fr(t).x]
     IN  SetFrame(t, [Fr(t) EXCEPT
           !.pc = IF c.desc = Top(t) THEN "exist" ELSE "help", !.old = c])
  /\ UNCHANGED <<heap, ops, status, persist, stack>>

\* Mutant: the test of the status is the wrong way round.
NeedsHelp_Negated(t) == status[Top(t)] # "LIVE"

\* FinishPendingTxn helps as long as the transaction of its caller is live.
NeedsHelp(t) == status[Top(t)] = "LIVE"

\* FinishPendingTxn, up to the loop of the help_ops that it calls.  The calls
\* return to "exist".  help_ops does nothing for a prefill transaction.
FinishPendingTxn(t) ==
  /\ At(t, "help")
  /\ LET c == Fr(t).old
         e == c.desc
     IN  \/ /\ ~NeedsHelp(t) \/ e = PreDesc
            /\ GoTo(t, "exist")
            /\ UNCHANGED stack
         \/ /\ NeedsHelp(t) /\ Contains(stack[t], e)
            /\ GoTo(t, "cycle")
            /\ UNCHANGED stack
         \/ /\ NeedsHelp(t) /\ e # PreDesc /\ ~Contains(stack[t], e)
            /\ stack' = [stack EXCEPT ![t] = Append(@, e)]
            /\ fr' = [fr EXCEPT ![t] = [@ EXCEPT ![Top(t)].pc = "exist",
                                                ![e] = NewFrame(c.opid + 1)]]
  /\ UNCHANGED <<heap, ops, status, persist>>

\* The cyclic dependency check: abort the transaction that waits for itself.
CycleAbort(t) ==
  /\ At(t, "cycle")
  /\ LET e == Fr(t).old.desc
     IN  status' = [status EXCEPT ![e] = IF @ = "LIVE" THEN "ABORTED" ELSE @]
  /\ SetFrame(t, IF Persist THEN [Fr(t) EXCEPT !.pc = "claim", !.back = "exist"]
                 ELSE [Fr(t) EXCEPT !.pc = "exist"])
  /\ UNCHANGED <<heap, ops, persist, stack>>

CheckKeyExist(t) ==
  /\ At(t, "exist")
  /\ LET f == Fr(t)
         c == f.old
         same == c.desc = Top(t) /\ c.opid = f.opid
     IN  SetFrame(t,
           IF same THEN Finished(f, TRUE)
           ELSE IF IsKeyExist_mod(c, Top(t)) = (Op(t).type = "INSERT")
           THEN Finished(f, FALSE)
           ELSE [f EXCEPT !.pc = "active"])
  /\ UNCHANGED <<heap, ops, status, persist, stack>>

CheckActive(t) ==
  /\ At(t, "active")
  /\ SetFrame(t, IF status[Top(t)] # "LIVE" THEN Finished(Fr(t), FALSE)
                 ELSE [Fr(t) EXCEPT !.pc = "update"])
  /\ UNCHANGED <<heap, ops, status, persist, stack>>

\* A compare-and-swap of n->nodeDesc from old succeeds.
CanTake(n, old) == nd[n] = old

UpdateDesc(t) ==
  /\ At(t, "update")
  /\ LET f == Fr(t)
     IN  \/ /\ CanTake(f.x, f.old)
            /\ nd' = [nd EXCEPT ![f.x] = Mine(t)]
            /\ SetFrame(t, Finished(f, TRUE))
         \/ /\ ~CanTake(f.x, f.old)
            /\ SetFrame(t, [f EXCEPT !.pc = "read", !.old = Null])
            /\ UNCHANGED nd
  /\ UNCHANGED <<next, ops, status, persist, stack>>

-----------------------------------------------------------------------------
(* The end of help_ops: decide and persist the descriptor.                 *)

Verdict(f) == IF f.ret THEN "COMMITTED" ELSE "ABORTED"

DecideTxn(t) ==
  /\ At(t, "decide")
  /\ LET d == Top(t)
     IN  \/ /\ status[d] = "LIVE"
            /\ status' = [status EXCEPT ![d] = Verdict(Fr(t))]
            /\ IF Persist THEN GoTo(t, "claim") /\ UNCHANGED stack ELSE Return(t)
         \/ /\ status[d] # "LIVE"
            /\ Return(t)
            /\ UNCHANGED status
  /\ UNCHANGED <<heap, ops, persist>>

\* The descriptor that persistDesc is called for.
PersistTarget(t) == IF Fr(t).back = "exist" THEN Fr(t).old.desc ELSE Top(t)

\* persistDesc is over, or was not needed.
EndPersist(t) ==
  IF Fr(t).back = "return" THEN Return(t)
  ELSE /\ SetFrame(t, [Fr(t) EXCEPT !.pc = "exist", !.back = "return"])
       /\ UNCHANGED stack

\* persistStatus: MAYBE -> IN_PROGRESS, or join whoever did that.
PersistClaim(t) ==
  /\ At(t, "claim")
  /\ LET e == PersistTarget(t)
     IN  IF pstatus[e] = "PERSISTED"
         THEN EndPersist(t) /\ UNCHANGED pstatus
         ELSE /\ GoTo(t, "ticket")
              /\ pstatus' = [pstatus EXCEPT ![e] = "IN_PROGRESS"]
              /\ UNCHANGED stack
  /\ UNCHANGED <<heap, ops, status, txid, lastTxId>>

PersistTicket(t) ==
  /\ At(t, "ticket")
  /\ lastTxId' = lastTxId + 1
  /\ SetFrame(t, [Fr(t) EXCEPT !.pc = "store", !.tkt = lastTxId])
  /\ UNCHANGED <<heap, ops, status, pstatus, txid, stack>>

PersistStore(t) ==
  /\ At(t, "store")
  /\ txid' = [txid EXCEPT ![PersistTarget(t)] = Fr(t).tkt]
  /\ SetFrame(t, [Fr(t) EXCEPT !.pc = "persisted", !.tkt = 0])
  /\ UNCHANGED <<heap, ops, status, pstatus, lastTxId, stack>>

PersistDone(t) ==
  /\ At(t, "persisted")
  /\ pstatus' = [pstatus EXCEPT ![PersistTarget(t)] = "PERSISTED"]
  /\ EndPersist(t)
  /\ UNCHANGED <<heap, ops, status, txid, lastTxId>>

-----------------------------------------------------------------------------
Step(t) ==       \* thread t goes on with its transaction
  \/ OpLoop(t) \/ Search(t)
  \/ InsertAbsent(t) \/ InsertLink(t) \/ RaiseNode(t)
  \/ ReadNodeDesc(t) \/ FinishPendingTxn(t) \/ CycleAbort(t)
  \/ CheckKeyExist(t) \/ CheckActive(t) \/ UpdateDesc(t)
  \/ DecideTxn(t)
  \/ PersistClaim(t) \/ PersistTicket(t) \/ PersistStore(t) \/ PersistDone(t)

\* Every worker has run its transactions.
Terminated ==
  /\ \A d \in Desc : ops[d] # <<>>
  /\ \A t \in Thread : ~Busy(t)
  /\ UNCHANGED vars

Next == (\E t \in Thread : execute_ops(t) \/ Step(t)) \/ Terminated

Spec == Init /\ [][Next]_vars
=============================================================================
