------------------------------ MODULE TransMap ------------------------------
(***************************************************************************)
(* The transactional hash map, lftt/map/transmap.h: the descriptors and    *)
(* the helping of TransList on a hash trie that only grows.  A slot of the *)
(* trie is null, a data node or a spine (an array of slots for the next    *)
(* bits of the hash), and any of them with the mark bit that asks for the  *)
(* slot to be expanded.  A node stays in the trie for ever: DELETE is a    *)
(* change of its nodeDesc.  One action is one access to shared memory with *)
(* the local steps around it.                                              *)
(*                                                                         *)
(* Left out: counters and metrics, the txid (nothing reads it: the map has *)
(* no recovery), the pool of nodes that never entered the trie, the build  *)
(* options for a thread watch list, and spines that lost their             *)
(* compare-and-swap.                                                       *)
(***************************************************************************)
EXTENDS Naturals, FiniteSets, SequencesExt

CONSTANTS
  Thread,           \* worker threads
  Main,             \* the thread that fills the map before the workers start
  Desc,             \* transaction descriptors the workers can allocate
  PreDesc,          \* stands for the descriptors of the prefill transactions
  Key,              \* keys; HASH_KEY is the identity (std::hash of an integer)
  Value,            \* values of INSERT and UPDATE
  MaxOps,           \* bound on the size of a transaction
  OpArrays,         \* operation arrays given to ExecuteOps
  Prefills,         \* the sets of keys the map may hold at the start
  PrefillValue,     \* the value they have
  KEY_SIZE,         \* bits of a hash
  MAIN_POW,         \* bits that the main array takes
  SUB_POW,          \* bits that a spine takes
  MAX_CAS_FAILURE,  \* failures at a slot before a thread marks it
  Null              \* the null pointer

MAIN_SIZE == 2^MAIN_POW
SUB_SIZE == 2^SUB_POW

OpTypes == {"FIND", "INSERT", "DELETE", "UPDATE"}
Operator == [type : OpTypes, key : Key, value : Nat]

ASSUME ConstantsAssumption ==
  /\ {KEY_SIZE, MAIN_POW, SUB_POW, MAX_CAS_FAILURE, MaxOps} \subseteq Nat \ {0}
  /\ Key \subseteq Nat \ {0}
  /\ Value \subseteq Nat /\ PrefillValue \in Nat
  /\ Main \notin Thread
  /\ PreDesc \notin Desc
  /\ \A o \in OpArrays : o \in Seq(Operator) /\ Len(o) \in 1..MaxOps
  /\ \A S \in Prefills : S \subseteq Key /\ IsFiniteSet(S)

ASSUME SizesAssumption == {MAIN_SIZE, SUB_SIZE} \subseteq Nat \ {0}

AllDesc == Desc \union {PreDesc}

\* Pointers: the NodeDesc and the DataNode that a thread allocates for an
\* operation of a descriptor are named by the three of them, a spine by its
\* place in spine.
NodeDesc == [by : Thread, desc : Desc, opid : 1..MaxOps]
              \union [by : {Main}, desc : {PreDesc}, opid : Key]
Spine(i) == [spine |-> i]
IsSpine(p) == p # Null /\ "spine" \in DOMAIN p
IsData(p) == p # Null /\ "spine" \notin DOMAIN p

ASSUME NullAssumption == Null \notin NodeDesc \union [spine : Nat]

\* A slot: a pointer and the mark bit that sits in it.
Slot(p) == [to |-> p, mark |-> FALSE]
NullSlot == Slot(Null)

-----------------------------------------------------------------------------
(* The geometry of the trie: which bits of the hash choose the slot.       *)

\* The bits that the arrays on a way have used when it comes to the next one.
Levels == {0} \union {MAIN_POW + i * SUB_POW : i \in 0..KEY_SIZE}

\* A way goes no further than the bits of the hash.
Rights == {right \in Levels : right < KEY_SIZE}

NextRight(right) == IF right = 0 THEN MAIN_POW ELSE right + SUB_POW

\* Shifted[hash][right]: what is left of the hash behind the bits used so far.
Shifted == [hash \in Key |->
  LET h[right \in Levels] ==
        IF right = 0 THEN hash
        ELSE IF right = MAIN_POW THEN hash \div MAIN_SIZE
        ELSE h[right - SUB_POW] \div SUB_SIZE
  IN  h]

\* Hashes have KEY_SIZE bits.
ASSUME KeyAssumption ==
  \A hash \in Key, right \in Levels : right >= KEY_SIZE => Shifted[hash][right] = 0

Digit(hash, right) ==
  Shifted[hash][right] % (IF right = 0 THEN MAIN_SIZE ELSE SUB_SIZE)

\* Two hashes go through the same slots before they have used the bits of right.
Same(h1, h2, right) == \A q \in Rights : q < right => Digit(h1, q) = Digit(h2, q)

-----------------------------------------------------------------------------
VARIABLES
  spine,    \* spine[1]: the array head, spine[i]: the i-th spine in the trie
  nd,       \* nd[n]: n->nodeDesc
  value,    \* value[n]: n->value
  ops,      \* ops[d]: desc->ops, <<>> before the descriptor is allocated
  status,   \* desc->status
  pstatus,  \* desc->persistStatus
  stack,    \* stack[t]: descriptors of the HelpOps calls of t, mapHelpStack
  fr        \* fr[t][d]: the locals of the call of t for d

heap == <<spine, nd, value>>
txn  == <<ops, status, pstatus>>
vars == <<spine, nd, value, ops, status, pstatus, stack, fr>>

Labels == {"loop", "slot", "mark", "place", "expand", "split",
           "read", "help", "cycle", "exist", "curr", "active", "save", "keep",
           "update", "value", "swap", "result", "answer",
           "decide", "claim", "persisted", "wild"}

Frame == [pc    : Labels,                    \* the next access to shared memory
          opid  : 1..(MaxOps + 1),
          ret   : BOOLEAN,
          local : Nat \ {0},                 \* the array it looks at
          right : Rights,                    \* bits used so far, 0 for head
          fails : Nat,                       \* cas_fail_count
          node  : [to : NodeDesc \union {Null} \union [spine : Nat],
                   mark : BOOLEAN],          \* what it has read there
          old   : NodeDesc \union {Null},    \* oldCurrDesc
          curr  : NodeDesc \union {Null},    \* currDesc
          val   : Nat,                       \* a value it has read
          back  : {"return", "exist"}]       \* where persistDesc returns to

NewFrame(i) ==
  [pc |-> "loop", opid |-> i, ret |-> TRUE, local |-> 1, right |-> 0, fails |-> 0,
   node |-> NullSlot, old |-> Null, curr |-> Null, val |-> 0, back |-> "return"]

TypeOK ==
  /\ \A i \in DOMAIN spine : \A j \in DOMAIN spine[i] :
       spine[i][j] \in [to : NodeDesc \union {Null} \union [spine : 2..Len(spine)],
                       mark : BOOLEAN]
  /\ nd \in [NodeDesc -> NodeDesc]
  /\ value \in [NodeDesc -> Nat]
  /\ ops \in [Desc -> Seq(Operator)]
  /\ \A d \in Desc : Len(ops[d]) <= MaxOps
  /\ status \in [AllDesc -> {"ACTIVE", "COMMITTED", "ABORTED"}]
  /\ pstatus \in [AllDesc -> {"MAYBE", "IN_PROGRESS", "PERSISTED"}]
  /\ stack \in [Thread -> Seq(Desc)]
  /\ fr \in [Thread -> [Desc -> Frame]]

-----------------------------------------------------------------------------
(* The operation, the key and the value that a NodeDesc stands for.        *)

OpOf(c) == IF c.desc = PreDesc
           THEN [type |-> "INSERT", key |-> c.opid, value |-> PrefillValue]
           ELSE ops[c.desc][c.opid]

GetValue(c) == OpOf(c).value

IsNodeActive(c) == status[c.desc] = "COMMITTED" /\ pstatus[c.desc] = "PERSISTED"

KeyExists(c, active) ==
  \/ OpOf(c).type \in {"FIND", "UPDATE"}
  \/ active /\ OpOf(c).type = "INSERT"
  \/ ~active /\ OpOf(c).type = "DELETE"

IsKeyExist(c) == KeyExists(c, IsNodeActive(c))

\* A transaction sees its own earlier operations as done.
IsKeyExist_mod(c, d) == KeyExists(c, IsNodeActive(c) \/ c.desc = d)

\* Whatever has become of the transaction of c.
IsLiveUpdate(c) ==
  OpOf(c).type = "UPDATE" \/ (OpOf(c).type = "FIND" /\ GetValue(c) # 0)

IsUnsavedUpdate(c, v) ==
  GetValue(c) # v /\ status[c.desc] = "COMMITTED" /\ IsLiveUpdate(c)

-----------------------------------------------------------------------------
(* The trie of a map that holds the keys of S: nodes that share a slot are *)
(* pushed down until their bits differ.                                    *)

Crowded(G) == \E k, l \in G : k # l

\* The spines of that trie: the bits used before each, and the keys below it.
Crowds(S) ==
  {c \in (Rights \ {0}) \X SUBSET S :
     Crowded(c[2]) /\ \E k \in c[2] : c[2] = {l \in S : Same(k, l, c[1])}}

\* A slot with the keys of G below it, if order tells where the spines are.
FilledSlot(G, right, order) ==
  IF G = {} THEN NullSlot
  ELSE IF Crowded(G) THEN Slot(Spine(1 + CHOOSE i \in DOMAIN order : order[i] = <<right, G>>))
  ELSE Slot([by |-> Main, desc |-> PreDesc, opid |-> CHOOSE k \in G : TRUE])

FilledArray(G, right, size, order) ==
  [j \in 0..(size - 1) |->
     FilledSlot({k \in G : Digit(k, right) = j}, NextRight(right), order)]

Filled(S) ==
  LET order == SetToSeq(Crowds(S))
  IN  <<FilledArray(S, 0, MAIN_SIZE, order)>>
        \o [i \in DOMAIN order |-> FilledArray(order[i][2], order[i][1], SUB_SIZE, order)]

-----------------------------------------------------------------------------
(* The call of HelpOps that thread t runs.                                 *)

Busy(t) == stack[t] # <<>>
Top(t) == Last(stack[t])
Fr(t) == fr[t][Top(t)]
At(t, label) == Busy(t) /\ Fr(t).pc = label
Op(t) == ops[Top(t)][Fr(t).opid]

\* The NodeDesc, and the node, that the running operation allocates.
Mine(t) == [by |-> t, desc |-> Top(t), opid |-> Fr(t).opid]

SetFrame(t, f) == fr' = [fr EXCEPT ![t][Top(t)] = f]
GoTo(t, label) == SetFrame(t, [Fr(t) EXCEPT !.pc = label])

\* The running operation returns r to HelpOps; its locals die.
Finished(f, r) == [NewFrame(f.opid + 1) EXCEPT !.ret = r]

\* HelpOps returns: the frame dies and its caller, if any, goes on.
Return(t) ==
  /\ stack' = [stack EXCEPT ![t] = Front(@)]
  /\ SetFrame(t, NewFrame(1))

Init ==
  /\ \E S \in Prefills : spine = Filled(S)
  /\ nd = [n \in NodeDesc |-> n]
  /\ value = [n \in NodeDesc |-> IF n.desc = PreDesc THEN PrefillValue ELSE 0]
  /\ ops = [d \in Desc |-> <<>>]
  /\ status = [d \in AllDesc |-> IF d = PreDesc THEN "COMMITTED" ELSE "ACTIVE"]
  /\ pstatus = [d \in AllDesc |-> IF d = PreDesc THEN "PERSISTED" ELSE "MAYBE"]
  /\ stack = [t \in Thread |-> <<>>]
  /\ fr = [t \in Thread |-> [d \in Desc |-> NewFrame(1)]]

-----------------------------------------------------------------------------
(* ExecuteOps and the loop of HelpOps.                                     *)

ExecuteOps(t) ==
  /\ ~Busy(t)
  /\ \E d \in Desc, o \in OpArrays :
       /\ ops[d] = <<>>
       /\ ops' = [ops EXCEPT ![d] = o]
       /\ stack' = [stack EXCEPT ![t] = <<d>>]
  /\ UNCHANGED <<heap, status, pstatus, fr>>

OpLoop(t) ==
  /\ At(t, "loop")
  /\ LET d == Top(t)
         f == Fr(t)
         more == status[d] = "ACTIVE" /\ f.ret /\ f.opid <= Len(ops[d])
     IN  GoTo(t, IF more THEN "slot" ELSE "decide")
  /\ UNCHANGED <<heap, txn, stack>>

-----------------------------------------------------------------------------
(* The way down to the slot of a key: putIfAbsent, putUpdate, get and      *)
(* remove, each with a version for the main array and one for the spines.  *)

Cell(f, op) == spine[f.local][Digit(op.key, f.right)]
SetCell(f, op, s) == [spine EXCEPT ![f.local][Digit(op.key, f.right)] = s]

\* get_sub looks at the last array without a look at the hash.
LastFind(f, op) == op.type = "FIND" /\ f.right > 0 /\ NextRight(f.right) >= KEY_SIZE

\* What the program does next is undefined: FIND takes a spine for a node, or
\* control leaves putUpdate_sub at its end, where no return is.
Wild(f) == [f EXCEPT !.pc = "wild"]

\* Go on in spine i.  Behind the last bits Insert and Delete give up.
Descend(f, op, i) ==
  LET g == [f EXCEPT !.pc = "slot", !.local = i, !.right = NextRight(@), !.fails = 0]
  IN  CASE g.right < KEY_SIZE                                       -> g
        [] g.right >= KEY_SIZE /\ op.type \in {"INSERT", "DELETE"}  -> Finished(f, FALSE)
        [] g.right >= KEY_SIZE /\ op.type \in {"UPDATE", "FIND"}    -> Wild(f)

\* Mutant: once more with what it has read before.
Retry_Stale(f) == [f EXCEPT !.fails = 1]

\* Once more at the same slot, after a compare-and-swap on it has failed.
Retry(f) == [f EXCEPT !.pc = "slot", !.fails = @ + 1]

\* The compare-and-swap of a nodeDesc or a value has failed: goto insert_main,
\* insert_sub, ... and find_final.  The labels of the sub versions lie behind
\* the parameter local: the way starts again with the first bits, but in the
\* array where it has come to.
Restart(f, op) ==
  [f EXCEPT !.pc = "slot", !.old = Null, !.curr = Null, !.val = 0,
            !.right = IF @ = 0 \/ LastFind(f, op) THEN @ ELSE MAIN_POW,
            !.fails = IF f.right = 0 THEN @ ELSE 0]

\* What to do with f.node.  FIND does not see marks; DELETE looks at the mark
\* first, INSERT and UPDATE look for a spine first.
Look(f, op) ==
  LET p == f.node.to
      marked == f.node.mark /\ op.type # "FIND"
      hit == IsData(p) /\ (OpOf(p).key = op.key \/ LastFind(f, op))
      put == op.type \in {"INSERT", "UPDATE"}
  IN  CASE marked /\ (op.type = "DELETE" \/ ~IsSpine(p)) -> [f EXCEPT !.pc = "expand"]
        [] IsSpine(p) /\ ~(marked /\ op.type = "DELETE") -> Descend(f, op, p.spine)
        [] ~marked /\ p = Null -> IF op.type = "INSERT" THEN [f EXCEPT !.pc = "place"]
                                  ELSE Finished(f, FALSE)
        [] ~marked /\ hit -> [f EXCEPT !.pc = "read"]
        [] ~marked /\ IsData(p) /\ ~hit -> IF put THEN [f EXCEPT !.pc = "split"]
                                           ELSE Finished(f, FALSE)

\* getNode, getNodeRaw
ReadSlot(t) ==
  /\ At(t, "slot")
  /\ LET f == [Fr(t) EXCEPT !.node = Cell(Fr(t), Op(t))]
     IN  SetFrame(t, IF f.fails >= MAX_CAS_FAILURE THEN [f EXCEPT !.pc = "mark"]
                     ELSE Look(f, Op(t)))
  /\ UNCHANGED <<heap, txn, stack>>

\* mark_data_node marks whatever is there by now; the thread goes on with what
\* it has read before.
MarkSlot(t) ==
  /\ At(t, "mark")
  /\ LET f == Fr(t)
     IN  /\ spine' = SetCell(f, Op(t), [Cell(f, Op(t)) EXCEPT !.mark = TRUE])
         /\ SetFrame(t, Look(f, Op(t)))
  /\ UNCHANGED <<nd, value, txn, stack>>

\* Mutant: the slot is overwritten, whatever it holds by now.
CanReplace_Blind(f, op) == TRUE

\* A compare-and-swap of the slot from what the thread has read there succeeds.
CanReplace(f, op) == Cell(f, op) = f.node

\* The node of this operation enters the trie.
Enter(t) ==
  /\ nd' = [nd EXCEPT ![Mine(t)] = Mine(t)]
  /\ value' = [value EXCEPT ![Mine(t)] = Op(t).value]
  /\ SetFrame(t, Finished(Fr(t), TRUE))

\* replace_node of a null slot by the new node.
Place(t) ==
  /\ At(t, "place")
  /\ LET f == Fr(t)
         s == Cell(f, Op(t))
         known == IsSpine(s.to) \/ (f.right > 0 /\ (s.mark \/ OpOf(s.to).key = Op(t).key))
     IN  \/ /\ CanReplace(f, Op(t))
            /\ spine' = SetCell(f, Op(t), Slot(Mine(t)))
            /\ Enter(t)
         \/ /\ ~CanReplace(f, Op(t))
            /\ SetFrame(t, IF known THEN Look([f EXCEPT !.node = s], Op(t)) ELSE Retry(f))
            /\ UNCHANGED heap
  /\ UNCHANGED <<txn, stack>>

\* The spines that Allocate_Spine makes for two nodes that share the slot of
\* the bits before right, the first one with the index first.
Spines(n1, n2, h1, h2, right, first) ==
  LET at(i) == right + (i - 1) * SUB_POW
      apart(i) == at(i) < KEY_SIZE /\ Digit(h1, at(i)) # Digit(h2, at(i))
      depth == CHOOSE i \in 1..KEY_SIZE : apart(i) /\ \A j \in 1..(i - 1) : ~apart(j)
  IN  [i \in 1..depth |-> [j \in 0..(SUB_SIZE - 1) |->
         CASE i < depth /\ j = Digit(h1, at(i))  -> Slot(Spine(first + i))
           [] i = depth /\ j = Digit(h1, at(i))  -> Slot(n1)
           [] i = depth /\ j = Digit(h2, at(i))  -> Slot(n2)
           [] OTHER                              -> NullSlot]]

\* Allocate_Spine: a spine with both nodes takes the place of the node that is
\* in the way.  It fails when the bits that are left do not tell them apart.
Split(t) ==
  /\ At(t, "split")
  /\ LET f == Fr(t)
         n == f.node.to
         h == OpOf(n).key
         right == NextRight(f.right)
         can == CanReplace(f, Op(t)) /\ Shifted[h][right] # Shifted[Op(t).key][right]
     IN  \/ /\ can
            /\ spine' = SetCell(f, Op(t), Slot(Spine(Len(spine) + 1)))
                          \o Spines(n, Mine(t), h, Op(t).key, right, Len(spine) + 1)
            /\ Enter(t)
         \/ /\ ~can
            /\ SetFrame(t, Retry(f))
            /\ UNCHANGED heap
  /\ UNCHANGED <<txn, stack>>

\* forceExpandTable: the marked slot becomes a spine that holds what was in it.
\* If that is a spine, its memory is read as a node, with any hash.
Expand(t) ==
  /\ At(t, "expand")
  /\ LET f == Fr(t)
         p == f.node.to
         s == Cell(f, Op(t))
         home == IF IsData(p) THEN {Digit(OpOf(p).key, NextRight(f.right))}
                 ELSE IF p = Null THEN {0} ELSE 0..(SUB_SIZE - 1)
     IN  \/ /\ CanReplace(f, Op(t))
            /\ \E i \in home :
                 spine' = Append(SetCell(f, Op(t), Slot(Spine(Len(spine) + 1))),
                            [j \in 0..(SUB_SIZE - 1) |-> IF j = i THEN Slot(p) ELSE NullSlot])
            /\ SetFrame(t, Descend(f, Op(t), Len(spine) + 1))
         \/ /\ ~CanReplace(f, Op(t))
            /\ SetFrame(t, Descend(f, Op(t), s.to.spine))
            /\ UNCHANGED spine
  /\ UNCHANGED <<nd, value, txn, stack>>

-----------------------------------------------------------------------------
(* An operation at the node of its key, Fr(t).node.to.                     *)

ReadNodeDesc(t) ==
  /\ At(t, "read")
  /\ LET c == nd[Fr(t).node.to]
     IN  SetFrame(t, [Fr(t) EXCEPT
           !.pc = IF c.desc = Top(t) THEN "exist" ELSE "help", !.old = c])
  /\ UNCHANGED <<heap, txn, stack>>

\* Mutant: the status is not looked at.
NeedsHelp_Durable(d) == pstatus[d] = "IN_PROGRESS"

\* HelpOps has nothing to do for a transaction that is decided and durable.
NeedsHelp(d) == status[d] = "ACTIVE" \/ pstatus[d] # "PERSISTED"

\* FinishPendingTxn, up to the loop of the HelpOps that it calls.
FinishPendingTxn(t) ==
  /\ At(t, "help")
  /\ LET c == Fr(t).old
         e == c.desc
     IN  \/ /\ ~NeedsHelp(e)
            /\ GoTo(t, "exist")
            /\ UNCHANGED stack
         \/ /\ NeedsHelp(e) /\ Contains(stack[t], e)
            /\ GoTo(t, "cycle")
            /\ UNCHANGED stack
         \/ /\ NeedsHelp(e) /\ ~Contains(stack[t], e)
            /\ stack' = [stack EXCEPT ![t] = Append(@, e)]
            /\ fr' = [fr EXCEPT ![t] = [@ EXCEPT ![Top(t)].pc = "exist",
                                                ![e] = NewFrame(c.opid + 1)]]
  /\ UNCHANGED <<heap, txn>>

\* The cyclic dependency check: abort the transaction that waits for itself.
CycleAbort(t) ==
  /\ At(t, "cycle")
  /\ LET e == Fr(t).old.desc
     IN  status' = [status EXCEPT ![e] = IF @ = "ACTIVE" THEN "ABORTED" ELSE @]
  /\ SetFrame(t, [Fr(t) EXCEPT !.pc = "claim", !.back = "exist"])
  /\ UNCHANGED <<heap, ops, pstatus, stack>>

\* The operation has been done by another thread.  FIND then answers with a
\* constant: 0 (which HelpOps takes for "not found") in the main array, true
\* in a spine.
DoneBefore(f, op) ==
  IF op.type # "FIND" THEN Finished(f, TRUE)
  ELSE IF f.right = 0 THEN Finished(f, FALSE)
  ELSE [f EXCEPT !.pc = "answer", !.val = 1]

CheckKeyExist(t) ==
  /\ At(t, "exist")
  /\ LET f == Fr(t)
         c == f.old
         same == c.desc = Top(t) /\ c.opid = f.opid
     IN  SetFrame(t,
           IF same THEN DoneBefore(f, Op(t))
           ELSE IF IsKeyExist_mod(c, Top(t)) = (Op(t).type = "INSERT")
           THEN Finished(f, FALSE)
           ELSE [f EXCEPT !.pc = "curr"])
  /\ UNCHANGED <<heap, txn, stack>>

\* The second look at nodeDesc, and the one at the status of the transaction.
ReadCurrDesc(t) ==
  /\ At(t, "curr")
  /\ SetFrame(t, [Fr(t) EXCEPT !.pc = "active", !.curr = nd[Fr(t).node.to]])
  /\ UNCHANGED <<heap, txn, stack>>

CheckActive(t) ==
  /\ At(t, "active")
  /\ SetFrame(t, IF status[Top(t)] # "ACTIVE" THEN Finished(Fr(t), FALSE)
                 ELSE [Fr(t) EXCEPT !.pc = IF Op(t).type \in {"UPDATE", "FIND"}
                                           THEN "save" ELSE "update"])
  /\ UNCHANGED <<heap, txn, stack>>

\* UPDATE and FIND are about to take over from a committed update: its value
\* moves into the node first.
CheckUnsaved(t) ==
  /\ At(t, "save")
  /\ GoTo(t, IF IsUnsavedUpdate(Fr(t).curr, value[Fr(t).node.to]) THEN "keep" ELSE "update")
  /\ UNCHANGED <<heap, txn, stack>>

SaveUpdate(t) ==
  /\ At(t, "keep")
  /\ value' = [value EXCEPT ![Fr(t).node.to] = GetValue(Fr(t).curr)]
  /\ GoTo(t, "update")
  /\ UNCHANGED <<spine, nd, txn, stack>>

\* Mutant: n->nodeDesc is overwritten, whoever has it by now.
CanTake_Blind(n, old) == TRUE

\* A compare-and-swap of n->nodeDesc from old succeeds.
CanTake(n, old) == nd[n] = old

Taken(f, op) ==
  CASE op.type \in {"UPDATE", "DELETE"} -> Finished(f, TRUE)
    [] op.type = "INSERT"               -> [f EXCEPT !.pc = "value"]
    [] op.type = "FIND"                 -> [f EXCEPT !.pc = "result"]

UpdateDesc(t) ==
  /\ At(t, "update")
  /\ LET f == Fr(t)
         n == f.node.to
     IN  \/ /\ CanTake(n, f.old)
            /\ nd' = [nd EXCEPT ![n] = Mine(t)]
            /\ SetFrame(t, Taken(f, Op(t)))
         \/ /\ ~CanTake(n, f.old)
            /\ SetFrame(t, Restart(f, Op(t)))
            /\ UNCHANGED nd
  /\ UNCHANGED <<spine, value, txn, stack>>

\* INSERT has taken over a node that is there already; now its value.
CompareValue(t) ==
  /\ At(t, "value")
  /\ LET f == Fr(t)
         v == value[f.node.to]
     IN  SetFrame(t, IF v = Op(t).value THEN Finished(f, TRUE)
                     ELSE [f EXCEPT !.pc = "swap", !.val = v])
  /\ UNCHANGED <<heap, txn, stack>>

\* The value that the compare-and-swap expects may be read once more, so it may
\* succeed although the value has changed since the comparison.
SwapValue(t) ==
  /\ At(t, "swap")
  /\ LET f == Fr(t)
         n == f.node.to
     IN  \/ /\ value' = [value EXCEPT ![n] = Op(t).value]
            /\ SetFrame(t, Finished(f, TRUE))
         \/ /\ value[n] # f.val
            /\ SetFrame(t, Restart(f, Op(t)))
            /\ UNCHANGED value
  /\ UNCHANGED <<spine, nd, txn, stack>>

\* FIND answers with the value of the update it took over from, else with that
\* of the node.  0 means "not found".
FindResult(t) ==
  /\ At(t, "result")
  /\ LET f == Fr(t)
         v == IF IsLiveUpdate(f.old) THEN GetValue(f.old) ELSE value[f.node.to]
     IN  SetFrame(t, IF v = 0 THEN Finished(f, FALSE)
                     ELSE [f EXCEPT !.pc = "answer", !.val = v])
  /\ UNCHANGED <<heap, txn, stack>>

\* HelpOps keeps the answer in the descriptor.
StoreAnswer(t) ==
  /\ At(t, "answer")
  /\ ops' = [ops EXCEPT ![Top(t)][Fr(t).opid].value = Fr(t).val]
  /\ SetFrame(t, Finished(Fr(t), TRUE))
  /\ UNCHANGED <<heap, status, pstatus, stack>>

-----------------------------------------------------------------------------
(* The end of HelpOps: decide and persist the descriptor.                  *)

Verdict(f) == IF f.ret THEN "COMMITTED" ELSE "ABORTED"

DecideTxn(t) ==
  /\ At(t, "decide")
  /\ LET d == Top(t)
     IN  \/ /\ status[d] = "ACTIVE"
            /\ status' = [status EXCEPT ![d] = Verdict(Fr(t))]
            /\ GoTo(t, "claim")
            /\ UNCHANGED stack
         \/ /\ status[d] # "ACTIVE"
            /\ Return(t)
            /\ UNCHANGED status
  /\ UNCHANGED <<heap, ops, pstatus>>

\* The descriptor that persistDesc is called for.
PersistTarget(t) == IF Fr(t).back = "exist" THEN Fr(t).old.desc ELSE Top(t)

\* persistDesc is over, or was not needed.
EndPersist(t) ==
  IF Fr(t).back = "return" THEN Return(t)
  ELSE /\ SetFrame(t, [Fr(t) EXCEPT !.pc = "exist", !.back = "return"])
       /\ UNCHANGED stack

\* persistStatus: MAYBE -> IN_PROGRESS, or join whoever did that.
PersistClaim(t) ==
  /\ At(t, "claim")
  /\ LET e == PersistTarget(t)
     IN  IF pstatus[e] = "PERSISTED"
         THEN EndPersist(t) /\ UNCHANGED pstatus
         ELSE /\ GoTo(t, "persisted")
              /\ pstatus' = [pstatus EXCEPT ![e] = "IN_PROGRESS"]
              /\ UNCHANGED stack
  /\ UNCHANGED <<heap, ops, status>>

PersistDone(t) ==
  /\ At(t, "persisted")
  /\ pstatus' = [pstatus EXCEPT ![PersistTarget(t)] = "PERSISTED"]
  /\ EndPersist(t)
  /\ UNCHANGED <<heap, ops, status>>

-----------------------------------------------------------------------------
Step(t) ==       \* thread t goes on with its transaction
  \/ OpLoop(t) \/ ReadSlot(t) \/ MarkSlot(t) \/ Place(t) \/ Split(t) \/ Expand(t)
  \/ ReadNodeDesc(t) \/ FinishPendingTxn(t) \/ CycleAbort(t)
  \/ CheckKeyExist(t) \/ ReadCurrDesc(t) \/ CheckActive(t)
  \/ CheckUnsaved(t) \/ SaveUpdate(t) \/ UpdateDesc(t)
  \/ CompareValue(t) \/ SwapValue(t) \/ FindResult(t) \/ StoreAnswer(t)
  \/ DecideTxn(t) \/ PersistClaim(t) \/ PersistDone(t)

\* Every worker has run its transactions, or is beyond what the model follows.
Terminated ==
  /\ \A d \in Desc : ops[d] # <<>>
  /\ \A t \in Thread : Busy(t) => At(t, "wild")
  /\ UNCHANGED vars

Next == (\E t \in Thread : ExecuteOps(t) \/ Step(t)) \/ Terminated

Spec == Init /\ [][Next]_vars
=============================================================================
