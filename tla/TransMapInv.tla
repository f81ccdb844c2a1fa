---------------------------- MODULE TransMapInv ----------------------------
(***************************************************************************)
(* The inductive invariant behind the theorems on the hash map: what the   *)
(* slots hold, what a frame knows of the slot that it works on, and which  *)
(* place in the trie every array has.                                      *)
(***************************************************************************)
EXTENDS TransMapAbs

\* After so many failures of a compare-and-swap a thread marks the slot; more than a
\* slot can change hands.
Patient == MAX_CAS_FAILURE > 2

\* The frame runs the operation of its opid.
InOp(f) == f.pc \notin {"loop", "decide", "claim", "persisted"} \/ f.back = "exist"

\* It has found the node of its key and looked at its nodeDesc, once and again.
HasNode(f) ==
  f.pc \in {"read", "help", "cycle", "exist", "curr", "active", "save", "keep",
            "update", "value", "swap", "result"} \/ f.back = "exist"
HasOld(f) == HasNode(f) /\ f.pc # "read"
HasCurr(f) == f.pc \in {"active", "save", "keep"}

\* The operation of NodeDesc n is one of an array that a worker has.
Known(n) == n.desc # PreDesc => n.opid <= Len(ops[n.desc])

-----------------------------------------------------------------------------
(* What holds always.                                                      *)

Pointer == NodeDesc \union {Null} \union [spine : 2..Len(spine)]
Contents == [to : Pointer, mark : BOOLEAN]
Size(i) == IF i = 1 THEN MAIN_SIZE ELSE SUB_SIZE
Array(i) == [0..(Size(i) - 1) ->
               [to : NodeDesc \union {Null} \union [spine : Nat], mark : BOOLEAN]]

\* Slots hold what the arrays of operations have put there.
SpinesInv ==
  /\ spine \in Seq(Array(1) \union Array(2)) /\ spine # <<>>
  /\ \A i \in DOMAIN spine :
       /\ spine[i] \in [0..(Size(i) - 1) -> Contents]
       /\ \A j \in 0..(Size(i) - 1) : IsData(spine[i][j].to) => Known(spine[i][j].to)

DescInv == \A n \in NodeDesc : nd[n] = n \/ Known(nd[n])

PreInv == status[PreDesc] = "COMMITTED" /\ pstatus[PreDesc] = "PERSISTED"

\* The locals of an operation o.
OpInv(f, o) ==
  /\ f.local \in DOMAIN spine
  /\ f.right = 0 <=> f.local = 1
  /\ f.node.to \in Pointer
  /\ IsData(f.node.to) => Known(f.node.to)
  /\ HasNode(f) => IsData(f.node.to)
  /\ HasOld(f) => f.old # Null /\ Known(f.old)
  /\ HasCurr(f) => f.curr # Null /\ Known(f.curr)
  /\ f.pc = "place" => f.node = NullSlot
  /\ f.pc = "split" => IsData(f.node.to) /\ ~f.node.mark /\ OpOf(f.node.to).key # o.key
  /\ f.pc = "expand" => f.node.mark
  /\ f.pc \in {"mark", "expand"} /\ f.node.mark => Cell(f, o) = f.node \/ IsSpine(Cell(f, o).to)

FrameInv(f, d) ==
  /\ f.back = "exist" => f.pc \in {"claim", "persisted"}
  /\ ~InOp(f) => f.local = 1 /\ f.right = 0 /\ f.node = NullSlot /\ f.fails = 0
  /\ InOp(f) => f.opid <= Len(ops[d]) /\ OpInv(f, ops[d][f.opid])

FramesInv == \A t \in Thread, d \in Desc : FrameInv(fr[t][d], d)

TypeInv == TypeOK /\ SpinesInv /\ DescInv /\ PreInv /\ FramesInv

-----------------------------------------------------------------------------
(* What holds as long as no operation has lost its way.                    *)

KeyOf(n) == OpOf(n).key

\* The place of an array: the bits used before it, and a key that comes to it.
Places == [DOMAIN spine -> [right : Rights, key : Nat]]

\* The keys that come to array i if at tells the places.
ComesTo(k, i, at) == Same(k, at[i].key, at[i].right)

\* Every slot belongs to the bits that lead to it, and every array has one.
TrieInv(at) ==
  /\ \A i \in DOMAIN spine : at[i].right = 0 <=> i = 1
  /\ \A i \in DOMAIN spine : i # 1 => at[i].key \in Key
  /\ \A i \in DOMAIN spine : i # 1 =>
       \E p \in DOMAIN spine : \E j \in DOMAIN spine[p] : spine[p][j].to = Spine(i)
  /\ \A i \in DOMAIN spine : \A j \in DOMAIN spine[i] :
       LET s == spine[i][j]
       IN  /\ ~s.mark
           /\ IsData(s.to) => ComesTo(KeyOf(s.to), i, at) /\ Digit(KeyOf(s.to), at[i].right) = j
           /\ IsSpine(s.to) =>
                /\ at[s.to.spine].right = NextRight(at[i].right)
                /\ ComesTo(at[s.to.spine].key, i, at)
                /\ Digit(at[s.to.spine].key, at[i].right) = j

\* An operation o is on its way, and each failure at a slot was a change of it.
WayInv(f, o, at) ==
  /\ at[f.local].right = f.right
  /\ ComesTo(o.key, f.local, at)
  /\ f.pc \notin {"mark", "expand"}
  /\ f.fails <= 2
  /\ f.fails >= 1 => Cell(f, o).to # Null
  /\ f.fails >= 2 => IsSpine(Cell(f, o).to)
  /\ f.pc = "place" => f.fails = 0
  /\ f.pc = "split" =>
       /\ f.fails <= 1
       /\ Cell(f, o) = f.node \/ IsSpine(Cell(f, o).to)
       /\ Same(KeyOf(f.node.to), o.key, NextRight(f.right))

WaysInv(at) ==
  \A t \in Thread, d \in Desc :
    InOp(fr[t][d]) => WayInv(fr[t][d], ops[d][fr[t][d].opid], at)

RouteInv == \E at \in Places : TrieInv(at) /\ WaysInv(at)

\* The inductive invariant.
IInv == TypeInv /\ ("way" \notin flaws => RouteInv)
=============================================================================
