-------------------------- MODULE TransSkipProofs --------------------------
(***************************************************************************)
(* Theorems about TransSkip: its frames and descriptors first, then its    *)
(* levels.                                                                 *)
(***************************************************************************)
EXTENDS TransSkipInv, Paths, TLAPS, SequenceTheorems

LEMMA Levels == 0 \in Level /\ NumLevels - 1 \in Level /\ NumLevels \in Nat
  BY ConstantsAssumption DEF Level

LEMMA NewFrameType == \A i \in 1..(MaxOps + 1) : NewFrame(i) \in Frame
<1>1. NoPath \in [Level -> Node]
  BY DEF NoPath, Node
<1> QED
  BY <1>1, Levels, ConstantsAssumption DEF NewFrame, Frame, Labels, Node

\* Every pointer of the prefilled skiplist leads to a node.
LEMMA LinkedType ==
  ASSUME NEW S \in Prefills, NEW height \in [Key -> 1..NumLevels]
  PROVE  Linked(S, height) \in [Level -> [Node -> Node]]
<1> USE ConstantsAssumption
<1> DEFINE at(k) == [by |-> Main, desc |-> PreDesc, opid |-> k]
           on(i) == {k \in S : height[k] > i}
           IsNext(i, k, j) == j > k /\ \A m \in on(i) : m > k => j <= m
           after(i, k) == IF \E j \in on(i) : IsNext(i, k, j)
                          THEN at(CHOOSE j \in on(i) : IsNext(i, k, j)) ELSE tail
<1>1. ASSUME NEW i, NEW k PROVE after(i, k) \in Node
  <2> HIDE DEF IsNext
  <2>1. CASE \E j \in on(i) : IsNext(i, k, j)
    <3>1. (CHOOSE j \in on(i) : IsNext(i, k, j)) \in Key
      BY <2>1
    <3> QED
      BY <2>1, <3>1 DEF Node, NodeDesc
  <2>2. CASE ~\E j \in on(i) : IsNext(i, k, j)
    BY <2>2 DEF Node
  <2> QED
    BY <2>1, <2>2
<1>2. Linked(S, height) =
        [i \in Level |-> [n \in Node |->
           IF n = head THEN after(i, 0)
           ELSE IF n \in NodeDesc /\ n.desc = PreDesc /\ n.opid \in on(i)
           THEN after(i, n.opid) ELSE tail]]
  BY DEF Linked
<1> HIDE DEF after
<1> QED
  BY <1>1, <1>2 DEF Node

LEMMA NewFrameInv ==
  ASSUME NEW i \in 1..(MaxOps + 1), NEW d
  PROVE  FrameInv(NewFrame(i), d)
BY DEF FrameInv, NewFrame, InOp, HasOld, PersistLabels

LEMMA InitIInv == Init => IInv
<1> SUFFICES ASSUME Init PROVE IInv
  OBVIOUS
<1> USE ConstantsAssumption, NullAssumption
<1>1. next \in [Level -> [Node -> Node]]
  BY LinkedType DEF Init
<1>2. 1 \in 1..(MaxOps + 1)
  OBVIOUS
<1>3. TypeOK
  <2>1. NewFrame(1) \in Frame
    BY <1>2, NewFrameType
  <2> QED
    BY <1>1, <2>1 DEF Init, TypeOK, AllDesc
<1>4. PreInv
  BY DEF Init, PreInv, AllDesc
<1>5. \A t \in Thread, d \in Desc : FrameInv(fr[t][d], d)
  BY <1>2, NewFrameInv DEF Init
<1>6. \A t \in Thread : stack[t] = <<>>
  BY DEF Init
<1>7. \A d \in Desc : pstatus[d] = "MAYBE"
  BY DEF Init, AllDesc
<1> QED
  BY <1>3, <1>4, <1>5, <1>6, <1>7 DEF IInv, StackInv, Busy, DecidedBeforePersist

-----------------------------------------------------------------------------
(* The stack of a thread.                                                  *)

LEMMA TopInStack ==
  ASSUME TypeOK, NEW t \in Thread, Busy(t)
  PROVE  /\ Len(stack[t]) \in Nat \ {0}
         /\ Top(t) = stack[t][Len(stack[t])]
         /\ Top(t) \in Desc
         /\ Fr(t) \in Frame
<1>1. stack[t] \in Seq(Desc) /\ stack[t] # <<>>
  BY DEF TypeOK, Busy
<1>2. Len(stack[t]) \in Nat \ {0}
  BY <1>1
<1>3. Top(t) = stack[t][Len(stack[t])]
  BY DEF Top, Last
<1>4. Top(t) \in Desc
  BY <1>1, <1>2, <1>3
<1> QED
  BY <1>2, <1>3, <1>4 DEF TypeOK, Fr

\* Nothing that a frame relies on is lost when no transaction loses its
\* outcome and no operation array changes.
Monotone ==
  /\ \A d \in AllDesc : status[d] # "LIVE" => status'[d] # "LIVE"
  /\ \A d \in Desc : ops[d] # <<>> => ops'[d] = ops[d]

LEMMA FrameInvStable ==
  ASSUME TypeOK, Monotone, NEW d \in Desc, NEW f \in Frame, FrameInv(f, d)
  PROVE  FrameInv(f, d)'
<1>1. InOp(f) => f.opid <= Len(ops'[d])
  <2> SUFFICES ASSUME InOp(f) PROVE f.opid <= Len(ops'[d])
    OBVIOUS
  <2>1. f.opid <= Len(ops[d]) /\ f.opid >= 1 /\ f.opid \in Nat
    BY ConstantsAssumption DEF FrameInv, Frame
  <2>2. ops[d] # <<>>
    BY <2>1
  <2> QED
    BY <2>1, <2>2 DEF Monotone
<1>2. f.back = "exist" => f.old.desc \in AllDesc
  BY DEF FrameInv, HasOld, Frame, NodeDesc, AllDesc
<1> QED
  BY <1>1, <1>2 DEF FrameInv, Monotone, AllDesc, InOp, HasOld

\* A step that changes the top frame of one thread.
LEMMA FrameStep ==
  ASSUME IInv, NEW t \in Thread, Busy(t), NEW f \in Frame,
         fr' = [fr EXCEPT ![t][Top(t)] = f], stack' = stack,
         Monotone, PreInv', DecidedBeforePersist',
         FrameInv(f, Top(t))', Resolved(f, Top(t))',
         /\ next' \in [Level -> [Node -> Node]]
         /\ nd' \in [NodeDesc -> NodeDesc]
         /\ ops' \in [Desc -> OpArrays \union {<<>>}]
         /\ status' \in [AllDesc -> {"LIVE", "COMMITTED", "ABORTED"}]
         /\ pstatus' \in [AllDesc -> {"MAYBE", "IN_PROGRESS", "PERSISTED"}]
         /\ txid' \in [AllDesc -> Nat]
         /\ lastTxId' \in Nat
  PROVE  IInv'
<1> DEFINE d == Top(t)
<1>1. TypeOK
  BY DEF IInv
<1>2. /\ Len(stack[t]) \in Nat \ {0}
      /\ d = stack[t][Len(stack[t])]
      /\ d \in Desc
  BY <1>1, TopInStack
<1>3. /\ fr'[t][d] = f
      /\ \A u \in Thread, e \in Desc : u # t \/ e # d => fr'[u][e] = fr[u][e]
      /\ fr' \in [Thread -> [Desc -> Frame]]
  BY <1>1, <1>2 DEF TypeOK
<1>4. TypeOK'
  BY <1>1, <1>3 DEF TypeOK
<1>5. \A u \in Thread, e \in Desc : FrameInv(fr[u][e], e)'
  <2> SUFFICES ASSUME NEW u \in Thread, NEW e \in Desc
               PROVE  FrameInv(fr[u][e], e)'
    OBVIOUS
  <2>1. CASE u = t /\ e = d
    <3>1. Top(t)' = d /\ fr'[u][e] = f
      BY <1>3, <2>1 DEF Top
    <3> QED
      BY <2>1, <3>1 DEF FrameInv, InOp, HasOld
  <2>2. CASE u # t \/ e # d
    <3>1. FrameInv(fr[u][e], e) /\ fr[u][e] \in Frame
      BY <1>1 DEF IInv, TypeOK
    <3>2. PICK g \in Frame : g = fr[u][e]
      BY <3>1
    <3>3. FrameInv(g, e)'
      BY <1>1, <3>1, <3>2, FrameInvStable
    <3>4. fr'[u][e] = g
      BY <1>3, <2>2, <3>2
    <3> QED
      BY <3>3, <3>4 DEF FrameInv, InOp, HasOld
  <2> QED
    BY <2>1, <2>2
<1>6. \A u \in Thread : StackInv(u)'
  <2> SUFFICES ASSUME NEW u \in Thread PROVE StackInv(u)'
    OBVIOUS
  <2>1. StackInv(u)
    BY DEF IInv
  <2>2. stack[u] \in Seq(Desc)
    BY <1>1 DEF TypeOK
  <2>3. ASSUME NEW i \in 1..(Len(stack[u]) - 1)
        PROVE  fr'[u][stack[u][i]] = fr[u][stack[u][i]]
    <3>1. i \in 1..Len(stack[u]) /\ stack[u][i] \in Desc
      BY <2>2
    <3>2. u = t => stack[u][i] # d
      <4> SUFFICES ASSUME u = t, stack[u][i] = d PROVE FALSE
        OBVIOUS
      <4>1. stack[t][i] = stack[t][Len(stack[t])] /\ Len(stack[t]) \in 1..Len(stack[t])
        BY <1>2
      <4>2. i = Len(stack[t])
        BY <2>1, <3>1, <4>1 DEF StackInv
      <4> QED
        BY <1>2, <4>2
    <3> QED
      BY <1>3, <3>1, <3>2
  <2> QED
    BY <2>1, <2>3 DEF StackInv
<1>7. \A u \in Thread : Busy(u)' => Resolved(Fr(u), Top(u))'
  <2> SUFFICES ASSUME NEW u \in Thread, Busy(u)'
               PROVE  Resolved(Fr(u), Top(u))'
    OBVIOUS
  <2>1. Busy(u) /\ Top(u)' = Top(u)
    BY DEF Busy, Top
  <2>2. Top(u) \in Desc /\ Fr(u) \in Frame
    BY <1>1, <2>1, TopInStack
  <2>3. CASE u = t
    BY <1>3, <2>1, <2>2, <2>3 DEF Resolved, Fr
  <2>4. CASE u # t
    <3>1. Fr(u)' = Fr(u)
      BY <1>3, <2>1, <2>2, <2>4 DEF Fr
    <3>2. Resolved(Fr(u), Top(u)) /\ FrameInv(Fr(u), Top(u))
      BY <2>1, <2>2 DEF IInv, Fr
    <3>3. Fr(u).pc \in {"exist", "active", "update"} => Fr(u).old.desc \in AllDesc
      BY <2>2, <3>2 DEF FrameInv, HasOld, Frame, NodeDesc, AllDesc
    <3> QED
      BY <2>1, <2>2, <3>1, <3>2, <3>3 DEF Resolved, Monotone, AllDesc
  <2> QED
    BY <2>3, <2>4
<1> QED
  BY <1>4, <1>5, <1>6, <1>7 DEF IInv

-----------------------------------------------------------------------------
(* The frame of a thread before and after a step.                          *)

Good(f, d) == f \in Frame /\ FrameInv(f, d) /\ Resolved(f, d)

LEMMA Running ==
  ASSUME IInv, NEW t \in Thread, Busy(t)
  PROVE  /\ Top(t) \in Desc
         /\ Good(Fr(t), Top(t))
         /\ InOp(Fr(t)) => /\ Fr(t).opid \in 1..MaxOps
                           /\ Mine(t) \in NodeDesc
                           /\ Op(t) \in Operator
<1>1. TypeOK /\ Top(t) \in Desc /\ Fr(t) \in Frame
  BY TopInStack DEF IInv
<1>2. FrameInv(Fr(t), Top(t)) /\ Resolved(Fr(t), Top(t))
  BY <1>1 DEF IInv, Fr
<1>3. ASSUME InOp(Fr(t))
      PROVE  Fr(t).opid \in 1..MaxOps /\ Op(t) \in Operator
  <2>1. Fr(t).opid \in Nat /\ Fr(t).opid >= 1 /\ Fr(t).opid <= Len(ops[Top(t)])
    BY <1>1, <1>2, <1>3, ConstantsAssumption DEF FrameInv, Frame
  <2>2. ops[Top(t)] \in OpArrays
    BY <1>1, <2>1 DEF TypeOK
  <2>3. ops[Top(t)] \in Seq(Operator) /\ Len(ops[Top(t)]) \in 1..MaxOps
    BY <2>2, ConstantsAssumption
  <2>4. Fr(t).opid \in 1..Len(ops[Top(t)])
    BY <2>1, <2>3
  <2> QED
    BY <2>1, <2>3, <2>4, ConstantsAssumption DEF Op
<1> QED
  BY <1>1, <1>2, <1>3 DEF Good, Mine, NodeDesc

\* A step that touches neither the descriptors nor the stacks.
LEMMA LocalStep ==
  ASSUME IInv, NEW t \in Thread, Busy(t), NEW f, Good(f, Top(t)),
         SetFrame(t, f), UNCHANGED <<ops, status, persist, stack>>,
         /\ next' \in [Level -> [Node -> Node]]
         /\ nd' \in [NodeDesc -> NodeDesc]
  PROVE  IInv'
<1>1. TypeOK /\ PreInv /\ DecidedBeforePersist
  BY DEF IInv
<1>2. Top(t)' = Top(t)
  BY DEF Top
<1>3. Monotone
  BY DEF Monotone
<1>4. PreInv' /\ DecidedBeforePersist'
  BY <1>1 DEF PreInv, DecidedBeforePersist, persist
<1>5. FrameInv(f, Top(t))' /\ Resolved(f, Top(t))'
  BY <1>2 DEF Good, FrameInv, Resolved, InOp, HasOld
<1>6. f \in Frame /\ fr' = [fr EXCEPT ![t][Top(t)] = f]
  BY DEF Good, SetFrame
<1>7. /\ ops' \in [Desc -> OpArrays \union {<<>>}]
      /\ status' \in [AllDesc -> {"LIVE", "COMMITTED", "ABORTED"}]
      /\ pstatus' \in [AllDesc -> {"MAYBE", "IN_PROGRESS", "PERSISTED"}]
      /\ txid' \in [AllDesc -> Nat]
      /\ lastTxId' \in Nat
  BY <1>1 DEF TypeOK, persist
<1> QED
  BY <1>3, <1>4, <1>5, <1>6, <1>7, FrameStep

LEMMA HeapType ==
  ASSUME IInv, UNCHANGED heap
  PROVE  /\ next' \in [Level -> [Node -> Node]]
         /\ nd' \in [NodeDesc -> NodeDesc]
  BY DEF IInv, TypeOK, heap

LEMMA QuietStep ==
  ASSUME IInv, NEW t \in Thread, Busy(t), NEW f, Good(f, Top(t)),
         SetFrame(t, f), UNCHANGED <<heap, ops, status, persist, stack>>
  PROVE  IInv'
BY LocalStep, HeapType

LEMMA FinishedGood ==
  ASSUME NEW f, NEW d, f.opid \in 1..MaxOps, NEW r \in BOOLEAN
  PROVE  Good(Finished(f, r), d)
<1>1. f.opid + 1 \in 1..(MaxOps + 1)
  BY ConstantsAssumption
<1>2. PICK g \in Frame : /\ g = NewFrame(f.opid + 1) /\ FrameInv(g, d)
                         /\ g.pc = "loop" /\ g.back = "return" /\ g.height = 0
  BY <1>1, NewFrameType, NewFrameInv DEF NewFrame
<1>3. Finished(f, r) = [g EXCEPT !.ret = r]
  BY <1>2 DEF Finished
<1> QED
  BY <1>2, <1>3 DEF Good, Frame, FrameInv, Resolved, InOp, HasOld, PersistLabels

\* The locals and the label of a frame at which nothing is relied on.
LEMMA FreeGood ==
  ASSUME NEW f \in Frame, NEW d, f.back = "return", f.height > 0 => f.rise < f.height,
         \/ f.pc \in {"loop", "decide"}
         \/ f.pc \in {"search", "absent", "link"} /\ f.opid <= Len(ops[d])
         \/ f.pc = "raise" /\ f.opid <= Len(ops[d]) /\ f.height > 0
         \/ f.pc = "read" /\ f.opid <= Len(ops[d]) /\ f.x \in NodeDesc
         \/ /\ f.pc \in {"help", "cycle", "exist", "active", "update"}
            /\ f.opid <= Len(ops[d]) /\ f.x \in NodeDesc /\ f.old # Null
            /\ Resolved(f, d)
  PROVE  Good(f, d)
<1>1. Resolved(f, d)
  BY DEF Resolved
<1> QED
  BY <1>1 DEF Good, FrameInv, InOp, HasOld, PersistLabels

\* What a frame in an operation has.
LEMMA InOpFacts ==
  ASSUME IInv, NEW t \in Thread,
         \E p \in {"search", "absent", "link", "raise", "read", "help", "cycle",
                   "exist", "active", "update"} : At(t, p)
  PROVE  /\ Busy(t)
         /\ Top(t) \in Desc
         /\ Fr(t) \in Frame
         /\ FrameInv(Fr(t), Top(t))
         /\ Resolved(Fr(t), Top(t))
         /\ Fr(t).back = "return"
         /\ Fr(t).opid \in 1..MaxOps
         /\ Fr(t).opid <= Len(ops[Top(t)])
         /\ Mine(t) \in NodeDesc
         /\ Op(t) \in Operator
         /\ Fr(t).height > 0 => Fr(t).rise < Fr(t).height
<1>1. Busy(t) /\ InOp(Fr(t)) /\ Fr(t).pc \notin PersistLabels
  BY DEF At, InOp, PersistLabels
<1>2. Good(Fr(t), Top(t)) /\ Fr(t).back # "exist"
  BY <1>1, Running DEF Good, FrameInv
<1> QED
  BY <1>1, <1>2, Running DEF Good, FrameInv, Frame

\* An operation that runs can end.
LEMMA FinishedRunning ==
  ASSUME IInv, NEW t \in Thread, NEW r \in BOOLEAN,
         \E p \in {"search", "absent", "link", "raise", "read", "help", "cycle",
                   "exist", "active", "update"} : At(t, p)
  PROVE  Good(Finished(Fr(t), r), Top(t))
BY InOpFacts, FinishedGood

-----------------------------------------------------------------------------
(* One lemma per action: the searches and the links.                       *)

LEMMA SearchingGood ==
  ASSUME NEW f \in Frame, NEW d, f.back = "return", f.opid <= Len(ops[d]),
         f.height > 0 => f.rise < f.height
  PROVE  Good(Searching(f), d)
<1>1. NoPath \in [Level -> Node] /\ head \in Node
  BY DEF NoPath, Node
<1>2. /\ Searching(f) \in Frame /\ Searching(f).pc = "search"
      /\ Searching(f).back = f.back /\ Searching(f).opid = f.opid
      /\ Searching(f).height = f.height /\ Searching(f).rise = f.rise
  BY <1>1, Levels DEF Searching, Frame, Labels
<1> QED
  BY <1>2, FreeGood

LEMMA OpLoopStep ==
  ASSUME IInv, NEW t \in Thread, OpLoop(t) PROVE IInv'
<1> DEFINE d == Top(t)
           f == Fr(t)
           end == [f EXCEPT !.pc = "decide"]
<1>1. Busy(t) /\ f.pc = "loop"
  BY DEF OpLoop, At
<1>2. f \in Frame /\ f.back = "return" /\ (f.height > 0 => f.rise < f.height)
  BY <1>1, Running DEF Good, FrameInv, Frame, PersistLabels
<1>3. /\ end \in Frame /\ end.pc = "decide" /\ end.back = f.back
      /\ end.height = f.height /\ end.rise = f.rise
  BY <1>2 DEF Frame, Labels
<1>4. Good(end, d)
  BY <1>2, <1>3, FreeGood
<1>5. CASE f.opid <= Len(ops[d]) /\ SetFrame(t, Searching(f))
  BY <1>1, <1>2, <1>5, SearchingGood, QuietStep DEF OpLoop
<1>6. CASE SetFrame(t, end)
  BY <1>1, <1>4, <1>6, QuietStep DEF OpLoop
<1> QED
  BY <1>5, <1>6 DEF OpLoop

\* The search has come to y.
LEMMA LocatedGood ==
  ASSUME NEW f \in Frame, NEW d, f.back = "return", f.opid <= Len(ops[d]),
         f.height > 0 => f.rise < f.height, f.opid \in 1..MaxOps,
         NEW op \in Operator, NEW y \in Node
  PROVE  Good(Located(f, op, y), d)
<1> DEFINE up == [f EXCEPT !.pc = "raise", !.x = head]
           at == [f EXCEPT !.pc = "read", !.x = y, !.preds = NoPath, !.succs = NoPath]
           no == [f EXCEPT !.pc = "absent", !.x = head]
<1>1. NoPath \in [Level -> Node] /\ head \in Node
  BY DEF NoPath, Node
<1>2. CASE f.height > 0
  <2>1. /\ up \in Frame /\ up.pc = "raise" /\ up.back = f.back /\ up.opid = f.opid
        /\ up.height = f.height /\ up.rise = f.rise
    BY <1>1 DEF Frame, Labels
  <2>2. f.height # 0
    BY <1>2
  <2>3. Located(f, op, y) = up
    BY <1>2, <2>2 DEF Located
  <2> QED
    BY <1>2, <2>1, <2>3, FreeGood
<1>3. CASE ~(f.height > 0) /\ KeyOf(y) = op.key
  <2>1. /\ at \in Frame /\ at.pc = "read" /\ at.back = f.back /\ at.opid = f.opid
        /\ at.height = f.height /\ at.rise = f.rise /\ at.x = y
    BY <1>1 DEF Frame, Labels
  <2>2. Located(f, op, y) = at
    BY <1>3, Levels DEF Located, Frame
  <2>3. y \in NodeDesc
    BY <1>3, NullAssumption, ConstantsAssumption DEF KeyOf, Node, Operator, Key
  <2> QED
    BY <1>3, <2>1, <2>2, <2>3, FreeGood
<1>4. CASE ~(f.height > 0) /\ KeyOf(y) # op.key
  <2>1. f.height = 0
    BY <1>4, Levels DEF Frame
  <2>2. /\ no \in Frame /\ no.pc = "absent" /\ no.back = f.back /\ no.opid = f.opid
        /\ no.height = f.height /\ no.rise = f.rise
    BY <1>1 DEF Frame, Labels
  <2>3. Good(no, d)
    BY <1>4, <2>2, FreeGood
  <2>4. Good(Finished(f, FALSE), d)
    BY FinishedGood
  <2>5. Located(f, op, y) \in {no, Finished(f, FALSE)}
    BY <1>4, <2>1 DEF Located
  <2> QED
    BY <2>3, <2>4, <2>5
<1> QED
  BY <1>2, <1>3, <1>4

LEMMA SearchStep ==
  ASSUME IInv, NEW t \in Thread, Search(t) PROVE IInv'
<1> DEFINE f == Fr(t)
           d == Top(t)
           y == next[f.lvl][f.x]
           walk == [f EXCEPT !.x = y]
           note == [f EXCEPT !.preds[f.lvl] = f.x, !.succs[f.lvl] = y]
<1>1. At(t, "search") /\ f.pc = "search" /\ UNCHANGED <<heap, ops, status, persist, stack>>
  BY DEF Search, At
<1>2. /\ f \in Frame /\ f.back = "return" /\ f.opid <= Len(ops[d]) /\ Busy(t)
      /\ f.height > 0 => f.rise < f.height
      /\ f.opid \in 1..MaxOps /\ Op(t) \in Operator
  BY <1>1, InOpFacts
<1>3. y \in Node /\ f.lvl \in Level /\ f.x \in Node
  BY <1>2 DEF IInv, TypeOK, Frame
<1>4. /\ walk \in Frame /\ walk.pc = f.pc /\ walk.back = f.back /\ walk.opid = f.opid
      /\ walk.height = f.height /\ walk.rise = f.rise
  BY <1>2, <1>3 DEF Frame
<1>5. /\ note \in Frame /\ note.pc = f.pc /\ note.back = f.back /\ note.opid = f.opid
      /\ note.height = f.height /\ note.rise = f.rise /\ note.lvl = f.lvl
  BY <1>2, <1>3 DEF Frame
<1>6. PICK g \in {f, note} :
        \/ SetFrame(t, walk)
        \/ f.lvl > 0 /\ SetFrame(t, [g EXCEPT !.lvl = f.lvl - 1])
        \/ SetFrame(t, Located(g, Op(t), y))
  BY <1>5 DEF Search
<1>7. /\ g \in Frame /\ g.pc = f.pc /\ g.back = f.back /\ g.opid = f.opid
      /\ g.height = f.height /\ g.rise = f.rise
  BY <1>2, <1>5, <1>6
<1> HIDE DEF walk, note
<1>8. CASE SetFrame(t, walk)
  <2>1. Good(walk, d)
    BY <1>1, <1>2, <1>4, FreeGood
  <2> QED
    BY <1>1, <1>2, <1>8, <2>1, QuietStep
<1>9. CASE f.lvl > 0 /\ SetFrame(t, [g EXCEPT !.lvl = f.lvl - 1])
  <2> DEFINE low == [g EXCEPT !.lvl = f.lvl - 1]
  <2>1. f.lvl - 1 \in Level
    BY <1>3, <1>9, Levels DEF Level
  <2>2. /\ low \in Frame /\ low.pc = f.pc /\ low.back = f.back /\ low.opid = f.opid
        /\ low.height = f.height /\ low.rise = f.rise
    BY <1>7, <2>1 DEF Frame
  <2>3. SetFrame(t, low)
    BY <1>9
  <2> HIDE DEF low
  <2>4. Good(low, d)
    BY <1>1, <1>2, <2>2, FreeGood
  <2> QED
    BY <1>1, <1>2, <2>3, <2>4, QuietStep
<1>10. CASE SetFrame(t, Located(g, Op(t), y))
  <2>1. Good(Located(g, Op(t), y), d)
    BY <1>2, <1>3, <1>7, LocatedGood
  <2> QED
    BY <1>1, <1>2, <1>10, <2>1, QuietStep
<1> QED
  BY <1>6, <1>8, <1>9, <1>10

LEMMA InsertAbsentStep ==
  ASSUME IInv, NEW t \in Thread, InsertAbsent(t) PROVE IInv'
<1> DEFINE f == Fr(t)
           on == [f EXCEPT !.pc = "link"]
<1>1. At(t, "absent") /\ f.pc = "absent" /\ f \in Frame
  BY InOpFacts DEF InsertAbsent, At
<1>2. /\ on \in Frame /\ on.pc = "link" /\ on.back = f.back /\ on.opid = f.opid
      /\ on.height = f.height /\ on.rise = f.rise
  BY <1>1 DEF Frame, Labels
<1>3. Good(on, Top(t))
  BY <1>1, <1>2, InOpFacts, FreeGood
<1>4. PICK g \in {on, Finished(f, FALSE)} : SetFrame(t, g)
  BY DEF InsertAbsent
<1>5. Good(g, Top(t))
  BY <1>1, <1>3, <1>4, FinishedRunning
<1> QED
  BY <1>1, <1>4, <1>5, InOpFacts, QuietStep DEF InsertAbsent

\* A link leaves the pointers well-typed.
LEMMA LinkType ==
  ASSUME TypeOK, NEW f \in Frame, NEW i \in Level, NEW n \in Node, NEW top,
         LinkAt(i, n, f, top)
  PROVE  next' \in [Level -> [Node -> Node]]
<1>1. f.succs \in [Level -> Node] /\ f.preds \in [Level -> Node]
  BY DEF Frame
<1> DEFINE own(j) == IF j \in i..top THEN [next[j] EXCEPT ![n] = f.succs[j]] ELSE next[j]
           new(j) == IF j = i THEN [own(j) EXCEPT ![f.preds[i]] = n] ELSE own(j)
<1>2. ASSUME NEW j \in Level PROVE own(j) \in [Node -> Node]
  BY <1>1 DEF TypeOK
<1>3. next' = [j \in Level |-> new(j)]
  BY DEF LinkAt
<1> HIDE DEF own
<1>4. ASSUME NEW j \in Level PROVE new(j) \in [Node -> Node]
  BY <1>1, <1>2
<1> HIDE DEF new
<1> QED
  BY <1>3, <1>4

LEMMA InsertLinkStep ==
  ASSUME IInv, NEW t \in Thread, InsertLink(t) PROVE IInv'
<1> DEFINE f == Fr(t)
           d == Top(t)
<1>1. At(t, "link") /\ f.pc = "link" /\ UNCHANGED <<nd, ops, status, persist, stack>>
  BY DEF InsertLink, At
<1>2. /\ f \in Frame /\ f.back = "return" /\ f.opid <= Len(ops[d]) /\ Busy(t)
      /\ f.height > 0 => f.rise < f.height
      /\ f.opid \in 1..MaxOps /\ Mine(t) \in Node
  BY <1>1, InOpFacts DEF Node
<1>3. CASE SetFrame(t, Searching(f)) /\ UNCHANGED next
  BY <1>1, <1>2, <1>3, SearchingGood, QuietStep DEF heap
<1>4. ASSUME NEW h \in 1..NumLevels, LinkAt(0, Mine(t), f, h - 1),
             SetFrame(t, IF h = 1 THEN Finished(f, TRUE)
                         ELSE [f EXCEPT !.pc = "raise", !.height = h, !.rise = 1])
      PROVE  IInv'
  <2> DEFINE up == [f EXCEPT !.pc = "raise", !.height = h, !.rise = 1]
  <2>1. next' \in [Level -> [Node -> Node]] /\ nd' \in [NodeDesc -> NodeDesc]
    BY <1>1, <1>2, <1>4, Levels, LinkType DEF IInv, TypeOK
  <2>2. CASE h = 1
    <3>1. SetFrame(t, Finished(f, TRUE))
      BY <1>4, <2>2
    <3> QED
      BY <1>1, <1>2, <2>1, <3>1, FinishedRunning, LocalStep
  <2>3. CASE h # 1
    <3>1. 1 \in Level /\ h \in 0..NumLevels /\ 1 < h /\ h > 0
      BY <2>3, Levels DEF Level
    <3>2. /\ up \in Frame /\ up.pc = "raise" /\ up.back = f.back /\ up.opid = f.opid
          /\ up.height = h /\ up.rise = 1
      BY <1>2, <3>1 DEF Frame, Labels
    <3>3. SetFrame(t, up)
      BY <1>4, <2>3
    <3> HIDE DEF up
    <3>4. Good(up, d)
      BY <1>2, <3>1, <3>2, FreeGood
    <3> QED
      BY <1>1, <1>2, <2>1, <3>3, <3>4, LocalStep
  <2> QED
    BY <2>2, <2>3
<1> QED
  BY <1>3, <1>4 DEF InsertLink

LEMMA RaiseNodeStep ==
  ASSUME IInv, NEW t \in Thread, RaiseNode(t) PROVE IInv'
<1> DEFINE f == Fr(t)
           d == Top(t)
           i == f.rise
<1>1. At(t, "raise") /\ f.pc = "raise" /\ UNCHANGED <<nd, ops, status, persist, stack>>
  BY DEF RaiseNode, At
<1>2. /\ f \in Frame /\ f.back = "return" /\ f.opid <= Len(ops[d]) /\ Busy(t)
      /\ f.height > 0 /\ i < f.height /\ i \in Level
      /\ f.opid \in 1..MaxOps /\ Mine(t) \in Node
  BY <1>1, InOpFacts DEF Node, FrameInv, Frame
<1>3. CASE SetFrame(t, Searching(f)) /\ UNCHANGED next
  BY <1>1, <1>2, <1>3, SearchingGood, QuietStep DEF heap
<1>4. CASE /\ LinkAt(i, Mine(t), f, i)
           /\ SetFrame(t, IF i + 1 < f.height THEN [f EXCEPT !.rise = i + 1]
                          ELSE Finished(f, TRUE))
  <2> DEFINE up == [f EXCEPT !.rise = i + 1]
  <2>1. next' \in [Level -> [Node -> Node]] /\ nd' \in [NodeDesc -> NodeDesc]
    BY <1>1, <1>2, <1>4, LinkType DEF IInv, TypeOK
  <2>2. CASE ~(i + 1 < f.height)
    <3>1. SetFrame(t, Finished(f, TRUE))
      BY <1>4, <2>2
    <3> QED
      BY <1>1, <1>2, <2>1, <3>1, FinishedRunning, LocalStep
  <2>3. CASE i + 1 < f.height
    <3>1. i + 1 \in Level
      BY <1>2, <2>3, Levels DEF Level, Frame
    <3>2. /\ up \in Frame /\ up.pc = "raise" /\ up.back = f.back /\ up.opid = f.opid
          /\ up.height = f.height /\ up.rise = i + 1
      BY <1>1, <1>2, <3>1 DEF Frame
    <3>3. SetFrame(t, up)
      BY <1>4, <2>3
    <3> HIDE DEF up
    <3>4. Good(up, d)
      BY <1>2, <2>3, <3>2, FreeGood
    <3> QED
      BY <1>1, <1>2, <2>1, <3>3, <3>4, LocalStep
  <2> QED
    BY <2>2, <2>3
<1> QED
  BY <1>3, <1>4 DEF RaiseNode

-----------------------------------------------------------------------------
(* An operation at the node of its key.                                    *)

LEMMA ReadNodeDescStep ==
  ASSUME IInv, NEW t \in Thread, ReadNodeDesc(t) PROVE IInv'
<1> DEFINE f == Fr(t)
           c == nd[f.x]
           on == [f EXCEPT !.pc = IF c.desc = Top(t) THEN "exist" ELSE "help", !.old = c]
<1>1. At(t, "read") /\ f.pc = "read" /\ f \in Frame
  BY InOpFacts DEF ReadNodeDesc, At
<1>2. f.x \in NodeDesc
  BY <1>1, InOpFacts DEF FrameInv
<1>3. c \in NodeDesc /\ c # Null
  BY <1>2, NullAssumption DEF IInv, TypeOK, Node
<1>4. /\ on \in Frame /\ on.back = f.back /\ on.opid = f.opid /\ on.x = f.x
      /\ on.height = f.height /\ on.rise = f.rise /\ on.old = c
      /\ on.pc = "help" \/ (on.pc = "exist" /\ c.desc = Top(t))
  BY <1>1, <1>3 DEF Frame, Labels
<1>5. SetFrame(t, on)
  BY DEF ReadNodeDesc
<1> HIDE DEF on
<1>6. Good(on, Top(t))
  BY <1>1, <1>2, <1>3, <1>4, InOpFacts, FreeGood DEF Resolved
<1> QED
  BY <1>1, <1>5, <1>6, InOpFacts, QuietStep DEF ReadNodeDesc

LEMMA CheckKeyExistStep ==
  ASSUME IInv, NEW t \in Thread, CheckKeyExist(t) PROVE IInv'
<1> DEFINE f == Fr(t)
           on == [f EXCEPT !.pc = "active"]
<1>1. At(t, "exist") /\ f.pc = "exist" /\ f \in Frame
  BY InOpFacts DEF CheckKeyExist, At
<1>2. f.x \in NodeDesc /\ f.old # Null /\ Resolved(f, Top(t))
  BY <1>1, InOpFacts DEF FrameInv, HasOld
<1>3. /\ on \in Frame
      /\ on.pc = "active" /\ on.back = f.back /\ on.opid = f.opid
      /\ on.x = f.x /\ on.old = f.old /\ on.height = f.height /\ on.rise = f.rise
  BY <1>1 DEF Frame, Labels
<1>4. Resolved(on, Top(t))
  BY <1>1, <1>2, <1>3 DEF Resolved
<1> HIDE DEF on
<1>5. Good(on, Top(t))
  BY <1>1, <1>2, <1>3, <1>4, InOpFacts, FreeGood
<1>6. PICK g \in {on, Finished(f, TRUE), Finished(f, FALSE)} : SetFrame(t, g)
  BY DEF CheckKeyExist, on
<1>7. Good(g, Top(t))
  BY <1>1, <1>5, <1>6, FinishedRunning
<1> QED
  BY <1>1, <1>6, <1>7, InOpFacts, QuietStep DEF CheckKeyExist

LEMMA CheckActiveStep ==
  ASSUME IInv, NEW t \in Thread, CheckActive(t) PROVE IInv'
<1> DEFINE f == Fr(t)
           on == [f EXCEPT !.pc = "update"]
<1>1. At(t, "active") /\ f.pc = "active" /\ f \in Frame
  BY InOpFacts DEF CheckActive, At
<1>2. f.x \in NodeDesc /\ f.old # Null /\ Resolved(f, Top(t))
  BY <1>1, InOpFacts DEF FrameInv, HasOld
<1>3. /\ on \in Frame
      /\ on.pc = "update" /\ on.back = f.back /\ on.opid = f.opid
      /\ on.x = f.x /\ on.old = f.old /\ on.height = f.height /\ on.rise = f.rise
  BY <1>1 DEF Frame, Labels
<1> HIDE DEF on
<1>4. CASE status[Top(t)] = "LIVE" /\ SetFrame(t, on)
  <2>1. Resolved(on, Top(t))
    BY <1>1, <1>2, <1>3, <1>4 DEF Resolved
  <2>2. Good(on, Top(t))
    BY <1>1, <1>2, <1>3, <2>1, InOpFacts, FreeGood
  <2> QED
    BY <1>1, <1>4, <2>2, InOpFacts, QuietStep DEF CheckActive
<1>5. CASE SetFrame(t, Finished(f, FALSE))
  BY <1>1, <1>5, FinishedRunning, InOpFacts, QuietStep DEF CheckActive
<1> QED
  BY <1>4, <1>5 DEF CheckActive, on

LEMMA UpdateDescStep ==
  ASSUME IInv, NEW t \in Thread, UpdateDesc(t) PROVE IInv'
<1> DEFINE f == Fr(t)
           again == [f EXCEPT !.pc = "read", !.old = Null]
<1>1. At(t, "update") /\ f.pc = "update" /\ f \in Frame
  BY InOpFacts DEF UpdateDesc, At
<1>2. f.x \in NodeDesc /\ Mine(t) \in NodeDesc
  BY <1>1, InOpFacts DEF FrameInv, HasOld
<1>3. /\ again \in Frame /\ again.pc = "read" /\ again.back = f.back
      /\ again.opid = f.opid /\ again.x = f.x
      /\ again.height = f.height /\ again.rise = f.rise
  BY <1>1 DEF Frame, Labels
<1>4. Good(again, Top(t))
  BY <1>1, <1>2, <1>3, InOpFacts, FreeGood
<1>5. PICK g \in {again, Finished(f, TRUE)} : SetFrame(t, g)
  BY DEF UpdateDesc
<1>6. Good(g, Top(t))
  BY <1>1, <1>4, <1>5, FinishedRunning
<1>7. next' \in [Level -> [Node -> Node]] /\ nd' \in [NodeDesc -> NodeDesc]
  <2>1. nd' = nd \/ nd' = [nd EXCEPT ![f.x] = Mine(t)]
    BY DEF UpdateDesc
  <2>2. UNCHANGED next
    BY DEF UpdateDesc
  <2> QED
    BY <1>2, <2>1, <2>2 DEF IInv, TypeOK
<1> QED
  BY <1>1, <1>5, <1>6, <1>7, InOpFacts, LocalStep DEF UpdateDesc

-----------------------------------------------------------------------------
(* Calls and returns.                                                      *)

\* A step of thread t that may change its stack.
LEMMA StackStep ==
  ASSUME IInv, NEW t \in Thread, TypeOK', PreInv', DecidedBeforePersist', Monotone,
         \A u \in Thread : u # t => fr'[u] = fr[u] /\ stack'[u] = stack[u],
         \A e \in Desc : FrameInv(fr[t][e], e)',
         StackInv(t)',
         Busy(t)' => Resolved(Fr(t), Top(t))'
  PROVE  IInv'
<1>1. TypeOK
  BY DEF IInv
<1>2. ASSUME NEW u \in Thread, u # t, NEW e \in Desc
      PROVE  FrameInv(fr[u][e], e)'
  <2>1. PICK g \in Frame : g = fr[u][e] /\ FrameInv(g, e)
    BY <1>1 DEF IInv, TypeOK
  <2>2. FrameInv(g, e)' /\ fr'[u][e] = g
    BY <1>1, <1>2, <2>1, FrameInvStable
  <2> QED
    BY <2>2 DEF FrameInv, InOp, HasOld
<1>3. ASSUME NEW u \in Thread, u # t PROVE StackInv(u)'
  <2>1. StackInv(u) /\ fr'[u] = fr[u] /\ stack'[u] = stack[u]
    BY <1>3 DEF IInv
  <2> QED
    BY <2>1 DEF StackInv
<1>4. ASSUME NEW u \in Thread, u # t, Busy(u)'
      PROVE  Resolved(Fr(u), Top(u))'
  <2>1. Busy(u) /\ Top(u)' = Top(u) /\ Fr(u)' = Fr(u)
    BY <1>4 DEF Busy, Top, Fr
  <2>2. Fr(u) \in Frame /\ FrameInv(Fr(u), Top(u)) /\ Resolved(Fr(u), Top(u))
    BY <2>1, Running DEF Good
  <2>3. Fr(u).pc \in {"exist", "active", "update"} => Fr(u).old.desc \in AllDesc
    BY <2>2 DEF FrameInv, HasOld, Frame, NodeDesc, AllDesc
  <2>4. Top(u) \in Desc
    BY <2>1, Running
  <2> QED
    BY <2>1, <2>2, <2>3, <2>4 DEF Resolved, Monotone, AllDesc
<1> QED
  BY <1>2, <1>3, <1>4 DEF IInv

\* help_ops returns once its transaction is decided, so its caller goes on with
\* a transaction that is decided.
LEMMA ReturnStep ==
  ASSUME IInv, NEW t \in Thread, Busy(t), status'[Top(t)] # "LIVE", Return(t),
         UNCHANGED <<heap, ops>>, Monotone, PreInv', DecidedBeforePersist',
         /\ status' \in [AllDesc -> {"LIVE", "COMMITTED", "ABORTED"}]
         /\ pstatus' \in [AllDesc -> {"MAYBE", "IN_PROGRESS", "PERSISTED"}]
         /\ txid' \in [AllDesc -> Nat]
         /\ lastTxId' \in Nat
  PROVE  IInv'
<1> DEFINE d == Top(t)
           n == Len(stack[t])
<1>1. TypeOK
  BY DEF IInv
<1>2. /\ n \in Nat \ {0} /\ d = stack[t][n] /\ d \in Desc
      /\ stack[t] \in Seq(Desc)
  BY <1>1, TopInStack DEF TypeOK
<1>3. /\ stack'[t] \in Seq(Desc) /\ Len(stack'[t]) = n - 1
      /\ \A i \in 1..(n - 1) : stack'[t][i] = stack[t][i]
  <2>1. stack'[t] = SubSeq(stack[t], 1, n - 1)
    BY <1>1 DEF Return, Front, TypeOK
  <2> QED
    BY <1>2, <2>1
<1>4. /\ fr'[t][d] = NewFrame(1)
      /\ \A e \in Desc : e # d => fr'[t][e] = fr[t][e]
      /\ \A u \in Thread : u # t => fr'[u] = fr[u] /\ stack'[u] = stack[u]
  BY <1>1, <1>2 DEF Return, SetFrame, TypeOK
<1>5. NewFrame(1) \in Frame
  BY NewFrameType, ConstantsAssumption
<1>6. fr' \in [Thread -> [Desc -> Frame]] /\ stack' \in [Thread -> Seq(Desc)]
  BY <1>1, <1>2, <1>3, <1>4, <1>5 DEF Return, SetFrame, TypeOK
<1>7. TypeOK'
  BY <1>1, <1>6 DEF TypeOK, heap
<1>8. ASSUME NEW e \in Desc PROVE FrameInv(fr[t][e], e)'
  <2>1. PICK g \in Frame : g = fr'[t][e] /\ FrameInv(g, e)
    <3>1. CASE e = d
      BY <1>4, <1>5, <3>1, NewFrameInv, ConstantsAssumption
    <3>2. CASE e # d
      BY <1>1, <1>4, <3>2 DEF IInv, TypeOK
    <3> QED
      BY <3>1, <3>2
  <2> QED
    BY <1>1, <1>7, <2>1, FrameInvStable DEF FrameInv, InOp, HasOld
<1>9. StackInv(t)
  BY DEF IInv
<1>10. ASSUME NEW i \in 1..(n - 1)
       PROVE  stack[t][i] \in Desc /\ fr'[t][stack[t][i]] = fr[t][stack[t][i]]
  <2>1. stack[t][i] \in Desc
    BY <1>2
  <2>2. stack[t][i] # d
    BY <1>2, <1>9 DEF StackInv
  <2> QED
    BY <1>4, <2>1, <2>2
<1>11. StackInv(t)'
  <2>1. ASSUME NEW i \in 1..(n - 1), NEW j \in 1..(n - 1), stack'[t][i] = stack'[t][j]
        PROVE  i = j
    <3>1. stack[t][i] = stack[t][j]
      BY <1>3, <2>1
    <3>2. i \in 1..n /\ j \in 1..n
      BY <1>2
    <3> QED
      BY <1>9, <3>1, <3>2 DEF StackInv
  <2>2. ASSUME NEW i \in 1..(n - 2)
        PROVE  /\ fr'[t][stack'[t][i]].pc = "exist"
               /\ fr'[t][stack'[t][i]].old.desc = stack'[t][i+1]
    <3>1. i \in 1..(n - 1) /\ i + 1 \in 1..(n - 1)
      BY <1>2
    <3> QED
      BY ZenonT(30), <1>3, <1>9, <1>10, <3>1 DEF StackInv
  <2>3. Len(stack'[t]) - 1 = n - 2
    BY <1>2, <1>3
  <2> QED
    BY <1>3, <2>1, <2>2, <2>3 DEF StackInv
<1>12. ASSUME Busy(t)' PROVE Resolved(Fr(t), Top(t))'
  <2>1. n - 1 \in 1..(n - 1)
    BY <1>2, <1>3, <1>12 DEF Busy
  <2>2. Top(t)' = stack[t][n - 1]
    BY <1>3, <2>1 DEF Top, Last
  <2>3. Fr(t)' = fr[t][stack[t][n - 1]]
    BY <1>10, <2>1, <2>2 DEF Fr
  <2>4. fr[t][stack[t][n - 1]].old.desc = d
    <3> DEFINE m == n - 1
    <3>1. m \in 1..(Len(stack[t]) - 1) /\ m + 1 = n
      BY <1>2, <2>1
    <3> HIDE DEF m
    <3>2. fr[t][stack[t][m]].old.desc = stack[t][m + 1]
      BY <1>9, <3>1 DEF StackInv
    <3> QED
      BY <1>2, <3>1, <3>2 DEF m
  <2>5. status'[d] # "LIVE"
    BY <1>1
  <2> QED
    BY <2>3, <2>4, <2>5 DEF Resolved
<1> QED
  BY <1>4, <1>7, <1>8, <1>11, <1>12, StackStep

LEMMA ExecuteOpsStep ==
  ASSUME IInv, NEW t \in Thread, execute_ops(t) PROVE IInv'
<1>1. PICK d \in Desc, o \in OpArrays :
        /\ ops[d] = <<>>
        /\ ops' = [ops EXCEPT ![d] = o]
        /\ stack' = [stack EXCEPT ![t] = <<d>>]
  BY DEF execute_ops
<1>2. UNCHANGED <<next, nd, status, pstatus, txid, lastTxId, fr>>
  BY DEF execute_ops, heap, persist
<1>3. TypeOK /\ PreInv /\ DecidedBeforePersist
  BY DEF IInv
<1>4. /\ \A u \in Thread : u # t => fr'[u] = fr[u] /\ stack'[u] = stack[u]
      /\ stack'[t] = <<d>>
  BY <1>1, <1>2, <1>3 DEF TypeOK
<1>5. Monotone
  BY <1>1, <1>2, <1>3 DEF Monotone, TypeOK
<1>6. TypeOK'
  <2>1. ops' \in [Desc -> OpArrays \union {<<>>}]
    BY <1>1, <1>3 DEF TypeOK
  <2>2. stack' \in [Thread -> Seq(Desc)]
    <3>1. <<d>> \in Seq(Desc)
      OBVIOUS
    <3> QED
      BY <1>1, <1>3, <3>1 DEF TypeOK
  <2> QED
    BY <1>2, <1>3, <2>1, <2>2 DEF TypeOK
<1>7. PreInv' /\ DecidedBeforePersist'
  BY <1>2, <1>3 DEF PreInv, DecidedBeforePersist
<1>8. ASSUME NEW e \in Desc PROVE FrameInv(fr[t][e], e)'
  <2>1. PICK g \in Frame : g = fr[t][e] /\ FrameInv(g, e)
    BY <1>3 DEF IInv, TypeOK
  <2> QED
    BY <1>2, <1>3, <1>5, <2>1, FrameInvStable
<1>9. Top(t)' = d /\ Fr(t)' = fr[t][d]
  BY <1>2, <1>4 DEF Top, Last, Fr
<1>10. StackInv(t)'
  BY <1>4 DEF StackInv
<1>11. Resolved(Fr(t), Top(t))'
  <2>1. fr[t][d] \in Frame /\ FrameInv(fr[t][d], d)
    BY <1>3 DEF IInv, TypeOK
  <2>2. ~InOp(fr[t][d])
    BY <1>1, <2>1, ConstantsAssumption DEF FrameInv, Frame
  <2> QED
    BY <1>9, <2>2 DEF Resolved, InOp, PersistLabels
<1> QED
  BY <1>3, <1>4, <1>5, <1>6, <1>7, <1>8, <1>10, <1>11, StackStep

\* Thread t replaces two of its frames.
SetFrames(t, d, f, e, g) == fr' = [fr EXCEPT ![t] = [@ EXCEPT ![d] = f, ![e] = g]]

LEMMA TwoFrames ==
  ASSUME TypeOK, NEW t \in Thread, NEW d \in Desc, NEW e \in Desc, d # e,
         NEW f \in Frame, NEW g \in Frame, SetFrames(t, d, f, e, g)
  PROVE  /\ fr'[t][d] = f
         /\ fr'[t][e] = g
         /\ \A x \in Desc : x # d /\ x # e => fr'[t][x] = fr[t][x]
         /\ \A u \in Thread : u # t => fr'[u] = fr[u]
         /\ fr' \in [Thread -> [Desc -> Frame]]
<1> DEFINE a == [fr[t] EXCEPT ![d] = f]
           b == [a EXCEPT ![e] = g]
<1>1. fr \in [Thread -> [Desc -> Frame]] /\ fr' = [fr EXCEPT ![t] = b]
  BY DEF TypeOK, SetFrames
<1>2. a \in [Desc -> Frame] /\ a[d] = f /\ \A x \in Desc : x # d => a[x] = fr[t][x]
  BY <1>1
<1> HIDE DEF a
<1>3. /\ b \in [Desc -> Frame] /\ b[e] = g /\ b[d] = f
      /\ \A x \in Desc : x # d /\ x # e => b[x] = fr[t][x]
  BY <1>2
<1> HIDE DEF b
<1> QED
  BY <1>1, <1>3

\* The call of help_ops for a transaction that is not on the stack yet: the
\* caller waits at "exist" for the frame above it.
LEMMA HelpCallStep ==
  ASSUME IInv, NEW t \in Thread, At(t, "help"),
         Fr(t).old.desc # PreDesc, ~Contains(stack[t], Fr(t).old.desc),
         stack' = [stack EXCEPT ![t] = Append(@, Fr(t).old.desc)],
         fr' = [fr EXCEPT ![t] = [@ EXCEPT ![Top(t)].pc = "exist",
                                  ![Fr(t).old.desc] = NewFrame(Fr(t).old.opid + 1)]],
         UNCHANGED <<heap, ops, status, persist>>
  PROVE  IInv'
<1> DEFINE f == Fr(t)
           d == Top(t)
           e == f.old.desc
           n == Len(stack[t])
           new == NewFrame(f.old.opid + 1)
           wait == [f EXCEPT !.pc = "exist"]
<1>1. TypeOK /\ PreInv /\ DecidedBeforePersist /\ StackInv(t)
  BY DEF IInv
<1>2. /\ Busy(t) /\ f \in Frame /\ d \in Desc /\ f.pc = "help" /\ f.back = "return"
      /\ f.old # Null /\ f.x \in NodeDesc /\ f.opid <= Len(ops[d])
      /\ f.height > 0 => f.rise < f.height
  BY InOpFacts DEF At, FrameInv, HasOld
<1>3. e \in Desc /\ f.old.opid \in 1..MaxOps
  <2>1. f.old \in NodeDesc
    BY <1>2 DEF Frame
  <2> QED
    BY <2>1 DEF NodeDesc
<1>4. /\ n \in Nat \ {0} /\ d = stack[t][n] /\ stack[t] \in Seq(Desc)
  BY <1>1, <1>2, TopInStack DEF TypeOK
<1>5. \A i \in 1..n : stack[t][i] # e
  BY DEF Contains
<1>6. d # e
  BY <1>4, <1>5
<1>7. /\ stack'[t] \in Seq(Desc) /\ Len(stack'[t]) = n + 1
      /\ stack'[t][n + 1] = e
      /\ \A i \in 1..n : stack'[t][i] = stack[t][i]
  BY <1>1, <1>3, <1>4 DEF TypeOK
<1>8. f.old.opid + 1 \in 1..(MaxOps + 1)
  BY <1>3, ConstantsAssumption
<1>9. new \in Frame /\ FrameInv(new, e) /\ new.pc = "loop"
  BY <1>8, NewFrameType, NewFrameInv DEF NewFrame
<1>10. /\ wait \in Frame /\ FrameInv(wait, d)
       /\ wait.pc = "exist" /\ wait.old.desc = e
  <2>1. /\ wait \in Frame /\ wait.pc = "exist" /\ wait.old = f.old
        /\ wait.back = "return" /\ wait.x = f.x /\ wait.opid = f.opid
        /\ wait.height = f.height /\ wait.rise = f.rise
    BY <1>2 DEF Frame, Labels
  <2> QED
    BY <1>2, <2>1 DEF FrameInv, InOp, HasOld, PersistLabels
<1>11. /\ fr'[t][e] = new
       /\ fr'[t][d] = wait
       /\ \A g \in Desc : g # d /\ g # e => fr'[t][g] = fr[t][g]
       /\ \A u \in Thread : u # t => fr'[u] = fr[u] /\ stack'[u] = stack[u]
       /\ fr' \in [Thread -> [Desc -> Frame]]
  <2>1. SetFrames(t, d, wait, e, new)
    BY <1>1, <1>2 DEF TypeOK, Fr, SetFrames
  <2>2. \A u \in Thread : u # t => stack'[u] = stack[u]
    BY <1>1 DEF TypeOK
  <2> HIDE DEF new, wait, d, e
  <2>3. wait \in Frame /\ new \in Frame /\ d \in Desc /\ e \in Desc /\ d # e /\ TypeOK
    BY <1>1, <1>2, <1>3, <1>6, <1>9, <1>10
  <2>4. /\ fr'[t][d] = wait
        /\ fr'[t][e] = new
        /\ \A g \in Desc : g # d /\ g # e => fr'[t][g] = fr[t][g]
        /\ \A u \in Thread : u # t => fr'[u] = fr[u]
        /\ fr' \in [Thread -> [Desc -> Frame]]
    BY <2>1, <2>3, TwoFrames
  <2> QED
    BY <2>2, <2>4
<1>12. TypeOK'
  BY <1>1, <1>7, <1>11 DEF TypeOK, heap, persist
<1>13. Monotone /\ PreInv' /\ DecidedBeforePersist'
  BY <1>1 DEF Monotone, PreInv, DecidedBeforePersist, persist
<1>14. ASSUME NEW g \in Desc PROVE FrameInv(fr[t][g], g)'
  <2> HIDE DEF new, wait
  <2>1. PICK h \in Frame : h = fr'[t][g] /\ FrameInv(h, g)
    <3>1. CASE g = d
      BY <1>10, <1>11, <3>1
    <3>2. CASE g = e
      BY <1>9, <1>11, <3>2
    <3>3. CASE g # d /\ g # e
      BY <1>1, <1>11, <3>3 DEF IInv, TypeOK
    <3> QED
      BY <3>1, <3>2, <3>3
  <2> QED
    BY <1>1, <1>13, <2>1, FrameInvStable DEF FrameInv, InOp, HasOld
<1>15. StackInv(t)'
  <2>1. ASSUME NEW i \in 1..(n + 1), NEW j \in 1..(n + 1), stack'[t][i] = stack'[t][j]
        PROVE  i = j
    <3>1. i \in 1..n \/ i = n + 1
      BY <1>4
    <3>2. j \in 1..n \/ j = n + 1
      BY <1>4
    <3> QED
      BY <1>1, <1>5, <1>7, <2>1, <3>1, <3>2 DEF StackInv
  <2>2. ASSUME NEW i \in 1..n
        PROVE  /\ fr'[t][stack'[t][i]].pc = "exist"
               /\ fr'[t][stack'[t][i]].old.desc = stack'[t][i+1]
    <3>1. CASE i = n
      <4>1. stack'[t][i] = d /\ stack'[t][i+1] = e
        BY <1>4, <1>7, <3>1
      <4> HIDE DEF wait, new
      <4> QED
        BY <1>10, <1>11, <4>1
    <3>2. CASE i # n
      <4>1. i \in 1..(n - 1) /\ i + 1 \in 1..n
        BY <1>4, <3>2
      <4>2. stack[t][i] \in Desc /\ stack[t][i] # e
        BY <1>4, <1>5
      <4>3. stack[t][i] # d
        <5>1. n \in 1..n /\ i \in 1..n
          BY <1>4
        <5> QED
          BY <1>1, <1>4, <3>2, <5>1 DEF StackInv
      <4>4. fr[t][stack[t][i]].pc = "exist" /\ fr[t][stack[t][i]].old.desc = stack[t][i+1]
        BY <1>1, <4>1 DEF StackInv
      <4>5. stack'[t][i] = stack[t][i] /\ stack'[t][i+1] = stack[t][i+1]
        BY <1>7, <4>1
      <4>6. fr'[t][stack[t][i]] = fr[t][stack[t][i]]
        BY <1>11, <4>2, <4>3
      <4> QED
        BY <4>4, <4>5, <4>6
    <3> QED
      BY <3>1, <3>2
  <2>3. Len(stack'[t]) - 1 = n /\ Len(stack'[t]) = n + 1
    BY <1>4, <1>7
  <2> QED
    BY <2>1, <2>2, <2>3 DEF StackInv
<1>16. Resolved(Fr(t), Top(t))'
  <2>1. Top(t)' = e
    BY <1>7 DEF Top, Last
  <2> QED
    BY <1>9, <1>11, <2>1 DEF Resolved, Fr
<1> QED
  BY <1>11, <1>12, <1>13, <1>14, <1>15, <1>16, StackStep

LEMMA FinishPendingTxnStep ==
  ASSUME IInv, NEW t \in Thread, FinishPendingTxn(t) PROVE IInv'
<1> DEFINE f == Fr(t)
           e == f.old.desc
           on == [f EXCEPT !.pc = "exist"]
           cyc == [f EXCEPT !.pc = "cycle"]
<1>1. At(t, "help") /\ f.pc = "help" /\ UNCHANGED <<heap, ops, status, persist>>
  BY DEF FinishPendingTxn, At
<1>2. /\ f \in Frame /\ f.x \in NodeDesc /\ f.old # Null /\ Busy(t)
      /\ f.opid <= Len(ops[Top(t)]) /\ f.back = "return"
      /\ f.height > 0 => f.rise < f.height
  BY <1>1, InOpFacts DEF FrameInv, HasOld
<1>3. /\ on \in Frame /\ cyc \in Frame
      /\ on.pc = "exist" /\ cyc.pc = "cycle"
      /\ \A g \in {on, cyc} : /\ g.back = f.back /\ g.opid = f.opid
                              /\ g.x = f.x /\ g.old = f.old
                              /\ g.height = f.height /\ g.rise = f.rise
  BY <1>2 DEF Frame, Labels
<1>4. CASE (~NeedsHelp(t) \/ e = PreDesc) /\ GoTo(t, "exist") /\ UNCHANGED stack
  <2>1. PreInv
    BY DEF IInv
  <2>2. Resolved(on, Top(t))
    BY <1>3, <1>4, <2>1 DEF Resolved, NeedsHelp, PreInv
  <2> HIDE DEF on
  <2>3. Good(on, Top(t))
    BY <1>2, <1>3, <2>2, FreeGood
  <2> QED
    BY <1>1, <1>2, <1>4, <2>3, QuietStep DEF GoTo, on
<1>5. CASE GoTo(t, "cycle") /\ UNCHANGED stack
  <2>1. Good(cyc, Top(t))
    BY <1>2, <1>3, FreeGood DEF Resolved
  <2> QED
    BY <1>1, <1>2, <1>5, <2>1, QuietStep DEF GoTo
<1>6. CASE /\ e # PreDesc /\ ~Contains(stack[t], e)
           /\ stack' = [stack EXCEPT ![t] = Append(@, e)]
           /\ fr' = [fr EXCEPT ![t] = [@ EXCEPT ![Top(t)].pc = "exist",
                                               ![e] = NewFrame(f.old.opid + 1)]]
  BY <1>1, <1>6, HelpCallStep
<1> QED
  BY <1>4, <1>5, <1>6 DEF FinishPendingTxn

-----------------------------------------------------------------------------
(* persistDesc.                                                            *)

LEMMA PersistFacts ==
  ASSUME IInv, NEW t \in Thread, \E p \in PersistLabels : At(t, p)
  PROVE  /\ Busy(t)
         /\ Top(t) \in Desc
         /\ Fr(t) \in Frame
         /\ Fr(t).pc \in PersistLabels
         /\ PersistTarget(t) \in AllDesc
         /\ status[PersistTarget(t)] # "LIVE"
         /\ Fr(t).height > 0 => Fr(t).rise < Fr(t).height
         /\ Fr(t).back = "exist" => /\ Fr(t).opid <= Len(ops[Top(t)])
                                    /\ Fr(t).x \in NodeDesc
                                    /\ Fr(t).old # Null
                                    /\ status[Fr(t).old.desc] # "LIVE"
         /\ Fr(t).back # "exist" => Fr(t).back = "return" /\ status[Top(t)] # "LIVE"
<1>1. Busy(t) /\ Fr(t).pc \in PersistLabels
  BY DEF At
<1>2. Top(t) \in Desc /\ Fr(t) \in Frame /\ FrameInv(Fr(t), Top(t))
  BY <1>1, Running DEF Good
<1>3. Fr(t).height > 0 => Fr(t).rise < Fr(t).height
  BY <1>2 DEF FrameInv
<1>4. CASE Fr(t).back = "exist"
  <2>1. /\ Fr(t).opid <= Len(ops[Top(t)])
        /\ Fr(t).x \in NodeDesc
        /\ Fr(t).old # Null
        /\ status[Fr(t).old.desc] # "LIVE"
    BY <1>2, <1>4 DEF FrameInv, InOp, HasOld
  <2>2. Fr(t).old.desc \in AllDesc
    BY <1>2, <2>1 DEF Frame, NodeDesc, AllDesc
  <2> QED
    BY <1>1, <1>2, <1>3, <1>4, <2>1, <2>2 DEF PersistTarget
<1>5. CASE Fr(t).back # "exist"
  <2>1. Fr(t).back = "return"
    BY <1>2, <1>5 DEF Frame
  <2>2. status[Top(t)] # "LIVE"
    BY <1>1, <1>2, <2>1 DEF FrameInv
  <2> QED
    BY <1>1, <1>2, <1>3, <1>5, <2>1, <2>2 DEF PersistTarget, AllDesc
<1> QED
  BY <1>4, <1>5

\* A frame stays in persistDesc, or goes back to the operation that called it.
LEMMA PersistGood ==
  ASSUME IInv, NEW t \in Thread, \E p \in PersistLabels : At(t, p),
         NEW f \in Frame, f.opid = Fr(t).opid, f.x = Fr(t).x, f.old = Fr(t).old,
         f.height = Fr(t).height, f.rise = Fr(t).rise,
         \/ f.pc \in PersistLabels /\ f.back = Fr(t).back
         \/ f.pc = "exist" /\ f.back = "return" /\ Fr(t).back = "exist"
  PROVE  Good(f, Top(t))
<1>1. CASE f.pc \in PersistLabels /\ f.back = Fr(t).back
  BY <1>1, PersistFacts DEF Good, FrameInv, Resolved, InOp, HasOld, PersistLabels
<1>2. CASE f.pc = "exist" /\ f.back = "return" /\ Fr(t).back = "exist"
  BY <1>2, PersistFacts, FreeGood DEF Resolved
<1> QED
  BY <1>1, <1>2

\* A step that touches the persistence fields of a decided descriptor.
LEMMA PersistStep ==
  ASSUME IInv, NEW t \in Thread, Busy(t), NEW f, Good(f, Top(t)), SetFrame(t, f),
         UNCHANGED <<heap, ops, status, stack>>,
         PreInv', DecidedBeforePersist',
         /\ pstatus' \in [AllDesc -> {"MAYBE", "IN_PROGRESS", "PERSISTED"}]
         /\ txid' \in [AllDesc -> Nat]
         /\ lastTxId' \in Nat
  PROVE  IInv'
<1>1. TypeOK
  BY DEF IInv
<1>2. Top(t)' = Top(t)
  BY DEF Top
<1>3. Monotone
  BY DEF Monotone
<1>4. FrameInv(f, Top(t))' /\ Resolved(f, Top(t))'
  BY <1>2 DEF Good, FrameInv, Resolved, InOp, HasOld
<1>5. f \in Frame /\ fr' = [fr EXCEPT ![t][Top(t)] = f]
  BY DEF Good, SetFrame
<1>6. /\ ops' \in [Desc -> OpArrays \union {<<>>}]
      /\ status' \in [AllDesc -> {"LIVE", "COMMITTED", "ABORTED"}]
  BY <1>1 DEF TypeOK
<1> QED
  BY <1>3, <1>4, <1>5, <1>6, HeapType, FrameStep

\* The last step of persistDesc: HelpOps returns, or the operation goes on.
LEMMA EndPersistStep ==
  ASSUME IInv, NEW t \in Thread, \E p \in PersistLabels : At(t, p), EndPersist(t),
         UNCHANGED <<heap, ops, status, txid, lastTxId>>,
         PreInv', DecidedBeforePersist',
         pstatus' \in [AllDesc -> {"MAYBE", "IN_PROGRESS", "PERSISTED"}]
  PROVE  IInv'
<1> DEFINE f == Fr(t)
           out == [f EXCEPT !.pc = "exist", !.back = "return"]
<1>1. /\ f \in Frame /\ Busy(t)
      /\ f.back # "exist" => f.back = "return" /\ status[Top(t)] # "LIVE"
  BY PersistFacts
<1>2. TypeOK
  BY DEF IInv
<1>3. CASE f.back = "return"
  <2>1. Monotone
    BY DEF Monotone
  <2>2. Return(t)
    BY <1>3 DEF EndPersist
  <2>3. /\ status' \in [AllDesc -> {"LIVE", "COMMITTED", "ABORTED"}]
        /\ txid' \in [AllDesc -> Nat]
        /\ lastTxId' \in Nat
    BY <1>2 DEF TypeOK
  <2>4. status'[Top(t)] # "LIVE"
    BY <1>1, <1>3
  <2> QED
    BY <1>1, <2>1, <2>2, <2>3, <2>4, ReturnStep
<1>4. CASE f.back = "exist"
  <2>1. /\ out \in Frame /\ out.pc = "exist" /\ out.back = "return"
        /\ out.opid = f.opid /\ out.x = f.x /\ out.old = f.old
        /\ out.height = f.height /\ out.rise = f.rise
    BY <1>1 DEF Frame, Labels
  <2>2. SetFrame(t, out) /\ UNCHANGED stack
    BY <1>4 DEF EndPersist
  <2> HIDE DEF out
  <2>3. Good(out, Top(t))
    BY <1>4, <2>1, PersistGood
  <2> QED
    BY <1>1, <1>2, <2>2, <2>3, PersistStep DEF TypeOK
<1> QED
  BY <1>1, <1>3, <1>4

LEMMA PersistClaimStep ==
  ASSUME IInv, NEW t \in Thread, PersistClaim(t) PROVE IInv'
<1> DEFINE f == Fr(t)
           e == PersistTarget(t)
           on == [f EXCEPT !.pc = "ticket"]
<1>1. At(t, "claim") /\ \E p \in PersistLabels : At(t, p)
  BY DEF PersistClaim, PersistLabels
<1>2. f \in Frame /\ e \in AllDesc /\ status[e] # "LIVE" /\ Busy(t)
  BY <1>1, PersistFacts
<1>3. UNCHANGED <<heap, ops, status, txid, lastTxId>>
  BY DEF PersistClaim
<1>4. TypeOK /\ PreInv /\ DecidedBeforePersist
  BY DEF IInv
<1>5. CASE pstatus[e] = "PERSISTED"
  <2>1. EndPersist(t) /\ UNCHANGED pstatus
    BY <1>5 DEF PersistClaim
  <2>2. PreInv' /\ DecidedBeforePersist'
    BY <1>3, <1>4, <2>1 DEF PreInv, DecidedBeforePersist
  <2> QED
    BY <1>1, <1>3, <1>4, <2>1, <2>2, EndPersistStep DEF TypeOK
<1>6. CASE pstatus[e] # "PERSISTED"
  <2>1. /\ on \in Frame /\ on.pc = "ticket" /\ on.back = f.back
        /\ on.opid = f.opid /\ on.x = f.x /\ on.old = f.old
        /\ on.height = f.height /\ on.rise = f.rise
    BY <1>2 DEF Frame, Labels
  <2>2. SetFrame(t, on) /\ UNCHANGED stack
        /\ pstatus' = [pstatus EXCEPT ![e] = "IN_PROGRESS"]
    BY <1>6 DEF PersistClaim, GoTo
  <2>3. PreInv' /\ DecidedBeforePersist'
    BY <1>2, <1>3, <1>4, <1>6, <2>2 DEF PreInv, DecidedBeforePersist, TypeOK, AllDesc
  <2> HIDE DEF on
  <2>4. Good(on, Top(t))
    BY <1>1, <2>1, PersistGood DEF PersistLabels
  <2> QED
    BY <1>2, <1>3, <1>4, <2>2, <2>3, <2>4, PersistStep DEF TypeOK
<1> QED
  BY <1>5, <1>6

LEMMA PersistTicketStep ==
  ASSUME IInv, NEW t \in Thread, PersistTicket(t) PROVE IInv'
<1> DEFINE f == Fr(t)
           on == [f EXCEPT !.pc = "store", !.tkt = lastTxId]
<1>1. At(t, "ticket") /\ \E p \in PersistLabels : At(t, p)
  BY DEF PersistTicket, PersistLabels
<1>2. f \in Frame /\ Busy(t)
  BY <1>1, PersistFacts
<1>3. TypeOK /\ PreInv /\ DecidedBeforePersist
  BY DEF IInv
<1>4. /\ on \in Frame /\ on.pc = "store" /\ on.back = f.back
      /\ on.opid = f.opid /\ on.x = f.x /\ on.old = f.old
      /\ on.height = f.height /\ on.rise = f.rise
  BY <1>2, <1>3 DEF Frame, Labels, TypeOK
<1>5. /\ UNCHANGED <<heap, ops, status, pstatus, txid, stack>>
      /\ lastTxId' = lastTxId + 1 /\ SetFrame(t, on)
  BY DEF PersistTicket
<1> HIDE DEF on
<1>6. Good(on, Top(t))
  BY <1>1, <1>4, PersistGood DEF PersistLabels
<1>7. PreInv' /\ DecidedBeforePersist'
  BY <1>3, <1>5 DEF PreInv, DecidedBeforePersist
<1>8. lastTxId' \in Nat
  BY <1>3, <1>5 DEF TypeOK
<1> QED
  BY <1>2, <1>3, <1>5, <1>6, <1>7, <1>8, PersistStep DEF TypeOK

LEMMA PersistStoreStep ==
  ASSUME IInv, NEW t \in Thread, PersistStore(t) PROVE IInv'
<1> DEFINE f == Fr(t)
           on == [f EXCEPT !.pc = "persisted", !.tkt = 0]
<1>1. At(t, "store") /\ \E p \in PersistLabels : At(t, p)
  BY DEF PersistStore, PersistLabels
<1>2. f \in Frame /\ Busy(t) /\ f.tkt \in Nat /\ PersistTarget(t) \in AllDesc
  BY <1>1, PersistFacts DEF Frame
<1>3. TypeOK /\ PreInv /\ DecidedBeforePersist
  BY DEF IInv
<1>4. /\ on \in Frame /\ on.pc = "persisted" /\ on.back = f.back
      /\ on.opid = f.opid /\ on.x = f.x /\ on.old = f.old
      /\ on.height = f.height /\ on.rise = f.rise
  BY <1>2, <1>3 DEF Frame, Labels
<1>5. /\ UNCHANGED <<heap, ops, status, pstatus, lastTxId, stack>>
      /\ txid' = [txid EXCEPT ![PersistTarget(t)] = f.tkt] /\ SetFrame(t, on)
  BY DEF PersistStore
<1> HIDE DEF on
<1>6. Good(on, Top(t))
  BY <1>1, <1>4, PersistGood DEF PersistLabels
<1>7. PreInv' /\ DecidedBeforePersist'
  BY <1>3, <1>5 DEF PreInv, DecidedBeforePersist
<1>8. txid' \in [AllDesc -> Nat]
  BY <1>2, <1>3, <1>5 DEF TypeOK
<1> QED
  BY <1>2, <1>3, <1>5, <1>6, <1>7, <1>8, PersistStep DEF TypeOK

LEMMA PersistDoneStep ==
  ASSUME IInv, NEW t \in Thread, PersistDone(t) PROVE IInv'
<1> DEFINE e == PersistTarget(t)
<1>1. At(t, "persisted") /\ \E p \in PersistLabels : At(t, p)
  BY DEF PersistDone, PersistLabels
<1>2. e \in AllDesc /\ status[e] # "LIVE"
  BY <1>1, PersistFacts
<1>3. /\ UNCHANGED <<heap, ops, status, txid, lastTxId>>
      /\ EndPersist(t) /\ pstatus' = [pstatus EXCEPT ![e] = "PERSISTED"]
  BY DEF PersistDone
<1>4. TypeOK /\ PreInv /\ DecidedBeforePersist
  BY DEF IInv
<1>5. PreInv' /\ DecidedBeforePersist'
  BY <1>2, <1>3, <1>4 DEF PreInv, DecidedBeforePersist, TypeOK, AllDesc
<1> QED
  BY <1>1, <1>2, <1>3, <1>4, <1>5, EndPersistStep DEF TypeOK

-----------------------------------------------------------------------------
(* A transaction is decided.                                               *)

LEMMA CycleAbortStep ==
  ASSUME IInv, NEW t \in Thread, CycleAbort(t) PROVE IInv'
<1> DEFINE f == Fr(t)
           e == f.old.desc
           on == IF Persist THEN [f EXCEPT !.pc = "claim", !.back = "exist"]
                 ELSE [f EXCEPT !.pc = "exist"]
<1>1. At(t, "cycle") /\ f.pc = "cycle"
  BY DEF CycleAbort, At
<1>2. /\ f \in Frame /\ f.x \in NodeDesc /\ f.old # Null /\ Busy(t)
      /\ f.opid <= Len(ops[Top(t)]) /\ Top(t) \in Desc /\ f.back = "return"
      /\ f.height > 0 => f.rise < f.height
  BY <1>1, InOpFacts DEF FrameInv, HasOld
<1>3. e \in AllDesc
  BY <1>2 DEF Frame, NodeDesc, AllDesc
<1>4. TypeOK /\ PreInv /\ DecidedBeforePersist
  BY DEF IInv
<1>5. /\ UNCHANGED <<heap, ops, pstatus, txid, lastTxId, stack>>
      /\ status' = [status EXCEPT ![e] = IF @ = "LIVE" THEN "ABORTED" ELSE @]
      /\ SetFrame(t, on)
  BY DEF CycleAbort, persist
<1>6. /\ on \in Frame /\ on.opid = f.opid /\ on.x = f.x /\ on.old = f.old
      /\ on.height = f.height /\ on.rise = f.rise
      /\ \/ on.pc = "claim" /\ on.back = "exist"
         \/ on.pc = "exist" /\ on.back = "return"
  BY <1>2 DEF Frame, Labels
<1>7. status' \in [AllDesc -> {"LIVE", "COMMITTED", "ABORTED"}] /\ status'[e] # "LIVE"
  BY <1>3, <1>4, <1>5 DEF TypeOK
<1>8. \A d \in AllDesc : status[d] # "LIVE" => status'[d] = status[d]
  BY <1>3, <1>4, <1>5 DEF TypeOK
<1>9. Monotone
  BY <1>5, <1>8 DEF Monotone
<1>10. PreInv' /\ DecidedBeforePersist'
  BY <1>4, <1>5, <1>8 DEF PreInv, DecidedBeforePersist, AllDesc
<1>11. Top(t)' = Top(t)
  BY <1>5 DEF Top
<1>12. PICK g \in Frame :
         /\ fr' = [fr EXCEPT ![t][Top(t)] = g]
         /\ g.opid = f.opid /\ g.x = f.x /\ g.old = f.old
         /\ g.height = f.height /\ g.rise = f.rise
         /\ \/ g.pc = "claim" /\ g.back = "exist"
            \/ g.pc = "exist" /\ g.back = "return"
  BY <1>5, <1>6 DEF SetFrame
<1>13. FrameInv(g, Top(t))' /\ Resolved(g, Top(t))'
  BY <1>2, <1>5, <1>7, <1>11, <1>12 DEF FrameInv, Resolved, InOp, HasOld, PersistLabels
<1>14. /\ ops' \in [Desc -> OpArrays \union {<<>>}]
       /\ pstatus' \in [AllDesc -> {"MAYBE", "IN_PROGRESS", "PERSISTED"}]
       /\ txid' \in [AllDesc -> Nat]
       /\ lastTxId' \in Nat
  BY <1>4, <1>5 DEF TypeOK
<1> QED
  BY <1>2, <1>5, <1>7, <1>9, <1>10, <1>12, <1>13, <1>14, HeapType, FrameStep

LEMMA DecideTxnStep ==
  ASSUME IInv, NEW t \in Thread, DecideTxn(t) PROVE IInv'
<1> DEFINE d == Top(t)
           f == Fr(t)
<1>1. Busy(t) /\ f.pc = "decide"
  BY DEF DecideTxn, At
<1>2. /\ d \in Desc /\ f \in Frame /\ f.back = "return"
      /\ f.height > 0 => f.rise < f.height
  BY <1>1, Running DEF Good, FrameInv, Frame, PersistLabels
<1>3. TypeOK /\ PreInv /\ DecidedBeforePersist
  BY DEF IInv
<1>4. UNCHANGED <<heap, ops, pstatus, txid, lastTxId>>
  BY DEF DecideTxn, persist
<1>5. /\ pstatus' \in [AllDesc -> {"MAYBE", "IN_PROGRESS", "PERSISTED"}]
      /\ txid' \in [AllDesc -> Nat]
      /\ lastTxId' \in Nat
      /\ ops' \in [Desc -> OpArrays \union {<<>>}]
  BY <1>3, <1>4 DEF TypeOK
<1>6. CASE status[d] # "LIVE"
  <2>1. Return(t) /\ UNCHANGED status
    BY <1>6 DEF DecideTxn
  <2>2. Monotone /\ PreInv' /\ DecidedBeforePersist'
    BY <1>3, <1>4, <2>1 DEF Monotone, PreInv, DecidedBeforePersist
  <2> QED
    BY <1>1, <1>3, <1>4, <1>5, <1>6, <2>1, <2>2, ReturnStep DEF TypeOK
<1>7. CASE status[d] = "LIVE"
  <2> DEFINE on == [f EXCEPT !.pc = "claim"]
  <2>1. status' = [status EXCEPT ![d] = Verdict(f)]
    BY <1>7 DEF DecideTxn
  <2>2. Verdict(f) \in {"COMMITTED", "ABORTED"}
    BY DEF Verdict
  <2>3. /\ status' \in [AllDesc -> {"LIVE", "COMMITTED", "ABORTED"}]
        /\ status'[d] # "LIVE"
        /\ \A e \in AllDesc : e # d => status'[e] = status[e]
    BY <1>2, <1>3, <2>1, <2>2 DEF TypeOK, AllDesc
  <2>4. Monotone
    BY <1>4, <2>3 DEF Monotone
  <2>5. PreInv' /\ DecidedBeforePersist'
    BY <1>3, <1>4, <1>7, <2>3 DEF PreInv, DecidedBeforePersist, AllDesc
  <2>6. CASE Return(t)
    BY <1>1, <1>4, <1>5, <2>3, <2>4, <2>5, <2>6, ReturnStep
  <2>7. CASE SetFrame(t, on) /\ UNCHANGED stack
    <3>1. PICK g \in Frame :
            /\ fr' = [fr EXCEPT ![t][d] = g]
            /\ g.pc = "claim" /\ g.back = "return"
            /\ g.height = f.height /\ g.rise = f.rise
      <4>1. /\ on \in Frame /\ on.pc = "claim" /\ on.back = "return"
            /\ on.height = f.height /\ on.rise = f.rise
        BY <1>2 DEF Frame, Labels
      <4> QED
        BY <2>7, <4>1 DEF SetFrame
    <3>2. Top(t)' = d
      BY <2>7 DEF Top
    <3>3. FrameInv(g, Top(t))' /\ Resolved(g, Top(t))'
      BY <1>2, <2>3, <3>1, <3>2 DEF FrameInv, Resolved, InOp, HasOld, PersistLabels
    <3> QED
      BY <1>1, <1>4, <1>5, <2>3, <2>4, <2>5, <2>7, <3>1, <3>3, HeapType, FrameStep
  <2> QED
    BY <1>7, <2>6, <2>7 DEF DecideTxn, GoTo
<1> QED
  BY <1>6, <1>7

-----------------------------------------------------------------------------
(* The theorems about the frames and the descriptors.                      *)

LEMMA NextIInv == IInv /\ [Next]_vars => IInv'
<1> SUFFICES ASSUME IInv, [Next]_vars PROVE IInv'
  OBVIOUS
<1>1. CASE UNCHANGED vars
  BY <1>1 DEF vars, IInv, TypeOK, PreInv, DecidedBeforePersist, FrameInv, StackInv,
     Resolved, Fr, Top, Busy, InOp, HasOld
<1>2. ASSUME NEW t \in Thread, execute_ops(t) PROVE IInv'
  BY <1>2, ExecuteOpsStep
<1>3. ASSUME NEW t \in Thread, Step(t) PROVE IInv'
  BY <1>3, OpLoopStep, SearchStep, InsertAbsentStep, InsertLinkStep, RaiseNodeStep,
     ReadNodeDescStep, FinishPendingTxnStep, CycleAbortStep, CheckKeyExistStep,
     CheckActiveStep, UpdateDescStep, DecideTxnStep, PersistClaimStep,
     PersistTicketStep, PersistStoreStep, PersistDoneStep DEF Step
<1> QED
  BY <1>1, <1>2, <1>3 DEF Next, Terminated

\* The inductive invariant of the frames holds in every state, for any number of
\* threads, descriptors, keys and levels.
THEOREM SkipInvariance == Spec => []IInv
<1> QED
  BY InitIInv, NextIInv, PTL DEF Spec

\* Only a transaction that is decided is persisted (persistDesc).
THEOREM SkipDecisionBeforePersistence == Spec => []DecidedBeforePersist
<1>1. IInv => DecidedBeforePersist
  BY DEF IInv
<1> QED
  BY SkipInvariance, <1>1, PTL

\* No step takes a node away from an undecided transaction, although
\* FinishPendingTxn looks at the status of its caller (transskip.cc, update).
THEOREM SkipIsolation == Spec => TakenWhenDecided
<1> DEFINE Keeps == \A n \in NodeDesc :
              nd'[n].desc # nd[n].desc => status[nd[n].desc] # "LIVE"
<1>1. ASSUME IInv, [Next]_vars PROVE [Keeps]_vars
  <2>1. CASE UNCHANGED nd
    BY <2>1
  <2>2. ASSUME NEW t \in Thread, UpdateDesc(t) PROVE Keeps
    <3> DEFINE f == Fr(t)
    <3>1. At(t, "update") /\ f.pc = "update"
      BY <2>2 DEF UpdateDesc, At
    <3>2. /\ f.x \in NodeDesc /\ Mine(t) \in NodeDesc
          /\ f.old.desc # Top(t) => status[f.old.desc] # "LIVE"
      BY <1>1, <3>1, InOpFacts DEF FrameInv, HasOld, Resolved
    <3>3. CASE nd' = nd
      BY <3>3
    <3>4. CASE nd[f.x] = f.old /\ nd' = [nd EXCEPT ![f.x] = Mine(t)]
      <4>1. Mine(t).desc = Top(t)
        BY DEF Mine
      <4>2. nd'[f.x] = Mine(t) /\ \A n \in NodeDesc : n # f.x => nd'[n] = nd[n]
        BY <1>1, <3>2, <3>4 DEF IInv, TypeOK
      <4> QED
        BY <3>2, <3>4, <4>1, <4>2
    <3> QED
      BY <2>2, <3>3, <3>4 DEF UpdateDesc, CanTake
  <2>3. UNCHANGED nd \/ \E t \in Thread : UpdateDesc(t)
    BY <1>1 DEF Next, Step, Terminated, vars, heap, execute_ops, OpLoop, Search,
       InsertAbsent, InsertLink, RaiseNode, ReadNodeDesc, FinishPendingTxn, CycleAbort,
       CheckKeyExist, CheckActive, DecideTxn, PersistClaim, PersistTicket,
       PersistStore, PersistDone
  <2> QED
    BY <2>1, <2>2, <2>3
<1> QED
  BY SkipInvariance, <1>1, PTL DEF Spec, TakenWhenDecided

-----------------------------------------------------------------------------
(* Nodes that are ready, and the nodes of a level.                         *)

LEMMA NodeDescFacts ==
  ASSUME NEW n \in NodeDesc
  PROVE  /\ n \in Node /\ n # head /\ n # tail
         /\ n.desc # PreDesc =>
              n.by \in Thread /\ n.desc \in Desc /\ n.opid \in 1..MaxOps
         /\ n.desc = PreDesc => n.opid \in Key
BY ConstantsAssumption, NullAssumption DEF Node, NodeDesc

LEMMA SentinelKeys ==
  /\ KeyOf(head) = 0 /\ KeyOf(tail) = MaxKey + 1
  /\ Ready(head) /\ Ready(tail)
BY NullAssumption DEF KeyOf, Ready

LEMMA ReadyKey ==
  ASSUME TypeOK, NEW n, Ready(n)
  PROVE  /\ n \in Node
         /\ KeyOf(n) \in 0..(MaxKey + 1) /\ KeyOf(n) \in Int
         /\ n \in NodeDesc => KeyOf(n) \in Key
         /\ n \in NodeDesc /\ n.desc # PreDesc => ops[n.desc] # <<>>
<1>1. CASE n \in {head, tail}
  BY <1>1, NullAssumption, ConstantsAssumption, SentinelKeys DEF Node
<1>2. CASE n \in NodeDesc /\ n.desc = PreDesc
  BY <1>2, NodeDescFacts, ConstantsAssumption DEF KeyOf, Key
<1>3. CASE n \in NodeDesc /\ n.desc # PreDesc
  <2>1. /\ n.desc \in Desc /\ n.opid \in 1..MaxOps /\ n.opid <= Len(ops[n.desc])
        /\ n \in Node /\ n # head /\ n # tail
    BY <1>3, NodeDescFacts DEF Ready
  <2>2. ops[n.desc] \in OpArrays /\ ops[n.desc] # <<>>
    BY <2>1, ConstantsAssumption DEF TypeOK
  <2>3. ops[n.desc] \in Seq(Operator) /\ n.opid \in 1..Len(ops[n.desc])
    BY <2>1, <2>2, ConstantsAssumption
  <2>4. ops[n.desc][n.opid] \in Operator
    BY <2>3
  <2>5. KeyOf(n) = ops[n.desc][n.opid].key
    BY <1>3, <2>1 DEF KeyOf
  <2>6. KeyOf(n) \in Key
    BY <2>4, <2>5 DEF Operator
  <2> QED
    BY <1>3, <2>1, <2>2, <2>6, ConstantsAssumption DEF Key
<1> QED
  BY <1>1, <1>2, <1>3 DEF Ready

LEMMA HeadKey ==
  ASSUME NEW op \in Operator
  PROVE  /\ op.key \in Key /\ op.key \in Nat
         /\ KeyOf(head) < op.key /\ op.key < KeyOf(tail)
BY SentinelKeys, ConstantsAssumption DEF Operator, Key

\* What a walk along level i meets.
LevelPath(i) == Path(Node, next[i], {tail}, head)

\* The keys give each node a distance from the tail.
LEMMA LevelRanked ==
  ASSUME TypeOK, LinkInv, NEW i \in Level
  PROVE  \E rank : Ranked(Node, next[i], {tail}, rank)
<1> DEFINE rank == [n \in Node |-> IF n = tail THEN 0
                                   ELSE IF Ready(n) THEN MaxKey + 1 - KeyOf(n)
                                   ELSE MaxKey + 2]
<1>1. next[i] \in [Node -> Node] /\ MaxKey \in Nat /\ tail \in Node
  BY ConstantsAssumption DEF TypeOK, Node
<1>2. ASSUME NEW n \in Node \ {tail}, Ready(n) PROVE KeyOf(n) \in 0..MaxKey
  BY <1>1, <1>2, ReadyKey, SentinelKeys DEF Node, Key
<1>3. rank \in [Node -> Nat]
  <2>1. ASSUME NEW n \in Node
        PROVE  (IF n = tail THEN 0 ELSE IF Ready(n) THEN MaxKey + 1 - KeyOf(n)
                ELSE MaxKey + 2) \in Nat
    BY <1>1, <1>2
  <2> QED
    BY <2>1
<1>4. ASSUME NEW n \in Node \ {tail}
      PROVE  next[i][n] \in Node /\ rank[next[i][n]] < rank[n]
  <2>1. next[i][n] \in Node /\ Ready(next[i][n])
    BY <1>1 DEF LinkInv
  <2>2. CASE next[i][n] = tail
    <3>1. rank[n] = (IF Ready(n) THEN MaxKey + 1 - KeyOf(n) ELSE MaxKey + 2)
          /\ rank[next[i][n]] = 0
      BY <1>1, <2>2
    <3> HIDE DEF rank
    <3> QED
      BY <1>1, <1>2, <2>1, <3>1
  <2>3. CASE next[i][n] # tail
    <3>1. Ready(n) /\ KeyOf(n) < KeyOf(next[i][n])
      BY <2>3 DEF LinkInv
    <3>2. KeyOf(n) \in 0..MaxKey /\ KeyOf(next[i][n]) \in 0..MaxKey
      BY <1>2, <2>1, <2>3, <3>1
    <3>3. rank[n] = MaxKey + 1 - KeyOf(n)
          /\ rank[next[i][n]] = MaxKey + 1 - KeyOf(next[i][n])
      BY <2>1, <2>3, <3>1
    <3> HIDE DEF rank
    <3> QED
      BY <1>1, <2>1, <3>1, <3>2, <3>3
  <2> QED
    BY <2>2, <2>3
<1> HIDE DEF rank
<1>5. Ranked(Node, next[i], {tail}, rank)
  BY <1>3, <1>4 DEF Ranked
<1> QED
  BY <1>5

LEMMA ChainIsPath ==
  ASSUME TypeOK, LinkInv, NEW i \in Level
  PROVE  Chain(i) = Path(Node, next[i], {tail}, next[i][head])
<1> DEFINE E == {tail}
           W == [x \in Node |-> Path(Node, next[i], E, x)]
           Follows(F) == F = [x \in Node |-> IF x = tail THEN {}
                                             ELSE {x} \union F[next[i][x]]]
<1>1. PICK rank : Ranked(Node, next[i], E, rank)
  BY LevelRanked
<1>2. next[i][head] \in Node
  BY DEF TypeOK, Node
<1>3. Follows(W)
  <2>1. ASSUME NEW x \in Node
        PROVE  W[x] = IF x = tail THEN {} ELSE {x} \union W[next[i][x]]
    <3>1. CASE x = tail
      BY <3>1 DEF Path
    <3>2. CASE x # tail
      <4>1. x \in Node \ E /\ next[i][x] \in Node
        BY <1>1, <3>2 DEF Ranked
      <4>2. Path(Node, next[i], E, x) = {x} \union Path(Node, next[i], E, next[i][x])
        BY <4>1, PathStep
      <4> QED
        BY <3>2, <4>1, <4>2
    <3> QED
      BY <3>1, <3>2
  <2> HIDE DEF W
  <2>2. W = [x \in Node |-> W[x]]
    BY DEF W
  <2> QED
    BY <2>1, <2>2
<1> HIDE DEF W
<1>4. Follows(CHOOSE F : Follows(F))
  BY <1>3
<1>5. PICK F : F = (CHOOSE G : Follows(G))
  OBVIOUS
<1>6. Walks(F, Node, next[i], E)
  BY <1>4, <1>5 DEF Walks
<1>7. F[next[i][head]] = Path(Node, next[i], E, next[i][head])
  BY <1>1, <1>2, <1>6, WalkUnique
<1> QED
  BY <1>5, <1>7 DEF Chain

\* The head and the nodes of a level are what a walk from the head meets; the
\* head is not behind itself.
LEMMA OnIsPath ==
  TypeOK /\ LinkInv =>
    \A i \in Level : On(i) = LevelPath(i) /\ head \notin Chain(i)
<1> SUFFICES ASSUME TypeOK, LinkInv, NEW i \in Level
             PROVE  On(i) = LevelPath(i) /\ head \notin Chain(i)
  OBVIOUS
<1> DEFINE E == {tail}
<1>1. next[i] \in [Node -> Node] /\ head \in Node \ E
  BY NullAssumption DEF TypeOK, Node
<1>2. On(i) = LevelPath(i)
  <2>1. next[i][head] \in Node
    BY <1>1
  <2>2. Path(Node, next[i], E, head)
          = {head} \union Path(Node, next[i], E, next[i][head])
    BY <1>1, <2>1, PathStep
  <2> QED
    BY <2>2, ChainIsPath DEF On, LevelPath
<1>3. CASE next[i][head] = tail
  <2>1. Path(Node, next[i], E, next[i][head]) = {}
    BY <1>3 DEF Path
  <2> QED
    BY <1>2, <2>1, ChainIsPath
<1>4. CASE next[i][head] # tail
  <2> DEFINE n == next[i][head]
             C == {x \in Node \ E : Ready(x) /\ KeyOf(x) > 0}
  <2>1. n \in C
    BY <1>1, <1>4, SentinelKeys, ReadyKey DEF LinkInv
  <2>2. \A x \in C : next[i][x] \in C \union E
    <3> SUFFICES ASSUME NEW x \in C, next[i][x] # tail
                 PROVE  next[i][x] \in C
      OBVIOUS
    <3>1. KeyOf(x) < KeyOf(next[i][x]) /\ Ready(next[i][x]) /\ next[i][x] \in Node
      BY <1>1 DEF LinkInv
    <3>2. KeyOf(x) \in Int /\ KeyOf(next[i][x]) \in Int
      BY <3>1, ReadyKey
    <3> QED
      BY <3>1, <3>2
  <2>3. head \notin C
    BY SentinelKeys
  <2>4. C \subseteq Node \ E
    OBVIOUS
  <2> HIDE DEF C
  <2>5. Path(Node, next[i], E, n) \subseteq C
    <3>1. n \in Node \ E
      BY <1>1, <1>4
    <3> QED
      BY <1>1, <2>1, <2>2, <2>4, <3>1, PathClosed
  <2>6. Chain(i) = Path(Node, next[i], E, n)
    BY ChainIsPath
  <2> HIDE DEF n
  <2> QED
    BY <1>2, <2>3, <2>5, <2>6
<1> QED
  BY <1>2, <1>3, <1>4

LEMMA OnIsPathNext ==
  (TypeOK /\ LinkInv =>
     \A i \in Level : On(i) = LevelPath(i) /\ head \notin Chain(i))'
BY OnIsPath, PTL

\* The nodes of a level are ready, and each leads to the next.
LEMMA OnNext ==
  ASSUME TypeOK, LinkInv, NEW i \in Level, NEW x \in On(i)
  PROVE  /\ x \in Node /\ x # tail /\ Ready(x)
         /\ next[i][x] \in Node /\ Ready(next[i][x])
         /\ next[i][x] \in On(i) \union {tail}
         /\ next[i][x] # tail => KeyOf(x) < KeyOf(next[i][x])
<1> DEFINE E == {tail}
           C == {n \in Node \ E : Ready(n)}
<1>1. next[i] \in [Node -> Node] /\ head \in Node \ E
  BY NullAssumption DEF TypeOK, Node
<1>2. x \in LevelPath(i) /\ On(i) = LevelPath(i)
  BY OnIsPath
<1>3. x \in Node \ E /\ next[i][x] \in LevelPath(i) \union E
  BY <1>1, <1>2, PathClosed DEF LevelPath
<1>4. C \subseteq Node \ E /\ head \in C /\ \A n \in C : next[i][n] \in C \union E
  BY <1>1, SentinelKeys DEF LinkInv
<1> HIDE DEF C
<1>5. LevelPath(i) \subseteq C
  BY <1>1, <1>4, PathClosed DEF LevelPath
<1>6. Ready(x)
  BY <1>2, <1>5 DEF C
<1> QED
  BY <1>1, <1>2, <1>3, <1>6 DEF LinkInv

LEMMA HeadOn == \A i : head \in On(i)
BY DEF On

\* No key lies between a node of a level and its successor.
LEMMA Gap ==
  ASSUME TypeOK, LinkInv, NEW i \in Level, NEW p \in On(i), NEW m \in On(i),
         KeyOf(p) < KeyOf(m)
  PROVE  next[i][p] # tail /\ KeyOf(next[i][p]) <= KeyOf(m)
<1> DEFINE key == [n \in Node |-> IF Ready(n) THEN KeyOf(n) ELSE 0]
<1>1. next[i] \in [Node -> Node] /\ head \in Node \ {tail}
  BY NullAssumption DEF TypeOK, Node
<1>2. On(i) = LevelPath(i)
  BY OnIsPath
<1>3. \A n \in Node : key[n] \in Int
  BY ReadyKey
<1>4. \A n \in Node : Ready(n) => key[n] = KeyOf(n)
  OBVIOUS
<1> HIDE DEF key
<1>5. \A x \in LevelPath(i) : next[i][x] \notin {tail} => key[x] < key[next[i][x]]
  BY <1>2, <1>4, OnNext
<1>6. key[p] < key[m] /\ p \in LevelPath(i) /\ m \in LevelPath(i)
  BY <1>2, <1>4, OnNext
<1>7. next[i][p] \notin {tail} /\ key[next[i][p]] <= key[m]
  BY <1>1, <1>3, <1>5, <1>6, PathGap DEF LevelPath
<1> QED
  BY <1>4, <1>7, OnNext

\* A level stays where the links of its nodes stay.
LEMMA OnSame ==
  ASSUME TypeOK, LinkInv, TypeOK', LinkInv', NEW i \in Level,
         \A x \in On(i) : next'[i][x] = next[i][x]
  PROVE  On(i)' = On(i)
<1>1. next[i] \in [Node -> Node] /\ next'[i] \in [Node -> Node] /\ head \in Node \ {tail}
  BY NullAssumption DEF TypeOK, Node
<1>2. On(i) = LevelPath(i) /\ On(i)' = Path(Node, next'[i], {tail}, head)
  BY OnIsPath, OnIsPathNext DEF LevelPath
<1>3. \A x \in Path(Node, next[i], {tail}, head) : next'[i][x] = next[i][x]
  BY <1>2 DEF LevelPath
<1>4. Path(Node, next'[i], {tail}, head) = Path(Node, next[i], {tail}, head)
  BY <1>1, <1>3, PathSame
<1> QED
  BY <1>2, <1>4 DEF LevelPath

\* A level gains the node n that is linked behind p.
LEMMA OnGrows ==
  ASSUME TypeOK, LinkInv, TypeOK', LinkInv', NEW i \in Level,
         NEW p \in On(i), NEW n \in NodeDesc, n \notin On(i),
         Enters(next[i], next'[i], On(i), p, n)
  PROVE  On(i)' = On(i) \union {n}
<1>1. next[i] \in [Node -> Node] /\ next'[i] \in [Node -> Node] /\ head \in Node \ {tail}
  BY NullAssumption DEF TypeOK, Node
<1>2. On(i) = LevelPath(i) /\ On(i)' = Path(Node, next'[i], {tail}, head)
  BY OnIsPath, OnIsPathNext DEF LevelPath
<1>3. n \in Node \ {tail}
  BY NodeDescFacts
<1> DEFINE P == Path(Node, next[i], {tail}, head)
<1>4. p \in P /\ n \notin P /\ Enters(next[i], next'[i], P, p, n)
  BY <1>2 DEF LevelPath, Enters
<1>5. Path(Node, next'[i], {tail}, head) = P \union {n}
  BY <1>1, <1>3, <1>4, PathGrows
<1> QED
  BY <1>2, <1>5 DEF LevelPath

-----------------------------------------------------------------------------
(* What no step takes back.                                                *)

\* The frame g follows f in the run of transaction d: no operation is run again,
\* and no node is linked twice.
Advance(f, g, d) ==
  \/ /\ g.opid > f.opid \/ (g.opid = f.opid /\ (f.height > 0 => g.height > 0))
     /\ InOp(g) => InOp(f) \/ status[d] = "LIVE"
  \/ status'[d] # "LIVE" /\ ~InOp(g)

Forward ==
  /\ \A d \in AllDesc : status[d] # "LIVE" => status'[d] # "LIVE"
  /\ \A d \in Desc : ops[d] # <<>> => ops'[d] = ops[d]
  /\ \A t \in Thread, d \in Desc : Advance(fr[t][d], fr'[t][d], d)

LEMMA FrameNumbers ==
  ASSUME NEW f \in Frame
  PROVE  f.opid \in Nat /\ f.height \in Nat /\ f.rise \in Nat
BY ConstantsAssumption DEF Frame, Level

LEMMA ReadyStable ==
  ASSUME TypeOK, TypeOK', Forward, NEW n, Ready(n)
  PROVE  Ready(n)' /\ KeyOf(n)' = KeyOf(n)
<1>1. CASE n \in {head, tail} \/ (n \in NodeDesc /\ n.desc = PreDesc)
  BY <1>1 DEF Ready, KeyOf
<1>2. CASE n \in NodeDesc /\ n.desc # PreDesc
  <2>1. n.by \in Thread /\ n.desc \in Desc /\ n.opid \in 1..MaxOps
    BY <1>2, NodeDescFacts
  <2>2. ops'[n.desc] = ops[n.desc]
    BY <1>2, <2>1, ReadyKey DEF Forward
  <2> DEFINE f == fr[n.by][n.desc]
             g == fr'[n.by][n.desc]
  <2>3. /\ f.opid \in Nat /\ g.opid \in Nat /\ n.opid \in Nat /\ n.desc \in AllDesc
        /\ f.height \in Nat /\ g.height \in Nat
    <3>1. f \in Frame /\ g \in Frame
      BY <2>1 DEF TypeOK
    <3> QED
      BY <2>1, <3>1, FrameNumbers, ConstantsAssumption DEF AllDesc
  <2>4. Advance(f, g, n.desc)
    BY <2>1 DEF Forward
  <2>5. Unborn(n)' => Unborn(n)
    <3> SUFFICES ASSUME Unborn(n)' PROVE Unborn(n)
      OBVIOUS
    <3>1. /\ n.opid > g.opid \/ (n.opid = g.opid /\ g.height = 0)
          /\ status'[n.desc] = "LIVE" \/ InOp(g)
      BY DEF Unborn, InOp
    <3>2. /\ g.opid > f.opid \/ (g.opid = f.opid /\ (f.height > 0 => g.height > 0))
          /\ InOp(g) => InOp(f) \/ status[n.desc] = "LIVE"
      BY <2>4, <3>1 DEF Advance
    <3>3. status'[n.desc] = "LIVE" => status[n.desc] = "LIVE"
      BY <2>3 DEF Forward
    <3> HIDE DEF f, g
    <3>4. n.opid > f.opid \/ (n.opid = f.opid /\ f.height = 0)
      BY <2>3, <3>1, <3>2
    <3> QED
      BY <1>2, <3>1, <3>2, <3>3, <3>4 DEF Unborn, f, g
  <2> QED
    BY <1>2, <2>2, <2>5, NodeDescFacts DEF Ready, KeyOf
<1> QED
  BY <1>1, <1>2 DEF Ready

\* A level may gain the node m, and loses none.
Gains(m) ==
  \A i \in Level : On(i) \subseteq On(i)' /\ \A x \in On(i)' : x \in On(i) \/ x = m

\* The names in WalkInv(f, n, op) that a step can change.
LEMMA NotedStable ==
  ASSUME TypeOK, TypeOK', LinkInv, Forward, NEW m, Gains(m),
         NEW f, NEW i \in Level, NEW k, Noted(f, i, k)
  PROVE  Noted(f, i, k)' /\ KeyOf(f.succs[i])' = KeyOf(f.succs[i])
<1>1. f.preds[i] \in On(i)' /\ f.succs[i] \in On(i)' \union {tail}
  BY DEF Noted, Gains
<1>2. Ready(f.preds[i]) /\ Ready(f.succs[i])
  BY OnNext, SentinelKeys DEF Noted
<1>3. KeyOf(f.preds[i])' = KeyOf(f.preds[i]) /\ KeyOf(f.succs[i])' = KeyOf(f.succs[i])
  BY <1>2, ReadyStable
<1> QED
  BY <1>1, <1>3 DEF Noted

\* A frame that does not change stays where it is on the levels.
LEMMA WalkStable ==
  ASSUME TypeOK, TypeOK', LinkInv, Forward, NEW m, Gains(m),
         NEW f \in Frame, NEW n, n # m, NEW op, WalkInv(f, n, op)
  PROVE  WalkInv(f, n, op)'
<1>1. f.lvl \in Level
  BY DEF Frame
<1>2. ASSUME f.pc = "search"
      PROVE  /\ f.x \in On(f.lvl)' /\ KeyOf(f.x)' < op.key
             /\ op.type = "INSERT" =>
                  \A j \in Level : j > f.lvl => Noted(f, j, op.key)'
  <2>1. f.x \in On(f.lvl) /\ KeyOf(f.x) < op.key
    BY <1>2 DEF WalkInv
  <2>2. Ready(f.x)
    BY <1>1, <2>1, OnNext
  <2>3. KeyOf(f.x)' = KeyOf(f.x) /\ f.x \in On(f.lvl)'
    BY <1>1, <2>1, <2>2, ReadyStable DEF Gains
  <2> QED
    BY <1>2, <2>1, <2>3, NotedStable DEF WalkInv
<1>3. ASSUME f.pc \in {"absent", "link", "raise"}
      PROVE  \A j \in Level : Noted(f, j, op.key)'
  BY <1>3, NotedStable DEF WalkInv
<1>4. ASSUME f.pc \in {"absent", "link"}
      PROVE  \A j \in Level : op.key < KeyOf(f.succs[j])'
  BY <1>4, NotedStable DEF WalkInv
<1>5. ASSUME f.height > 0
      PROVE  \A j \in Level : n \in On(j)' <=> j < f.rise
  BY <1>5 DEF WalkInv, Gains
<1> QED
  BY <1>2, <1>3, <1>4, <1>5 DEF WalkInv

\* A frame that neither searches nor links says nothing of the levels.
LEMMA Settled ==
  ASSUME NEW f, f.height = 0, f.pc \notin {"search", "absent", "link", "raise"}
  PROVE  \A t, d : OnCourse(f, t, d) /\ OnCourse(f, t, d)'
BY DEF OnCourse, WalkInv

LEMMA CourseStable ==
  ASSUME TypeOK, TypeOK', LinkInv, Forward, NEW m, Gains(m),
         NEW f \in Frame, NEW t \in Thread, NEW d \in Desc,
         InOp(f) => ops'[d] = ops[d],
         NodeOf(t, d, f) # m, OnCourse(f, t, d)
  PROVE  OnCourse(f, t, d)'
<1>1. CASE InOp(f)
  <2>1. PICK n, op : n = NodeOf(t, d, f) /\ op = ops[d][f.opid]
    OBVIOUS
  <2>2. WalkInv(f, n, op)
    BY <2>1 DEF OnCourse
  <2>3. WalkInv(f, n, op)'
    BY <2>1, <2>2, WalkStable
  <2>4. op = ops'[d][f.opid] /\ n = NodeOf(t, d, f)'
    BY <1>1, <2>1 DEF NodeOf
  <2> QED
    BY <2>3, <2>4 DEF OnCourse
<1>2. CASE ~InOp(f)
  <2>1. f.pc \notin {"search", "absent", "link", "raise"}
    BY <1>2 DEF InOp, PersistLabels
  <2>2. f.height = 0
    BY <2>1, FrameNumbers DEF OnCourse, WalkInv
  <2> QED
    BY <2>1, <2>2, Settled
<1> QED
  BY <1>1, <1>2

\* No level changes where no pointer does.
LEMMA LinkSame ==
  ASSUME TypeOK, TypeOK', LinkInv, Forward, next' = next
  PROVE  LinkInv' /\ \A i \in Level : On(i)' = On(i)
<1>1. LinkInv'
  <2> SUFFICES ASSUME NEW i \in Level, NEW n \in Node
               PROVE  /\ Ready(next[i][n])'
                      /\ next[i][n] # tail =>
                           Ready(n)' /\ KeyOf(n)' < KeyOf(next[i][n])'
    BY DEF LinkInv
  <2>1. /\ Ready(next[i][n])
        /\ next[i][n] # tail => Ready(n) /\ KeyOf(n) < KeyOf(next[i][n])
    BY DEF LinkInv
  <2>2. PICK y : y = next[i][n]
    OBVIOUS
  <2>3. Ready(y)' /\ KeyOf(y)' = KeyOf(y)
    BY <2>1, <2>2, ReadyStable
  <2>4. y # tail => Ready(n)' /\ KeyOf(n)' = KeyOf(n)
    BY <2>1, <2>2, ReadyStable
  <2>5. y = next[i][n]'
    BY <2>2
  <2> QED
    BY <2>1, <2>2, <2>3, <2>4, <2>5
<1> QED
  BY <1>1, OnSame

LEMMA SameCourse ==
  ASSUME TypeOK, TypeOK', LinkInv, Forward, next' = next,
         NEW f \in Frame, NEW t \in Thread, NEW d \in Desc,
         InOp(f) => ops'[d] = ops[d], OnCourse(f, t, d)
  PROVE  OnCourse(f, t, d)'
<1>1. Gains(head) /\ Gains(tail)
  BY LinkSame DEF Gains
<1>2. head # tail
  BY NullAssumption
<1>3. CASE NodeOf(t, d, f) # head
  BY <1>1, <1>3, CourseStable
<1>4. CASE NodeOf(t, d, f) # tail
  BY <1>1, <1>4, CourseStable
<1> QED
  BY <1>2, <1>3, <1>4

\* A step that leaves the pointers alone.
LEMMA PlainShape ==
  ASSUME IInv, IInv', ShapeInv, Forward, next' = next, IdleInv',
         ops' = ops \/ fr' = fr,
         \A t \in Thread, d \in Desc :
           fr'[t][d] # fr[t][d] => OnCourse(fr'[t][d], t, d)
  PROVE  ShapeInv'
<1>1. TypeOK /\ TypeOK' /\ LinkInv
  BY DEF IInv, ShapeInv
<1>2. LinkInv' /\ Nested'
  <2>1. LinkInv' /\ \A i \in Level : On(i)' = On(i)
    BY <1>1, LinkSame
  <2>2. Nested
    BY DEF ShapeInv
  <2> QED
    BY <2>1, <2>2 DEF Nested
<1>3. ASSUME NEW t \in Thread, NEW d \in Desc
      PROVE  OnCourse(fr[t][d], t, d)'
  <2>1. PICK g \in Frame : g = fr'[t][d]
    BY <1>1 DEF TypeOK
  <2>2. OnCourse(g, t, d)
    <3>1. OnCourse(fr[t][d], t, d)
      BY DEF ShapeInv, WalksInv
    <3> QED
      BY <2>1, <3>1
  <2>3. InOp(g) => ops'[d] = ops[d]
    <3> SUFFICES ASSUME fr' = fr, InOp(g) PROVE ops'[d] = ops[d]
      OBVIOUS
    <3>1. FrameInv(g, d)
      BY <2>1 DEF IInv
    <3>2. g.opid <= Len(ops[d]) /\ g.opid \in 1..(MaxOps + 1)
      BY <3>1 DEF FrameInv, Frame
    <3>3. ops[d] # <<>>
      BY <3>2, ConstantsAssumption
    <3> QED
      BY <3>3 DEF Forward
  <2>4. OnCourse(g, t, d)'
    BY <1>1, <2>2, <2>3, SameCourse
  <2> QED
    BY <2>1, <2>4 DEF OnCourse, WalkInv, NodeOf
<1> QED
  BY <1>2, <1>3 DEF ShapeInv, WalksInv

\* Decided transactions stay decided.
Final == \A d \in AllDesc : status[d] # "LIVE" => status'[d] # "LIVE"

\* A step of thread t replaces the frame it runs by f.
LEMMA ForwardStep ==
  ASSUME TypeOK, NEW t \in Thread, Busy(t), NEW f, SetFrame(t, f),
         Advance(Fr(t), f, Top(t)), Final, ops' = ops
  PROVE  /\ Forward
         /\ fr'[t][Top(t)] = f
         /\ \A u \in Thread, d \in Desc :
              u # t \/ d # Top(t) => fr'[u][d] = fr[u][d]
<1>1. Top(t) \in Desc
  BY TopInStack
<1>2. /\ fr'[t][Top(t)] = f
      /\ \A u \in Thread, d \in Desc :
           u # t \/ d # Top(t) => fr'[u][d] = fr[u][d]
  BY <1>1 DEF SetFrame, TypeOK
<1>3. ASSUME NEW u \in Thread, NEW d \in Desc
      PROVE  Advance(fr[u][d], fr'[u][d], d)
  <2>1. CASE u = t /\ d = Top(t)
    BY <1>2, <2>1 DEF Fr
  <2>2. CASE u # t \/ d # Top(t)
    BY <1>2, <2>2 DEF Advance
  <2> QED
    BY <2>1, <2>2
<1> QED
  BY <1>2, <1>3 DEF Forward, Final

\* Idle frames stay idle in such a step.
LEMMA IdleStep ==
  ASSUME TypeOK, IdleInv, NEW t \in Thread, Busy(t), stack' = stack,
         \A u \in Thread, d \in Desc :
           u # t \/ d # Top(t) => fr'[u][d] = fr[u][d]
  PROVE  IdleInv'
<1> SUFFICES ASSUME NEW u \in Thread, NEW d \in Desc, ~OnStack(u, d)'
             PROVE  fr'[u][d] = NewFrame(1)
  BY DEF IdleInv, NewFrame, NoPath
<1>1. ~OnStack(u, d) /\ fr[u][d] = NewFrame(1)
  BY DEF OnStack, IdleInv
<1>2. u # t \/ d # Top(t)
  BY <1>1, TopInStack DEF OnStack
<1> QED
  BY <1>1, <1>2

LEMMA TopShape ==
  ASSUME IInv, IInv', ShapeInv, NEW t \in Thread, Busy(t), NEW f,
         SetFrame(t, f), OnCourse(f, t, Top(t)), Advance(Fr(t), f, Top(t)),
         Final, UNCHANGED <<next, ops, stack>>
  PROVE  ShapeInv'
<1>1. TypeOK /\ IdleInv
  BY DEF IInv, ShapeInv
<1>2. /\ Forward
      /\ fr'[t][Top(t)] = f
      /\ \A u \in Thread, d \in Desc :
           u # t \/ d # Top(t) => fr'[u][d] = fr[u][d]
  BY <1>1, ForwardStep
<1>3. IdleInv'
  BY <1>1, <1>2, IdleStep
<1>4. \A u \in Thread, d \in Desc :
        fr'[u][d] # fr[u][d] => OnCourse(fr'[u][d], u, d)
  BY <1>2
<1> QED
  BY <1>2, <1>3, <1>4, PlainShape

\* What a frame in an operation has, besides InOpFacts.
LEMMA WalkFacts ==
  ASSUME IInv, ShapeInv, NEW t \in Thread,
         \E p \in {"search", "absent", "link", "raise", "read", "help", "cycle",
                   "exist", "active", "update"} : At(t, p)
  PROVE  /\ WalkInv(Fr(t), Mine(t), Op(t))
         /\ OnCourse(Fr(t), t, Top(t))
         /\ InOp(Fr(t))
         /\ Fr(t).pc \notin {"search", "raise"} => Fr(t).height = 0
<1>1. Top(t) \in Desc /\ Busy(t) /\ Fr(t) \in Frame
  BY InOpFacts
<1>2. OnCourse(Fr(t), t, Top(t))
  BY <1>1 DEF ShapeInv, WalksInv, Fr
<1>3. WalkInv(Fr(t), Mine(t), Op(t))
  BY <1>2 DEF OnCourse, NodeOf, Mine, Op
<1>4. InOp(Fr(t))
  BY DEF InOp, At, PersistLabels
<1> QED
  BY <1>1, <1>2, <1>3, <1>4, FrameNumbers DEF WalkInv

\* An operation goes on, or returns to help_ops.
LEMMA OpAdvance ==
  ASSUME NEW f, NEW g, NEW d, InOp(f), g.opid = f.opid, f.height > 0 => g.height > 0
  PROVE  Advance(f, g, d)
BY DEF Advance

LEMMA FinishedShape ==
  ASSUME NEW f \in Frame, NEW r
  PROVE  /\ \A t, d : OnCourse(Finished(f, r), t, d) /\ OnCourse(Finished(f, r), t, d)'
         /\ ~InOp(Finished(f, r))
         /\ \A d : Advance(f, Finished(f, r), d)
<1> DEFINE g == Finished(f, r)
<1>1. /\ g.pc = "loop" /\ g.height = 0 /\ g.back = "return" /\ g.opid = f.opid + 1
  BY DEF Finished, NewFrame
<1>2. g.opid > f.opid
  BY <1>1, FrameNumbers
<1> HIDE DEF g
<1>3. ~InOp(g)
  BY <1>1 DEF InOp, PersistLabels
<1>4. \A d : Advance(f, g, d)
  BY <1>2, <1>3 DEF Advance
<1>5. \A t, d : OnCourse(g, t, d) /\ OnCourse(g, t, d)'
  BY <1>1, Settled
<1> QED
  BY <1>3, <1>4, <1>5 DEF g

LEMMA SearchingShape ==
  ASSUME NEW f \in Frame, NEW t, NEW d,
         LET op == ops[d][f.opid]
         IN  op \in Operator
               /\ (f.height > 0 =>
                     /\ op.type = "INSERT"
                     /\ \A j \in Level : NodeOf(t, d, f) \in On(j) <=> j < f.rise)
  PROVE  OnCourse(Searching(f), t, d)
<1> DEFINE g == Searching(f)
           op == ops[d][f.opid]
<1>1. /\ g.pc = "search" /\ g.x = head /\ g.lvl = NumLevels - 1
      /\ g.opid = f.opid /\ g.height = f.height /\ g.rise = f.rise
  BY DEF Searching, Frame
<1> HIDE DEF g
<1>2. g.x \in On(g.lvl) /\ KeyOf(g.x) < op.key
  BY <1>1, HeadOn, HeadKey
<1>3. \A j \in Level : ~(j > g.lvl)
  BY <1>1, ConstantsAssumption DEF Level
<1>4. WalkInv(g, NodeOf(t, d, g), op)
  BY <1>1, <1>2, <1>3 DEF WalkInv, NodeOf
<1> QED
  BY <1>1, <1>4 DEF OnCourse, g

-----------------------------------------------------------------------------
(* One lemma per action: the searches.                                     *)

LEMMA OpLoopShape ==
  ASSUME IInv, IInv', ShapeInv, NEW t \in Thread, OpLoop(t) PROVE ShapeInv'
<1> DEFINE d == Top(t)
           f == Fr(t)
           end == [f EXCEPT !.pc = "decide"]
<1>1. Busy(t) /\ f.pc = "loop" /\ UNCHANGED <<next, ops, status, stack>>
  BY DEF OpLoop, At, heap
<1>2. /\ f \in Frame /\ f.back = "return" /\ d \in Desc
      /\ f.opid \in Nat /\ f.opid >= 1
  BY <1>1, Running, ConstantsAssumption DEF Good, FrameInv, Frame, PersistLabels
<1>3. f.height = 0
  <2>1. OnCourse(f, t, d)
    BY <1>2 DEF ShapeInv, WalksInv, Fr
  <2> QED
    BY <1>1, <1>2, <2>1, FrameNumbers DEF OnCourse, WalkInv
<1>4. CASE status[d] = "LIVE" /\ f.opid <= Len(ops[d]) /\ SetFrame(t, Searching(f))
  <2>1. ops[d] \in OpArrays \union {<<>>}
    BY <1>2 DEF IInv, TypeOK
  <2>2. ops[d] \in Seq(Operator) /\ f.opid \in 1..Len(ops[d])
    BY <1>2, <1>4, <2>1, ConstantsAssumption
  <2>3. ops[d][f.opid] \in Operator
    BY <2>2
  <2>4. OnCourse(Searching(f), t, d)
    BY <1>2, <1>3, <2>3, SearchingShape
  <2>5. Searching(f).opid = f.opid
    BY <1>2 DEF Searching, Frame
  <2>6. Advance(f, Searching(f), d)
    BY <1>3, <1>4, <2>5 DEF Advance
  <2> QED
    BY <1>1, <1>4, <2>4, <2>6, TopShape DEF Final
<1>5. CASE SetFrame(t, end)
  <2>1. end.pc = "decide" /\ end.height = 0 /\ end.back = "return" /\ end.opid = f.opid
    BY <1>2, <1>3 DEF Frame
  <2> HIDE DEF end
  <2>2. OnCourse(end, t, d)
    BY <2>1, Settled
  <2>3. Advance(f, end, d)
    BY <1>3, <2>1 DEF Advance, InOp, PersistLabels
  <2> QED
    BY <1>1, <1>5, <2>2, <2>3, TopShape DEF Final
<1> QED
  BY <1>4, <1>5 DEF OpLoop

\* Where a search ends on level 0 decides how the operation goes on.
LEMMA LocatedShape ==
  ASSUME IInv, ShapeInv, NEW t, NEW d, NEW f \in Frame, f.pc = "search",
         NEW op \in Operator, op = ops[d][f.opid],
         NEW x \in On(0), NEW y, y = next[0][x],
         KeyOf(x) < op.key, op.key <= KeyOf(y),
         op.type = "INSERT" =>
           f.succs[0] = y /\ \A j \in Level : Noted(f, j, op.key),
         f.height > 0 =>
           /\ op.type = "INSERT"
           /\ \A j \in Level : NodeOf(t, d, f) \in On(j) <=> j < f.rise
  PROVE  OnCourse(Located(f, op, y), t, d) /\ Advance(f, Located(f, op, y), d)
<1> DEFINE up == [f EXCEPT !.pc = "raise", !.x = head]
           at == [f EXCEPT !.pc = "read", !.x = y, !.preds = NoPath, !.succs = NoPath]
           no == [f EXCEPT !.pc = "absent", !.x = head]
<1>1. InOp(f) /\ f.height \in Nat
  BY FrameNumbers DEF InOp, PersistLabels
<1>2. CASE f.height > 0
  <2>1. /\ up.pc = "raise" /\ up.opid = f.opid /\ up.height = f.height
        /\ up.rise = f.rise /\ up.preds = f.preds /\ up.succs = f.succs
    BY DEF Frame
  <2>2. f.height # 0
    BY <1>2
  <2>3. Located(f, op, y) = up
    BY <1>2, <2>2 DEF Located
  <2> HIDE DEF up
  <2>4. WalkInv(up, NodeOf(t, d, up), op)
    BY <1>2, <2>1 DEF WalkInv, NodeOf, Noted
  <2> QED
    BY <1>1, <2>1, <2>3, <2>4, OpAdvance DEF OnCourse
<1>3. CASE f.height = 0 /\ KeyOf(y) = op.key
  <2>1. /\ at.pc = "read" /\ at.opid = f.opid /\ at.height = f.height
    BY DEF Frame
  <2>2. Located(f, op, y) = at
    BY <1>3 DEF Located
  <2> HIDE DEF at
  <2> QED
    BY <1>1, <1>3, <2>1, <2>2, OpAdvance, Settled
<1>4. CASE f.height = 0 /\ KeyOf(y) # op.key /\ op.type # "INSERT"
  <2>1. Located(f, op, y) = Finished(f, FALSE)
    BY <1>4 DEF Located
  <2> QED
    BY <2>1, FinishedShape
<1>5. CASE f.height = 0 /\ KeyOf(y) # op.key /\ op.type = "INSERT"
  <2>1. /\ no.pc = "absent" /\ no.opid = f.opid /\ no.height = f.height
        /\ no.preds = f.preds /\ no.succs = f.succs
    BY DEF Frame
  <2>2. Located(f, op, y) = no
    BY <1>5 DEF Located
  <2> HIDE DEF no
  <2>3. TypeOK /\ LinkInv /\ Nested /\ op.key \in Nat /\ 0 \in Level
    BY HeadKey, Levels DEF IInv, ShapeInv
  <2>4. Ready(x) /\ Ready(y) /\ y \in On(0) \union {tail}
    BY <2>3, OnNext
  <2>5. KeyOf(x) \in Int /\ KeyOf(y) \in Int /\ op.key < KeyOf(y)
    <3>1. KeyOf(x) \in Int /\ KeyOf(y) \in Int
      BY <2>3, <2>4, ReadyKey
    <3> QED
      BY <1>5, <2>3, <3>1
  <2>6. ASSUME NEW j \in Level PROVE op.key < KeyOf(f.succs[j])
    <3> DEFINE s == f.succs[j]
    <3>1. s \in On(j) \union {tail} /\ op.key <= KeyOf(s)
      BY <1>5 DEF Noted
    <3>2. CASE s = tail
      BY <3>2, HeadKey
    <3>3. CASE s # tail
      <4>1. j >= 0 /\ j \in Nat
        BY ConstantsAssumption DEF Level
      <4>2. s \in On(0)
        BY <2>3, <3>1, <3>3, <4>1 DEF Nested
      <4>3. Ready(s) /\ KeyOf(s) \in Int
        BY <2>3, <4>2, OnNext, ReadyKey
      <4> HIDE DEF s
      <4>4. KeyOf(x) < KeyOf(s)
        BY <2>3, <2>5, <3>1, <4>3
      <4>5. KeyOf(y) <= KeyOf(s)
        BY <2>3, <4>2, <4>4, Gap
      <4> QED
        BY <2>3, <2>5, <4>3, <4>5 DEF s
    <3> QED
      BY <3>2, <3>3
  <2>7. WalkInv(no, NodeOf(t, d, no), op)
    BY <1>5, <2>1, <2>6 DEF WalkInv, NodeOf, Noted
  <2> QED
    BY <1>1, <1>5, <2>1, <2>2, <2>7, OpAdvance DEF OnCourse
<1> QED
  BY <1>1, <1>2, <1>3, <1>4, <1>5

LEMMA SearchShape ==
  ASSUME IInv, IInv', ShapeInv, NEW t \in Thread, Search(t) PROVE ShapeInv'
<1> DEFINE f == Fr(t)
           d == Top(t)
           op == Op(t)
           x == f.x
           y == next[f.lvl][x]
           walk == [f EXCEPT !.x = y]
           note == [f EXCEPT !.preds[f.lvl] = x, !.succs[f.lvl] = y]
           g == IF op.type = "INSERT" THEN note ELSE f
<1>1. /\ At(t, "search") /\ f.pc = "search" /\ Busy(t)
      /\ UNCHANGED <<next, ops, status, stack>>
  BY DEF Search, At, heap
<1>2. /\ f \in Frame /\ op \in Operator /\ InOp(f) /\ op = ops[d][f.opid]
      /\ WalkInv(f, NodeOf(t, d, f), op)
  BY <1>1, InOpFacts, WalkFacts DEF Op, Mine, NodeOf
<1>3. TypeOK /\ LinkInv /\ Nested /\ f.lvl \in Level /\ op.key \in Nat
  BY <1>2, HeadKey DEF IInv, ShapeInv, Frame
<1>4. x \in On(f.lvl) /\ KeyOf(x) < op.key
  BY <1>1, <1>2 DEF WalkInv
<1>5. /\ Ready(x) /\ Ready(y) /\ x \in Node /\ y \in Node
      /\ y \in On(f.lvl) \union {tail}
      /\ KeyOf(x) \in Int /\ KeyOf(y) \in Int
  BY <1>3, <1>4, OnNext, ReadyKey
<1>6. /\ walk.pc = "search" /\ walk.opid = f.opid /\ walk.height = f.height
      /\ walk.rise = f.rise /\ walk.x = y /\ walk.lvl = f.lvl
      /\ walk.preds = f.preds /\ walk.succs = f.succs
  BY <1>1, <1>2 DEF Frame
<1>7. /\ note \in Frame /\ note.pc = "search" /\ note.opid = f.opid
      /\ note.height = f.height /\ note.rise = f.rise
      /\ note.x = x /\ note.lvl = f.lvl
      /\ note.preds = [f.preds EXCEPT ![f.lvl] = x]
      /\ note.succs = [f.succs EXCEPT ![f.lvl] = y]
  BY <1>1, <1>2, <1>5 DEF Frame
<1>8. /\ g \in Frame /\ g.pc = "search" /\ g.opid = f.opid /\ g.height = f.height
      /\ g.rise = f.rise /\ g.x = x /\ g.lvl = f.lvl
      /\ op.type = "INSERT" => g = note
  BY <1>1, <1>2, <1>7
<1>9. \/ Before(y, op.key) /\ SetFrame(t, walk)
      \/ ~Before(y, op.key) /\ f.lvl > 0 /\ SetFrame(t, [g EXCEPT !.lvl = @ - 1])
      \/ ~Before(y, op.key) /\ ~(f.lvl > 0) /\ SetFrame(t, Located(g, op, y))
  BY DEF Search
<1>10. ASSUME ~Before(y, op.key), op.type = "INSERT"
       PROVE  /\ \A j \in Level : j >= f.lvl => Noted(g, j, op.key)
              /\ g.succs[f.lvl] = y
  <2>1. op.key <= KeyOf(y)
    BY <1>3, <1>5, <1>10 DEF Before
  <2>2. g.preds[f.lvl] = x /\ g.succs[f.lvl] = y
    BY <1>2, <1>3, <1>7, <1>8, <1>10 DEF Frame
  <2>3. Noted(g, f.lvl, op.key)
    BY <1>4, <1>5, <2>1, <2>2 DEF Noted
  <2>4. ASSUME NEW j \in Level, j > f.lvl PROVE Noted(g, j, op.key)
    <3>1. j # f.lvl
      BY <1>3, <2>4, ConstantsAssumption DEF Level
    <3>2. g.preds[j] = f.preds[j] /\ g.succs[j] = f.succs[j]
      BY <1>2, <1>7, <1>8, <1>10, <3>1 DEF Frame
    <3>3. Noted(f, j, op.key)
      BY <1>1, <1>2, <1>10, <2>4 DEF WalkInv
    <3> QED
      BY <3>2, <3>3 DEF Noted
  <2>5. \A j \in Level : j >= f.lvl => j = f.lvl \/ j > f.lvl
    BY <1>3, ConstantsAssumption DEF Level
  <2> QED
    BY <2>2, <2>3, <2>4, <2>5
<1>11. f.height > 0 =>
         /\ op.type = "INSERT"
         /\ \A j \in Level : NodeOf(t, d, f) \in On(j) <=> j < f.rise
  BY <1>2 DEF WalkInv
<1> HIDE DEF walk, note, g, y, x
<1>12. CASE Before(y, op.key) /\ SetFrame(t, walk)
  <2>1. KeyOf(y) < op.key /\ y # tail
    BY <1>2, <1>3, <1>5, <1>12, SentinelKeys, HeadKey DEF Before
  <2>2. WalkInv(walk, NodeOf(t, d, walk), op)
    BY <1>1, <1>2, <1>5, <1>6, <2>1 DEF WalkInv, NodeOf, Noted
  <2>3. OnCourse(walk, t, d)
    BY <1>2, <1>6, <2>2 DEF OnCourse
  <2>4. Advance(f, walk, d)
    BY <1>2, <1>6, OpAdvance
  <2> QED
    BY <1>1, <1>12, <2>3, <2>4, TopShape DEF Final
<1>13. CASE ~Before(y, op.key) /\ f.lvl > 0 /\ SetFrame(t, [g EXCEPT !.lvl = @ - 1])
  <2> DEFINE low == [g EXCEPT !.lvl = @ - 1]
  <2>1. /\ low.pc = "search" /\ low.opid = f.opid /\ low.height = f.height
        /\ low.rise = f.rise /\ low.x = x /\ low.lvl = f.lvl - 1
        /\ low.preds = g.preds /\ low.succs = g.succs
    BY <1>8 DEF Frame
  <2>2. f.lvl - 1 \in Level /\ f.lvl - 1 <= f.lvl
    BY <1>3, <1>13, ConstantsAssumption DEF Level
  <2>3. x \in On(f.lvl - 1)
    BY <1>3, <1>4, <2>2 DEF Nested
  <2>4. \A j \in Level : j > f.lvl - 1 => j >= f.lvl
    BY <1>3, ConstantsAssumption DEF Level
  <2>5. SetFrame(t, low)
    BY <1>13
  <2> HIDE DEF low
  <2>6. op.type = "INSERT" => \A j \in Level : j > low.lvl => Noted(low, j, op.key)
    BY <1>10, <1>13, <2>1, <2>4 DEF Noted
  <2>7. WalkInv(low, NodeOf(t, d, low), op)
    BY <1>4, <1>11, <2>1, <2>3, <2>6 DEF WalkInv, NodeOf
  <2>8. OnCourse(low, t, d)
    BY <1>2, <2>1, <2>7 DEF OnCourse
  <2>9. Advance(f, low, d)
    BY <1>2, <2>1, OpAdvance
  <2> QED
    BY <1>1, <2>5, <2>8, <2>9, TopShape DEF Final
<1>14. CASE ~Before(y, op.key) /\ ~(f.lvl > 0) /\ SetFrame(t, Located(g, op, y))
  <2>1. f.lvl = 0
    BY <1>3, <1>14, ConstantsAssumption DEF Level
  <2>2. op.key <= KeyOf(y)
    BY <1>3, <1>5, <1>14 DEF Before
  <2>3. op.type = "INSERT" =>
          g.succs[0] = y /\ \A j \in Level : Noted(g, j, op.key)
    BY <1>10, <1>14, <2>1, ConstantsAssumption DEF Level
  <2>4. NodeOf(t, d, g) = NodeOf(t, d, f)
    BY <1>8 DEF NodeOf
  <2>5. y = next[0][x] /\ x \in On(0) /\ KeyOf(x) < op.key /\ op = ops[d][g.opid]
    BY <1>2, <1>4, <1>8, <2>1 DEF y
  <2>6. f.height > 0 =>
          /\ op.type = "INSERT"
          /\ \A j \in Level : NodeOf(t, d, g) \in On(j) <=> j < g.rise
    BY <1>8, <1>11, <2>4
  <2>7. OnCourse(Located(g, op, y), t, d) /\ Advance(g, Located(g, op, y), d)
    <3> HIDE DEF op, d, f
    <3> QED
      BY <1>2, <1>8, <2>2, <2>3, <2>5, <2>6, LocatedShape
  <2>8. InOp(f) /\ InOp(g)
    BY <1>2, <1>8 DEF InOp, PersistLabels
  <2>9. Advance(f, Located(g, op, y), d)
    BY <1>8, <2>7, <2>8 DEF Advance
  <2> QED
    BY <1>1, <1>14, <2>7, <2>9, TopShape DEF Final
<1> QED
  BY <1>9, <1>12, <1>13, <1>14

-----------------------------------------------------------------------------
(* One lemma per action: the steps that neither search nor link.           *)

\* Only the Insert of a node that is on its way up has a height.
LEMMA NoHeight ==
  ASSUME IInv, ShapeInv, NEW t \in Thread, Busy(t), Fr(t).pc \notin {"search", "raise"}
  PROVE  Fr(t) \in Frame /\ Top(t) \in Desc /\ Fr(t).height = 0
<1>1. Fr(t) \in Frame /\ Top(t) \in Desc
  BY TopInStack DEF IInv
<1>2. OnCourse(Fr(t), t, Top(t))
  BY <1>1 DEF ShapeInv, WalksInv, Fr
<1> QED
  BY <1>1, <1>2, FrameNumbers DEF OnCourse, WalkInv

LEMMA SettledShape ==
  ASSUME IInv, IInv', ShapeInv, NEW t \in Thread, Busy(t), NEW f,
         SetFrame(t, f), f.height = 0, f.pc \notin {"search", "absent", "link", "raise"},
         Advance(Fr(t), f, Top(t)), Final, UNCHANGED <<next, ops, stack>>
  PROVE  ShapeInv'
<1>1. OnCourse(f, t, Top(t))
  BY Settled
<1> QED
  BY <1>1, TopShape

\* The operation stays at its node, or returns to help_ops.
LEMMA AtNodeShape ==
  ASSUME IInv, IInv', ShapeInv, NEW t \in Thread,
         \E p \in {"absent", "link", "read", "help", "cycle", "exist", "active",
                   "update"} : At(t, p),
         NEW f, SetFrame(t, f),
         \/ \E r \in BOOLEAN : f = Finished(Fr(t), r)
         \/ /\ f.height = Fr(t).height /\ f.opid = Fr(t).opid
            /\ f.pc \notin {"search", "absent", "link", "raise"},
         Final, UNCHANGED <<next, ops, stack>>
  PROVE  ShapeInv'
<1>1. /\ Busy(t) /\ InOp(Fr(t)) /\ Fr(t) \in Frame /\ Fr(t).height = 0
  BY NoHeight DEF At, InOp, PersistLabels
<1>2. CASE \E r \in BOOLEAN : f = Finished(Fr(t), r)
  <2>1. OnCourse(f, t, Top(t)) /\ Advance(Fr(t), f, Top(t))
    BY <1>1, <1>2, FinishedShape
  <2> QED
    BY <1>1, <2>1, TopShape
<1>3. CASE /\ f.height = Fr(t).height /\ f.opid = Fr(t).opid
           /\ f.pc \notin {"search", "absent", "link", "raise"}
  <2>1. Advance(Fr(t), f, Top(t))
    BY <1>1, <1>3, OpAdvance
  <2> QED
    BY <1>1, <1>3, <2>1, SettledShape
<1> QED
  BY <1>2, <1>3

LEMMA InsertAbsentShape ==
  ASSUME IInv, IInv', ShapeInv, NEW t \in Thread, InsertAbsent(t) PROVE ShapeInv'
<1> DEFINE f == Fr(t)
           on == [f EXCEPT !.pc = "link"]
<1>1. /\ At(t, "absent") /\ f.pc = "absent" /\ Busy(t) /\ f \in Frame /\ InOp(f)
      /\ OnCourse(f, t, Top(t)) /\ UNCHANGED <<next, ops, status, stack>>
  BY InOpFacts, WalkFacts DEF InsertAbsent, At, heap
<1>2. CASE SetFrame(t, on)
  <2>1. /\ on.pc = "link" /\ on.opid = f.opid /\ on.height = f.height
        /\ on.preds = f.preds /\ on.succs = f.succs
    BY <1>1 DEF Frame
  <2> HIDE DEF on
  <2>2. OnCourse(on, t, Top(t))
    BY <1>1, <2>1, FrameNumbers DEF OnCourse, WalkInv, NodeOf, Noted
  <2>3. Advance(f, on, Top(t))
    BY <1>1, <2>1, OpAdvance
  <2> QED
    BY <1>1, <1>2, <2>2, <2>3, TopShape DEF Final
<1>3. CASE SetFrame(t, Finished(f, FALSE))
  BY <1>1, <1>3, AtNodeShape DEF Final
<1> QED
  BY <1>2, <1>3 DEF InsertAbsent

LEMMA ReadNodeDescShape ==
  ASSUME IInv, IInv', ShapeInv, NEW t \in Thread, ReadNodeDesc(t) PROVE ShapeInv'
<1>1. At(t, "read") /\ Fr(t) \in Frame /\ UNCHANGED <<next, ops, status, stack>>
  BY InOpFacts DEF ReadNodeDesc, heap
<1> DEFINE c == nd[Fr(t).x]
           on == [Fr(t) EXCEPT !.pc = IF c.desc = Top(t) THEN "exist" ELSE "help",
                               !.old = c]
<1>2. /\ on.pc \in {"exist", "help"} /\ on.height = Fr(t).height
      /\ on.opid = Fr(t).opid
  BY <1>1 DEF Frame
<1>3. SetFrame(t, on)
  BY DEF ReadNodeDesc
<1> HIDE DEF on
<1> QED
  BY <1>1, <1>2, <1>3, AtNodeShape DEF Final

LEMMA CheckKeyExistShape ==
  ASSUME IInv, IInv', ShapeInv, NEW t \in Thread, CheckKeyExist(t) PROVE ShapeInv'
<1>1. At(t, "exist") /\ Fr(t) \in Frame /\ UNCHANGED <<next, ops, status, stack>>
  BY InOpFacts DEF CheckKeyExist, heap
<1> DEFINE on == [Fr(t) EXCEPT !.pc = "active"]
<1>2. on.pc = "active" /\ on.height = Fr(t).height /\ on.opid = Fr(t).opid
  BY <1>1 DEF Frame
<1>3. PICK f \in {on, Finished(Fr(t), TRUE), Finished(Fr(t), FALSE)} : SetFrame(t, f)
  BY DEF CheckKeyExist
<1> HIDE DEF on
<1> QED
  BY <1>1, <1>2, <1>3, AtNodeShape DEF Final

LEMMA CheckActiveShape ==
  ASSUME IInv, IInv', ShapeInv, NEW t \in Thread, CheckActive(t) PROVE ShapeInv'
<1>1. At(t, "active") /\ Fr(t) \in Frame /\ UNCHANGED <<next, ops, status, stack>>
  BY InOpFacts DEF CheckActive, heap
<1> DEFINE on == [Fr(t) EXCEPT !.pc = "update"]
<1>2. on.pc = "update" /\ on.height = Fr(t).height /\ on.opid = Fr(t).opid
  BY <1>1 DEF Frame
<1>3. PICK f \in {on, Finished(Fr(t), FALSE)} : SetFrame(t, f)
  BY DEF CheckActive
<1> HIDE DEF on
<1> QED
  BY <1>1, <1>2, <1>3, AtNodeShape DEF Final

LEMMA UpdateDescShape ==
  ASSUME IInv, IInv', ShapeInv, NEW t \in Thread, UpdateDesc(t) PROVE ShapeInv'
<1>1. At(t, "update") /\ Fr(t) \in Frame /\ UNCHANGED <<next, ops, status, stack>>
  BY InOpFacts DEF UpdateDesc
<1> DEFINE on == [Fr(t) EXCEPT !.pc = "read", !.old = Null]
<1>2. on.pc = "read" /\ on.height = Fr(t).height /\ on.opid = Fr(t).opid
  BY <1>1 DEF Frame
<1>3. PICK f \in {on, Finished(Fr(t), TRUE)} : SetFrame(t, f)
  BY DEF UpdateDesc
<1> HIDE DEF on
<1> QED
  BY <1>1, <1>2, <1>3, AtNodeShape DEF Final

LEMMA CycleAbortShape ==
  ASSUME IInv, IInv', ShapeInv, NEW t \in Thread, CycleAbort(t) PROVE ShapeInv'
<1>1. /\ At(t, "cycle") /\ Fr(t) \in Frame /\ UNCHANGED <<next, ops, stack>>
      /\ status' = [status EXCEPT ![Fr(t).old.desc] =
                      IF @ = "LIVE" THEN "ABORTED" ELSE @]
  BY InOpFacts DEF CycleAbort, heap
<1>2. Final
  BY <1>1 DEF Final, IInv, TypeOK
<1> DEFINE on == IF Persist THEN [Fr(t) EXCEPT !.pc = "claim", !.back = "exist"]
                 ELSE [Fr(t) EXCEPT !.pc = "exist"]
<1>3. /\ on.pc \in {"claim", "exist"} /\ on.height = Fr(t).height
      /\ on.opid = Fr(t).opid
  BY <1>1 DEF Frame
<1>4. SetFrame(t, on)
  BY DEF CycleAbort
<1> HIDE DEF on
<1> QED
  BY <1>1, <1>2, <1>3, <1>4, AtNodeShape

\* The call of help_ops for a transaction that is not on the stack yet.
LEMMA HelpCallShape ==
  ASSUME IInv, IInv', ShapeInv, NEW t \in Thread, At(t, "help"),
         Fr(t).old.desc # PreDesc, ~Contains(stack[t], Fr(t).old.desc),
         stack' = [stack EXCEPT ![t] = Append(@, Fr(t).old.desc)],
         fr' = [fr EXCEPT ![t] = [@ EXCEPT ![Top(t)].pc = "exist",
                                  ![Fr(t).old.desc] = NewFrame(Fr(t).old.opid + 1)]],
         UNCHANGED <<heap, ops, status, persist>>
  PROVE  ShapeInv'
<1> DEFINE f == Fr(t)
<1>1. /\ TypeOK /\ TypeOK' /\ Busy(t) /\ f \in Frame /\ Top(t) \in Desc
      /\ f.pc = "help" /\ f.back = "return" /\ f.old # Null /\ f.height = 0
      /\ InOp(f)
  BY InOpFacts, WalkFacts DEF IInv, At, FrameInv, HasOld
<1>2. PICK d \in Desc : d = Top(t)
  BY <1>1
<1>3. PICK h \in Frame : h = f
  BY <1>1
<1>4. h.old.desc \in Desc /\ h.old.opid \in 1..MaxOps
  <2>1. h.old \in NodeDesc
    BY <1>1, <1>3 DEF Frame
  <2> QED
    BY <1>3, <2>1 DEF NodeDesc
<1>5. PICK e \in Desc : e = h.old.desc
  BY <1>4
<1>6. PICK i \in Nat : i = h.old.opid + 1
  BY <1>4, ConstantsAssumption
<1>7. i \in 1..(MaxOps + 1) /\ i > 1
  BY <1>4, <1>6, ConstantsAssumption
<1>8. PICK new \in Frame : new = NewFrame(i)
  BY <1>7, NewFrameType
<1>9. [h EXCEPT !.pc = "exist"] \in Frame
  BY DEF Frame, Labels
<1>10. PICK wait \in Frame : wait = [h EXCEPT !.pc = "exist"]
  BY <1>9
<1>11. stack[t] \in Seq(Desc) /\ \A j \in 1..Len(stack[t]) : stack[t][j] # e
  BY <1>1, <1>3, <1>5 DEF Contains, TypeOK
<1>12. d # e
  BY <1>1, <1>2, <1>11, TopInStack
<1>13. SetFrames(t, d, wait, e, new)
  BY <1>1, <1>2, <1>3, <1>5, <1>6, <1>8, <1>10 DEF SetFrames, TypeOK, Fr
<1>14. /\ fr'[t][d] = wait /\ fr'[t][e] = new
       /\ \A x \in Desc : x # d /\ x # e => fr'[t][x] = fr[t][x]
       /\ \A u \in Thread : u # t => fr'[u] = fr[u]
  <2>1. wait \in Frame /\ new \in Frame /\ d \in Desc /\ e \in Desc /\ d # e /\ TypeOK
    BY <1>1, <1>12
  <2>2. /\ fr'[t][d] = wait /\ fr'[t][e] = new
        /\ \A x \in Desc : x # d /\ x # e => fr'[t][x] = fr[t][x]
        /\ \A u \in Thread : u # t => fr'[u] = fr[u]
        /\ fr' \in [Thread -> [Desc -> Frame]]
    BY ONLY <1>13, <2>1, TwoFrames, t \in Thread
  <2> QED
    BY <2>2
<1>15. wait.pc = "exist" /\ wait.opid = h.opid /\ wait.height = h.height
  BY <1>10 DEF Frame
<1>16. new.pc = "loop" /\ new.back = "return" /\ new.height = 0 /\ new.opid = i
  BY <1>8 DEF NewFrame
<1>17. fr[t][e] = NewFrame(1) /\ fr[t][d] = h
  BY <1>2, <1>3, <1>11 DEF ShapeInv, IdleInv, OnStack, Fr
<1>18. ASSUME NEW u \in Thread, NEW x \in Desc
       PROVE  Advance(fr[u][x], fr'[u][x], x)
  <2>1. CASE u = t /\ x = d
    BY <1>1, <1>3, <1>14, <1>15, <1>17, <2>1, OpAdvance
  <2>2. CASE u = t /\ x = e
    <3>1. fr[u][x].opid = 1
      BY <1>17, <2>2 DEF NewFrame
    <3>2. ~InOp(new)
      BY <1>16 DEF InOp, PersistLabels
    <3> QED
      BY <1>7, <1>14, <1>16, <2>2, <3>1, <3>2 DEF Advance
  <2>3. CASE u # t \/ (x # d /\ x # e)
    BY <1>14, <2>3 DEF Advance
  <2> QED
    BY <2>1, <2>2, <2>3
<1>19. Forward /\ next' = next /\ ops' = ops
  BY <1>18 DEF Forward, heap
<1>20. IdleInv'
  <2> SUFFICES ASSUME NEW u \in Thread, NEW x \in Desc, ~OnStack(u, x)'
               PROVE  fr'[u][x] = NewFrame(1)
    BY DEF IdleInv, NewFrame, NoPath
  <2>1. CASE u = t
    <3>1. /\ stack'[t] = Append(stack[t], e) /\ Len(stack[t]) \in Nat
          /\ Len(stack'[t]) = Len(stack[t]) + 1
          /\ \A j \in 1..Len(stack[t]) : stack'[t][j] = stack[t][j]
          /\ stack'[t][Len(stack[t]) + 1] = e
      BY <1>1, <1>3, <1>5, <1>11 DEF TypeOK
    <3>2. ~OnStack(t, x) /\ x # e
      BY <2>1, <3>1 DEF OnStack
    <3>3. x # d
      BY <1>1, <1>2, <3>2, TopInStack DEF OnStack
    <3> QED
      BY <1>14, <2>1, <3>2, <3>3 DEF ShapeInv, IdleInv
  <2>2. CASE u # t
    <3>1. stack'[u] = stack[u]
      BY <1>1, <2>2 DEF TypeOK
    <3> QED
      BY <1>14, <2>2, <3>1 DEF ShapeInv, IdleInv, OnStack
  <2> QED
    BY <2>1, <2>2
<1>21. ASSUME NEW u \in Thread, NEW x \in Desc, fr'[u][x] # fr[u][x]
       PROVE  OnCourse(fr'[u][x], u, x)
  <2>1. fr'[u][x] = wait \/ fr'[u][x] = new
    BY <1>14, <1>21
  <2>2. OnCourse(wait, u, x) /\ OnCourse(new, u, x)
    BY <1>1, <1>3, <1>15, <1>16, Settled
  <2> QED
    BY <2>1, <2>2
<1> QED
  BY <1>19, <1>20, <1>21, PlainShape

LEMMA FinishPendingTxnShape ==
  ASSUME IInv, IInv', ShapeInv, NEW t \in Thread, FinishPendingTxn(t) PROVE ShapeInv'
<1> DEFINE f == Fr(t)
           e == f.old.desc
<1>1. At(t, "help") /\ f \in Frame /\ UNCHANGED <<heap, ops, status, persist>>
  BY InOpFacts DEF FinishPendingTxn
<1>2. ASSUME NEW p \in {"exist", "cycle"}, GoTo(t, p), UNCHANGED stack PROVE ShapeInv'
  <2>1. PICK g : g = [f EXCEPT !.pc = p]
    OBVIOUS
  <2>2. SetFrame(t, g) /\ g.pc = p /\ g.height = f.height /\ g.opid = f.opid
    BY <1>1, <1>2, <2>1 DEF GoTo, Frame
  <2> QED
    BY <1>1, <1>2, <2>2, AtNodeShape DEF Final, heap
<1>3. CASE /\ e # PreDesc /\ ~Contains(stack[t], e)
           /\ stack' = [stack EXCEPT ![t] = Append(@, e)]
           /\ fr' = [fr EXCEPT ![t] = [@ EXCEPT ![Top(t)].pc = "exist",
                                               ![e] = NewFrame(f.old.opid + 1)]]
  BY <1>1, <1>3, HelpCallShape
<1> QED
  BY <1>2, <1>3 DEF FinishPendingTxn

\* help_ops returns: its frame is idle again, and no node of it is to come.
LEMMA ReturnShape ==
  ASSUME IInv, IInv', ShapeInv, NEW t \in Thread, Busy(t), Return(t),
         status'[Top(t)] # "LIVE", Final, UNCHANGED <<next, ops>>
  PROVE  ShapeInv'
<1>1. TypeOK
  BY DEF IInv
<1>2. PICK d \in Desc : d = Top(t)
  BY <1>1, TopInStack
<1>3. PICK g : g = NewFrame(1)
  OBVIOUS
<1>4. SetFrame(t, g) /\ stack' = [stack EXCEPT ![t] = Front(@)]
  BY <1>3 DEF Return
<1>5. g.pc = "loop" /\ g.height = 0 /\ ~InOp(g)
  BY <1>3 DEF NewFrame, InOp, PersistLabels
<1>6. Advance(Fr(t), g, Top(t))
  BY <1>5 DEF Advance
<1>7. /\ Forward
      /\ fr'[t][d] = g
      /\ \A u \in Thread, x \in Desc : u # t \/ x # d => fr'[u][x] = fr[u][x]
  BY <1>1, <1>2, <1>4, <1>6, ForwardStep
<1>8. IdleInv'
  <2> SUFFICES ASSUME NEW u \in Thread, NEW x \in Desc, ~OnStack(u, x)'
               PROVE  fr'[u][x] = NewFrame(1)
    BY DEF IdleInv, NewFrame, NoPath
  <2>1. CASE u = t /\ x = d
    BY <1>3, <1>7, <2>1
  <2>2. CASE u = t /\ x # d
    <3>1. ~OnStack(t, x)
      <4>1. stack[t] \in Seq(Desc) /\ stack[t] # <<>>
        BY <1>1 DEF TypeOK, Busy
      <4>2. /\ Len(stack'[t]) = Len(stack[t]) - 1
            /\ \A i \in 1..(Len(stack[t]) - 1) : stack'[t][i] = stack[t][i]
        <5>1. stack'[t] = SubSeq(stack[t], 1, Len(stack[t]) - 1)
          BY <1>1, <1>4 DEF TypeOK, Front
        <5>2. Len(stack[t]) \in Nat \ {0}
          BY <4>1
        <5> QED
          BY <4>1, <5>1, <5>2
      <4>3. d = stack[t][Len(stack[t])]
        BY <1>1, <1>2, TopInStack
      <4> QED
        BY <2>2, <4>1, <4>2, <4>3 DEF OnStack
    <3> QED
      BY <1>7, <2>2, <3>1 DEF ShapeInv, IdleInv
  <2>3. CASE u # t
    <3>1. stack'[u] = stack[u]
      BY <1>1, <1>4, <2>3 DEF TypeOK
    <3> QED
      BY <1>7, <2>3, <3>1 DEF ShapeInv, IdleInv, OnStack
  <2> QED
    BY <2>1, <2>2, <2>3
<1>9. ASSUME NEW u \in Thread, NEW x \in Desc, fr'[u][x] # fr[u][x]
      PROVE  OnCourse(fr'[u][x], u, x)
  BY <1>5, <1>7, <1>9, Settled
<1> QED
  BY <1>7, <1>8, <1>9, PlainShape

LEMMA DecideTxnShape ==
  ASSUME IInv, IInv', ShapeInv, NEW t \in Thread, DecideTxn(t) PROVE ShapeInv'
<1> DEFINE f == Fr(t)
           d == Top(t)
<1>1. /\ Busy(t) /\ f.pc = "decide" /\ f \in Frame /\ d \in Desc /\ f.height = 0
      /\ UNCHANGED <<next, ops>>
  BY NoHeight DEF DecideTxn, At, heap
<1>2. /\ f.back = "return" /\ d \in AllDesc
  BY <1>1, Running DEF Good, FrameInv, Frame, PersistLabels, AllDesc
<1>3. CASE status[d] # "LIVE"
  <2>1. Return(t) /\ UNCHANGED status
    BY <1>3 DEF DecideTxn
  <2> QED
    BY <1>1, <1>3, <2>1, ReturnShape DEF Final
<1>4. CASE status[d] = "LIVE"
  <2>1. status' = [status EXCEPT ![d] = Verdict(f)] /\ Verdict(f) # "LIVE"
    BY <1>4 DEF DecideTxn, Verdict
  <2>2. Final /\ status'[d] # "LIVE"
    BY <1>2, <2>1 DEF Final, IInv, TypeOK
  <2>3. CASE Return(t)
    BY <1>1, <2>2, <2>3, ReturnShape
  <2>4. CASE GoTo(t, "claim") /\ UNCHANGED stack
    <3>1. PICK g : g = [f EXCEPT !.pc = "claim"]
      OBVIOUS
    <3>2. /\ SetFrame(t, g) /\ g.pc = "claim" /\ g.height = 0 /\ g.opid = f.opid
          /\ g.back = "return"
      BY <1>1, <1>2, <2>4, <3>1 DEF GoTo, Frame
    <3>3. Advance(f, g, d)
      BY <1>1, <3>2 DEF Advance, InOp, PersistLabels
    <3> QED
      BY <1>1, <2>2, <2>4, <3>2, <3>3, SettledShape
  <2> QED
    BY <1>4, <2>3, <2>4 DEF DecideTxn
<1> QED
  BY <1>3, <1>4

\* persistDesc goes on, or gives the operation back that called it.
LEMMA PersistShape ==
  ASSUME IInv, IInv', ShapeInv, NEW t \in Thread, \E p \in PersistLabels : At(t, p),
         NEW f, SetFrame(t, f), f.height = Fr(t).height, f.opid = Fr(t).opid,
         f.pc \in PersistLabels \union {"exist"},
         f.back = Fr(t).back \/ Fr(t).back = "exist",
         f.pc = "exist" => Fr(t).back = "exist",
         UNCHANGED <<next, ops, status, stack>>
  PROVE  ShapeInv'
<1>1. Busy(t) /\ Fr(t).pc \in PersistLabels
  BY DEF At
<1>2. Fr(t) \in Frame /\ Fr(t).height = 0
  BY <1>1, NoHeight DEF PersistLabels
<1>3. InOp(f) => InOp(Fr(t))
  BY DEF InOp
<1>4. Advance(Fr(t), f, Top(t))
  BY <1>2, <1>3 DEF Advance
<1> QED
  BY <1>1, <1>2, <1>4, SettledShape DEF PersistLabels, Final

LEMMA EndPersistShape ==
  ASSUME IInv, IInv', ShapeInv, NEW t \in Thread, \E p \in PersistLabels : At(t, p),
         EndPersist(t), UNCHANGED <<heap, ops, status>>
  PROVE  ShapeInv'
<1> DEFINE f == Fr(t)
           out == [f EXCEPT !.pc = "exist", !.back = "return"]
<1>1. /\ f \in Frame /\ Busy(t)
      /\ f.back # "exist" => f.back = "return" /\ status[Top(t)] # "LIVE"
  BY PersistFacts
<1>2. CASE f.back = "return"
  BY <1>1, <1>2, ReturnShape DEF EndPersist, Final, heap
<1>3. CASE f.back = "exist"
  <2>1. out.pc = "exist" /\ out.height = f.height /\ out.opid = f.opid
    BY <1>1 DEF Frame
  <2>2. SetFrame(t, out) /\ UNCHANGED stack
    BY <1>3 DEF EndPersist
  <2> HIDE DEF out
  <2> QED
    BY <1>3, <2>1, <2>2, PersistShape DEF heap
<1> QED
  BY <1>1, <1>2, <1>3

LEMMA PersistClaimShape ==
  ASSUME IInv, IInv', ShapeInv, NEW t \in Thread, PersistClaim(t) PROVE ShapeInv'
<1> DEFINE f == Fr(t)
           on == [f EXCEPT !.pc = "ticket"]
<1>1. /\ \E p \in PersistLabels : At(t, p)
      /\ UNCHANGED <<heap, ops, status>>
  BY DEF PersistClaim, PersistLabels
<1>2. f \in Frame
  BY <1>1, PersistFacts
<1>3. CASE EndPersist(t)
  BY <1>1, <1>3, EndPersistShape
<1>4. CASE SetFrame(t, on) /\ UNCHANGED stack
  <2>1. on.pc = "ticket" /\ on.height = f.height /\ on.opid = f.opid /\ on.back = f.back
    BY <1>2 DEF Frame
  <2> HIDE DEF on
  <2> QED
    BY <1>1, <1>4, <2>1, PersistShape DEF heap, PersistLabels
<1> QED
  BY <1>3, <1>4 DEF PersistClaim, GoTo

LEMMA PersistTicketShape ==
  ASSUME IInv, IInv', ShapeInv, NEW t \in Thread, PersistTicket(t) PROVE ShapeInv'
<1> DEFINE f == Fr(t)
           on == [f EXCEPT !.pc = "store", !.tkt = lastTxId]
<1>1. /\ \E p \in PersistLabels : At(t, p)
      /\ UNCHANGED <<heap, ops, status, stack>> /\ SetFrame(t, on)
  BY DEF PersistTicket, PersistLabels
<1>2. f \in Frame
  BY <1>1, PersistFacts
<1>3. on.pc = "store" /\ on.height = f.height /\ on.opid = f.opid /\ on.back = f.back
  BY <1>2 DEF Frame
<1> HIDE DEF on
<1> QED
  BY <1>1, <1>3, PersistShape DEF heap, PersistLabels

LEMMA PersistStoreShape ==
  ASSUME IInv, IInv', ShapeInv, NEW t \in Thread, PersistStore(t) PROVE ShapeInv'
<1> DEFINE f == Fr(t)
           on == [f EXCEPT !.pc = "persisted", !.tkt = 0]
<1>1. /\ \E p \in PersistLabels : At(t, p)
      /\ UNCHANGED <<heap, ops, status, stack>> /\ SetFrame(t, on)
  BY DEF PersistStore, PersistLabels
<1>2. f \in Frame
  BY <1>1, PersistFacts
<1>3. on.pc = "persisted" /\ on.height = f.height /\ on.opid = f.opid /\ on.back = f.back
  BY <1>2 DEF Frame
<1> HIDE DEF on
<1> QED
  BY <1>1, <1>3, PersistShape DEF heap, PersistLabels

LEMMA PersistDoneShape ==
  ASSUME IInv, IInv', ShapeInv, NEW t \in Thread, PersistDone(t) PROVE ShapeInv'
BY EndPersistShape DEF PersistDone, PersistLabels

\* A transaction that has been allocated is not run by any thread yet.
LEMMA ExecuteOpsShape ==
  ASSUME IInv, IInv', ShapeInv, NEW t \in Thread, execute_ops(t) PROVE ShapeInv'
<1>1. TypeOK
  BY DEF IInv
<1>2. PICK d \in Desc, o \in OpArrays :
        /\ ops[d] = <<>>
        /\ ops' = [ops EXCEPT ![d] = o]
        /\ stack' = [stack EXCEPT ![t] = <<d>>]
  BY DEF execute_ops
<1>3. stack[t] = <<>> /\ UNCHANGED <<next, status, fr>>
  BY DEF execute_ops, heap, Busy
<1>4. \A e \in Desc : ops[e] # <<>> => ops'[e] = ops[e]
  BY <1>1, <1>2 DEF TypeOK
<1>5. Forward
  BY <1>3, <1>4 DEF Forward, Advance
<1>6. IdleInv'
  <2> SUFFICES ASSUME NEW u \in Thread, NEW x \in Desc, ~OnStack(u, x)'
               PROVE  fr'[u][x] = NewFrame(1)
    BY DEF IdleInv, NewFrame, NoPath
  <2>1. ~OnStack(u, x)
    <3>1. CASE u = t
      BY <1>3, <3>1 DEF OnStack
    <3>2. CASE u # t
      BY <1>1, <1>2, <3>2 DEF OnStack, TypeOK
    <3> QED
      BY <3>1, <3>2
  <2> QED
    BY <1>3, <2>1 DEF ShapeInv, IdleInv
<1> QED
  BY <1>3, <1>5, <1>6, PlainShape

-----------------------------------------------------------------------------
(* A node enters a level.                                                  *)

\* What LinkAt writes.
LEMMA LinkWrites ==
  ASSUME TypeOK, NEW f \in Frame, NEW i \in Level, NEW n \in Node, NEW top,
         LinkAt(i, n, f, top), NEW j \in Level, NEW m \in Node
  PROVE  next'[j][m] = IF j = i /\ m = f.preds[i] THEN n
                       ELSE IF j \in i..top /\ m = n THEN f.succs[j]
                       ELSE next[j][m]
<1>1. f.succs \in [Level -> Node] /\ f.preds \in [Level -> Node]
  BY DEF Frame
<1>2. next[j] \in [Node -> Node]
  BY DEF TypeOK
<1> DEFINE own == IF j \in i..top THEN [next[j] EXCEPT ![n] = f.succs[j]] ELSE next[j]
<1>3. own \in [Node -> Node]
  BY <1>1, <1>2
<1>4. own[m] = IF j \in i..top /\ m = n THEN f.succs[j] ELSE next[j][m]
  BY <1>1, <1>2
<1>5. next'[j] = IF j = i THEN [own EXCEPT ![f.preds[i]] = n] ELSE own
  BY DEF LinkAt
<1> HIDE DEF own
<1> QED
  BY <1>1, <1>3, <1>4, <1>5

\* Node n can be linked on level i, and its pointers up to top be written.
Fits(f, i, n, top) ==
  /\ next[i][f.preds[i]] = f.succs[i]
  /\ \A j \in Level : Noted(f, j, KeyOf(n)) /\ (n \in On(j) <=> j < i)
  /\ \A j \in Level : j \in i..top => KeyOf(n) < KeyOf(f.succs[j])

LEMMA LinkLevels ==
  ASSUME TypeOK, TypeOK', LinkInv, Nested, Forward, NEW f \in Frame,
         NEW i \in Level, NEW n \in NodeDesc, NEW top \in Nat, i <= top,
         LinkAt(i, n, f, top), Fits(f, i, n, top), Ready(n)', KeyOf(n)' = KeyOf(n)
  PROVE  LinkInv' /\ Nested' /\ Gains(n) /\ \A j \in Level : n \in On(j)' <=> j <= i
<1>1. PICK p : p = f.preds[i]
  OBVIOUS
<1>2. PICK s : s = f.succs
  OBVIOUS
<1>3. PICK k : k = KeyOf(n)
  OBVIOUS
<1>4. /\ p \in On(i) /\ KeyOf(p) < k /\ Ready(p) /\ p \in Node
      /\ next[i][p] = s[i] /\ k = KeyOf(n)'
  BY <1>1, <1>2, <1>3, OnNext DEF Fits, Noted
<1>5. ASSUME NEW j \in Level
      PROVE  Ready(s[j]) /\ s[j] \in Node /\ (j \in i..top => k < KeyOf(s[j]))
  <2>1. s[j] \in On(j) \union {tail}
    BY <1>2 DEF Fits, Noted
  <2> QED
    BY <1>2, <1>3, <2>1, OnNext, SentinelKeys, ReadyKey DEF Fits
<1>6. n \in Node /\ n # tail /\ i \in Nat /\ i \in i..top
  BY NodeDescFacts, ConstantsAssumption DEF Level
<1>7. \A j \in Level, m \in Node :
        next'[j][m] = IF j = i /\ m = p THEN n
                      ELSE IF j \in i..top /\ m = n THEN s[j] ELSE next[j][m]
  BY <1>1, <1>2, <1>6, LinkWrites
<1>8. \A m \in Node : Ready(m) => Ready(m)' /\ KeyOf(m)' = KeyOf(m)
  BY ReadyStable
<1>9. n # p
  <2>1. n \notin On(i)
    BY <1>6 DEF Fits
  <2> QED
    BY <1>4, <2>1
<1>10. LinkInv'
  <2>1. ASSUME NEW j \in Level, NEW m \in Node, NEW y, y = next'[j][m]
        PROVE  Ready(y)' /\ (y # tail => Ready(m)' /\ KeyOf(m)' < KeyOf(y)')
    <3>1. CASE j = i /\ m = p
      <4>1. y = n
        BY <1>7, <2>1, <3>1
      <4> QED
        BY <1>4, <1>8, <3>1, <4>1
    <3>2. CASE ~(j = i /\ m = p) /\ j \in i..top /\ m = n
      <4>1. y = s[j]
        BY <1>7, <2>1, <3>2
      <4>2. Ready(y)' /\ KeyOf(y)' = KeyOf(y) /\ k < KeyOf(y)
        BY <1>5, <1>8, <3>2, <4>1
      <4> QED
        BY <1>4, <3>2, <4>2
    <3>3. CASE ~(j = i /\ m = p) /\ ~(j \in i..top /\ m = n)
      <4>1. y = next[j][m]
        BY <1>7, <2>1, <3>3
      <4>2. y \in Node /\ Ready(y) /\ (y # tail => Ready(m) /\ KeyOf(m) < KeyOf(y))
        BY <4>1 DEF LinkInv, TypeOK
      <4> QED
        BY <1>8, <4>2
    <3> QED
      BY <3>1, <3>2, <3>3
  <2> QED
    BY <2>1 DEF LinkInv
<1>11. ASSUME NEW j \in Level, j # i PROVE On(j)' = On(j)
  <2>1. ASSUME NEW x \in On(j) PROVE next'[j][x] = next[j][x]
    <3>1. x \in Node
      BY OnNext
    <3>2. ~(j \in i..top /\ x = n)
      BY <1>6 DEF Fits
    <3> QED
      BY <1>7, <1>11, <3>1, <3>2
  <2> QED
    BY <1>10, <2>1, OnSame
<1>12. On(i)' = On(i) \union {n}
  <2>1. n \notin On(i)
    BY <1>6 DEF Fits
  <2>2. Enters(next[i], next'[i], On(i), p, n)
    <3>1. next'[i][p] = n
      BY <1>4, <1>7
    <3>2. next'[i][n] = next[i][p]
      BY <1>4, <1>6, <1>7, <1>9
    <3>3. ASSUME NEW x \in On(i), x # p PROVE next'[i][x] = next[i][x]
      <4>1. x \in Node /\ x # n
        BY <2>1, OnNext
      <4> QED
        BY <1>7, <3>3, <4>1
    <3> QED
      BY <3>1, <3>2, <3>3 DEF Enters
  <2> QED
    BY <1>4, <1>10, <2>1, <2>2, OnGrows
<1>13. \A j \in Level : n \in On(j) <=> j < i
  BY DEF Fits
<1>14. \A j \in Level : j \in Nat
  BY DEF Level
<1>15. Nested'
  <2> SUFFICES ASSUME NEW a \in Level, NEW b \in Level, b <= a
               PROVE  On(a)' \subseteq On(b)'
    BY DEF Nested
  <2>1. On(a) \subseteq On(b)
    BY DEF Nested
  <2>2. CASE a # i
    BY <1>11, <1>12, <2>1, <2>2
  <2>3. CASE a = i /\ b # i
    <3>1. b < i
      BY <1>6, <1>14, <2>3
    <3> QED
      BY <1>11, <1>12, <1>13, <2>1, <2>3, <3>1
  <2>4. CASE a = i /\ b = i
    BY <2>4
  <2> QED
    BY <2>2, <2>3, <2>4
<1>16. Gains(n)
  BY <1>11, <1>12 DEF Gains
<1>17. ASSUME NEW j \in Level PROVE n \in On(j)' <=> j <= i
  <2>1. CASE j = i
    BY <1>6, <1>12, <2>1
  <2>2. CASE j # i
    BY <1>6, <1>11, <1>13, <1>14, <2>2
  <2> QED
    BY <2>1, <2>2
<1> QED
  BY <1>10, <1>15, <1>16, <1>17

LEMMA MineKey ==
  ASSUME NEW t, NEW n \in NodeDesc, n = Mine(t), Top(t) \in Desc
  PROVE  KeyOf(n) = Op(t).key /\ (ops' = ops => KeyOf(n)' = KeyOf(n))
<1>1. n.desc = Top(t) /\ n.opid = Fr(t).opid /\ n.desc # PreDesc
  BY ConstantsAssumption DEF Mine
<1> QED
  BY <1>1, NodeDescFacts DEF KeyOf, Op

\* Thread t links its node on level i.
LEMMA LinkShape ==
  ASSUME IInv, IInv', ShapeInv, NEW t \in Thread,
         At(t, "link") \/ At(t, "raise"), Op(t).type = "INSERT",
         NEW i \in Level, NEW top \in Nat, i <= top,
         LinkAt(i, Mine(t), Fr(t), top), Fits(Fr(t), i, Mine(t), top),
         NEW g, SetFrame(t, g),
         \/ g = Finished(Fr(t), TRUE)
         \/ /\ g.pc = "raise" /\ g.opid = Fr(t).opid /\ g.height > 0
            /\ g.rise = i + 1 /\ g.preds = Fr(t).preds /\ g.succs = Fr(t).succs,
         UNCHANGED <<ops, status, stack>>
  PROVE  ShapeInv' /\ \E n \in NodeDesc : Gains(n)
<1>1. /\ TypeOK /\ TypeOK' /\ LinkInv /\ Nested /\ IdleInv
      /\ Busy(t) /\ Top(t) \in Desc /\ Fr(t) \in Frame /\ Mine(t) \in NodeDesc
      /\ Op(t) \in Operator /\ InOp(Fr(t)) /\ Fr(t).opid <= Len(ops[Top(t)])
      /\ Fr(t).opid \in Nat
  BY InOpFacts, WalkFacts DEF IInv, ShapeInv
<1>2. PICK f \in Frame, d \in Desc : f = Fr(t) /\ d = Top(t)
  BY <1>1
<1>3. PICK n \in NodeDesc : n = Mine(t)
  BY <1>1
<1>4. n.by = t /\ n.desc = d /\ n.opid = f.opid /\ n = NodeOf(t, d, f)
  BY <1>2, <1>3 DEF Mine, NodeOf
<1>5. /\ g.opid > f.opid \/ (g.opid = f.opid /\ g.height > 0)
      /\ Advance(f, g, d)
  BY <1>1, <1>2, OpAdvance, FinishedShape DEF Finished, NewFrame
<1>6. /\ Forward
      /\ fr'[t][d] = g
      /\ \A u \in Thread, x \in Desc : u # t \/ x # d => fr'[u][x] = fr[u][x]
  <2>1. Final
    BY DEF Final
  <2> QED
    BY <1>1, <1>2, <1>5, <2>1, ForwardStep
<1>7. IdleInv'
  BY <1>1, <1>2, <1>6, IdleStep
<1>8. g \in Frame /\ g.opid \in Nat /\ g.height \in Nat
  <2>1. g \in Frame
    BY <1>1, <1>6 DEF TypeOK
  <2> QED
    BY <2>1, FrameNumbers
<1>9. KeyOf(n) = Op(t).key /\ KeyOf(n)' = KeyOf(n)
  BY <1>1, <1>3, MineKey
<1>10. Ready(n)'
  <2>1. ~Unborn(n)'
    <3>1. Unborn(n)' => g.opid < n.opid \/ (n.opid = g.opid /\ g.height = 0)
      BY <1>4, <1>6 DEF Unborn
    <3> QED
      BY <1>1, <1>2, <1>4, <1>5, <1>8, <3>1
  <2>2. n.opid <= Len(ops'[n.desc])
    BY <1>1, <1>2, <1>4
  <2> QED
    BY <2>1, <2>2 DEF Ready, Unborn, InOp
<1>11. LinkAt(i, n, f, top) /\ Fits(f, i, n, top)
  BY <1>2, <1>3
<1>12. LinkInv' /\ Nested' /\ Gains(n) /\ \A j \in Level : n \in On(j)' <=> j <= i
  BY <1>1, <1>6, <1>9, <1>10, <1>11, LinkLevels
<1>13. OnCourse(g, t, d)'
  <2>1. CASE g = Finished(Fr(t), TRUE)
    BY <1>1, <2>1, FinishedShape
  <2>2. CASE /\ g.pc = "raise" /\ g.opid = f.opid /\ g.height > 0
             /\ g.rise = i + 1 /\ g.preds = f.preds /\ g.succs = f.succs
    <3>1. PICK op : op = ops[d][f.opid]
      OBVIOUS
    <3>2. op = Op(t) /\ op.type = "INSERT" /\ KeyOf(n) = op.key
      BY <1>2, <1>9, <3>1 DEF Op
    <3>3. \A j \in Level : Noted(f, j, op.key)'
      <4> SUFFICES ASSUME NEW j \in Level PROVE Noted(f, j, op.key)'
        OBVIOUS
      <4>1. Noted(f, j, op.key)
        BY <1>11, <3>2 DEF Fits
      <4> QED
        BY <1>1, <1>6, <1>12, <4>1, NotedStable
    <3>4. \A j \in Level : Noted(g, j, op.key)'
      BY <2>2, <3>3 DEF Noted
    <3>5. \A j \in Level : n \in On(j)' <=> j < g.rise
      BY <1>12, <2>2 DEF Level
    <3>6. WalkInv(g, n, op)'
      BY <2>2, <3>2, <3>4, <3>5 DEF WalkInv
    <3>7. op = ops'[d][g.opid] /\ n = NodeOf(t, d, g)
      BY <1>4, <2>2, <3>1 DEF NodeOf
    <3> QED
      BY <3>6, <3>7 DEF OnCourse, NodeOf
  <2> QED
    BY <1>2, <2>1, <2>2
<1>14. ASSUME NEW u \in Thread, NEW x \in Desc
       PROVE  OnCourse(fr[u][x], u, x)'
  <2>1. CASE u = t /\ x = d
    BY <1>6, <1>13, <2>1 DEF OnCourse, NodeOf, WalkInv
  <2>2. CASE u # t \/ x # d
    <3>1. PICK h \in Frame : h = fr[u][x]
      BY <1>1 DEF TypeOK
    <3>2. OnCourse(h, u, x) /\ NodeOf(u, x, h) # n
      BY <1>4, <2>2, <3>1 DEF ShapeInv, WalksInv, NodeOf
    <3>3. OnCourse(h, u, x)'
      BY <1>1, <1>6, <1>12, <3>2, CourseStable
    <3>4. h = fr'[u][x]
      BY <1>6, <2>2, <3>1
    <3> QED
      BY <3>3, <3>4 DEF OnCourse, NodeOf, WalkInv
  <2> QED
    BY <2>1, <2>2
<1> QED
  BY <1>7, <1>12, <1>14 DEF ShapeInv, WalksInv

LEMMA InsertLinkShape ==
  ASSUME IInv, IInv', ShapeInv, NEW t \in Thread, InsertLink(t)
  PROVE  ShapeInv' /\ (next' = next \/ \E n \in NodeDesc : Gains(n))
<1> DEFINE f == Fr(t)
           n == Mine(t)
<1>1. /\ At(t, "link") /\ f.pc = "link" /\ Busy(t) /\ f \in Frame /\ InOp(f)
      /\ n \in NodeDesc /\ Top(t) \in Desc /\ f.opid <= Len(ops[Top(t)])
      /\ Op(t) \in Operator /\ f.height = 0
      /\ WalkInv(f, n, Op(t)) /\ UNCHANGED <<ops, status, stack>>
  BY InOpFacts, WalkFacts DEF InsertLink, At
<1>2. CASE SetFrame(t, Searching(f)) /\ UNCHANGED next
  <2>1. Op(t) = ops[Top(t)][f.opid] /\ ~(f.height > 0)
    BY <1>1 DEF Op
  <2>2. OnCourse(Searching(f), t, Top(t))
    BY <1>1, <2>1, SearchingShape
  <2>3. Searching(f).opid = f.opid
    BY <1>1 DEF Searching, Frame
  <2>4. Advance(f, Searching(f), Top(t))
    BY <1>1, <2>1, <2>3, OpAdvance
  <2> QED
    BY <1>1, <1>2, <2>2, <2>4, TopShape DEF Final
<1>3. ASSUME NEW h \in 1..NumLevels, LinkAt(0, n, f, h - 1),
             CanLink(f.preds[0], 0, f.succs[0]),
             SetFrame(t, IF h = 1 THEN Finished(f, TRUE)
                         ELSE [f EXCEPT !.pc = "raise", !.height = h, !.rise = 1])
      PROVE  ShapeInv' /\ \E m \in NodeDesc : Gains(m)
  <2> DEFINE up == [f EXCEPT !.pc = "raise", !.height = h, !.rise = 1]
             g == IF h = 1 THEN Finished(f, TRUE) ELSE up
  <2>1. TypeOK /\ LinkInv /\ 0 \in Level /\ h - 1 \in Nat /\ 0 <= h - 1 /\ h > 0
    BY Levels DEF IInv, ShapeInv
  <2>2. /\ Op(t).type = "INSERT" /\ KeyOf(n) = Op(t).key
        /\ \A j \in Level : Noted(f, j, KeyOf(n)) /\ KeyOf(n) < KeyOf(f.succs[j])
    BY <1>1, MineKey DEF WalkInv
  <2>3. \A j \in Level : n \notin On(j)
    <3>1. ~Ready(n)
      <4>1. n.by = t /\ n.desc = Top(t) /\ n.opid = f.opid /\ n.desc # PreDesc
        BY <1>1, ConstantsAssumption DEF Mine
      <4>2. Unborn(n)
        BY <1>1, <4>1 DEF Unborn, Fr
      <4> QED
        BY <1>1, <4>1, <4>2, NodeDescFacts DEF Ready
    <3> QED
      BY <2>1, <3>1, OnNext
  <2>4. Fits(f, 0, n, h - 1)
    <3>1. \A j \in Level : ~(j < 0)
      BY DEF Level
    <3> QED
      BY <1>3, <2>2, <2>3, <3>1 DEF Fits, CanLink
  <2>5. /\ up.pc = "raise" /\ up.opid = f.opid /\ up.height > 0 /\ up.rise = 0 + 1
        /\ up.preds = f.preds /\ up.succs = f.succs
    BY <1>1, <2>1 DEF Frame
  <2>6. SetFrame(t, g) /\ (g = Finished(f, TRUE) \/ g = up)
    BY <1>3
  <2> HIDE DEF g, up
  <2> QED
    BY <1>1, <1>3, <2>1, <2>2, <2>4, <2>5, <2>6, LinkShape
<1> QED
  BY <1>2, <1>3 DEF InsertLink

LEMMA RaiseNodeShape ==
  ASSUME IInv, IInv', ShapeInv, NEW t \in Thread, RaiseNode(t)
  PROVE  ShapeInv' /\ (next' = next \/ \E n \in NodeDesc : Gains(n))
<1> DEFINE f == Fr(t)
           n == Mine(t)
           i == f.rise
<1>1. /\ At(t, "raise") /\ f.pc = "raise" /\ Busy(t) /\ f \in Frame /\ InOp(f)
      /\ n \in NodeDesc /\ Top(t) \in Desc /\ Op(t) \in Operator
      /\ f.height > 0 /\ i \in Level /\ i \in Nat
      /\ WalkInv(f, n, Op(t)) /\ UNCHANGED <<ops, status, stack>>
  BY InOpFacts, WalkFacts, FrameNumbers DEF RaiseNode, At, FrameInv, Frame
<1>2. /\ Op(t).type = "INSERT" /\ KeyOf(n) = Op(t).key
      /\ \A j \in Level : Noted(f, j, KeyOf(n)) /\ (n \in On(j) <=> j < i)
  BY <1>1, MineKey DEF WalkInv
<1>3. CASE SetFrame(t, Searching(f)) /\ UNCHANGED next
  <2>1. Op(t) = ops[Top(t)][f.opid] /\ n = NodeOf(t, Top(t), f)
    BY DEF Op, Mine, NodeOf
  <2>2. OnCourse(Searching(f), t, Top(t))
    BY <1>1, <1>2, <2>1, SearchingShape
  <2>3. Searching(f).opid = f.opid /\ Searching(f).height = f.height
    BY <1>1 DEF Searching, Frame
  <2>4. Advance(f, Searching(f), Top(t))
    BY <1>1, <2>3, OpAdvance
  <2> QED
    BY <1>1, <1>3, <2>2, <2>4, TopShape DEF Final
<1>4. CASE /\ KeyOf(f.succs[i]) # Op(t).key /\ CanLink(f.preds[i], i, f.succs[i])
           /\ LinkAt(i, n, f, i)
           /\ SetFrame(t, IF i + 1 < f.height THEN [f EXCEPT !.rise = i + 1]
                          ELSE Finished(f, TRUE))
  <2> DEFINE up == [f EXCEPT !.rise = i + 1]
             g == IF i + 1 < f.height THEN up ELSE Finished(f, TRUE)
  <2>1. TypeOK /\ LinkInv
    BY DEF IInv, ShapeInv
  <2>2. KeyOf(n) < KeyOf(f.succs[i])
    <3>1. f.succs[i] \in On(i) \union {tail} /\ KeyOf(n) <= KeyOf(f.succs[i])
      BY <1>1, <1>2 DEF Noted
    <3>2. KeyOf(f.succs[i]) \in Int
      BY <1>1, <2>1, <3>1, OnNext, SentinelKeys, ReadyKey
    <3>3. KeyOf(n) \in Nat /\ KeyOf(f.succs[i]) # KeyOf(n)
      BY <1>1, <1>2, <1>4, HeadKey
    <3> QED
      BY <3>1, <3>2, <3>3
  <2>3. \A j \in Level : j \in i..i => j = i
    BY <1>1 DEF Level
  <2>4. Fits(f, i, n, i)
    BY <1>2, <1>4, <2>2, <2>3 DEF Fits, CanLink
  <2>5. /\ up.pc = "raise" /\ up.opid = f.opid /\ up.height > 0 /\ up.rise = i + 1
        /\ up.preds = f.preds /\ up.succs = f.succs
    BY <1>1 DEF Frame
  <2>6. SetFrame(t, g) /\ (g = Finished(f, TRUE) \/ g = up)
    BY <1>4
  <2>7. i <= i
    BY <1>1
  <2> HIDE DEF g, up
  <2> QED
    BY <1>1, <1>2, <1>4, <2>4, <2>5, <2>6, <2>7, LinkShape
<1> QED
  BY <1>3, <1>4 DEF RaiseNode

-----------------------------------------------------------------------------
(* The prefilled skiplist.                                                 *)

PreNode(k) == [by |-> Main, desc |-> PreDesc, opid |-> k]

\* The keys and the nodes that the prefill puts on level i.
PreKeys(S, height, i) == {k \in S : height[k] > i}
Filled(S, height, i) == {head} \union {PreNode(k) : k \in PreKeys(S, height, i)}

LEMMA PreNodeFacts ==
  ASSUME NEW k \in Key
  PROVE  /\ PreNode(k) \in NodeDesc /\ PreNode(k) \in Node
         /\ PreNode(k) # head /\ PreNode(k) # tail
         /\ KeyOf(PreNode(k)) = k /\ Ready(PreNode(k))
         /\ PreNode(k).opid = k /\ PreNode(k).desc = PreDesc
<1>1. PreNode(k) \in NodeDesc /\ PreNode(k).opid = k /\ PreNode(k).desc = PreDesc
  BY DEF PreNode, NodeDesc
<1> QED
  BY <1>1, NodeDescFacts DEF KeyOf, Ready

\* y is behind a node with key k: the next key of the level, or the end.
Behind(K, k, y) ==
  \/ y = tail /\ \A j \in K : ~(j > k)
  \/ \E j \in K : y = PreNode(j) /\ j > k /\ \A m \in K : m > k => j <= m

LEMMA LinkedNext ==
  ASSUME NEW S \in Prefills, NEW height, NEW i \in Level, NEW n \in Node
  PROVE  LET y == Linked(S, height)[i][n]
         IN  IF n \in Filled(S, height, i)
             THEN Behind(PreKeys(S, height, i), KeyOf(n), y) ELSE y = tail
<1> DEFINE on == PreKeys(S, height, i)
           IsNext(k, j) == j > k /\ \A m \in on : m > k => j <= m
           after(k) == IF \E j \in on : IsNext(k, j)
                       THEN PreNode(CHOOSE j \in on : IsNext(k, j)) ELSE tail
           y == Linked(S, height)[i][n]
<1>1. y = IF n = head THEN after(0)
          ELSE IF n \in NodeDesc /\ n.desc = PreDesc /\ n.opid \in on
          THEN after(n.opid) ELSE tail
  BY DEF Linked, PreNode, PreKeys
<1>2. \A k \in on : k \in Key /\ k \in Nat
  BY ConstantsAssumption DEF PreKeys, Key
<1>3. ASSUME NEW k \in Nat PROVE Behind(on, k, after(k))
  <2>1. CASE \E j \in on : IsNext(k, j)
    <3>1. PICK j \in on : j = (CHOOSE m \in on : IsNext(k, m)) /\ IsNext(k, j)
      BY <2>1
    <3>2. after(k) = PreNode(j)
      BY <2>1, <3>1
    <3> QED
      BY <3>1, <3>2 DEF Behind
  <2>2. CASE ~\E j \in on : IsNext(k, j)
    <3>1. \A j \in on : ~(j > k)
      <4> DEFINE T == {j \in on : j > k}
      <4> SUFFICES ASSUME T # {} PROVE FALSE
        OBVIOUS
      <4>1. T \subseteq Nat
        BY <1>2
      <4>2. PICK j \in T : \A m \in T : j <= m
        BY <4>1, LeastNumber
      <4> QED
        BY <2>2, <4>2
    <3>2. after(k) = tail
      BY <2>2
    <3> QED
      BY <3>1, <3>2 DEF Behind
  <2> QED
    BY <2>1, <2>2
<1> HIDE DEF on, after, y
<1>4. CASE n = head
  <2>1. KeyOf(n) = 0 /\ n \in Filled(S, height, i)
    BY <1>4, SentinelKeys DEF Filled
  <2> QED
    BY <1>1, <1>3, <1>4, <2>1 DEF on, y
<1>5. CASE n # head /\ n \in Filled(S, height, i)
  <2>1. PICK k \in on : n = PreNode(k)
    BY <1>5 DEF Filled, on
  <2>2. n \in NodeDesc /\ n.desc = PreDesc /\ n.opid = k /\ KeyOf(n) = k /\ k \in Nat
    BY <1>2, <2>1, PreNodeFacts
  <2> QED
    BY <1>1, <1>3, <1>5, <2>1, <2>2 DEF on, y
<1>6. CASE n \notin Filled(S, height, i)
  <2>1. n # head
    BY <1>6 DEF Filled
  <2>2. ~(n \in NodeDesc /\ n.desc = PreDesc /\ n.opid \in on)
    <3> SUFFICES ASSUME n \in NodeDesc, n.desc = PreDesc, n.opid \in on PROVE FALSE
      OBVIOUS
    <3>1. n = PreNode(n.opid)
      BY ConstantsAssumption DEF NodeDesc, PreNode
    <3> QED
      BY <1>6, <3>1 DEF Filled, on
  <2> QED
    BY <1>1, <1>6, <2>1, <2>2 DEF y
<1> QED
  BY <1>4, <1>5, <1>6 DEF y

LEMMA InitShape == Init => ShapeInv
<1> SUFFICES ASSUME Init PROVE ShapeInv
  OBVIOUS
<1>1. TypeOK
  BY InitIInv DEF IInv
<1>2. PICK S \in Prefills, height \in [Key -> 1..NumLevels] : next = Linked(S, height)
  BY DEF Init
<1> DEFINE on(i) == PreKeys(S, height, i)
           C(i) == Filled(S, height, i)
<1>3. \A i \in Level, n \in Node :
        IF n \in C(i) THEN Behind(on(i), KeyOf(n), next[i][n]) ELSE next[i][n] = tail
  BY <1>2, LinkedNext
<1>4. \A i : \A k \in on(i) : k \in Key /\ k \in Nat
  BY ConstantsAssumption DEF PreKeys, Key
<1>5. \A i, n : n \in C(i) => n \in Node /\ n # tail /\ Ready(n) /\ KeyOf(n) \in Nat
  <2> SUFFICES ASSUME NEW i, NEW n \in C(i)
               PROVE  n \in Node /\ n # tail /\ Ready(n) /\ KeyOf(n) \in Nat
    OBVIOUS
  <2>1. CASE n = head
    BY <2>1, SentinelKeys, NullAssumption DEF Node
  <2>2. CASE n # head
    <3>1. PICK k \in on(i) : n = PreNode(k)
      BY <2>2 DEF Filled
    <3> QED
      BY <1>4, <3>1, PreNodeFacts
  <2> QED
    BY <2>1, <2>2
<1>6. \A i : \A k \in on(i) : PreNode(k) \in C(i)
  BY DEF Filled
<1>7. \A i : head \in C(i)
  BY DEF Filled
<1>8. \A i, j \in Level : j <= i => C(i) \subseteq C(j)
  <2> SUFFICES ASSUME NEW i \in Level, NEW j \in Level, j <= i, NEW k \in on(i)
               PROVE  k \in on(j)
    BY DEF Filled
  <2>1. k \in Key /\ height[k] \in Nat /\ height[k] > i /\ i \in Nat /\ j \in Nat
    BY <1>4, Levels DEF PreKeys, Level
  <2> QED
    BY <2>1 DEF PreKeys
<1> HIDE DEF on, C
<1>9. LinkInv
  <2> SUFFICES ASSUME NEW i \in Level, NEW n \in Node
               PROVE  /\ Ready(next[i][n])
                      /\ next[i][n] # tail => Ready(n) /\ KeyOf(n) < KeyOf(next[i][n])
    BY DEF LinkInv
  <2>1. CASE next[i][n] = tail
    BY <2>1, SentinelKeys
  <2>2. CASE next[i][n] # tail
    <3>1. n \in C(i) /\ Behind(on(i), KeyOf(n), next[i][n])
      BY <1>3, <2>2
    <3>2. PICK j \in on(i) : next[i][n] = PreNode(j) /\ j > KeyOf(n)
      BY <2>2, <3>1 DEF Behind
    <3>3. Ready(n) /\ KeyOf(n) \in Nat
      BY <1>5, <3>1
    <3>4. Ready(PreNode(j)) /\ KeyOf(PreNode(j)) = j /\ j \in Nat
      BY <1>4, PreNodeFacts
    <3> QED
      BY <3>2, <3>3, <3>4
  <2> QED
    BY <2>1, <2>2
<1>10. ASSUME NEW i \in Level PROVE On(i) = C(i)
  <2>1. /\ next[i] \in [Node -> Node] /\ head \in Node \ {tail}
        /\ On(i) = Path(Node, next[i], {tail}, head)
    BY <1>1, <1>9, OnIsPath, NullAssumption DEF TypeOK, Node, LevelPath
  <2>2. /\ On(i) \subseteq Node \ {tail} /\ head \in On(i)
        /\ \A x \in On(i) : next[i][x] \in On(i) \union {tail}
        /\ \A D \in SUBSET (Node \ {tail}) :
             head \in D /\ (\A x \in D : next[i][x] \in D \union {tail}) => On(i) \subseteq D
    BY <2>1, PathClosed
  <2>3. On(i) \subseteq C(i)
    <3>1. ASSUME NEW n \in C(i) PROVE next[i][n] \in C(i) \union {tail}
      <4>1. Behind(on(i), KeyOf(n), next[i][n])
        BY <1>3, <1>5
      <4> QED
        BY <1>6, <4>1 DEF Behind
    <3>2. C(i) \in SUBSET (Node \ {tail})
      BY <1>5
    <3> QED
      BY <1>7, <2>2, <3>1, <3>2
  <2>4. ASSUME NEW k \in on(i), PreNode(k) \notin On(i) PROVE FALSE
    <3> DEFINE D == {x \in On(i) : KeyOf(x) < k}
               T == {k - KeyOf(x) : x \in D}
    <3>1. k \in Nat /\ k > 0
      BY <1>4, <2>4 DEF Key
    <3>2. \A x \in D : x \in C(i) /\ KeyOf(x) \in Nat /\ KeyOf(x) < k
      BY <1>5, <2>3
    <3>3. head \in D
      BY <2>2, <3>1, SentinelKeys
    <3>4. T \subseteq Nat /\ T # {}
      BY <3>1, <3>2, <3>3
    <3>5. PICK r \in T : \A s \in T : r <= s
      BY <3>4, LeastNumber
    <3>6. PICK x \in D : r = k - KeyOf(x)
      BY <3>5
    <3>7. Behind(on(i), KeyOf(x), next[i][x])
      BY <1>3, <1>5, <3>2
    <3>8. PICK j \in on(i) : next[i][x] = PreNode(j) /\ j > KeyOf(x) /\ j <= k
      BY <2>4, <3>2, <3>7 DEF Behind
    <3>9. PreNode(j) \in On(i)
      BY <1>4, <2>2, <3>8, PreNodeFacts
    <3>10. j \in Nat /\ j < k /\ KeyOf(PreNode(j)) = j
      BY <1>4, <2>4, <3>1, <3>8, <3>9, PreNodeFacts
    <3>11. k - j \in T
      <4>1. PreNode(j) \in D
        BY <3>9, <3>10
      <4> HIDE DEF D
      <4> QED
        BY <3>10, <4>1
    <3>12. KeyOf(x) \in Nat /\ r <= k - j
      BY <3>2, <3>5, <3>6, <3>11
    <3> HIDE DEF D, T
    <3> QED
      BY <3>1, <3>6, <3>8, <3>10, <3>12
  <2>5. C(i) \subseteq On(i)
    BY <2>2, <2>4 DEF C, Filled, on
  <2> QED
    BY <2>3, <2>5
<1>11. Nested
  BY <1>8, <1>10 DEF Nested
<1>12. IdleInv
  BY DEF Init, IdleInv
<1>13. WalksInv
  <2>1. \A t \in Thread, d \in Desc : OnCourse(NewFrame(1), t, d)
    BY Settled DEF NewFrame
  <2> QED
    BY <2>1 DEF Init, WalksInv
<1> QED
  BY <1>9, <1>11, <1>12, <1>13 DEF ShapeInv

-----------------------------------------------------------------------------
(* The theorems about the levels.                                          *)

LEMMA NextShape ==
  ASSUME IInv, IInv', ShapeInv, [Next]_vars
  PROVE  ShapeInv' /\ (next' = next \/ \E n \in NodeDesc : Gains(n))
<1>1. CASE UNCHANGED vars
  <2>1. Forward
    BY <1>1 DEF vars, Forward, Advance
  <2>2. IdleInv'
    BY <1>1 DEF vars, ShapeInv, IdleInv, OnStack, NewFrame, NoPath
  <2>3. ShapeInv'
    BY <1>1, <2>1, <2>2, PlainShape DEF vars
  <2> QED
    BY <1>1, <2>3 DEF vars
<1>2. ASSUME NEW t \in Thread, InsertLink(t) \/ RaiseNode(t)
      PROVE  ShapeInv' /\ (next' = next \/ \E n \in NodeDesc : Gains(n))
  BY <1>2, InsertLinkShape, RaiseNodeShape
<1>3. ASSUME NEW t \in Thread, execute_ops(t) PROVE ShapeInv' /\ next' = next
  BY <1>3, ExecuteOpsShape DEF execute_ops, heap
<1>4. ASSUME NEW t \in Thread,
             \/ OpLoop(t) \/ Search(t) \/ InsertAbsent(t) \/ ReadNodeDesc(t)
             \/ FinishPendingTxn(t) \/ CycleAbort(t) \/ CheckKeyExist(t)
             \/ CheckActive(t) \/ UpdateDesc(t)
      PROVE  ShapeInv' /\ next' = next
  <2>1. next' = next
    BY <1>4 DEF heap, OpLoop, Search, InsertAbsent, ReadNodeDesc, FinishPendingTxn,
       CycleAbort, CheckKeyExist, CheckActive, UpdateDesc
  <2> QED
    BY <1>4, <2>1, OpLoopShape, SearchShape, InsertAbsentShape, ReadNodeDescShape,
       FinishPendingTxnShape, CycleAbortShape, CheckKeyExistShape, CheckActiveShape,
       UpdateDescShape
<1>5. ASSUME NEW t \in Thread,
             \/ DecideTxn(t) \/ PersistClaim(t) \/ PersistTicket(t)
             \/ PersistStore(t) \/ PersistDone(t)
      PROVE  ShapeInv' /\ next' = next
  <2>1. next' = next
    BY <1>5 DEF heap, DecideTxn, PersistClaim, PersistTicket, PersistStore, PersistDone
  <2> QED
    BY <1>5, <2>1, DecideTxnShape, PersistClaimShape, PersistTicketShape,
       PersistStoreShape, PersistDoneShape
<1>6. \/ UNCHANGED vars \/ \E t \in Thread : execute_ops(t) \/ Step(t)
  BY DEF Next, Terminated
<1> QED
  BY <1>1, <1>2, <1>3, <1>4, <1>5, <1>6 DEF Step

\* The invariant of the levels holds in every state, for any number of threads,
\* descriptors, keys and levels.
THEOREM SkipSafety == Spec => []SafetyInv
<1>1. Init => SafetyInv
  BY InitIInv, InitShape DEF SafetyInv
<1>2. SafetyInv /\ [Next]_vars => SafetyInv'
  <2> SUFFICES ASSUME SafetyInv, [Next]_vars PROVE SafetyInv'
    OBVIOUS
  <2>1. IInv /\ ShapeInv
    BY DEF SafetyInv
  <2>2. IInv'
    BY <2>1, NextIInv
  <2>3. ShapeInv'
    BY <2>1, <2>2, NextShape
  <2> QED
    BY <2>2, <2>3 DEF SafetyInv
<1> QED
  BY <1>1, <1>2, PTL DEF Spec

\* Keys rise along every level, and a node of a level is on all the levels
\* below, so a search that comes down finds it (transskip_insert links upwards).
THEOREM LevelsKept == Spec => []LevelsNested
<1>1. SafetyInv => LevelsNested
  <2> SUFFICES ASSUME SafetyInv PROVE LevelsNested
    OBVIOUS
  <2>1. TypeOK /\ LinkInv /\ Nested
    BY DEF SafetyInv, IInv, ShapeInv
  <2>2. \A i \in Level : 0 <= i
    BY DEF Level
  <2>3. ASSUME NEW i \in Level PROVE Chain(i) \subseteq Chain(0)
    <3>1. On(i) \subseteq On(0)
      BY <2>1, <2>2, Levels DEF Nested
    <3>2. head \notin Chain(i)
      BY <2>1, OnIsPath
    <3> QED
      BY <3>1, <3>2 DEF On
  <2> QED
    BY <2>1, <2>3 DEF LevelsNested, LinkInv
<1> QED
  BY SkipSafety, <1>1, PTL

\* A node stays on every level it has entered: no link of another thread cuts it
\* off again (the compare-and-swaps of transskip_insert).
THEOREM SkipNodesStay == Spec => NoLostNode
<1> DEFINE Stay == \A i \in Level : Chain(i) \subseteq Chain(i)'
<1>1. ASSUME SafetyInv, SafetyInv', [Next]_vars PROVE Stay
  <2>1. /\ IInv /\ IInv' /\ ShapeInv /\ TypeOK /\ TypeOK' /\ LinkInv /\ LinkInv'
    BY <1>1 DEF SafetyInv, IInv, ShapeInv
  <2>2. CASE next' = next
    BY <2>2 DEF Chain
  <2>3. CASE \E n \in NodeDesc : Gains(n)
    <3>1. \A i \in Level : On(i) \subseteq On(i)'
      BY <2>3 DEF Gains
    <3>2. \A i \in Level : head \notin Chain(i)
      BY <2>1, OnIsPath
    <3> QED
      BY <3>1, <3>2 DEF On
  <2> QED
    BY <1>1, <2>1, <2>2, <2>3, NextShape
<1>2. ASSUME SafetyInv, SafetyInv', [Next]_vars PROVE [Stay]_vars
  BY <1>1, <1>2
<1> QED
  BY SkipSafety, <1>2, PTL DEF Spec, NoLostNode
=============================================================================
