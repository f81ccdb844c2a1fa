-------------------------- MODULE TransListProofs --------------------------
(***************************************************************************)
(* Theorems about TransList: the frames and the descriptors, and then the  *)
(* links, the marks and the txids.                                         *)
(***************************************************************************)
EXTENDS TransListSafety, TransListAbs, Paths, TLAPS, SequenceTheorems

LEMMA NewFrameType == \A i \in 1..(MaxOps + 1) : NewFrame(i) \in Frame
  BY ConstantsAssumption DEF NewFrame, Frame, Labels, Node, Entry

LEMMA InitIInv == Init => IInv
<1> SUFFICES ASSUME Init PROVE IInv
  OBVIOUS
<1> USE ConstantsAssumption, NullAssumption
<1>1. next \in [Node -> Node]
  <2>1. PICK S \in Prefills : next = Linked(S)
    BY DEF Init
  <2>2. S \subseteq Key
    OBVIOUS
  <2> DEFINE at(k) == [by |-> Main, desc |-> PreDesc, opid |-> k]
             IsNext(k, j) == j > k /\ \A i \in S : i > k => j <= i
             after(k) == IF \E j \in S : IsNext(k, j)
                         THEN at(CHOOSE j \in S : IsNext(k, j)) ELSE m_tail
  <2>3. ASSUME NEW k PROVE after(k) \in Node
    <3> HIDE DEF IsNext
    <3>1. CASE \E j \in S : IsNext(k, j)
      <4>1. (CHOOSE j \in S : IsNext(k, j)) \in Key
        BY <2>2, <3>1
      <4> QED
        BY <3>1, <4>1 DEF Node, NodeDesc
    <3>2. CASE ~\E j \in S : IsNext(k, j)
      BY <3>2 DEF Node
    <3> QED
      BY <3>1, <3>2
  <2>4. next = [n \in Node |->
                  IF n = m_head THEN after(0)
                  ELSE IF n \in NodeDesc /\ n.desc = PreDesc /\ n.opid \in S
                  THEN after(n.opid) ELSE m_tail]
    BY <2>1 DEF Linked
  <2> HIDE DEF after
  <2> QED
    BY <2>3, <2>4 DEF Node
<1>2. TypeOK
  <2>1. NewFrame(1) \in Frame
    BY NewFrameType
  <2> QED
    BY <1>1, <2>1 DEF Init, TypeOK, AllDesc
<1>3. PreInv
  BY DEF Init, PreInv, AllDesc
<1>4. \A t \in Thread, d \in Desc : FrameInv(fr[t][d], d)
  BY DEF Init, FrameInv, NewFrame, InOp, AtNode, HasOld, Won, PersistLabels, EndLabels
<1>5. \A t \in Thread : stack[t] = <<>>
  BY DEF Init
<1>6. \A d \in Desc : pstatus[d] = "MAYBE"
  BY DEF Init, AllDesc
<1> QED
  BY <1>2, <1>3, <1>4, <1>5, <1>6 DEF IInv, StackInv, Busy, PersistAfterDecision

-----------------------------------------------------------------------------
(* The stack of a thread.                                                  *)

LEMMA TopInStack ==
  ASSUME TypeOK, NEW t \in Thread, Busy(t)
  PROVE  /\ Len(stack[t]) \in Nat \ {0}
         /\ Top(t) = stack[t][Len(stack[t])]
         /\ Top(t) \in Desc
         /\ Fr(t) \in Frame
<1>1. stack[t] \in Seq(Desc) /\ stack[t] # <<>>
  BY DEF TypeOK, Busy
<1>2. Len(stack[t]) \in Nat \ {0}
  BY <1>1
<1>3. Top(t) = stack[t][Len(stack[t])]
  BY DEF Top, Last
<1>4. Top(t) \in Desc
  BY <1>1, <1>2, <1>3
<1> QED
  BY <1>2, <1>3, <1>4 DEF TypeOK, Fr

\* Nothing that a frame relies on is lost when no transaction loses its
\* outcome and no operation array changes.
Monotone ==
  /\ \A d \in AllDesc : status[d] # "ACTIVE" => status'[d] # "ACTIVE"
  /\ \A d \in Desc : ops[d] # <<>> => ops'[d] = ops[d]

LEMMA FrameInvStable ==
  ASSUME TypeOK, Monotone, NEW d \in Desc, NEW f \in Frame, FrameInv(f, d)
  PROVE  FrameInv(f, d)'
<1>1. InOp(f) => f.opid <= Len(ops'[d])
  <2> SUFFICES ASSUME InOp(f) PROVE f.opid <= Len(ops'[d])
    OBVIOUS
  <2>1. f.opid <= Len(ops[d]) /\ f.opid >= 1 /\ f.opid \in Nat
    BY ConstantsAssumption DEF FrameInv, Frame
  <2>2. ops[d] # <<>>
    BY <2>1
  <2> QED
    BY <2>1, <2>2 DEF Monotone
<1>2. f.back = "exist" => f.old.desc \in AllDesc
  BY DEF FrameInv, HasOld, Frame, NodeDesc, AllDesc
<1> QED
  BY <1>1, <1>2 DEF FrameInv, Monotone, AllDesc, InOp, AtNode, HasOld, Won

\* A step that changes the top frame of one thread.
LEMMA FrameStep ==
  ASSUME IInv, NEW t \in Thread, Busy(t), NEW f \in Frame,
         fr' = [fr EXCEPT ![t][Top(t)] = f], stack' = stack,
         Monotone, PreInv', PersistAfterDecision',
         FrameInv(f, Top(t))', Resolved(f, Top(t))',
         /\ next' \in [Node -> Node]
         /\ marked' \in [Node -> BOOLEAN]
         /\ nd' \in [NodeDesc -> NodeDesc]
         /\ ndmark' \in [NodeDesc -> BOOLEAN]
         /\ ops' \in [Desc -> OpArrays \union {<<>>}]
         /\ status' \in [AllDesc -> {"ACTIVE", "COMMITTED", "ABORTED"}]
         /\ pstatus' \in [AllDesc -> {"MAYBE", "IN_PROGRESS", "PERSISTED"}]
         /\ txid' \in [AllDesc -> Nat]
         /\ lastTxId' \in Nat
  PROVE  IInv'
<1> DEFINE d == Top(t)
<1>1. TypeOK
  BY DEF IInv
<1>2. /\ Len(stack[t]) \in Nat \ {0}
      /\ d = stack[t][Len(stack[t])]
      /\ d \in Desc
  BY <1>1, TopInStack
<1>3. /\ fr'[t][d] = f
      /\ \A u \in Thread, e \in Desc : u # t \/ e # d => fr'[u][e] = fr[u][e]
      /\ fr' \in [Thread -> [Desc -> Frame]]
  BY <1>1, <1>2 DEF TypeOK
<1>4. TypeOK'
  BY <1>1, <1>3 DEF TypeOK
<1>5. \A u \in Thread, e \in Desc : FrameInv(fr[u][e], e)'
  <2> SUFFICES ASSUME NEW u \in Thread, NEW e \in Desc
               PROVE  FrameInv(fr[u][e], e)'
    OBVIOUS
  <2>1. CASE u = t /\ e = d
    <3>1. Top(t)' = d /\ fr'[u][e] = f
      BY <1>3, <2>1 DEF Top
    <3> QED
      BY <2>1, <3>1 DEF FrameInv, InOp, AtNode, HasOld, Won
  <2>2. CASE u # t \/ e # d
    <3>1. FrameInv(fr[u][e], e) /\ fr[u][e] \in Frame
      BY <1>1 DEF IInv, TypeOK
    <3>2. PICK g \in Frame : g = fr[u][e]
      BY <3>1
    <3>3. FrameInv(g, e)'
      BY <1>1, <3>1, <3>2, FrameInvStable
    <3>4. fr'[u][e] = g
      BY <1>3, <2>2, <3>2
    <3> QED
      BY <3>3, <3>4 DEF FrameInv, InOp, AtNode, HasOld, Won
  <2> QED
    BY <2>1, <2>2
<1>6. \A u \in Thread : StackInv(u)'
  <2> SUFFICES ASSUME NEW u \in Thread PROVE StackInv(u)'
    OBVIOUS
  <2>1. StackInv(u)
    BY DEF IInv
  <2>2. stack[u] \in Seq(Desc)
    BY <1>1 DEF TypeOK
  <2>3. ASSUME NEW i \in 1..(Len(stack[u]) - 1)
        PROVE  fr'[u][stack[u][i]] = fr[u][stack[u][i]]
    <3>1. i \in 1..Len(stack[u]) /\ stack[u][i] \in Desc
      BY <2>2
    <3>2. u = t => stack[u][i] # d
      <4> SUFFICES ASSUME u = t, stack[u][i] = d PROVE FALSE
        OBVIOUS
      <4>1. stack[t][i] = stack[t][Len(stack[t])] /\ Len(stack[t]) \in 1..Len(stack[t])
        BY <1>2
      <4>2. i = Len(stack[t])
        BY <2>1, <3>1, <4>1 DEF StackInv
      <4> QED
        BY <1>2, <4>2
    <3> QED
      BY <1>3, <3>1, <3>2
  <2> QED
    BY <2>1, <2>3 DEF StackInv
<1>7. \A u \in Thread : Busy(u)' => Resolved(Fr(u), Top(u))'
  <2> SUFFICES ASSUME NEW u \in Thread, Busy(u)'
               PROVE  Resolved(Fr(u), Top(u))'
    OBVIOUS
  <2>1. Busy(u) /\ Top(u)' = Top(u)
    BY DEF Busy, Top
  <2>2. Top(u) \in Desc /\ Fr(u) \in Frame
    BY <1>1, <2>1, TopInStack
  <2>3. CASE u = t
    BY <1>3, <2>1, <2>2, <2>3 DEF Resolved, Fr
  <2>4. CASE u # t
    <3>1. Fr(u)' = Fr(u)
      BY <1>3, <2>1, <2>2, <2>4 DEF Fr
    <3>2. Resolved(Fr(u), Top(u)) /\ FrameInv(Fr(u), Top(u))
      BY <2>1, <2>2 DEF IInv, Fr
    <3>3. Fr(u).pc \in {"exist", "active", "update"} => Fr(u).old.desc \in AllDesc
      BY <2>2, <3>2 DEF FrameInv, HasOld, Frame, NodeDesc, AllDesc
    <3> QED
      BY <2>1, <3>1, <3>2, <3>3 DEF Resolved, Monotone
  <2> QED
    BY <2>3, <2>4
<1> QED
  BY <1>4, <1>5, <1>6, <1>7 DEF IInv

-----------------------------------------------------------------------------
(* The frame of a thread before and after a step.                          *)

Good(f, d) == f \in Frame /\ FrameInv(f, d) /\ Resolved(f, d)

LEMMA Running ==
  ASSUME IInv, NEW t \in Thread, Busy(t)
  PROVE  /\ Top(t) \in Desc
         /\ Good(Fr(t), Top(t))
         /\ InOp(Fr(t)) => /\ Fr(t).opid \in 1..MaxOps
                           /\ Mine(t) \in NodeDesc
                           /\ Op(t) \in Operator
<1>1. TypeOK /\ Top(t) \in Desc /\ Fr(t) \in Frame
  BY TopInStack DEF IInv
<1>2. FrameInv(Fr(t), Top(t)) /\ Resolved(Fr(t), Top(t))
  BY <1>1 DEF IInv, Fr
<1>3. ASSUME InOp(Fr(t))
      PROVE  Fr(t).opid \in 1..MaxOps /\ Op(t) \in Operator
  <2>1. Fr(t).opid \in Nat /\ Fr(t).opid >= 1 /\ Fr(t).opid <= Len(ops[Top(t)])
    BY <1>1, <1>2, <1>3, ConstantsAssumption DEF FrameInv, Frame
  <2>2. ops[Top(t)] \in OpArrays
    BY <1>1, <2>1 DEF TypeOK
  <2>3. ops[Top(t)] \in Seq(Operator) /\ Len(ops[Top(t)]) \in 1..MaxOps
    BY <2>2, ConstantsAssumption
  <2>4. Fr(t).opid \in 1..Len(ops[Top(t)])
    BY <2>1, <2>3
  <2> QED
    BY <2>1, <2>3, <2>4, ConstantsAssumption DEF Op
<1> QED
  BY <1>1, <1>2, <1>3 DEF Good, Mine, NodeDesc

\* A step that touches neither the descriptors nor the stacks.
LEMMA LocalStep ==
  ASSUME IInv, NEW t \in Thread, Busy(t), NEW f, Good(f, Top(t)),
         SetFrame(t, f), UNCHANGED <<ops, status, persist, stack>>,
         /\ next' \in [Node -> Node]
         /\ marked' \in [Node -> BOOLEAN]
         /\ nd' \in [NodeDesc -> NodeDesc]
         /\ ndmark' \in [NodeDesc -> BOOLEAN]
  PROVE  IInv'
<1>1. TypeOK /\ PreInv /\ PersistAfterDecision
  BY DEF IInv
<1>2. Top(t)' = Top(t)
  BY DEF Top
<1>3. Monotone
  BY DEF Monotone
<1>4. PreInv' /\ PersistAfterDecision'
  BY <1>1 DEF PreInv, PersistAfterDecision, persist
<1>5. FrameInv(f, Top(t))' /\ Resolved(f, Top(t))'
  BY <1>2 DEF Good, FrameInv, Resolved, InOp, AtNode, HasOld, Won
<1>6. f \in Frame /\ fr' = [fr EXCEPT ![t][Top(t)] = f]
  BY DEF Good, SetFrame
<1>7. /\ ops' \in [Desc -> OpArrays \union {<<>>}]
      /\ status' \in [AllDesc -> {"ACTIVE", "COMMITTED", "ABORTED"}]
      /\ pstatus' \in [AllDesc -> {"MAYBE", "IN_PROGRESS", "PERSISTED"}]
      /\ txid' \in [AllDesc -> Nat]
      /\ lastTxId' \in Nat
  BY <1>1 DEF TypeOK, persist
<1> QED
  BY <1>3, <1>4, <1>5, <1>6, <1>7, FrameStep

LEMMA HeapType ==
  ASSUME IInv, UNCHANGED heap
  PROVE  /\ next' \in [Node -> Node]
         /\ marked' \in [Node -> BOOLEAN]
         /\ nd' \in [NodeDesc -> NodeDesc]
         /\ ndmark' \in [NodeDesc -> BOOLEAN]
  BY DEF IInv, TypeOK, heap

LEMMA FinishedGood ==
  ASSUME NEW f \in Frame, NEW d, FrameInv(f, d), f.pc \notin PersistLabels,
         f.opid \in 1..MaxOps, NEW r \in {"OK", "SKIP", "FAIL"}
  PROVE  Good(Finished(f, r), d)
<1>1. Finished(f, r) \in Frame
  <2>1. f.opid + 1 \in 1..(MaxOps + 1) /\ m_head \in Node /\ "loop" \in Labels
    BY ConstantsAssumption DEF Labels, Node
  <2> QED
    BY <2>1 DEF Finished, Frame
<1>2. f.back # "exist"
  BY DEF FrameInv
<1> QED
  BY <1>1, <1>2 DEF Good, Finished, FrameInv, Resolved, InOp, AtNode, HasOld, Won,
     PersistLabels, EndLabels, Frame

LEMMA ArrivedGood ==
  ASSUME TypeOK, NEW f \in Frame, NEW d, FrameInv(f, d), f.pc \in {"skip", "unlink"},
         f.opid \in 1..MaxOps, NEW op \in Operator
  PROVE  Good(Arrived(f, op), d)
<1> DEFINE k == KeyOf(f.curr)
           g == [f EXCEPT !.pnext = m_head]
<1>1. g \in Frame /\ FrameInv(g, d) /\ g.pc = f.pc /\ g.opid = f.opid
  BY ZenonT(30) DEF Frame, Node, FrameInv, InOp, AtNode, HasOld, Won
<1>2. Good(Finished(g, "FAIL"), d)
  BY <1>1, FinishedGood DEF PersistLabels
<1>3. ASSUME NEW p \in {"next", "absent"} PROVE Good([g EXCEPT !.pc = p], d)
  BY ZenonT(30), <1>1, <1>3 DEF Good, Frame, Labels, FrameInv, Resolved, InOp, AtNode, HasOld, Won,
     PersistLabels, EndLabels
<1>4. k = op.key => f.curr \in NodeDesc
  <2>1. op.key \in 1..MaxKey
    BY DEF Operator, Key
  <2>2. f.curr \in Node
    BY DEF Frame
  <2> QED
    BY <2>1, <2>2, NullAssumption, ConstantsAssumption DEF KeyOf, Node
<1>5. k = op.key => Good([g EXCEPT !.pc = "read"], d)
  BY ZenonT(30), <1>1, <1>4 DEF Good, Frame, Labels, FrameInv, Resolved, InOp, AtNode, HasOld, Won,
     PersistLabels, EndLabels
<1> QED
  BY <1>2, <1>3, <1>5 DEF Arrived

LEMMA QuietStep ==
  ASSUME IInv, NEW t \in Thread, Busy(t), NEW f, Good(f, Top(t)),
         SetFrame(t, f), UNCHANGED <<heap, ops, status, persist, stack>>
  PROVE  IInv'
BY LocalStep, HeapType

\* The locals and the label of a frame at which nothing is relied on.
LEMMA FreeGood ==
  ASSUME NEW f \in Frame, NEW d, f.back = "marklist",
         \/ f.pc \in {"loop", "decide"}
         \/ /\ f.pc \in {"next", "skip", "unlink", "absent", "link"}
            /\ f.opid <= Len(ops[d])
         \/ /\ f.pc \in {"read", "helpmark"}
            /\ f.opid <= Len(ops[d]) /\ f.curr \in NodeDesc
         \/ /\ f.pc = "help" \/ f.pc = "cycle"
            /\ f.opid <= Len(ops[d]) /\ f.curr \in NodeDesc /\ f.old # Null
         \/ /\ f.pc \in {"exist", "active", "update"}
            /\ f.opid <= Len(ops[d]) /\ f.curr \in NodeDesc /\ f.old # Null
            /\ f.old.desc = d \/ status[f.old.desc] # "ACTIVE"
  PROVE  Good(f, d)
BY DEF Good, FrameInv, Resolved, InOp, AtNode, HasOld, Won, PersistLabels, EndLabels

\* What a frame in an operation has.
LEMMA InOpFacts ==
  ASSUME IInv, NEW t \in Thread,
         \E p \in {"next", "skip", "unlink", "absent", "link", "read", "helpmark",
                   "help", "cycle", "exist", "active", "update"} : At(t, p)
  PROVE  /\ Busy(t)
         /\ Top(t) \in Desc
         /\ Fr(t) \in Frame
         /\ FrameInv(Fr(t), Top(t))
         /\ Resolved(Fr(t), Top(t))
         /\ Fr(t).back = "marklist"
         /\ Fr(t).opid \in 1..MaxOps
         /\ Fr(t).opid <= Len(ops[Top(t)])
         /\ Mine(t) \in NodeDesc
         /\ Op(t) \in Operator
         /\ Fr(t).pc \notin PersistLabels
<1>1. Busy(t) /\ InOp(Fr(t)) /\ Fr(t).pc \notin PersistLabels
  BY DEF At, InOp, PersistLabels, EndLabels
<1>2. Good(Fr(t), Top(t)) /\ Fr(t).back # "exist"
  BY <1>1, Running DEF Good, FrameInv
<1> QED
  BY <1>1, <1>2, Running DEF Good, FrameInv, Frame

LEMMA HelpLoopStep ==
  ASSUME IInv, NEW t \in Thread, HelpLoop(t) PROVE IInv'
<1> DEFINE d == Top(t)
           more == /\ status[d] = "ACTIVE"
                   /\ Fr(t).ret # "FAIL"
                   /\ Fr(t).opid <= Len(ops[d])
           f == [Fr(t) EXCEPT !.pc = IF more THEN "next" ELSE "decide"]
<1>1. Busy(t) /\ Fr(t).pc = "loop"
  BY DEF HelpLoop, At
<1>2. Fr(t) \in Frame /\ Fr(t).back = "marklist"
  BY <1>1, Running DEF Good, FrameInv, Frame, PersistLabels
<1>3. f \in Frame
  BY <1>2 DEF Frame, Labels
<1>4. /\ f.back = "marklist"
      /\ \/ f.pc = "decide"
         \/ f.pc = "next" /\ f.opid <= Len(ops[d])
  BY <1>2 DEF Frame
<1>5. Good(f, d)
  BY <1>3, <1>4, FreeGood
<1>6. SetFrame(t, f)
  BY DEF HelpLoop, GoTo
<1> QED
  BY <1>1, <1>5, <1>6, QuietStep DEF HelpLoop

LEMMA LocateNextStep ==
  ASSUME IInv, NEW t \in Thread, LocateNext(t) PROVE IInv'
<1> DEFINE f == [Fr(t) EXCEPT !.pc = "skip", !.pred = Fr(t).curr,
                   !.pnext = next[Fr(t).curr], !.curr = next[Fr(t).curr]]
<1>1. At(t, "next") /\ SetFrame(t, f)
  BY DEF LocateNext
<1>2. Fr(t) \in Frame /\ next[Fr(t).curr] \in Node
  BY <1>1, InOpFacts DEF IInv, TypeOK, Frame
<1>3. f \in Frame
  BY <1>2 DEF Frame, Labels
<1>4. f.pc = "skip" /\ f.back = Fr(t).back /\ f.opid = Fr(t).opid
  BY <1>2 DEF Frame
<1>5. Good(f, Top(t))
  BY <1>1, <1>3, <1>4, InOpFacts, FreeGood
<1> QED
  BY <1>1, <1>5, InOpFacts, QuietStep DEF LocateNext

LEMMA LocateSkipStep ==
  ASSUME IInv, NEW t \in Thread, LocateSkip(t) PROVE IInv'
<1> DEFINE f == Fr(t)
           walk == [f EXCEPT !.curr = next[f.curr]]
           cut == [f EXCEPT !.pc = "unlink"]
<1>1. At(t, "skip") /\ f.pc = "skip"
  BY DEF LocateSkip, At
<1>2. f \in Frame /\ next[f.curr] \in Node
  BY <1>1, InOpFacts DEF IInv, TypeOK, Frame
<1>3. walk \in Frame /\ cut \in Frame
  BY <1>2 DEF Frame, Labels
<1>4. /\ walk.pc = "skip" /\ walk.back = f.back /\ walk.opid = f.opid
      /\ cut.pc = "unlink" /\ cut.back = f.back /\ cut.opid = f.opid
  BY <1>1, <1>2 DEF Frame
<1>5. Good(walk, Top(t)) /\ Good(cut, Top(t))
  BY <1>1, <1>3, <1>4, InOpFacts, FreeGood
<1>6. Good(Arrived(f, Op(t)), Top(t))
  BY <1>1, InOpFacts, ArrivedGood DEF IInv
<1>7. PICK g \in {walk, cut, Arrived(f, Op(t))} : SetFrame(t, g)
  BY DEF LocateSkip
<1>8. Good(g, Top(t))
  BY <1>5, <1>6, <1>7
<1> QED
  BY <1>1, <1>7, <1>8, InOpFacts, QuietStep DEF LocateSkip

LEMMA LocateUnlinkStep ==
  ASSUME IInv, NEW t \in Thread, LocateUnlink(t) PROVE IInv'
<1> DEFINE f == Fr(t)
           again == [f EXCEPT !.pc = "next", !.curr = m_head]
<1>1. At(t, "unlink") /\ f.pc = "unlink" /\ f \in Frame /\ f.curr \in Node
  BY InOpFacts DEF LocateUnlink, At, Frame
<1>2. again \in Frame
  BY <1>1 DEF Frame, Labels, Node
<1>3. again.pc = "next" /\ again.back = f.back /\ again.opid = f.opid
  BY <1>1 DEF Frame
<1>4. Good(again, Top(t))
  BY <1>1, <1>2, <1>3, InOpFacts, FreeGood
<1>5. Good(Arrived(f, Op(t)), Top(t))
  BY <1>1, InOpFacts, ArrivedGood DEF IInv
<1>6. PICK g \in {again, Arrived(f, Op(t))} : SetFrame(t, g)
  BY DEF LocateUnlink
<1>7. Good(g, Top(t))
  BY <1>4, <1>5, <1>6
<1>8. /\ next' \in [Node -> Node]
      /\ marked' \in [Node -> BOOLEAN]
      /\ nd' \in [NodeDesc -> NodeDesc]
      /\ ndmark' \in [NodeDesc -> BOOLEAN]
  BY <1>1 DEF LocateUnlink, IInv, TypeOK
<1> QED
  BY <1>1, <1>6, <1>7, <1>8, InOpFacts, LocalStep DEF LocateUnlink

\* An operation that returns to HelpOps.
LEMMA FinishedRunning ==
  ASSUME IInv, NEW t \in Thread, NEW r \in {"OK", "SKIP", "FAIL"},
         \E p \in {"next", "skip", "unlink", "absent", "link", "read", "helpmark",
                   "help", "cycle", "exist", "active", "update"} : At(t, p)
  PROVE  Good(Finished(Fr(t), r), Top(t))
BY InOpFacts, FinishedGood

LEMMA InsertAbsentStep ==
  ASSUME IInv, NEW t \in Thread, InsertAbsent(t) PROVE IInv'
<1> DEFINE f == Fr(t)
           on == [f EXCEPT !.pc = "link"]
<1>1. At(t, "absent") /\ f \in Frame
  BY InOpFacts DEF InsertAbsent
<1>2. on \in Frame /\ on.pc = "link" /\ on.back = f.back /\ on.opid = f.opid
  BY <1>1 DEF Frame, Labels
<1>3. Good(on, Top(t))
  BY <1>1, <1>2, InOpFacts, FreeGood
<1>4. PICK g \in {on, Finished(f, "FAIL")} : SetFrame(t, g)
  BY DEF InsertAbsent
<1>5. Good(g, Top(t))
  BY <1>1, <1>3, <1>4, FinishedRunning
<1> QED
  BY <1>1, <1>4, <1>5, InOpFacts, QuietStep DEF InsertAbsent

LEMMA InsertLinkStep ==
  ASSUME IInv, NEW t \in Thread, InsertLink(t) PROVE IInv'
<1> DEFINE f == Fr(t)
           own == [f EXCEPT !.ins = Append(@, [node |-> Mine(t), pred |-> f.pred])]
           again == [f EXCEPT !.pc = "next",
                       !.curr = IF marked[f.pred] THEN m_head ELSE f.pred]
<1>1. At(t, "link") /\ f.pc = "link" /\ f \in Frame /\ f.pred \in Node /\ f.curr \in Node
  BY InOpFacts DEF InsertLink, At, Frame
<1>2. [node |-> Mine(t), pred |-> f.pred] \in Entry
  BY <1>1, InOpFacts DEF Entry
<1>3. own \in Frame /\ own.pc = "link" /\ own.back = f.back /\ own.opid = f.opid
  <2>1. f.ins \in Seq(Entry)
    BY <1>1 DEF Frame
  <2>2. Append(f.ins, [node |-> Mine(t), pred |-> f.pred]) \in Seq(Entry)
    BY <1>2, <2>1
  <2> QED
    BY <1>1, <2>2 DEF Frame
<1>4. Good(own, Top(t))
  BY <1>1, <1>3, InOpFacts, FreeGood
<1>5. Good(Finished(own, "OK"), Top(t))
  BY <1>1, <1>3, <1>4, InOpFacts, FinishedGood DEF Good
<1>6. /\ again \in Frame
      /\ again.pc = "next" /\ again.back = f.back /\ again.opid = f.opid
  BY ZenonT(30), <1>1 DEF Frame, Labels, Node
<1>7. Good(again, Top(t))
  BY <1>1, <1>6, InOpFacts, FreeGood
<1>8. PICK g \in {again, Finished(own, "OK")} : SetFrame(t, g)
  BY DEF InsertLink
<1>9. Good(g, Top(t))
  BY <1>5, <1>7, <1>8
<1>10. /\ next' \in [Node -> Node]
       /\ marked' \in [Node -> BOOLEAN]
       /\ nd' \in [NodeDesc -> NodeDesc]
       /\ ndmark' \in [NodeDesc -> BOOLEAN]
  <2>1. Mine(t) \in Node /\ next \in [Node -> Node]
    BY <1>1, InOpFacts DEF Node, IInv, TypeOK
  <2> QED
    BY ZenonT(30), <1>1, <2>1 DEF InsertLink, IInv, TypeOK
<1> QED
  BY <1>1, <1>8, <1>9, <1>10, InOpFacts, LocalStep DEF InsertLink

LEMMA ReadNodeDescStep ==
  ASSUME IInv, NEW t \in Thread, ReadNodeDesc(t) PROVE IInv'
<1> DEFINE f == Fr(t)
           c == nd[f.curr]
           wait == [f EXCEPT !.pc = "helpmark"]
           own == [f EXCEPT !.pc = "exist", !.old = c]
           help == [f EXCEPT !.pc = "help", !.old = c]
<1>1. At(t, "read") /\ f.pc = "read" /\ f \in Frame
  BY InOpFacts DEF ReadNodeDesc, At
<1>2. f.curr \in NodeDesc
  BY <1>1, InOpFacts DEF FrameInv, AtNode
<1>3. c \in NodeDesc /\ c # Null
  BY <1>2, NullAssumption DEF IInv, TypeOK, Node
<1>4. wait \in Frame /\ own \in Frame /\ help \in Frame
  BY <1>1, <1>3 DEF Frame, Labels
<1>5. \A g \in {wait, own, help} :
        g.back = f.back /\ g.opid = f.opid /\ g.curr = f.curr
  BY <1>1 DEF Frame
<1>6. wait.pc = "helpmark" /\ own.pc = "exist" /\ help.pc = "help"
      /\ own.old = c /\ help.old = c
  BY <1>1 DEF Frame
<1>7. Good(wait, Top(t))
  BY <1>1, <1>2, <1>4, <1>5, <1>6, InOpFacts, FreeGood
<1>8. Good(help, Top(t))
  BY <1>1, <1>2, <1>3, <1>4, <1>5, <1>6, InOpFacts, FreeGood
<1>9. c.desc = Top(t) => Good(own, Top(t))
  BY <1>1, <1>2, <1>3, <1>4, <1>5, <1>6, InOpFacts, FreeGood
<1>10. CASE ndmark[f.curr]
  <2>1. PICK g \in {wait, Finished(f, "FAIL")} : SetFrame(t, g)
    BY <1>10 DEF ReadNodeDesc
  <2>2. Good(g, Top(t))
    BY <1>1, <1>7, <2>1, FinishedRunning
  <2> QED
    BY <1>1, <2>1, <2>2, InOpFacts, QuietStep DEF ReadNodeDesc
<1>11. CASE ~ndmark[f.curr] /\ c.desc = Top(t)
  <2>1. SetFrame(t, own)
    BY <1>11 DEF ReadNodeDesc
  <2> QED
    BY <1>1, <1>9, <1>11, <2>1, InOpFacts, QuietStep DEF ReadNodeDesc
<1>12. CASE ~ndmark[f.curr] /\ c.desc # Top(t)
  <2>1. SetFrame(t, help)
    BY <1>12 DEF ReadNodeDesc
  <2> QED
    BY <1>1, <1>8, <2>1, InOpFacts, QuietStep DEF ReadNodeDesc
<1> QED
  BY <1>10, <1>11, <1>12

LEMMA HelpMarkStep ==
  ASSUME IInv, NEW t \in Thread, HelpMark(t) PROVE IInv'
<1> DEFINE f == Fr(t)
           again == [f EXCEPT !.pc = "next", !.curr = m_head]
<1>1. At(t, "helpmark") /\ f.pc = "helpmark" /\ f \in Frame
  BY InOpFacts DEF HelpMark, At
<1>2. /\ again \in Frame
      /\ again.pc = "next" /\ again.back = f.back /\ again.opid = f.opid
  BY <1>1 DEF Frame, Labels, Node
<1>3. Good(again, Top(t))
  BY <1>1, <1>2, InOpFacts, FreeGood
<1>4. /\ next' \in [Node -> Node]
      /\ marked' \in [Node -> BOOLEAN]
      /\ nd' \in [NodeDesc -> NodeDesc]
      /\ ndmark' \in [NodeDesc -> BOOLEAN]
  BY DEF HelpMark, IInv, TypeOK
<1>5. SetFrame(t, again)
  BY DEF HelpMark
<1> QED
  BY <1>1, <1>3, <1>4, <1>5, InOpFacts, LocalStep DEF HelpMark

LEMMA CheckKeyExistStep ==
  ASSUME IInv, NEW t \in Thread, CheckKeyExist(t) PROVE IInv'
<1> DEFINE f == Fr(t)
           on == [f EXCEPT !.pc = "active"]
<1>1. At(t, "exist") /\ f.pc = "exist" /\ f \in Frame
  BY InOpFacts DEF CheckKeyExist, At
<1>2. /\ f.curr \in NodeDesc /\ f.old # Null
      /\ f.old.desc = Top(t) \/ status[f.old.desc] # "ACTIVE"
  BY <1>1, InOpFacts DEF FrameInv, AtNode, HasOld, Resolved
<1>3. /\ on \in Frame
      /\ on.pc = "active" /\ on.back = f.back /\ on.opid = f.opid
      /\ on.curr = f.curr /\ on.old = f.old
  BY <1>1 DEF Frame, Labels
<1>4. Good(on, Top(t))
  BY <1>1, <1>2, <1>3, InOpFacts, FreeGood
<1>5. PICK g \in {on, Finished(f, "SKIP"), Finished(f, "FAIL")} : SetFrame(t, g)
  BY DEF CheckKeyExist
<1>6. Good(g, Top(t))
  BY <1>1, <1>4, <1>5, FinishedRunning
<1> QED
  BY <1>1, <1>5, <1>6, InOpFacts, QuietStep DEF CheckKeyExist

LEMMA CheckActiveStep ==
  ASSUME IInv, NEW t \in Thread, CheckActive(t) PROVE IInv'
<1> DEFINE f == Fr(t)
           on == [f EXCEPT !.pc = "update"]
<1>1. At(t, "active") /\ f.pc = "active" /\ f \in Frame
  BY InOpFacts DEF CheckActive, At
<1>2. /\ f.curr \in NodeDesc /\ f.old # Null
      /\ f.old.desc = Top(t) \/ status[f.old.desc] # "ACTIVE"
  BY <1>1, InOpFacts DEF FrameInv, AtNode, HasOld, Resolved
<1>3. /\ on \in Frame
      /\ on.pc = "update" /\ on.back = f.back /\ on.opid = f.opid
      /\ on.curr = f.curr /\ on.old = f.old
  BY <1>1 DEF Frame, Labels
<1>4. Good(on, Top(t))
  BY <1>1, <1>2, <1>3, InOpFacts, FreeGood
<1>5. PICK g \in {on, Finished(f, "FAIL")} : SetFrame(t, g)
  BY DEF CheckActive
<1>6. Good(g, Top(t))
  BY <1>1, <1>4, <1>5, FinishedRunning
<1> QED
  BY <1>1, <1>5, <1>6, InOpFacts, QuietStep DEF CheckActive

LEMMA UpdateDescStep ==
  ASSUME IInv, NEW t \in Thread, UpdateDesc(t) PROVE IInv'
<1> DEFINE f == Fr(t)
           e == [node |-> f.curr, pred |-> f.pred]
           ins == [f EXCEPT !.ins = Append(@, e)]
           del == [f EXCEPT !.del = Append(@, e)]
           again == [f EXCEPT !.pc = "read", !.old = Null]
<1>1. At(t, "update") /\ f.pc = "update" /\ f \in Frame
  BY InOpFacts DEF UpdateDesc, At
<1>2. /\ f.curr \in NodeDesc /\ f.old # Null
      /\ f.old.desc = Top(t) \/ status[f.old.desc] # "ACTIVE"
  BY <1>1, InOpFacts DEF FrameInv, AtNode, HasOld, Resolved
<1>3. Append(f.ins, e) \in Seq(Entry) /\ Append(f.del, e) \in Seq(Entry)
  <2>1. f.ins \in Seq(Entry) /\ f.del \in Seq(Entry) /\ f.pred \in Node
    BY <1>1 DEF Frame
  <2>2. e \in Entry
    BY <1>2, <2>1 DEF Entry
  <2> QED
    BY <2>1, <2>2
<1>4. /\ ins \in Frame /\ del \in Frame
      /\ \A g \in {ins, del} : /\ g.pc = "update" /\ g.back = f.back
                               /\ g.opid = f.opid /\ g.curr = f.curr /\ g.old = f.old
  BY <1>1, <1>3 DEF Frame
<1>5. \A g \in {f, ins, del} : Good(Finished(g, "OK"), Top(t))
  <2> SUFFICES ASSUME NEW g \in {f, ins, del}
               PROVE  Good(Finished(g, "OK"), Top(t))
    OBVIOUS
  <2>1. /\ g \in Frame /\ g.pc = "update" /\ g.back = f.back
        /\ g.opid = f.opid /\ g.curr = f.curr /\ g.old = f.old
    BY <1>1, <1>4
  <2>2. Good(g, Top(t))
    BY <1>1, <1>2, <2>1, InOpFacts, FreeGood
  <2> QED
    BY <1>1, <2>1, <2>2, InOpFacts, FinishedGood DEF Good
<1>6. /\ again \in Frame /\ again.pc = "read" /\ again.back = f.back
      /\ again.opid = f.opid /\ again.curr = f.curr
  BY <1>1 DEF Frame, Labels
<1>7. Good(again, Top(t))
  BY <1>1, <1>2, <1>6, InOpFacts, FreeGood
<1>8. PICK g \in {again, Finished(f, "OK"), Finished(ins, "OK"), Finished(del, "OK")} :
        SetFrame(t, g)
  BY DEF UpdateDesc
<1>9. Good(g, Top(t))
  BY <1>5, <1>7, <1>8
<1>10. /\ next' \in [Node -> Node]
       /\ marked' \in [Node -> BOOLEAN]
       /\ nd' \in [NodeDesc -> NodeDesc]
       /\ ndmark' \in [NodeDesc -> BOOLEAN]
  <2>1. Mine(t) \in NodeDesc
    BY <1>1, InOpFacts
  <2>2. nd' = nd \/ nd' = [nd EXCEPT ![f.curr] = Mine(t)]
    BY DEF UpdateDesc
  <2>3. UNCHANGED <<next, marked, ndmark>>
    BY DEF UpdateDesc
  <2> QED
    BY <2>1, <2>2, <2>3 DEF IInv, TypeOK
<1> QED
  BY <1>1, <1>8, <1>9, <1>10, InOpFacts, LocalStep DEF UpdateDesc

-----------------------------------------------------------------------------
(* MarkForDeletion.                                                        *)

LEMMA MarkFacts ==
  ASSUME IInv, NEW t \in Thread, \E p \in EndLabels : At(t, p)
  PROVE  /\ Busy(t)
         /\ Top(t) \in Desc
         /\ Fr(t) \in Frame
         /\ Fr(t).back = "marklist"
         /\ Fr(t).pc \in EndLabels
         /\ Fr(t).pc # "marklist" => Fr(t).todo # <<>>
         /\ status[Top(t)] # "ACTIVE"
<1>1. Busy(t) /\ Fr(t).pc \in EndLabels
  BY DEF At
<1>2. Fr(t).pc \notin PersistLabels
  BY <1>1 DEF PersistLabels, EndLabels
<1> QED
  BY <1>1, <1>2, Running DEF Good, FrameInv, Won, Frame

LEMMA TodoHead ==
  ASSUME NEW f \in Frame, f.todo # <<>>
  PROVE  /\ Head(f.todo) \in Entry
         /\ Head(f.todo).node \in NodeDesc
         /\ Head(f.todo).pred \in Node
         /\ Tail(f.todo) \in Seq(Entry)
<1>1. f.todo \in Seq(Entry)
  BY DEF Frame
<1>2. Head(f.todo) \in Entry /\ Tail(f.todo) \in Seq(Entry)
  BY <1>1
<1> QED
  BY <1>2 DEF Entry

\* A frame that has won its transaction and removes nodes.
LEMMA EndGood ==
  ASSUME NEW f \in Frame, NEW d, f.back = "marklist", status[d] # "ACTIVE",
         f.pc \in EndLabels, f.pc # "marklist" => f.todo # <<>>
  PROVE  Good(f, d)
BY DEF Good, FrameInv, Resolved, InOp, AtNode, HasOld, Won, PersistLabels, EndLabels

LEMMA DroppedGood ==
  ASSUME NEW f \in Frame, NEW d, f.back = "marklist", status[d] # "ACTIVE",
         f.todo # <<>>
  PROVE  Good(Dropped(f), d)
<1>1. Tail(f.todo) \in Seq(Entry)
  BY TodoHead
<1>2. /\ Dropped(f) \in Frame /\ Dropped(f).pc = "marklist"
      /\ Dropped(f).back = "marklist"
  BY <1>1 DEF Dropped, Frame, Labels
<1> QED
  BY <1>2, EndGood DEF EndLabels

LEMMA MarkDescStep ==
  ASSUME IInv, NEW t \in Thread, MarkDesc(t) PROVE IInv'
<1> DEFINE f == Fr(t)
           n == Head(f.todo).node
           g == [f EXCEPT !.old = Null]
           on == [g EXCEPT !.pc = "marknode"]
<1>1. At(t, "markdesc") /\ f.pc = "markdesc" /\ \E p \in EndLabels : At(t, p)
  BY DEF MarkDesc, At, EndLabels
<1>2. f \in Frame /\ f.back = "marklist" /\ f.todo # <<>> /\ status[Top(t)] # "ACTIVE"
  BY <1>1, MarkFacts
<1>3. g \in Frame /\ g.back = f.back /\ g.todo = f.todo
  BY <1>2 DEF Frame
<1>4. on \in Frame /\ on.back = f.back /\ on.todo = f.todo /\ on.pc = "marknode"
  BY <1>3 DEF Frame, Labels
<1>5. Good(on, Top(t)) /\ Good(Dropped(g), Top(t))
  BY <1>2, <1>3, <1>4, EndGood, DroppedGood DEF EndLabels
<1>6. PICK h \in {on, Dropped(g)} : SetFrame(t, h)
  BY DEF MarkDesc
<1>7. Good(h, Top(t))
  BY <1>5, <1>6
<1>8. /\ next' \in [Node -> Node]
      /\ marked' \in [Node -> BOOLEAN]
      /\ nd' \in [NodeDesc -> NodeDesc]
      /\ ndmark' \in [NodeDesc -> BOOLEAN]
  <2>1. n \in NodeDesc
    BY <1>2, TodoHead
  <2>2. PICK b \in BOOLEAN : ndmark' = [ndmark EXCEPT ![n] = b]
    <3> DEFINE b == ndmark[n] \/ CanTake(n, f.old)
    <3>1. b \in BOOLEAN
      OBVIOUS
    <3>2. ndmark' = [ndmark EXCEPT ![n] = b]
      BY ZenonT(30) DEF MarkDesc
    <3> HIDE DEF b
    <3> QED
      BY <3>1, <3>2
  <2> QED
    BY <2>1, <2>2 DEF MarkDesc, IInv, TypeOK
<1> QED
  BY <1>1, <1>6, <1>7, <1>8, MarkFacts, LocalStep DEF MarkDesc

LEMMA MarkNodeStep ==
  ASSUME IInv, NEW t \in Thread, MarkNode(t) PROVE IInv'
<1> DEFINE f == Fr(t)
           n == Head(f.todo).node
           on == [f EXCEPT !.pc = "unlinknode", !.curr = next[n]]
<1>1. At(t, "marknode") /\ f.pc = "marknode" /\ \E p \in EndLabels : At(t, p)
  BY DEF MarkNode, At, EndLabels
<1>2. f \in Frame /\ f.back = "marklist" /\ f.todo # <<>> /\ status[Top(t)] # "ACTIVE"
  BY <1>1, MarkFacts
<1>3. n \in Node /\ next[n] \in Node
  BY <1>2, TodoHead DEF Node, IInv, TypeOK
<1>4. on \in Frame /\ on.back = f.back /\ on.todo = f.todo /\ on.pc = "unlinknode"
  BY <1>2, <1>3 DEF Frame, Labels
<1>5. Good(on, Top(t))
  BY <1>2, <1>4, EndGood DEF EndLabels
<1>6. SetFrame(t, on)
  BY DEF MarkNode
<1>7. /\ next' \in [Node -> Node]
      /\ marked' \in [Node -> BOOLEAN]
      /\ nd' \in [NodeDesc -> NodeDesc]
      /\ ndmark' \in [NodeDesc -> BOOLEAN]
  BY <1>3 DEF MarkNode, IInv, TypeOK
<1> QED
  BY <1>1, <1>5, <1>6, <1>7, MarkFacts, LocalStep DEF MarkNode

LEMMA UnlinkNodeStep ==
  ASSUME IInv, NEW t \in Thread, UnlinkNode(t) PROVE IInv'
<1> DEFINE f == Fr(t)
           e == Head(f.todo)
           g == [f EXCEPT !.curr = m_head]
<1>1. At(t, "unlinknode") /\ f.pc = "unlinknode" /\ \E p \in EndLabels : At(t, p)
  BY DEF UnlinkNode, At, EndLabels
<1>2. f \in Frame /\ f.back = "marklist" /\ f.todo # <<>> /\ status[Top(t)] # "ACTIVE"
  BY <1>1, MarkFacts
<1>3. g \in Frame /\ g.back = f.back /\ g.todo = f.todo
  BY <1>2 DEF Frame, Node
<1>4. Good(Dropped(g), Top(t))
  BY <1>2, <1>3, DroppedGood
<1>5. SetFrame(t, Dropped(g))
  BY DEF UnlinkNode
<1>6. /\ next' \in [Node -> Node]
      /\ marked' \in [Node -> BOOLEAN]
      /\ nd' \in [NodeDesc -> NodeDesc]
      /\ ndmark' \in [NodeDesc -> BOOLEAN]
  <2>1. f.curr \in Node
    BY <1>2 DEF Frame
  <2> QED
    BY <2>1 DEF UnlinkNode, IInv, TypeOK
<1> QED
  BY <1>1, <1>4, <1>5, <1>6, MarkFacts, LocalStep DEF UnlinkNode

-----------------------------------------------------------------------------
(* persistDesc.                                                            *)

LEMMA PersistFacts ==
  ASSUME IInv, NEW t \in Thread, \E p \in PersistLabels : At(t, p)
  PROVE  /\ Busy(t)
         /\ Top(t) \in Desc
         /\ Fr(t) \in Frame
         /\ Fr(t).pc \in PersistLabels
         /\ PersistTarget(t) \in AllDesc
         /\ status[PersistTarget(t)] # "ACTIVE"
         /\ Fr(t).back = "exist" => /\ Fr(t).opid <= Len(ops[Top(t)])
                                    /\ Fr(t).curr \in NodeDesc
                                    /\ Fr(t).old # Null
                                    /\ status[Fr(t).old.desc] # "ACTIVE"
         /\ Fr(t).back # "exist" => Fr(t).back = "marklist" /\ status[Top(t)] # "ACTIVE"
<1>1. Busy(t) /\ Fr(t).pc \in PersistLabels
  BY DEF At
<1>2. Top(t) \in Desc /\ Fr(t) \in Frame /\ FrameInv(Fr(t), Top(t))
  BY <1>1, Running DEF Good
<1>3. CASE Fr(t).back = "exist"
  <2>1. /\ Fr(t).opid <= Len(ops[Top(t)])
        /\ Fr(t).curr \in NodeDesc
        /\ Fr(t).old # Null
        /\ status[Fr(t).old.desc] # "ACTIVE"
    BY <1>2, <1>3 DEF FrameInv, InOp, AtNode, HasOld
  <2>2. Fr(t).old.desc \in AllDesc
    BY <1>2, <2>1 DEF Frame, NodeDesc, AllDesc
  <2> QED
    BY <1>1, <1>2, <1>3, <2>1, <2>2 DEF PersistTarget
<1>4. CASE Fr(t).back # "exist"
  <2>1. Fr(t).back = "marklist"
    BY <1>2, <1>4 DEF Frame
  <2>2. status[Top(t)] # "ACTIVE"
    BY <1>1, <1>2, <2>1 DEF FrameInv, Won
  <2> QED
    BY <1>1, <1>2, <1>4, <2>1, <2>2 DEF PersistTarget, AllDesc
<1> QED
  BY <1>3, <1>4

\* A frame stays in persistDesc, or leaves it.
LEMMA PersistGood ==
  ASSUME IInv, NEW t \in Thread, \E p \in PersistLabels : At(t, p),
         NEW f \in Frame, f.opid = Fr(t).opid, f.curr = Fr(t).curr, f.old = Fr(t).old,
         \/ f.pc \in PersistLabels /\ f.back = Fr(t).back
         \/ f.pc = Fr(t).back /\ f.back = "marklist"
  PROVE  Good(f, Top(t))
<1>1. CASE f.pc \in PersistLabels /\ f.back = Fr(t).back
  BY <1>1, PersistFacts DEF Good, FrameInv, Resolved, InOp, AtNode, HasOld, Won,
     PersistLabels, EndLabels
<1>2. CASE f.pc = Fr(t).back /\ f.back = "marklist" /\ Fr(t).back = "exist"
  BY <1>2, PersistFacts, FreeGood
<1>3. CASE f.pc = Fr(t).back /\ f.back = "marklist" /\ Fr(t).back # "exist"
  BY <1>3, PersistFacts, EndGood DEF EndLabels
<1> QED
  BY <1>1, <1>2, <1>3

\* A step that touches the persistence fields of a decided descriptor.
LEMMA PersistStep ==
  ASSUME IInv, NEW t \in Thread, Busy(t), NEW f, Good(f, Top(t)), SetFrame(t, f),
         UNCHANGED <<heap, ops, status, stack>>,
         PreInv', PersistAfterDecision',
         /\ pstatus' \in [AllDesc -> {"MAYBE", "IN_PROGRESS", "PERSISTED"}]
         /\ txid' \in [AllDesc -> Nat]
         /\ lastTxId' \in Nat
  PROVE  IInv'
<1>1. TypeOK
  BY DEF IInv
<1>2. Top(t)' = Top(t)
  BY DEF Top
<1>3. Monotone
  BY DEF Monotone
<1>4. FrameInv(f, Top(t))' /\ Resolved(f, Top(t))'
  BY <1>2 DEF Good, FrameInv, Resolved, InOp, AtNode, HasOld, Won
<1>5. f \in Frame /\ fr' = [fr EXCEPT ![t][Top(t)] = f]
  BY DEF Good, SetFrame
<1>6. /\ ops' \in [Desc -> OpArrays \union {<<>>}]
      /\ status' \in [AllDesc -> {"ACTIVE", "COMMITTED", "ABORTED"}]
  BY <1>1 DEF TypeOK
<1> QED
  BY <1>3, <1>4, <1>5, <1>6, HeapType, FrameStep

LEMMA PersistClaimStep ==
  ASSUME IInv, NEW t \in Thread, PersistClaim(t) PROVE IInv'
<1> DEFINE f == Fr(t)
           e == PersistTarget(t)
           out == [f EXCEPT !.pc = f.back, !.back = "marklist"]
           on == [f EXCEPT !.pc = "ticket"]
<1>1. At(t, "claim") /\ \E p \in PersistLabels : At(t, p)
  BY DEF PersistClaim, PersistLabels
<1>2. f \in Frame /\ e \in AllDesc /\ status[e] # "ACTIVE" /\ Busy(t)
  BY <1>1, PersistFacts
<1>3. /\ out \in Frame /\ out.pc = f.back /\ out.back = "marklist"
      /\ out.opid = f.opid /\ out.curr = f.curr /\ out.old = f.old
  BY <1>2 DEF Frame, Labels
<1>4. /\ on \in Frame /\ on.pc = "ticket" /\ on.back = f.back
      /\ on.opid = f.opid /\ on.curr = f.curr /\ on.old = f.old
  BY <1>2 DEF Frame, Labels
<1>5. Good(out, Top(t)) /\ Good(on, Top(t))
  BY <1>1, <1>3, <1>4, PersistGood DEF PersistLabels
<1>6. UNCHANGED <<heap, ops, status, txid, lastTxId, stack>>
  BY DEF PersistClaim
<1>7. TypeOK /\ PreInv /\ PersistAfterDecision
  BY DEF IInv
<1>8. CASE pstatus[e] = "PERSISTED"
  <2>1. SetFrame(t, out) /\ UNCHANGED pstatus
    BY <1>8 DEF PersistClaim
  <2>2. PreInv' /\ PersistAfterDecision'
    BY <1>6, <1>7, <2>1 DEF PreInv, PersistAfterDecision
  <2> QED
    BY <1>2, <1>5, <1>6, <1>7, <2>1, <2>2, PersistStep DEF TypeOK
<1>9. CASE pstatus[e] # "PERSISTED"
  <2>1. SetFrame(t, on) /\ pstatus' = [pstatus EXCEPT ![e] = "IN_PROGRESS"]
    BY <1>9 DEF PersistClaim, GoTo
  <2>2. PreInv' /\ PersistAfterDecision'
    BY <1>2, <1>6, <1>7, <1>9, <2>1 DEF PreInv, PersistAfterDecision, TypeOK, AllDesc
  <2> QED
    BY <1>2, <1>5, <1>6, <1>7, <2>1, <2>2, PersistStep DEF TypeOK
<1> QED
  BY <1>8, <1>9

LEMMA PersistTicketStep ==
  ASSUME IInv, NEW t \in Thread, PersistTicket(t) PROVE IInv'
<1> DEFINE f == Fr(t)
           on == [f EXCEPT !.pc = "store", !.tkt = lastTxId]
<1>1. At(t, "ticket") /\ \E p \in PersistLabels : At(t, p)
  BY DEF PersistTicket, PersistLabels
<1>2. f \in Frame /\ Busy(t)
  BY <1>1, PersistFacts
<1>3. TypeOK /\ PreInv /\ PersistAfterDecision
  BY DEF IInv
<1>4. /\ on \in Frame /\ on.pc = "store" /\ on.back = f.back
      /\ on.opid = f.opid /\ on.curr = f.curr /\ on.old = f.old
  BY <1>2, <1>3 DEF Frame, Labels, TypeOK
<1>5. Good(on, Top(t))
  BY <1>1, <1>4, PersistGood DEF PersistLabels
<1>6. /\ UNCHANGED <<heap, ops, status, pstatus, txid, stack>>
      /\ lastTxId' = lastTxId + 1 /\ SetFrame(t, on)
  BY DEF PersistTicket
<1>7. PreInv' /\ PersistAfterDecision'
  BY <1>3, <1>6 DEF PreInv, PersistAfterDecision
<1>8. lastTxId' \in Nat
  BY <1>3, <1>6 DEF TypeOK
<1> QED
  BY <1>2, <1>3, <1>5, <1>6, <1>7, <1>8, PersistStep DEF TypeOK

LEMMA PersistStoreStep ==
  ASSUME IInv, NEW t \in Thread, PersistStore(t) PROVE IInv'
<1> DEFINE f == Fr(t)
           on == [f EXCEPT !.pc = "persisted", !.tkt = 0]
<1>1. At(t, "store") /\ \E p \in PersistLabels : At(t, p)
  BY DEF PersistStore, PersistLabels
<1>2. f \in Frame /\ Busy(t) /\ f.tkt \in Nat /\ PersistTarget(t) \in AllDesc
  BY <1>1, PersistFacts DEF Frame
<1>3. TypeOK /\ PreInv /\ PersistAfterDecision
  BY DEF IInv
<1>4. /\ on \in Frame /\ on.pc = "persisted" /\ on.back = f.back
      /\ on.opid = f.opid /\ on.curr = f.curr /\ on.old = f.old
  BY <1>2, <1>3 DEF Frame, Labels
<1>5. Good(on, Top(t))
  BY <1>1, <1>4, PersistGood DEF PersistLabels
<1>6. /\ UNCHANGED <<heap, ops, status, pstatus, lastTxId, stack>>
      /\ txid' = [txid EXCEPT ![PersistTarget(t)] = f.tkt] /\ SetFrame(t, on)
  BY DEF PersistStore
<1>7. PreInv' /\ PersistAfterDecision'
  BY <1>3, <1>6 DEF PreInv, PersistAfterDecision
<1>8. txid' \in [AllDesc -> Nat]
  BY <1>2, <1>3, <1>6 DEF TypeOK
<1> QED
  BY <1>2, <1>3, <1>5, <1>6, <1>7, <1>8, PersistStep DEF TypeOK

LEMMA PersistDoneStep ==
  ASSUME IInv, NEW t \in Thread, PersistDone(t) PROVE IInv'
<1> DEFINE f == Fr(t)
           e == PersistTarget(t)
           out == [f EXCEPT !.pc = f.back, !.back = "marklist"]
<1>1. At(t, "persisted") /\ \E p \in PersistLabels : At(t, p)
  BY DEF PersistDone, PersistLabels
<1>2. f \in Frame /\ e \in AllDesc /\ status[e] # "ACTIVE" /\ Busy(t)
  BY <1>1, PersistFacts
<1>3. /\ out \in Frame /\ out.pc = f.back /\ out.back = "marklist"
      /\ out.opid = f.opid /\ out.curr = f.curr /\ out.old = f.old
  BY <1>2 DEF Frame, Labels
<1>4. Good(out, Top(t))
  BY <1>1, <1>3, PersistGood
<1>5. /\ UNCHANGED <<heap, ops, status, txid, lastTxId, stack>>
      /\ SetFrame(t, out) /\ pstatus' = [pstatus EXCEPT ![e] = "PERSISTED"]
  BY DEF PersistDone
<1>6. TypeOK /\ PreInv /\ PersistAfterDecision
  BY DEF IInv
<1>7. PreInv' /\ PersistAfterDecision'
  BY <1>2, <1>5, <1>6 DEF PreInv, PersistAfterDecision, TypeOK, AllDesc
<1> QED
  BY <1>2, <1>4, <1>5, <1>6, <1>7, PersistStep DEF TypeOK

-----------------------------------------------------------------------------
(* A transaction is decided.                                               *)

LEMMA CycleAbortStep ==
  ASSUME IInv, NEW t \in Thread, CycleAbort(t) PROVE IInv'
<1> DEFINE f == Fr(t)
           e == f.old.desc
           on == IF Persist THEN [f EXCEPT !.pc = "claim", !.back = "exist"]
                 ELSE [f EXCEPT !.pc = "exist"]
<1>1. At(t, "cycle") /\ f.pc = "cycle"
  BY DEF CycleAbort, At
<1>2. /\ f \in Frame /\ f.curr \in NodeDesc /\ f.old # Null /\ Busy(t)
      /\ f.opid <= Len(ops[Top(t)]) /\ Top(t) \in Desc /\ f.back = "marklist"
  BY <1>1, InOpFacts DEF FrameInv, AtNode, HasOld
<1>3. e \in AllDesc
  BY <1>2 DEF Frame, NodeDesc, AllDesc
<1>4. TypeOK /\ PreInv /\ PersistAfterDecision
  BY DEF IInv
<1>5. /\ UNCHANGED <<heap, ops, pstatus, txid, lastTxId, stack>>
      /\ status' = [status EXCEPT ![e] = IF @ = "ACTIVE" THEN "ABORTED" ELSE @]
      /\ SetFrame(t, on)
  BY DEF CycleAbort, persist
<1>6. /\ on \in Frame /\ on.opid = f.opid /\ on.curr = f.curr /\ on.old = f.old
      /\ \/ on.pc = "claim" /\ on.back = "exist"
         \/ on.pc = "exist" /\ on.back = "marklist"
  BY <1>2 DEF Frame, Labels
<1>7. status' \in [AllDesc -> {"ACTIVE", "COMMITTED", "ABORTED"}] /\ status'[e] # "ACTIVE"
  BY <1>3, <1>4, <1>5 DEF TypeOK
<1>8. \A d \in AllDesc : status[d] # "ACTIVE" => status'[d] = status[d]
  BY <1>3, <1>4, <1>5 DEF TypeOK
<1>9. Monotone
  BY <1>5, <1>8 DEF Monotone
<1>10. PreInv' /\ PersistAfterDecision'
  BY <1>4, <1>5, <1>8 DEF PreInv, PersistAfterDecision, AllDesc
<1>11. Top(t)' = Top(t)
  BY <1>5 DEF Top
<1>12. PICK g \in Frame :
         /\ fr' = [fr EXCEPT ![t][Top(t)] = g]
         /\ g.opid = f.opid /\ g.curr = f.curr /\ g.old = f.old
         /\ \/ g.pc = "claim" /\ g.back = "exist"
            \/ g.pc = "exist" /\ g.back = "marklist"
  BY <1>5, <1>6 DEF SetFrame
<1>13. FrameInv(g, Top(t))' /\ Resolved(g, Top(t))'
  BY <1>2, <1>5, <1>7, <1>11, <1>12 DEF FrameInv, Resolved, InOp, AtNode, HasOld, Won,
     PersistLabels, EndLabels
<1>14. /\ ops' \in [Desc -> OpArrays \union {<<>>}]
       /\ pstatus' \in [AllDesc -> {"MAYBE", "IN_PROGRESS", "PERSISTED"}]
       /\ txid' \in [AllDesc -> Nat]
       /\ lastTxId' \in Nat
  BY <1>4, <1>5 DEF TypeOK
<1> QED
  BY <1>2, <1>5, <1>7, <1>9, <1>10, <1>12, <1>13, <1>14, HeapType, FrameStep

-----------------------------------------------------------------------------
(* Calls and returns.                                                      *)

\* A step of thread t that may change its stack.
LEMMA StackStep ==
  ASSUME IInv, NEW t \in Thread, TypeOK', PreInv', PersistAfterDecision', Monotone,
         \A u \in Thread : u # t => fr'[u] = fr[u] /\ stack'[u] = stack[u],
         \A e \in Desc : FrameInv(fr[t][e], e)',
         StackInv(t)',
         Busy(t)' => Resolved(Fr(t), Top(t))'
  PROVE  IInv'
<1>1. TypeOK
  BY DEF IInv
<1>2. ASSUME NEW u \in Thread, u # t, NEW e \in Desc
      PROVE  FrameInv(fr[u][e], e)'
  <2>1. PICK g \in Frame : g = fr[u][e] /\ FrameInv(g, e)
    BY <1>1 DEF IInv, TypeOK
  <2>2. FrameInv(g, e)' /\ fr'[u][e] = g
    BY <1>1, <1>2, <2>1, FrameInvStable
  <2> QED
    BY <2>2 DEF FrameInv, InOp, AtNode, HasOld, Won
<1>3. ASSUME NEW u \in Thread, u # t PROVE StackInv(u)'
  <2>1. StackInv(u) /\ fr'[u] = fr[u] /\ stack'[u] = stack[u]
    BY <1>3 DEF IInv
  <2> QED
    BY <2>1 DEF StackInv
<1>4. ASSUME NEW u \in Thread, u # t, Busy(u)'
      PROVE  Resolved(Fr(u), Top(u))'
  <2>1. Busy(u) /\ Top(u)' = Top(u) /\ Fr(u)' = Fr(u)
    BY <1>4 DEF Busy, Top, Fr
  <2>2. Fr(u) \in Frame /\ FrameInv(Fr(u), Top(u)) /\ Resolved(Fr(u), Top(u))
    BY <2>1, Running DEF Good
  <2>3. Fr(u).pc \in {"exist", "active", "update"} => Fr(u).old.desc \in AllDesc
    BY <2>2 DEF FrameInv, HasOld, Frame, NodeDesc, AllDesc
  <2> QED
    BY <2>1, <2>2, <2>3 DEF Resolved, Monotone
<1> QED
  BY <1>2, <1>3, <1>4 DEF IInv

LEMMA NewFrameInv ==
  ASSUME NEW i \in 1..(MaxOps + 1), NEW d
  PROVE  FrameInv(NewFrame(i), d)
BY DEF FrameInv, NewFrame, InOp, AtNode, HasOld, Won, PersistLabels, EndLabels

\* HelpOps returns once its transaction is decided, so its caller goes on with
\* a transaction that is decided.
LEMMA ReturnStep ==
  ASSUME IInv, NEW t \in Thread, Busy(t), status[Top(t)] # "ACTIVE", Return(t),
         UNCHANGED <<heap, ops, status, persist>>
  PROVE  IInv'
<1> DEFINE d == Top(t)
           n == Len(stack[t])
<1>1. TypeOK /\ PreInv /\ PersistAfterDecision
  BY DEF IInv
<1>2. /\ n \in Nat \ {0} /\ d = stack[t][n] /\ d \in Desc
      /\ stack[t] \in Seq(Desc)
  BY <1>1, TopInStack DEF TypeOK
<1>3. /\ stack'[t] \in Seq(Desc) /\ Len(stack'[t]) = n - 1
      /\ \A i \in 1..(n - 1) : stack'[t][i] = stack[t][i]
  <2>1. stack'[t] = SubSeq(stack[t], 1, n - 1)
    BY <1>1 DEF Return, Front, TypeOK
  <2> QED
    BY <1>2, <2>1
<1>4. /\ fr'[t][d] = NewFrame(1)
      /\ \A e \in Desc : e # d => fr'[t][e] = fr[t][e]
      /\ \A u \in Thread : u # t => fr'[u] = fr[u] /\ stack'[u] = stack[u]
  BY <1>1, <1>2 DEF Return, SetFrame, TypeOK
<1>5. NewFrame(1) \in Frame
  BY NewFrameType, ConstantsAssumption
<1>6. fr' \in [Thread -> [Desc -> Frame]] /\ stack' \in [Thread -> Seq(Desc)]
  BY <1>1, <1>2, <1>3, <1>4, <1>5 DEF Return, SetFrame, TypeOK
<1>7. TypeOK' /\ PreInv' /\ PersistAfterDecision' /\ Monotone
  BY <1>1, <1>6 DEF TypeOK, PreInv, PersistAfterDecision, Monotone, heap, persist
<1>8. ASSUME NEW e \in Desc PROVE FrameInv(fr[t][e], e)'
  <2>1. PICK g \in Frame : g = fr'[t][e] /\ FrameInv(g, e)
    <3>1. CASE e = d
      BY <1>4, <1>5, <3>1, NewFrameInv, ConstantsAssumption
    <3>2. CASE e # d
      BY <1>1, <1>4, <3>2 DEF IInv, TypeOK
    <3> QED
      BY <3>1, <3>2
  <2> QED
    BY <1>1, <1>7, <2>1, FrameInvStable DEF FrameInv, InOp, AtNode, HasOld, Won
<1>9. StackInv(t)
  BY DEF IInv
<1>10. ASSUME NEW i \in 1..(n - 1)
       PROVE  stack[t][i] \in Desc /\ fr'[t][stack[t][i]] = fr[t][stack[t][i]]
  <2>1. stack[t][i] \in Desc
    BY <1>2
  <2>2. stack[t][i] # d
    BY <1>2, <1>9 DEF StackInv
  <2> QED
    BY <1>4, <2>1, <2>2
<1>11. StackInv(t)'
  <2>1. ASSUME NEW i \in 1..(n - 1), NEW j \in 1..(n - 1), stack'[t][i] = stack'[t][j]
        PROVE  i = j
    <3>1. stack[t][i] = stack[t][j]
      BY <1>3, <2>1
    <3>2. i \in 1..n /\ j \in 1..n
      BY <1>2
    <3> QED
      BY <1>9, <3>1, <3>2 DEF StackInv
  <2>2. ASSUME NEW i \in 1..(n - 2)
        PROVE  /\ fr'[t][stack'[t][i]].pc = "exist"
               /\ fr'[t][stack'[t][i]].old.desc = stack'[t][i+1]
    <3>1. i \in 1..(n - 1) /\ i + 1 \in 1..(n - 1)
      BY <1>2
    <3> QED
      BY <1>3, <1>9, <1>10, <3>1 DEF StackInv
  <2>3. Len(stack'[t]) - 1 = n - 2
    BY <1>2, <1>3
  <2> QED
    BY <1>3, <2>1, <2>2, <2>3 DEF StackInv
<1>12. ASSUME Busy(t)' PROVE Resolved(Fr(t), Top(t))'
  <2>1. n - 1 \in 1..(n - 1)
    BY <1>2, <1>3, <1>12 DEF Busy
  <2>2. Top(t)' = stack[t][n - 1]
    BY <1>3, <2>1 DEF Top, Last
  <2>3. Fr(t)' = fr[t][stack[t][n - 1]]
    BY <1>10, <2>1, <2>2 DEF Fr
  <2>4. fr[t][stack[t][n - 1]].old.desc = d
    <3> DEFINE m == n - 1
    <3>1. m \in 1..(Len(stack[t]) - 1) /\ m + 1 = n
      BY <1>2, <2>1
    <3> HIDE DEF m
    <3>2. fr[t][stack[t][m]].old.desc = stack[t][m + 1]
      BY <1>9, <3>1 DEF StackInv
    <3> QED
      BY <1>2, <3>1, <3>2 DEF m
  <2>5. status'[d] # "ACTIVE"
    BY <1>1
  <2> QED
    BY <2>3, <2>4, <2>5 DEF Resolved
<1> QED
  BY <1>4, <1>7, <1>8, <1>11, <1>12, StackStep

LEMMA DecideTxnStep ==
  ASSUME IInv, NEW t \in Thread, DecideTxn(t) PROVE IInv'
<1> DEFINE d == Top(t)
           f == Fr(t)
<1>1. Busy(t) /\ f.pc = "decide"
  BY DEF DecideTxn, At
<1>2. d \in Desc /\ f \in Frame /\ f.back = "marklist"
  BY <1>1, Running DEF Good, FrameInv, Frame, PersistLabels
<1>3. CASE status[d] # "ACTIVE"
  <2>1. Return(t) /\ UNCHANGED <<heap, ops, status, persist>>
    BY <1>3 DEF DecideTxn
  <2> QED
    BY <1>1, <1>3, <2>1, ReturnStep
<1>4. CASE status[d] = "ACTIVE"
  <2> DEFINE on == [f EXCEPT !.pc = IF Persist THEN "claim" ELSE "marklist",
                             !.todo = Doomed(f), !.ins = <<>>, !.del = <<>>]
  <2>1. /\ UNCHANGED <<heap, ops, pstatus, txid, lastTxId, stack>>
        /\ status' = [status EXCEPT ![d] = Verdict(f)] /\ SetFrame(t, on)
    BY <1>4 DEF DecideTxn, persist
  <2>2. Doomed(f) \in Seq(Entry) /\ <<>> \in Seq(Entry)
    BY <1>2 DEF Doomed, Frame
  <2>3. PICK g \in Frame :
          /\ fr' = [fr EXCEPT ![t][d] = g]
          /\ g.pc \in {"claim", "marklist"} /\ g.back = "marklist"
    <3>1. /\ on \in Frame
          /\ on.pc \in {"claim", "marklist"} /\ on.back = "marklist"
      BY <1>2, <2>2 DEF Frame, Labels
    <3> QED
      BY <2>1, <3>1 DEF SetFrame
  <2>4. TypeOK /\ PreInv /\ PersistAfterDecision
    BY DEF IInv
  <2>5. Verdict(f) \in {"COMMITTED", "ABORTED"}
    BY DEF Verdict
  <2>6. /\ status' \in [AllDesc -> {"ACTIVE", "COMMITTED", "ABORTED"}]
        /\ status'[d] # "ACTIVE"
        /\ \A e \in AllDesc : e # d => status'[e] = status[e]
    BY <1>2, <2>1, <2>4, <2>5 DEF TypeOK, AllDesc
  <2>7. Monotone
    BY <2>1, <2>6 DEF Monotone
  <2>8. PreInv' /\ PersistAfterDecision'
    BY <1>4, <2>1, <2>4, <2>6 DEF PreInv, PersistAfterDecision, AllDesc
  <2>9. FrameInv(g, Top(t))' /\ Resolved(g, Top(t))'
    <3>1. Top(t)' = d
      BY <2>1 DEF Top
    <3> QED
      BY <2>3, <2>6, <3>1 DEF FrameInv, Resolved, InOp, AtNode, HasOld, Won,
         PersistLabels, EndLabels
  <2>10. /\ ops' \in [Desc -> OpArrays \union {<<>>}]
         /\ pstatus' \in [AllDesc -> {"MAYBE", "IN_PROGRESS", "PERSISTED"}]
         /\ txid' \in [AllDesc -> Nat]
         /\ lastTxId' \in Nat
    BY <2>1, <2>4 DEF TypeOK
  <2> QED
    BY <1>1, <2>1, <2>3, <2>6, <2>7, <2>8, <2>9, <2>10, HeapType, FrameStep
<1> QED
  BY <1>3, <1>4

LEMMA MarkNextStep ==
  ASSUME IInv, NEW t \in Thread, MarkNext(t) PROVE IInv'
<1> DEFINE f == Fr(t)
           n == Head(f.todo).node
           on == [f EXCEPT !.pc = "markdesc", !.old = nd[n]]
<1>1. At(t, "marklist") /\ \E p \in EndLabels : At(t, p)
  BY DEF MarkNext, EndLabels
<1>2. /\ f \in Frame /\ f.back = "marklist" /\ status[Top(t)] # "ACTIVE" /\ Busy(t)
      /\ UNCHANGED <<heap, ops, status, persist>>
  BY <1>1, MarkFacts DEF MarkNext
<1>3. CASE f.todo = <<>>
  BY <1>2, <1>3, ReturnStep DEF MarkNext
<1>4. CASE f.todo # <<>>
  <2>1. nd[n] \in NodeDesc
    BY <1>2, <1>4, TodoHead DEF IInv, TypeOK
  <2>2. on \in Frame /\ on.pc = "markdesc" /\ on.back = f.back /\ on.todo = f.todo
    BY <1>2, <2>1 DEF Frame, Labels
  <2>3. Good(on, Top(t)) /\ Good(Dropped(f), Top(t))
    BY <1>2, <1>4, <2>2, EndGood, DroppedGood DEF EndLabels
  <2>4. UNCHANGED stack
    BY <1>4 DEF MarkNext
  <2>5. PICK g \in {on, Dropped(f)} : SetFrame(t, g)
    BY <1>4 DEF MarkNext
  <2>6. Good(g, Top(t))
    BY <2>3, <2>5
  <2> QED
    BY <1>2, <2>4, <2>5, <2>6, QuietStep
<1> QED
  BY <1>3, <1>4

LEMMA ExecuteOpsStep ==
  ASSUME IInv, NEW t \in Thread, ExecuteOps(t) PROVE IInv'
<1>1. PICK d \in Desc, o \in OpArrays :
        /\ ops[d] = <<>>
        /\ ops' = [ops EXCEPT ![d] = o]
        /\ stack' = [stack EXCEPT ![t] = <<d>>]
        /\ fr' = [fr EXCEPT ![t][d] = NewFrame(1)]
  BY DEF ExecuteOps
<1>2. UNCHANGED <<next, marked, nd, ndmark, status, pstatus, txid, lastTxId>>
  BY DEF ExecuteOps, heap, persist
<1>3. TypeOK /\ PreInv /\ PersistAfterDecision
  BY DEF IInv
<1>4. NewFrame(1) \in Frame /\ FrameInv(NewFrame(1), d)
  BY NewFrameType, NewFrameInv, ConstantsAssumption
<1>5. /\ fr'[t][d] = NewFrame(1)
      /\ \A e \in Desc : e # d => fr'[t][e] = fr[t][e]
      /\ \A u \in Thread : u # t => fr'[u] = fr[u] /\ stack'[u] = stack[u]
      /\ stack'[t] = <<d>>
      /\ fr' \in [Thread -> [Desc -> Frame]]
  BY <1>1, <1>3, <1>4 DEF TypeOK
<1>6. Monotone
  BY <1>1, <1>2, <1>3 DEF Monotone, TypeOK
<1>7. TypeOK'
  <2>1. ops' \in [Desc -> OpArrays \union {<<>>}]
    BY <1>1, <1>3 DEF TypeOK
  <2>2. stack' \in [Thread -> Seq(Desc)]
    <3>1. <<d>> \in Seq(Desc)
      OBVIOUS
    <3> QED
      BY <1>1, <1>3, <3>1 DEF TypeOK
  <2> QED
    BY <1>2, <1>3, <1>5, <2>1, <2>2 DEF TypeOK
<1>8. PreInv' /\ PersistAfterDecision'
  BY <1>2, <1>3 DEF PreInv, PersistAfterDecision
<1>9. ASSUME NEW e \in Desc PROVE FrameInv(fr[t][e], e)'
  <2>1. PICK g \in Frame : g = fr'[t][e] /\ FrameInv(g, e)
    BY <1>3, <1>4, <1>5 DEF IInv, TypeOK
  <2> QED
    BY <1>3, <1>6, <2>1, FrameInvStable DEF FrameInv, InOp, AtNode, HasOld, Won
<1>10. Top(t)' = d /\ Fr(t)' = NewFrame(1)
  BY <1>5 DEF Top, Last, Fr
<1>11. StackInv(t)'
  BY <1>5 DEF StackInv
<1>12. Resolved(Fr(t), Top(t))'
  BY <1>10 DEF Resolved, NewFrame
<1> QED
  BY <1>3, <1>5, <1>6, <1>7, <1>8, <1>9, <1>11, <1>12, StackStep

\* Thread t replaces two of its frames.
SetFrames(t, d, f, e, g) == fr' = [fr EXCEPT ![t] = [@ EXCEPT ![d] = f, ![e] = g]]

LEMMA TwoFrames ==
  ASSUME TypeOK, NEW t \in Thread, NEW d \in Desc, NEW e \in Desc, d # e,
         NEW f \in Frame, NEW g \in Frame, SetFrames(t, d, f, e, g)
  PROVE  /\ fr'[t][d] = f
         /\ fr'[t][e] = g
         /\ \A x \in Desc : x # d /\ x # e => fr'[t][x] = fr[t][x]
         /\ \A u \in Thread : u # t => fr'[u] = fr[u]
         /\ fr' \in [Thread -> [Desc -> Frame]]
<1> DEFINE a == [fr[t] EXCEPT ![d] = f]
           b == [a EXCEPT ![e] = g]
<1>1. fr \in [Thread -> [Desc -> Frame]] /\ fr' = [fr EXCEPT ![t] = b]
  BY DEF TypeOK, SetFrames
<1>2. a \in [Desc -> Frame] /\ a[d] = f /\ \A x \in Desc : x # d => a[x] = fr[t][x]
  BY <1>1
<1> HIDE DEF a
<1>3. /\ b \in [Desc -> Frame] /\ b[e] = g /\ b[d] = f
      /\ \A x \in Desc : x # d /\ x # e => b[x] = fr[t][x]
  BY <1>2
<1> HIDE DEF b
<1> QED
  BY <1>1, <1>3

\* The call of HelpOps for a transaction that is not on the stack yet: the
\* caller waits at "exist" for the frame above it.
LEMMA HelpCallStep ==
  ASSUME IInv, NEW t \in Thread, At(t, "help"),
         ~Settled(Fr(t).old.desc), ~Contains(stack[t], Fr(t).old.desc),
         stack' = [stack EXCEPT ![t] = Append(@, Fr(t).old.desc)],
         fr' = [fr EXCEPT ![t] = [@ EXCEPT ![Top(t)].pc = "exist",
                                  ![Fr(t).old.desc] = NewFrame(Fr(t).old.opid + 1)]],
         UNCHANGED <<heap, ops, status, persist>>
  PROVE  IInv'
<1> DEFINE f == Fr(t)
           d == Top(t)
           e == f.old.desc
           n == Len(stack[t])
           new == NewFrame(f.old.opid + 1)
           wait == [f EXCEPT !.pc = "exist"]
<1>1. TypeOK /\ PreInv /\ PersistAfterDecision /\ StackInv(t)
  BY DEF IInv
<1>2. /\ Busy(t) /\ f \in Frame /\ d \in Desc /\ f.pc = "help" /\ f.back = "marklist"
      /\ f.old # Null /\ f.curr \in NodeDesc /\ f.opid <= Len(ops[d])
  BY InOpFacts DEF At, FrameInv, AtNode, HasOld
<1>3. e \in Desc /\ f.old.opid \in 1..MaxOps
  <2>1. f.old \in NodeDesc
    BY <1>2 DEF Frame
  <2>2. f.old.desc # PreDesc
    BY <1>1 DEF PreInv, Settled, Persisted
  <2> QED
    BY <2>1, <2>2 DEF NodeDesc
<1>4. /\ n \in Nat \ {0} /\ d = stack[t][n] /\ stack[t] \in Seq(Desc)
  BY <1>1, <1>2, TopInStack DEF TypeOK
<1>5. \A i \in 1..n : stack[t][i] # e
  BY DEF Contains
<1>6. d # e
  BY <1>4, <1>5
<1>7. /\ stack'[t] \in Seq(Desc) /\ Len(stack'[t]) = n + 1
      /\ stack'[t][n + 1] = e
      /\ \A i \in 1..n : stack'[t][i] = stack[t][i]
  BY <1>1, <1>3, <1>4 DEF TypeOK
<1>8. f.old.opid + 1 \in 1..(MaxOps + 1)
  BY <1>3, ConstantsAssumption
<1>9. new \in Frame /\ FrameInv(new, e) /\ new.pc = "loop"
  BY <1>8, NewFrameType, NewFrameInv DEF NewFrame
<1>10. /\ wait \in Frame /\ FrameInv(wait, d)
       /\ wait.pc = "exist" /\ wait.old.desc = e
  <2>1. /\ wait \in Frame /\ wait.pc = "exist" /\ wait.old = f.old
        /\ wait.back = "marklist" /\ wait.curr = f.curr /\ wait.opid = f.opid
    BY <1>2 DEF Frame, Labels
  <2> QED
    BY <1>2, <2>1 DEF FrameInv, InOp, AtNode, HasOld, Won, PersistLabels, EndLabels
<1>11. /\ fr'[t][e] = new
       /\ fr'[t][d] = wait
       /\ \A g \in Desc : g # d /\ g # e => fr'[t][g] = fr[t][g]
       /\ \A u \in Thread : u # t => fr'[u] = fr[u] /\ stack'[u] = stack[u]
       /\ fr' \in [Thread -> [Desc -> Frame]]
  <2>1. SetFrames(t, d, wait, e, new)
    BY <1>1, <1>2 DEF TypeOK, Fr, SetFrames
  <2>2. \A u \in Thread : u # t => stack'[u] = stack[u]
    BY <1>1 DEF TypeOK
  <2> HIDE DEF new, wait, d, e
  <2>3. wait \in Frame /\ new \in Frame /\ d \in Desc /\ e \in Desc /\ d # e /\ TypeOK
    BY <1>1, <1>2, <1>3, <1>6, <1>9, <1>10
  <2>4. /\ fr'[t][d] = wait
        /\ fr'[t][e] = new
        /\ \A g \in Desc : g # d /\ g # e => fr'[t][g] = fr[t][g]
        /\ \A u \in Thread : u # t => fr'[u] = fr[u]
        /\ fr' \in [Thread -> [Desc -> Frame]]
    BY <2>1, <2>3, TwoFrames
  <2> QED
    BY <2>2, <2>4
<1>12. TypeOK'
  BY <1>1, <1>7, <1>11 DEF TypeOK, heap, persist
<1>13. Monotone /\ PreInv' /\ PersistAfterDecision'
  BY <1>1 DEF Monotone, PreInv, PersistAfterDecision, persist
<1>14. ASSUME NEW g \in Desc PROVE FrameInv(fr[t][g], g)'
  <2> HIDE DEF new, wait
  <2>1. PICK h \in Frame : h = fr'[t][g] /\ FrameInv(h, g)
    <3>1. CASE g = d
      BY <1>10, <1>11, <3>1
    <3>2. CASE g = e
      BY <1>9, <1>11, <3>2
    <3>3. CASE g # d /\ g # e
      BY <1>1, <1>11, <3>3 DEF IInv, TypeOK
    <3> QED
      BY <3>1, <3>2, <3>3
  <2> QED
    BY <1>1, <1>13, <2>1, FrameInvStable DEF FrameInv, InOp, AtNode, HasOld, Won
<1>15. StackInv(t)'
  <2>1. ASSUME NEW i \in 1..(n + 1), NEW j \in 1..(n + 1), stack'[t][i] = stack'[t][j]
        PROVE  i = j
    <3>1. i \in 1..n \/ i = n + 1
      BY <1>4
    <3>2. j \in 1..n \/ j = n + 1
      BY <1>4
    <3> QED
      BY <1>1, <1>5, <1>7, <2>1, <3>1, <3>2 DEF StackInv
  <2>2. ASSUME NEW i \in 1..n
        PROVE  /\ fr'[t][stack'[t][i]].pc = "exist"
               /\ fr'[t][stack'[t][i]].old.desc = stack'[t][i+1]
    <3>1. CASE i = n
      <4>1. stack'[t][i] = d /\ stack'[t][i+1] = e
        BY <1>4, <1>7, <3>1
      <4> HIDE DEF wait, new
      <4> QED
        BY <1>10, <1>11, <4>1
    <3>2. CASE i # n
      <4>1. i \in 1..(n - 1) /\ i + 1 \in 1..n
        BY <1>4, <3>2
      <4>2. stack[t][i] \in Desc /\ stack[t][i] # e
        BY <1>4, <1>5
      <4>3. stack[t][i] # d
        <5>1. n \in 1..n /\ i \in 1..n
          BY <1>4
        <5> QED
          BY <1>1, <1>4, <3>2, <5>1 DEF StackInv
      <4>4. fr[t][stack[t][i]].pc = "exist" /\ fr[t][stack[t][i]].old.desc = stack[t][i+1]
        BY <1>1, <4>1 DEF StackInv
      <4>5. stack'[t][i] = stack[t][i] /\ stack'[t][i+1] = stack[t][i+1]
        BY <1>7, <4>1
      <4>6. fr'[t][stack[t][i]] = fr[t][stack[t][i]]
        BY <1>11, <4>2, <4>3
      <4> QED
        BY <4>4, <4>5, <4>6
    <3> QED
      BY <3>1, <3>2
  <2>3. Len(stack'[t]) - 1 = n /\ Len(stack'[t]) = n + 1
    BY <1>4, <1>7
  <2> QED
    BY <2>1, <2>2, <2>3 DEF StackInv
<1>16. Resolved(Fr(t), Top(t))'
  <2>1. Top(t)' = e
    BY <1>7 DEF Top, Last
  <2> QED
    BY <1>9, <1>11, <2>1 DEF Resolved, Fr
<1> QED
  BY <1>11, <1>12, <1>13, <1>14, <1>15, <1>16, StackStep

LEMMA FinishPendingTxnStep ==
  ASSUME IInv, NEW t \in Thread, FinishPendingTxn(t) PROVE IInv'
<1> DEFINE f == Fr(t)
           e == f.old.desc
           on == [f EXCEPT !.pc = "exist"]
           cyc == [f EXCEPT !.pc = "cycle"]
<1>1. At(t, "help") /\ f.pc = "help" /\ UNCHANGED <<heap, ops, status, persist>>
  BY DEF FinishPendingTxn, At
<1>2. /\ f \in Frame /\ f.curr \in NodeDesc /\ f.old # Null /\ Busy(t)
      /\ f.opid <= Len(ops[Top(t)]) /\ f.back = "marklist"
  BY <1>1, InOpFacts DEF FrameInv, AtNode, HasOld
<1>3. /\ on \in Frame /\ cyc \in Frame
      /\ on.pc = "exist" /\ cyc.pc = "cycle"
      /\ \A g \in {on, cyc} : /\ g.back = f.back /\ g.opid = f.opid
                              /\ g.curr = f.curr /\ g.old = f.old
  BY <1>2 DEF Frame, Labels
<1>4. CASE Settled(e) /\ GoTo(t, "exist") /\ UNCHANGED stack
  <2>1. Good(on, Top(t))
    BY <1>2, <1>3, <1>4, FreeGood DEF Settled
  <2> QED
    BY <1>1, <1>2, <1>4, <2>1, QuietStep DEF GoTo
<1>5. CASE GoTo(t, "cycle") /\ UNCHANGED stack
  <2>1. Good(cyc, Top(t))
    BY <1>2, <1>3, FreeGood
  <2> QED
    BY <1>1, <1>2, <1>5, <2>1, QuietStep DEF GoTo
<1>6. CASE /\ ~Settled(e) /\ ~Contains(stack[t], e)
           /\ stack' = [stack EXCEPT ![t] = Append(@, e)]
           /\ fr' = [fr EXCEPT ![t] = [@ EXCEPT ![Top(t)].pc = "exist",
                                               ![e] = NewFrame(f.old.opid + 1)]]
  BY <1>1, <1>6, HelpCallStep
<1> QED
  BY <1>4, <1>5, <1>6 DEF FinishPendingTxn

-----------------------------------------------------------------------------
(* The theorems.                                                           *)

LEMMA NextIInv == IInv /\ [Next]_vars => IInv'
<1> SUFFICES ASSUME IInv, [Next]_vars PROVE IInv'
  OBVIOUS
<1>1. CASE UNCHANGED vars
  BY SMTT(30), <1>1 DEF vars, IInv, TypeOK, PreInv, PersistAfterDecision, FrameInv, StackInv,
     Resolved, Fr, Top, Busy, InOp, AtNode, HasOld, Won
<1>2. ASSUME NEW t \in Thread, ExecuteOps(t) PROVE IInv'
  BY <1>2, ExecuteOpsStep
<1>3. ASSUME NEW t \in Thread, Step(t) PROVE IInv'
  BY <1>3, HelpLoopStep, LocateNextStep, LocateSkipStep, LocateUnlinkStep,
     InsertAbsentStep, InsertLinkStep, ReadNodeDescStep, HelpMarkStep,
     FinishPendingTxnStep, CycleAbortStep, CheckKeyExistStep, CheckActiveStep,
     UpdateDescStep, DecideTxnStep, PersistClaimStep, PersistTicketStep,
     PersistStoreStep, PersistDoneStep, MarkNextStep, MarkDescStep, MarkNodeStep,
     UnlinkNodeStep DEF Step
<1> QED
  BY <1>1, <1>2, <1>3 DEF Next, Terminated

THEOREM Invariance == Spec => []IInv
<1> QED
  BY InitIInv, NextIInv, PTL DEF Spec

\* Every variable keeps its type.
THEOREM TypeCorrect == Spec => []TypeOK
<1>1. IInv => TypeOK
  BY DEF IInv
<1> QED
  BY Invariance, <1>1, PTL

\* A descriptor is persisted only after the outcome is fixed, whoever persists
\* it and however often (persistDesc).
THEOREM DecisionBeforePersistence == Spec => []PersistAfterDecision
<1>1. IInv => PersistAfterDecision
  BY DEF IInv
<1> QED
  BY Invariance, <1>1, PTL

\* FinishPendingTxn leaves behind it a decided transaction, through any depth
\* of recursive help and any cycle.
THEOREM HelpDecides == Spec => []FinishedIsDecided
<1>1. IInv => FinishedIsDecided
  <2> SUFFICES ASSUME IInv, NEW t \in Thread, NEW i \in 1..Len(stack[t]),
                      i = Len(stack[t]),
                      fr[t][stack[t][i]].pc \in {"exist", "active", "update"},
                      fr[t][stack[t][i]].old.desc # stack[t][i]
               PROVE  status[fr[t][stack[t][i]].old.desc] # "ACTIVE"
    BY DEF FinishedIsDecided
  <2>1. Busy(t) /\ Top(t) = stack[t][i] /\ Fr(t) = fr[t][stack[t][i]]
    BY DEF Busy, Top, Last, Fr, IInv, TypeOK
  <2> QED
    BY <2>1 DEF IInv, Resolved
<1> QED
  BY Invariance, <1>1, PTL

\* No step takes a node away from an undecided transaction (UpdateDesc).
THEOREM Isolation == Spec => TakenWhenDecided
<1> DEFINE Keeps == \A n \in NodeDesc :
              nd'[n].desc # nd[n].desc => status[nd[n].desc] # "ACTIVE"
<1>1. ASSUME IInv, [Next]_vars PROVE [Keeps]_vars
  <2>1. CASE UNCHANGED nd
    BY <2>1
  <2>2. ASSUME NEW t \in Thread, UpdateDesc(t) PROVE Keeps
    <3> DEFINE f == Fr(t)
    <3>1. At(t, "update") /\ f.pc = "update"
      BY <2>2 DEF UpdateDesc, At
    <3>2. f.curr \in NodeDesc /\ Mine(t) \in NodeDesc
          /\ (f.old.desc # Top(t) => status[f.old.desc] # "ACTIVE")
      BY <1>1, <3>1, InOpFacts DEF FrameInv, AtNode, HasOld, Resolved
    <3>3. CASE nd' = nd
      BY <3>3
    <3>4. CASE nd[f.curr] = f.old /\ nd' = [nd EXCEPT ![f.curr] = Mine(t)]
      <4>1. Mine(t).desc = Top(t)
        BY DEF Mine
      <4>2. nd'[f.curr] = Mine(t) /\ \A n \in NodeDesc : n # f.curr => nd'[n] = nd[n]
        BY <1>1, <3>2, <3>4 DEF IInv, TypeOK
      <4> QED
        BY <3>2, <3>4, <4>1, <4>2
    <3> QED
      BY <2>2, <3>3, <3>4 DEF UpdateDesc, CanTake
  <2>3. UNCHANGED nd \/ \E t \in Thread : UpdateDesc(t)
    BY ZenonT(30), <1>1 DEF Next, Step, Terminated, vars, heap, ExecuteOps, HelpLoop, LocateNext,
       LocateSkip, LocateUnlink, InsertAbsent, InsertLink, ReadNodeDesc, HelpMark,
       FinishPendingTxn, CycleAbort, CheckKeyExist, CheckActive, DecideTxn,
       PersistClaim, PersistTicket, PersistStore, PersistDone, MarkNext, MarkDesc,
       MarkNode, UnlinkNode
  <2> QED
    BY <2>1, <2>2, <2>3
<1> QED
  BY Invariance, <1>1, PTL DEF Spec, TakenWhenDecided

\* ExecuteOps returns only when the outcome of its transaction is fixed.
THEOREM ReturnDecided == Spec => ReturnIsDecided
<1> DEFINE Ends == \A t \in Thread, d \in Desc :
              stack[t] = <<d>> /\ stack'[t] = <<>> => status[d] # "ACTIVE"
<1>1. ASSUME IInv, [Next]_vars PROVE [Ends]_vars
  <2> SUFFICES ASSUME NEW t \in Thread, NEW d \in Desc,
                      stack[t] = <<d>>, stack'[t] = <<>>
               PROVE  status[d] # "ACTIVE"
    OBVIOUS
  <2>1. Busy(t) /\ Top(t) = d
    BY DEF Busy, Top, Last
  <2>2. stack # stack'
    BY SMTT(30)
  <2>3. ASSUME NEW u \in Thread, NEW s, stack' = [stack EXCEPT ![u] = s]
        PROVE  u = t /\ s = <<>>
    <3>1. stack \in [Thread -> Seq(Desc)] /\ <<d>> # <<>>
      BY <1>1 DEF IInv, TypeOK
    <3>2. u # t => stack'[t] = stack[t]
      BY <2>3, <3>1
    <3> QED
      BY <2>3, <3>1, <3>2
  <2>4. ASSUME NEW u \in Thread, DecideTxn(u) \/ MarkNext(u), stack' # stack
        PROVE  status[d] # "ACTIVE"
    <3>1. Return(u)
      BY <2>4 DEF DecideTxn, MarkNext
    <3>2. u = t
      BY <2>3, <3>1 DEF Return
    <3>3. CASE DecideTxn(u)
      BY <2>1, <2>4, <3>2, <3>3 DEF DecideTxn
    <3>4. CASE MarkNext(u)
      BY <1>1, <2>1, <3>2, <3>4, MarkFacts DEF MarkNext, EndLabels
    <3> QED
      BY <2>4, <3>3, <3>4
  <2>5. ASSUME NEW u \in Thread, ExecuteOps(u) PROVE FALSE
    <3>1. PICK e \in Desc : stack' = [stack EXCEPT ![u] = <<e>>]
      BY <2>5 DEF ExecuteOps
    <3> QED
      BY <2>3, <3>1
  <2>6. ASSUME NEW u \in Thread, FinishPendingTxn(u), stack' # stack PROVE FALSE
    <3>1. stack' = [stack EXCEPT ![u] = Append(stack[u], Fr(u).old.desc)]
      BY <2>6 DEF FinishPendingTxn
    <3>2. stack[u] \in Seq(Desc)
      BY <1>1 DEF IInv, TypeOK
    <3>3. Append(stack[u], Fr(u).old.desc) # <<>>
      <4> DEFINE S == Desc \union {Fr(u).old.desc}
      <4>1. stack[u] \in Seq(S) /\ Fr(u).old.desc \in S
        BY <3>2
      <4> QED
        BY <4>1
    <3> QED
      BY <2>3, <3>1, <3>3
  <2>7. stack' = stack \/ \E u \in Thread : DecideTxn(u) \/ MarkNext(u) \/ ExecuteOps(u)
                                             \/ FinishPendingTxn(u)
    BY ZenonT(30), <1>1 DEF Next, Step, Terminated, vars, HelpLoop, LocateNext,
       LocateSkip, LocateUnlink, InsertAbsent, InsertLink, ReadNodeDesc, HelpMark,
       CycleAbort, CheckKeyExist, CheckActive, UpdateDesc,
       PersistClaim, PersistTicket, PersistStore, PersistDone, MarkDesc,
       MarkNode, UnlinkNode
  <2> QED
    BY <2>2, <2>4, <2>5, <2>6, <2>7
<1> QED
  BY Invariance, <1>1, PTL DEF Spec, ReturnIsDecided

-----------------------------------------------------------------------------
(* Nodes that are ready, and what no step takes back.                      *)

LEMMA NodeDescFacts ==
  ASSUME NEW n \in NodeDesc
  PROVE  /\ n \in Node /\ n # m_head /\ n # m_tail
         /\ n.desc # PreDesc =>
              n.by \in Thread /\ n.desc \in Desc /\ n.opid \in 1..MaxOps
         /\ n.desc = PreDesc => n.opid \in Key
BY ConstantsAssumption, NullAssumption DEF Node, NodeDesc

LEMMA ReadyKey ==
  ASSUME TypeOK, NEW n, Ready(n)
  PROVE  /\ n \in Node
         /\ KeyOf(n) \in 0..(MaxKey + 1)
         /\ n \in NodeDesc => KeyOf(n) \in Key
         /\ n \in NodeDesc /\ n.desc # PreDesc =>
              /\ n.opid \in 1..Len(ops[n.desc])
              /\ ops[n.desc] # <<>>
<1>1. CASE n \in {m_head, m_tail}
  BY <1>1, NullAssumption, ConstantsAssumption DEF KeyOf, Node, Key
<1>2. CASE n \in NodeDesc /\ n.desc = PreDesc
  BY <1>2, NodeDescFacts, ConstantsAssumption DEF KeyOf, Key
<1>3. CASE n \in NodeDesc /\ n.desc # PreDesc
  <2>1. /\ n.desc \in Desc /\ n.opid \in 1..MaxOps /\ n.opid <= Len(ops[n.desc])
        /\ n \in Node /\ n # m_head /\ n # m_tail
    BY <1>3, NodeDescFacts DEF Ready
  <2>2. ops[n.desc] \in OpArrays /\ ops[n.desc] # <<>>
    BY <2>1, ConstantsAssumption DEF TypeOK
  <2>3. ops[n.desc] \in Seq(Operator) /\ n.opid \in 1..Len(ops[n.desc])
    BY <2>1, <2>2, ConstantsAssumption
  <2>4. ops[n.desc][n.opid] \in Operator
    BY <2>3
  <2>5. KeyOf(n) = ops[n.desc][n.opid].key
    BY <1>3, <2>1 DEF KeyOf
  <2>6. KeyOf(n) \in Key
    BY <2>4, <2>5 DEF Operator
  <2> QED
    BY <1>3, <2>1, <2>2, <2>3, <2>6, ConstantsAssumption DEF Key
<1> QED
  BY <1>1, <1>2, <1>3 DEF Ready

LEMMA SentinelKeys ==
  /\ KeyOf(m_head) = 0 /\ KeyOf(m_tail) = MaxKey + 1
  /\ Ready(m_head) /\ Ready(m_tail)
BY NullAssumption DEF KeyOf, Ready

\* The frame g follows f in the run of transaction d: no operation is run again.
Advance(f, g, d) ==
  \/ g.opid >= f.opid /\ (InOp(g) => InOp(f) \/ status[d] = "ACTIVE")
  \/ status'[d] # "ACTIVE" /\ ~InOp(g)

\* What no step takes back.
Forward ==
  /\ \A d \in AllDesc : status[d] # "ACTIVE" => status'[d] = status[d]
  /\ \A d \in Desc : ops[d] # <<>> => ops'[d] = ops[d]
  /\ \A d \in AllDesc : Persisted(d) => Persisted(d)'
  /\ \A n \in NodeDesc : ndmark[n] => ndmark'[n]
  /\ \A t \in Thread, d \in Desc : Advance(fr[t][d], fr'[t][d], d)

LEMMA ReadyStable ==
  ASSUME TypeOK, TypeOK', Forward, NEW n, Ready(n)
  PROVE  Ready(n)' /\ KeyOf(n)' = KeyOf(n)
<1>1. CASE n \in {m_head, m_tail} \/ (n \in NodeDesc /\ n.desc = PreDesc)
  BY <1>1 DEF Ready, KeyOf
<1>2. CASE n \in NodeDesc /\ n.desc # PreDesc
  <2>1. n.by \in Thread /\ n.desc \in Desc /\ n.opid \in 1..MaxOps
    BY <1>2, NodeDescFacts
  <2>2. ops'[n.desc] = ops[n.desc]
    BY <1>2, <2>1, ReadyKey DEF Forward
  <2> DEFINE f == fr[n.by][n.desc]
             g == fr'[n.by][n.desc]
  <2>3. f.opid \in Nat /\ g.opid \in Nat /\ n.opid \in Nat /\ n.desc \in AllDesc
    <3>1. f \in Frame /\ g \in Frame
      BY <2>1 DEF TypeOK
    <3>2. f.opid \in 1..(MaxOps + 1) /\ g.opid \in 1..(MaxOps + 1)
      BY <3>1 DEF Frame
    <3> QED
      BY <2>1, <3>2, ConstantsAssumption DEF AllDesc
  <2>4. Advance(f, g, n.desc)
    BY <2>1 DEF Forward
  <2>5. Unborn(n)' => Unborn(n)
    <3> SUFFICES ASSUME Unborn(n)' PROVE Unborn(n)
      OBVIOUS
    <3>1. n.opid >= g.opid /\ (status'[n.desc] = "ACTIVE" \/ InOp(g))
      BY DEF Unborn, InOp
    <3>2. g.opid >= f.opid /\ (InOp(g) => InOp(f) \/ status[n.desc] = "ACTIVE")
      BY <2>4, <3>1 DEF Advance
    <3>3. status'[n.desc] = "ACTIVE" => status[n.desc] = "ACTIVE"
      BY <2>3 DEF Forward
    <3>4. n.opid >= f.opid
      BY <2>3, <3>1, <3>2
    <3> QED
      BY <1>2, <3>1, <3>2, <3>3, <3>4 DEF Unborn
  <2> QED
    BY <1>2, <2>2, <2>5, NodeDescFacts DEF Ready, KeyOf
<1> QED
  BY <1>1, <1>2 DEF Ready

LEMMA EntryStable ==
  ASSUME TypeOK, TypeOK', Forward, NEW d \in Desc, NEW e, NEW type,
         EntryOf(e, d, type)
  PROVE  EntryOf(e, d, type)'
<1>1. Ready(e.node)' /\ Ready(e.pred)' /\ KeyOf(e.node)' = KeyOf(e.node)
  BY ReadyStable DEF EntryOf
<1>2. PICK i \in 1..Len(ops[d]) : ops[d][i] = [type |-> type, key |-> KeyOf(e.node)]
  BY DEF EntryOf
<1>3. ops[d] # <<>>
  BY <1>2
<1>4. ops'[d] = ops[d]
  BY <1>3 DEF Forward
<1> QED
  BY <1>1, <1>2, <1>4 DEF EntryOf

\* A frame that does not change stays sound.
LEMMA SoundStable ==
  ASSUME TypeOK, TypeOK', Forward, NEW d \in Desc, NEW f \in Frame,
         FrameInv(f, d), Sound(f, d)
  PROVE  Sound(f, d)'
<1>1. Ready(f.curr) /\ Ready(f.pred) /\ Ready(f.pnext)
  BY DEF Sound, RefInv
<1>2. RefInv(f, d)'
  <2>1. Ready(f.curr)' /\ Ready(f.pred)' /\ Ready(f.pnext)'
    BY <1>1, ReadyStable
  <2>2. \A i \in 1..Len(f.ins) : EntryOf(f.ins[i], d, "INSERT")'
    BY EntryStable DEF Sound, RefInv
  <2>3. \A i \in 1..Len(f.del) : EntryOf(f.del[i], d, "DELETE")'
    BY EntryStable DEF Sound, RefInv
  <2>4. \A i \in 1..Len(f.todo) : EntryOf(f.todo[i], d, Undone(d))'
    <3> SUFFICES ASSUME NEW i \in 1..Len(f.todo)
                 PROVE  EntryOf(f.todo[i], d, Undone(d))'
      OBVIOUS
    <3>1. f.todo # <<>>
      OBVIOUS
    <3>2. status[d] # "ACTIVE"
      BY <3>1 DEF Sound, RefInv, FrameInv
    <3>3. Undone(d)' = Undone(d)
      BY <3>2 DEF Undone, Forward, AllDesc
    <3>4. EntryOf(f.todo[i], d, Undone(d))
      BY DEF Sound, RefInv
    <3>5. PICK type : type = Undone(d)
      OBVIOUS
    <3>6. EntryOf(f.todo[i], d, type)'
      BY <3>4, <3>5, EntryStable
    <3> QED
      BY <3>3, <3>5, <3>6
  <2> QED
    BY <2>1, <2>2, <2>3, <2>4 DEF Sound, RefInv, Won
<1>3. WalkInv(f, d)'
  <2>1. KeyOf(f.curr)' = KeyOf(f.curr) /\ KeyOf(f.pred)' = KeyOf(f.pred)
    BY <1>1, ReadyStable
  <2>2. f.pc = "unlinknode" => KeyOf(Head(f.todo).node)' = KeyOf(Head(f.todo).node)
    <3> SUFFICES ASSUME f.pc = "unlinknode"
                 PROVE  KeyOf(Head(f.todo).node)' = KeyOf(Head(f.todo).node)
      OBVIOUS
    <3>1. f.todo # <<>> /\ f.todo \in Seq(Entry)
      BY DEF FrameInv, EndLabels, Frame
    <3>2. 1 \in 1..Len(f.todo) /\ Head(f.todo) = f.todo[1]
      BY <3>1
    <3>3. Ready(Head(f.todo).node)
      BY <3>2 DEF Sound, RefInv, EntryOf
    <3> QED
      BY <3>3, ReadyStable
  <2>3. InOp(f) => ops'[d] = ops[d]
    <3> SUFFICES ASSUME InOp(f) PROVE ops'[d] = ops[d]
      OBVIOUS
    <3>1. f.opid <= Len(ops[d]) /\ f.opid \in 1..(MaxOps + 1)
      BY DEF FrameInv, Frame
    <3>2. ops[d] # <<>>
      BY <3>1, ConstantsAssumption
    <3> QED
      BY <3>2 DEF Forward
  <2>4. f.pc \in {"next", "skip", "unlink", "absent", "link"} \/ AtNode(f) => InOp(f)
    BY DEF AtNode, HasOld, InOp, PersistLabels, EndLabels
  <2> QED
    BY <2>1, <2>2, <2>3, <2>4 DEF WalkInv, Sound, AtNode, HasOld
<1>4. MarkInv(f, d)'
  <2>1. f.pc = "helpmark" => f.curr \in NodeDesc
    BY DEF FrameInv, AtNode
  <2>2. f.pc = "marknode" => Head(f.todo).node \in NodeDesc
    BY TodoHead DEF FrameInv, EndLabels
  <2>3. d \in AllDesc
    BY DEF AllDesc
  <2> QED
    BY <2>1, <2>2, <2>3 DEF MarkInv, Sound, Forward
<1> QED
  BY <1>2, <1>3, <1>4 DEF Sound

-----------------------------------------------------------------------------
(* What a step has to show.                                                *)

\* A step of thread t replaces the frame it runs by f.
LEMMA ForwardStep ==
  ASSUME TypeOK, NEW t \in Thread, Busy(t), NEW f, SetFrame(t, f),
         Advance(Fr(t), f, Top(t)),
         \A d \in AllDesc : status[d] # "ACTIVE" => status'[d] = status[d],
         ops' = ops,
         \A d \in AllDesc : Persisted(d) => Persisted(d)',
         \A n \in NodeDesc : ndmark[n] => ndmark'[n]
  PROVE  /\ Forward
         /\ fr'[t][Top(t)] = f
         /\ \A u \in Thread, d \in Desc :
              u # t \/ d # Top(t) => fr'[u][d] = fr[u][d]
<1>1. Top(t) \in Desc
  BY TopInStack
<1>2. /\ fr'[t][Top(t)] = f
      /\ \A u \in Thread, d \in Desc :
           u # t \/ d # Top(t) => fr'[u][d] = fr[u][d]
  BY <1>1 DEF SetFrame, TypeOK
<1>3. ASSUME NEW u \in Thread, NEW d \in Desc
      PROVE  Advance(fr[u][d], fr'[u][d], d)
  <2>1. CASE u = t /\ d = Top(t)
    BY <1>2, <2>1 DEF Fr
  <2>2. CASE u # t \/ d # Top(t)
    <3>1. fr[u][d] \in Frame
      BY DEF TypeOK
    <3>2. fr[u][d].opid \in 1..(MaxOps + 1)
      BY <3>1 DEF Frame
    <3>3. fr[u][d].opid >= fr[u][d].opid
      BY <3>2, ConstantsAssumption
    <3> QED
      BY <1>2, <2>2, <3>3 DEF Advance
  <2> QED
    BY <2>1, <2>2
<1> QED
  BY <1>2, <1>3 DEF Forward

LEMMA ShapeStep ==
  ASSUME IInv, IInv', ShapeInv, Forward, NEW t \in Thread, Busy(t), NEW f,
         fr'[t][Top(t)] = f,
         \A u \in Thread, d \in Desc :
           u # t \/ d # Top(t) => fr'[u][d] = fr[u][d],
         stack' = stack,
         Sound(f, Top(t))', HeapInv', NodeInv', Sorted', MarkOrder'
  PROVE  ShapeInv'
<1>1. TypeOK /\ TypeOK' /\ Top(t) \in Desc /\ Top(t)' = Top(t)
  BY TopInStack DEF IInv, Top
<1>2. IdleInv'
  <2> SUFFICES ASSUME NEW u \in Thread, NEW d \in Desc, ~OnStack(u, d)'
               PROVE  fr'[u][d] = NewFrame(1)
    BY DEF IdleInv, NewFrame
  <2>1. ~OnStack(u, d) /\ fr[u][d] = NewFrame(1)
    BY DEF OnStack, ShapeInv, IdleInv
  <2>2. u # t \/ d # Top(t)
    BY <1>1, <2>1, TopInStack DEF OnStack
  <2> QED
    BY <2>1, <2>2
<1>3. ASSUME NEW u \in Thread, NEW d \in Desc
      PROVE  Sound(fr[u][d], d)'
  <2>1. CASE u = t /\ d = Top(t)
    <3>1. fr'[u][d] = f /\ Sound(f, d)'
      BY <1>1, <2>1 DEF Sound, RefInv, WalkInv, MarkInv, Won, AtNode, HasOld
    <3> QED
      BY <3>1 DEF Sound, RefInv, WalkInv, MarkInv, Won, AtNode, HasOld
  <2>2. CASE u # t \/ d # Top(t)
    <3>1. PICK g \in Frame : g = fr[u][d]
      BY <1>1 DEF TypeOK
    <3>2. FrameInv(g, d) /\ Sound(g, d)
      BY <3>1 DEF IInv, ShapeInv
    <3>3. Sound(g, d)' /\ fr'[u][d] = g
      BY <1>1, <2>2, <3>1, <3>2, SoundStable
    <3> QED
      BY <3>3 DEF Sound, RefInv, WalkInv, MarkInv, Won, AtNode, HasOld
  <2> QED
    BY <2>1, <2>2
<1> QED
  BY <1>2, <1>3 DEF ShapeInv

\* What the heap promises survives a step if each pointer and each mark that the
\* step writes keeps it.
LEMMA HeapStep ==
  ASSUME IInv, IInv', ShapeInv, Forward,
         \A n \in Node : next'[n] # next[n] =>
           /\ Ready(n)' /\ Ready(next[n])'
           /\ next'[n] = m_tail \/ KeyOf(n)' < KeyOf(next[n])',
         \A n \in Node : marked'[n] # marked[n] =>
           Ready(n)' /\ (n \in NodeDesc => ndmark'[n]),
         \A n \in NodeDesc : nd'[n] # nd[n] =>
           Ready(n)' /\ Ready(nd[n])' /\ KeyOf(nd[n])' = KeyOf(n)',
         \A n \in NodeDesc : ndmark'[n] # ndmark[n] => Ready(n)'
  PROVE  HeapInv' /\ NodeInv' /\ Sorted' /\ MarkOrder'
<1>1. TypeOK /\ TypeOK' /\ HeapInv /\ NodeInv /\ Sorted /\ MarkOrder
  BY DEF IInv, ShapeInv
<1>2. \A n \in Node : Ready(n) => Ready(n)' /\ KeyOf(n)' = KeyOf(n)
  BY <1>1, ReadyStable
<1>3. HeapInv'
  <2>1. ASSUME NEW n \in Node PROVE Ready(next[n])'
    <3>1. CASE next'[n] = next[n]
      <4>1. Ready(next[n]) /\ next[n] \in Node
        BY <1>1 DEF HeapInv, TypeOK
      <4> QED
        BY <1>2, <3>1, <4>1
    <3> QED
      BY <3>1
  <2>2. ASSUME NEW n \in Node, ~Ready(n)' PROVE next'[n] = m_tail /\ ~marked'[n]
    BY <1>1, <1>2, <2>2 DEF HeapInv
  <2>3. ASSUME NEW n \in NodeDesc, ~Ready(n)' PROVE nd'[n] = n /\ ~ndmark'[n]
    BY <1>1, <1>2, <2>3 DEF HeapInv, Node
  <2> QED
    BY <2>1, <2>2, <2>3 DEF HeapInv
<1>4. NodeInv'
  <2> SUFFICES ASSUME NEW n \in NodeDesc, Ready(n)', nd'[n] = nd[n]
               PROVE  Ready(nd[n])' /\ KeyOf(nd[n])' = KeyOf(n)'
    BY DEF NodeInv
  <2>1. CASE Ready(n)
    <3>1. Ready(nd[n]) /\ KeyOf(nd[n]) = KeyOf(n) /\ n \in Node /\ nd[n] \in Node
      BY <1>1, <2>1 DEF NodeInv, TypeOK, Node
    <3> QED
      BY <1>2, <2>1, <3>1
  <2>2. CASE ~Ready(n)
    BY <1>1, <2>2 DEF HeapInv
  <2> QED
    BY <2>1, <2>2
<1>5. Sorted'
  <2> SUFFICES ASSUME NEW n \in Node, next'[n] = next[n], next[n] # m_tail
               PROVE  KeyOf(n)' < KeyOf(next[n])'
    BY DEF Sorted
  <2>1. Ready(n) /\ Ready(next[n]) /\ next[n] \in Node
    BY <1>1 DEF HeapInv, TypeOK
  <2> QED
    BY <1>1, <1>2, <2>1 DEF Sorted
<1>6. MarkOrder'
  <2> SUFFICES ASSUME NEW n \in NodeDesc, marked'[n] PROVE ndmark'[n]
    BY DEF MarkOrder
  <2>1. n \in Node
    BY DEF Node
  <2> QED
    BY <1>1, <2>1 DEF MarkOrder, TypeOK, Forward
<1> QED
  BY <1>3, <1>4, <1>5, <1>6

LEMMA SameHeap ==
  ASSUME IInv, IInv', ShapeInv, Forward, UNCHANGED heap
  PROVE  HeapInv' /\ NodeInv' /\ Sorted' /\ MarkOrder'
BY HeapStep DEF heap

\* A step that changes nothing but the frame of its thread.
LEMMA QuietShape ==
  ASSUME IInv, IInv', ShapeInv, NEW t \in Thread, Busy(t), NEW f,
         SetFrame(t, f), Sound(f, Top(t)), Advance(Fr(t), f, Top(t)),
         UNCHANGED <<heap, ops, status, persist, stack>>
  PROVE  ShapeInv'
<1>1. TypeOK /\ TypeOK' /\ Top(t) \in Desc /\ Top(t)' = Top(t)
  BY TopInStack DEF IInv, Top
<1>2. /\ Forward
      /\ fr'[t][Top(t)] = f
      /\ \A u \in Thread, d \in Desc :
           u # t \/ d # Top(t) => fr'[u][d] = fr[u][d]
  BY <1>1, ForwardStep DEF Persisted, persist, heap
<1>3. f \in Frame
  BY <1>1, <1>2 DEF TypeOK
<1>4. FrameInv(f, Top(t))
  BY <1>1, <1>2 DEF IInv, FrameInv, InOp, AtNode, HasOld, Won
<1>5. PICK d \in Desc : d = Top(t)
  BY <1>1
<1>6. Sound(f, d)'
  BY <1>1, <1>2, <1>3, <1>4, <1>5, SoundStable
<1>7. Sound(f, Top(t))'
  BY <1>1, <1>5, <1>6
<1> QED
  BY <1>2, <1>7, SameHeap, ShapeStep

-----------------------------------------------------------------------------
(* The frames of an operation.                                             *)

LEMMA HeadKey ==
  ASSUME NEW op \in Operator
  PROVE  /\ op.key \in Key /\ op.key \in Nat
         /\ KeyOf(m_head) < op.key /\ op.key < KeyOf(m_tail)
BY SentinelKeys, ConstantsAssumption DEF Operator, Key

\* What a frame in an operation has, besides InOpFacts.
LEMMA WalkFacts ==
  ASSUME IInv, ShapeInv, NEW t \in Thread,
         \E p \in {"next", "skip", "unlink", "absent", "link", "read", "helpmark",
                   "help", "cycle", "exist", "active", "update"} : At(t, p)
  PROVE  /\ Sound(Fr(t), Top(t))
         /\ Fr(t).todo = <<>>
         /\ Ready(Fr(t).curr) /\ Ready(Fr(t).pred) /\ Ready(Fr(t).pnext)
         /\ Op(t) = ops[Top(t)][Fr(t).opid]
<1>1. /\ Busy(t) /\ Top(t) \in Desc /\ Fr(t).back = "marklist"
      /\ Fr(t).opid \in 1..MaxOps /\ Fr(t).pc \notin PersistLabels
  BY InOpFacts
<1>2. Sound(Fr(t), Top(t))
  BY <1>1 DEF ShapeInv, Fr
<1>3. ~Won(Fr(t)) /\ InOp(Fr(t))
  BY <1>1 DEF Won, InOp, At, PersistLabels, EndLabels
<1> QED
  BY <1>2, <1>3 DEF Sound, RefInv, Op

\* An operation goes on, or returns to HelpOps.
LEMMA OpAdvance ==
  ASSUME IInv, NEW t \in Thread,
         \E p \in {"next", "skip", "unlink", "absent", "link", "read", "helpmark",
                   "help", "cycle", "exist", "active", "update"} : At(t, p),
         NEW g, g.opid = Fr(t).opid \/ (g.opid = Fr(t).opid + 1 /\ ~InOp(g))
  PROVE  Advance(Fr(t), g, Top(t))
<1>1. Fr(t).opid \in 1..MaxOps /\ InOp(Fr(t))
  BY InOpFacts DEF InOp, At, PersistLabels, EndLabels
<1>2. g.opid >= Fr(t).opid
  BY <1>1, ConstantsAssumption
<1> QED
  BY <1>1, <1>2 DEF Advance

LEMMA OpSound ==
  ASSUME NEW f, NEW d, RefInv(f, d), NEW g \in Frame,
         g.ins = f.ins, g.del = f.del, g.todo = <<>>, g.back = "marklist",
         Ready(g.curr), Ready(g.pred), Ready(g.pnext), NEW k, k = ops[d][g.opid].key,
         \/ g.pc = "loop" /\ g.curr = m_head
         \/ g.pc = "decide"
         \/ g.pc = "next" /\ KeyOf(g.curr) < k
         \/ /\ g.pc \in {"skip", "unlink"}
            /\ KeyOf(g.pred) < k
            /\ g.curr = m_tail \/ KeyOf(g.pred) < KeyOf(g.curr)
         \/ /\ g.pc \in {"absent", "link"}
            /\ KeyOf(g.pred) < k /\ k < KeyOf(g.curr)
            /\ ops[d][g.opid].type = "INSERT"
         \/ /\ g.pc \in {"read", "help", "cycle", "exist", "active", "update"}
            /\ KeyOf(g.curr) = k
         \/ g.pc = "helpmark" /\ KeyOf(g.curr) = k /\ ndmark[g.curr]
  PROVE  Sound(g, d)
<1>1. RefInv(g, d)
  BY DEF RefInv
<1>2. WalkInv(g, d)
  BY DEF WalkInv, AtNode, HasOld
<1>3. MarkInv(g, d)
  BY DEF MarkInv, EndLabels
<1> QED
  BY <1>1, <1>2, <1>3 DEF Sound

\* An operation returns to HelpOps.
LEMMA FinishedSound ==
  ASSUME NEW f \in Frame, NEW d, RefInv(f, d), f.todo = <<>>, f.back = "marklist",
         f.opid \in 1..MaxOps, NEW r \in {"OK", "SKIP", "FAIL"}
  PROVE  /\ Sound(Finished(f, r), d)
         /\ Finished(f, r).opid = f.opid + 1
         /\ ~InOp(Finished(f, r))
<1>1. Finished(f, r) \in Frame
  <2>1. f.opid + 1 \in 1..(MaxOps + 1) /\ m_head \in Node /\ "loop" \in Labels
    BY ConstantsAssumption DEF Labels, Node
  <2> QED
    BY <2>1 DEF Finished, Frame
<1>2. /\ Finished(f, r).pc = "loop" /\ Finished(f, r).ins = f.ins
      /\ Finished(f, r).del = f.del /\ Finished(f, r).todo = <<>>
      /\ Finished(f, r).back = "marklist" /\ Finished(f, r).curr = m_head
      /\ Finished(f, r).pred = m_head /\ Finished(f, r).pnext = m_head
      /\ Finished(f, r).opid = f.opid + 1
  BY DEF Finished, Frame
<1>3. Sound(Finished(f, r), d)
  BY <1>1, <1>2, SentinelKeys, OpSound
<1> QED
  BY <1>2, <1>3 DEF InOp, PersistLabels, EndLabels

\* The next frame of a walk that has come to an unmarked node.
LEMMA ArrivedSound ==
  ASSUME TypeOK, NEW f \in Frame, NEW d, Sound(f, d), f.pc \in {"skip", "unlink"},
         f.todo = <<>>, f.back = "marklist", f.opid \in 1..MaxOps,
         NEW op \in Operator, op = ops[d][f.opid]
  PROVE  /\ Sound(Arrived(f, op), d)
         /\ \/ Arrived(f, op).opid = f.opid
            \/ Arrived(f, op).opid = f.opid + 1 /\ ~InOp(Arrived(f, op))
<1> DEFINE k == KeyOf(f.curr)
           g == [f EXCEPT !.pnext = m_head]
           at(p) == [g EXCEPT !.pc = p]
<1>1. /\ RefInv(f, d) /\ KeyOf(f.pred) < op.key
      /\ Ready(f.curr) /\ Ready(f.pred)
  BY DEF Sound, RefInv, WalkInv
<1>2. k \in Nat /\ op.key \in Nat
  BY <1>1, ReadyKey, HeadKey, ConstantsAssumption
<1>3. /\ g \in Frame /\ g.ins = f.ins /\ g.del = f.del /\ g.todo = <<>>
      /\ g.back = "marklist" /\ g.opid = f.opid
      /\ g.curr = f.curr /\ g.pred = f.pred /\ g.pnext = m_head
  BY DEF Frame, Node
<1>4. RefInv(g, d)
  BY <1>1, <1>3, SentinelKeys DEF RefInv
<1>5. ASSUME NEW p \in {"next", "read", "absent"}
      PROVE  /\ at(p) \in Frame /\ at(p).pc = p
             /\ at(p).ins = f.ins /\ at(p).del = f.del /\ at(p).todo = <<>>
             /\ at(p).back = "marklist" /\ at(p).opid = f.opid
             /\ at(p).curr = f.curr /\ at(p).pred = f.pred /\ at(p).pnext = m_head
  BY <1>3 DEF Frame, Labels
<1>6. CASE k < op.key
  <2>1. Sound(at("next"), d)
    BY <1>1, <1>5, <1>6, SentinelKeys, OpSound
  <2> QED
    BY <1>5, <1>6, <2>1 DEF Arrived
<1>7. CASE k = op.key
  <2>1. Sound(at("read"), d)
    BY <1>1, <1>5, <1>7, SentinelKeys, OpSound
  <2> QED
    BY <1>2, <1>5, <1>7, <2>1 DEF Arrived
<1>8. CASE op.key < k /\ op.type = "INSERT"
  <2>1. Sound(at("absent"), d)
    BY <1>1, <1>5, <1>8, SentinelKeys, OpSound
  <2> QED
    BY <1>2, <1>5, <1>8, <2>1 DEF Arrived
<1>9. CASE op.key < k /\ op.type # "INSERT"
  <2>1. /\ Sound(Finished(g, "FAIL"), d)
        /\ Finished(g, "FAIL").opid = f.opid + 1 /\ ~InOp(Finished(g, "FAIL"))
    BY <1>3, <1>4, FinishedSound
  <2>2. Arrived(f, op) = Finished(g, "FAIL")
    BY <1>2, <1>9 DEF Arrived
  <2> QED
    BY <2>1, <2>2
<1> QED
  BY <1>2, <1>6, <1>7, <1>8, <1>9

-----------------------------------------------------------------------------
(* The steps of an operation that leave the heap alone.                    *)

LEMMA HelpLoopShape ==
  ASSUME IInv, IInv', ShapeInv, NEW t \in Thread, HelpLoop(t) PROVE ShapeInv'
<1> DEFINE d == Top(t)
           f == Fr(t)
           at(p) == [f EXCEPT !.pc = p]
<1>1. /\ Busy(t) /\ f.pc = "loop" /\ f \in Frame /\ f.back = "marklist"
      /\ d \in Desc /\ ~Won(f) /\ f.opid \in Nat
  <2>1. Busy(t) /\ f.pc = "loop"
    BY DEF HelpLoop, At
  <2> QED
    BY <2>1, Running, ConstantsAssumption
    DEF Good, FrameInv, Frame, Won, PersistLabels, EndLabels
<1>2. RefInv(f, d) /\ f.todo = <<>> /\ Ready(f.curr) /\ Ready(f.pred) /\ Ready(f.pnext)
  BY <1>1 DEF ShapeInv, Sound, RefInv, Fr
<1>3. ASSUME NEW p \in {"next", "decide"}
      PROVE  /\ at(p) \in Frame /\ at(p).pc = p
             /\ at(p).ins = f.ins /\ at(p).del = f.del /\ at(p).todo = <<>>
             /\ at(p).back = "marklist" /\ at(p).opid = f.opid
             /\ at(p).curr = f.curr /\ at(p).pred = f.pred /\ at(p).pnext = f.pnext
  BY <1>1, <1>2 DEF Frame, Labels
<1> DEFINE more == /\ status[d] = "ACTIVE"
                   /\ f.ret # "FAIL"
                   /\ f.opid <= Len(ops[d])
<1>4. CASE more
  <2>1. SetFrame(t, at("next"))
    BY <1>4 DEF HelpLoop, GoTo
  <2>2. f.curr = m_head
    BY <1>1 DEF ShapeInv, Sound, WalkInv, Fr
  <2>3. KeyOf(f.curr) < ops[d][f.opid].key
    <3>1. f.opid \in 1..Len(ops[d])
      BY <1>1, <1>4, ConstantsAssumption DEF Frame
    <3>2. ops[d] # <<>>
      BY <3>1
    <3>3. ops[d] \in Seq(Operator)
      BY <1>1, <3>2, ConstantsAssumption DEF IInv, TypeOK
    <3>4. ops[d][f.opid] \in Operator
      BY <3>1, <3>3
    <3> QED
      BY <2>2, <3>4, HeadKey
  <2>4. Sound(at("next"), d)
    BY <1>2, <1>3, <2>3, OpSound
  <2>5. Advance(f, at("next"), d)
    BY <1>1, <1>3, <1>4 DEF Advance
  <2> QED
    BY <1>1, <2>1, <2>4, <2>5, QuietShape DEF HelpLoop
<1>5. CASE ~more
  <2>1. SetFrame(t, at("decide"))
    BY <1>5 DEF HelpLoop, GoTo
  <2>2. Sound(at("decide"), d)
    BY <1>2, <1>3, OpSound
  <2>3. Advance(f, at("decide"), d)
    BY <1>1, <1>3 DEF Advance, InOp
  <2> QED
    BY <1>1, <2>1, <2>2, <2>3, QuietShape DEF HelpLoop
<1> QED
  BY <1>4, <1>5

LEMMA LocateNextShape ==
  ASSUME IInv, IInv', ShapeInv, NEW t \in Thread, LocateNext(t) PROVE ShapeInv'
<1> DEFINE d == Top(t)
           f == Fr(t)
           c == next[f.curr]
           g == [f EXCEPT !.pc = "skip", !.pred = f.curr, !.pnext = c, !.curr = c]
<1>1. At(t, "next") /\ SetFrame(t, g) /\ f.pc = "next"
  BY DEF LocateNext, At
<1>2. /\ Sound(f, d) /\ f.todo = <<>> /\ Ready(f.curr) /\ f.curr \in Node
      /\ f \in Frame /\ f.back = "marklist" /\ Op(t) \in Operator /\ Busy(t)
      /\ Op(t) = ops[d][f.opid] /\ TypeOK
  BY <1>1, InOpFacts, WalkFacts DEF Frame, IInv
<1>3. c \in Node /\ Ready(c)
  BY <1>2 DEF ShapeInv, HeapInv, TypeOK
<1>4. /\ g \in Frame /\ g.pc = "skip" /\ g.pred = f.curr /\ g.curr = c /\ g.pnext = c
      /\ g.ins = f.ins /\ g.del = f.del /\ g.todo = <<>> /\ g.back = "marklist"
      /\ g.opid = f.opid
  BY <1>2, <1>3 DEF Frame, Labels
<1>5. KeyOf(f.curr) < Op(t).key
  BY <1>1, <1>2 DEF Sound, WalkInv
<1>6. c = m_tail \/ KeyOf(f.curr) < KeyOf(c)
  BY <1>2 DEF ShapeInv, Sorted
<1>7. Sound(g, d)
  <2> HIDE DEF g, c
  <2>1. RefInv(f, d)
    BY <1>2 DEF Sound
  <2> QED
    BY <1>2, <1>3, <1>4, <1>5, <1>6, <2>1, OpSound
<1>8. Advance(f, g, d)
  <2> HIDE DEF g
  <2> QED
    BY <1>1, <1>4, OpAdvance
<1> QED
  BY <1>1, <1>2, <1>7, <1>8, QuietShape DEF LocateNext

LEMMA LocateSkipShape ==
  ASSUME IInv, IInv', ShapeInv, NEW t \in Thread, LocateSkip(t) PROVE ShapeInv'
<1> DEFINE d == Top(t)
           f == Fr(t)
           c == next[f.curr]
           walk == [f EXCEPT !.curr = c]
           cut == [f EXCEPT !.pc = "unlink"]
<1>1. At(t, "skip") /\ f.pc = "skip"
  BY DEF LocateSkip, At
<1>2. /\ Sound(f, d) /\ f.todo = <<>> /\ f.curr \in Node
      /\ Ready(f.curr) /\ Ready(f.pred) /\ Ready(f.pnext)
      /\ f \in Frame /\ f.back = "marklist" /\ Op(t) \in Operator /\ Busy(t)
      /\ Op(t) = ops[d][f.opid] /\ TypeOK /\ f.opid \in 1..MaxOps
  BY <1>1, InOpFacts, WalkFacts DEF Frame, IInv
<1>3. /\ RefInv(f, d) /\ KeyOf(f.pred) < Op(t).key
      /\ f.curr = m_tail \/ KeyOf(f.pred) < KeyOf(f.curr)
  BY <1>1, <1>2 DEF Sound, WalkInv
<1>4. c \in Node /\ Ready(c)
  BY <1>2 DEF ShapeInv, HeapInv, TypeOK
<1>5. c = m_tail \/ KeyOf(f.pred) < KeyOf(c)
  <2> SUFFICES ASSUME c # m_tail PROVE KeyOf(f.pred) < KeyOf(c)
    OBVIOUS
  <2>1. KeyOf(f.curr) < KeyOf(c)
    BY <1>2 DEF ShapeInv, Sorted
  <2>2. KeyOf(f.curr) \in 0..(MaxKey + 1) /\ KeyOf(c) \in 0..(MaxKey + 1)
        /\ KeyOf(f.pred) \in 0..(MaxKey + 1)
    BY <1>2, <1>4, ReadyKey
  <2>3. f.curr # m_tail
    BY <2>1, <2>2, SentinelKeys, ConstantsAssumption
  <2> QED
    BY <1>3, <2>1, <2>2, <2>3, ConstantsAssumption
<1>6. /\ walk \in Frame /\ walk.pc = "skip" /\ walk.pred = f.pred /\ walk.curr = c
      /\ walk.pnext = f.pnext /\ walk.ins = f.ins /\ walk.del = f.del
      /\ walk.todo = <<>> /\ walk.back = "marklist" /\ walk.opid = f.opid
  BY <1>1, <1>2, <1>4 DEF Frame
<1>7. /\ cut \in Frame /\ cut.pc = "unlink" /\ cut.pred = f.pred /\ cut.curr = f.curr
      /\ cut.pnext = f.pnext /\ cut.ins = f.ins /\ cut.del = f.del
      /\ cut.todo = <<>> /\ cut.back = "marklist" /\ cut.opid = f.opid
  BY <1>2 DEF Frame, Labels
<1>8. Sound(walk, d) /\ Sound(cut, d)
  BY ZenonT(30), <1>2, <1>3, <1>4, <1>5, <1>6, <1>7, OpSound
<1>9. /\ Sound(Arrived(f, Op(t)), d)
      /\ \/ Arrived(f, Op(t)).opid = f.opid
         \/ Arrived(f, Op(t)).opid = f.opid + 1 /\ ~InOp(Arrived(f, Op(t)))
  BY <1>1, <1>2, ArrivedSound
<1>10. PICK g \in {walk, cut, Arrived(f, Op(t))} : SetFrame(t, g)
  BY DEF LocateSkip
<1> HIDE DEF walk, cut
<1>11. Sound(g, d) /\ (g.opid = f.opid \/ (g.opid = f.opid + 1 /\ ~InOp(g)))
  <2>1. CASE g = walk
    BY <1>6, <1>8, <2>1
  <2>2. CASE g = cut
    BY <1>7, <1>8, <2>2
  <2>3. CASE g = Arrived(f, Op(t))
    BY <1>9, <2>3
  <2> QED
    BY <1>10, <2>1, <2>2, <2>3
<1>12. Advance(f, g, d)
  BY <1>1, <1>11, OpAdvance
<1> QED
  BY <1>2, <1>10, <1>11, <1>12, QuietShape DEF LocateSkip

LEMMA InsertAbsentShape ==
  ASSUME IInv, IInv', ShapeInv, NEW t \in Thread, InsertAbsent(t) PROVE ShapeInv'
<1> DEFINE d == Top(t)
           f == Fr(t)
           on == [f EXCEPT !.pc = "link"]
<1>1. At(t, "absent") /\ f.pc = "absent"
  BY DEF InsertAbsent, At
<1>2. /\ Sound(f, d) /\ f.todo = <<>>
      /\ Ready(f.curr) /\ Ready(f.pred) /\ Ready(f.pnext)
      /\ f \in Frame /\ f.back = "marklist" /\ Busy(t) /\ f.opid \in 1..MaxOps
  BY <1>1, InOpFacts, WalkFacts
<1>3. /\ RefInv(f, d) /\ KeyOf(f.pred) < ops[d][f.opid].key
      /\ ops[d][f.opid].key < KeyOf(f.curr)
      /\ ops[d][f.opid].type = "INSERT"
  BY <1>1, <1>2 DEF Sound, WalkInv
<1>4. /\ on \in Frame /\ on.pc = "link" /\ on.pred = f.pred /\ on.curr = f.curr
      /\ on.pnext = f.pnext /\ on.ins = f.ins /\ on.del = f.del
      /\ on.todo = <<>> /\ on.back = "marklist" /\ on.opid = f.opid
  BY <1>2 DEF Frame, Labels
<1>5. Sound(on, d)
  BY <1>2, <1>3, <1>4, OpSound
<1>6. /\ Sound(Finished(f, "FAIL"), d)
      /\ Finished(f, "FAIL").opid = f.opid + 1 /\ ~InOp(Finished(f, "FAIL"))
  BY <1>2, <1>3, FinishedSound
<1>7. PICK g \in {on, Finished(f, "FAIL")} : SetFrame(t, g)
  BY DEF InsertAbsent
<1> HIDE DEF on
<1>8. Sound(g, d) /\ (g.opid = f.opid \/ (g.opid = f.opid + 1 /\ ~InOp(g)))
  <2>1. CASE g = on
    BY <1>4, <1>5, <2>1
  <2>2. CASE g = Finished(f, "FAIL")
    BY <1>6, <2>2
  <2> QED
    BY <1>7, <2>1, <2>2
<1>9. Advance(f, g, d)
  BY <1>1, <1>8, OpAdvance
<1> QED
  BY <1>2, <1>7, <1>8, <1>9, QuietShape DEF InsertAbsent

LEMMA ReadNodeDescShape ==
  ASSUME IInv, IInv', ShapeInv, NEW t \in Thread, ReadNodeDesc(t) PROVE ShapeInv'
<1> DEFINE d == Top(t)
           f == Fr(t)
           c == nd[f.curr]
           at(p) == [f EXCEPT !.pc = p, !.old = c]
           wait == [f EXCEPT !.pc = "helpmark"]
<1>1. At(t, "read") /\ f.pc = "read"
  BY DEF ReadNodeDesc, At
<1>2. /\ Sound(f, d) /\ f.todo = <<>>
      /\ Ready(f.curr) /\ Ready(f.pred) /\ Ready(f.pnext)
      /\ f \in Frame /\ f.back = "marklist" /\ Busy(t) /\ f.opid \in 1..MaxOps
  BY <1>1, InOpFacts, WalkFacts
<1>3. RefInv(f, d) /\ KeyOf(f.curr) = ops[d][f.opid].key
  BY <1>1, <1>2 DEF Sound, WalkInv, AtNode
<1>4. c \in NodeDesc
  <2>1. f.curr \in NodeDesc
    BY <1>1, InOpFacts DEF FrameInv, AtNode
  <2> QED
    BY <2>1 DEF IInv, TypeOK
<1>5. ASSUME NEW p \in {"exist", "help"}
      PROVE  /\ at(p) \in Frame /\ at(p).pc = p /\ at(p).pred = f.pred
             /\ at(p).curr = f.curr /\ at(p).pnext = f.pnext /\ at(p).ins = f.ins
             /\ at(p).del = f.del /\ at(p).todo = <<>> /\ at(p).back = "marklist"
             /\ at(p).opid = f.opid
  BY <1>2, <1>4 DEF Frame, Labels
<1>6. /\ wait \in Frame /\ wait.pc = "helpmark" /\ wait.pred = f.pred
      /\ wait.curr = f.curr /\ wait.pnext = f.pnext /\ wait.ins = f.ins
      /\ wait.del = f.del /\ wait.todo = <<>> /\ wait.back = "marklist"
      /\ wait.opid = f.opid
  BY <1>2 DEF Frame, Labels
<1>7. Sound(at("exist"), d) /\ Sound(at("help"), d)
  <2> HIDE DEF at
  <2>1. Sound(at("exist"), d)
    BY <1>2, <1>3, <1>5, OpSound
  <2>2. Sound(at("help"), d)
    BY <1>2, <1>3, <1>5, OpSound
  <2> QED
    BY <2>1, <2>2
<1>8. ndmark[f.curr] => Sound(wait, d)
  BY <1>2, <1>3, <1>6, OpSound
<1>9. /\ Sound(Finished(f, "FAIL"), d)
      /\ Finished(f, "FAIL").opid = f.opid + 1 /\ ~InOp(Finished(f, "FAIL"))
  BY <1>2, <1>3, FinishedSound
<1>10. PICK g : /\ SetFrame(t, g)
                /\ \/ ndmark[f.curr] /\ g = wait
                   \/ g = Finished(f, "FAIL")
                   \/ g = at("exist")
                   \/ g = at("help")
  BY DEF ReadNodeDesc
<1> HIDE DEF wait, at
<1>11. Sound(g, d) /\ (g.opid = f.opid \/ (g.opid = f.opid + 1 /\ ~InOp(g)))
  <2>1. CASE g = wait /\ ndmark[f.curr]
    BY <1>6, <1>8, <2>1
  <2>2. CASE g = Finished(f, "FAIL")
    BY <1>9, <2>2
  <2>3. CASE g = at("exist")
    BY <1>5, <1>7, <2>3
  <2>4. CASE g = at("help")
    BY <1>5, <1>7, <2>4
  <2> QED
    BY <1>10, <2>1, <2>2, <2>3, <2>4
<1>12. Advance(f, g, d)
  BY <1>1, <1>11, OpAdvance
<1> QED
  BY <1>2, <1>10, <1>11, <1>12, QuietShape DEF ReadNodeDesc

\* Steps of an operation at its node that go on at another label.
LEMMA AtNodeShape ==
  ASSUME IInv, IInv', ShapeInv, NEW t \in Thread,
         \E p \in {"help", "exist", "active", "update"} : At(t, p),
         NEW q \in {"exist", "active", "update", "cycle", "read"},
         NEW o \in NodeDesc \union {Null},
         UNCHANGED <<heap, ops, status, persist, stack>>,
         \/ SetFrame(t, [Fr(t) EXCEPT !.pc = q])
         \/ SetFrame(t, [Fr(t) EXCEPT !.pc = q, !.old = o])
         \/ \E r \in {"OK", "SKIP", "FAIL"} : SetFrame(t, Finished(Fr(t), r))
  PROVE  ShapeInv'
<1> DEFINE d == Top(t)
           f == Fr(t)
           on == [f EXCEPT !.pc = q]
           back == [f EXCEPT !.pc = q, !.old = o]
<1>1. /\ Sound(f, d) /\ f.todo = <<>>
      /\ Ready(f.curr) /\ Ready(f.pred) /\ Ready(f.pnext)
      /\ f \in Frame /\ f.back = "marklist" /\ Busy(t) /\ f.opid \in 1..MaxOps
  BY InOpFacts, WalkFacts
<1>2. RefInv(f, d) /\ KeyOf(f.curr) = ops[d][f.opid].key
  BY <1>1 DEF Sound, WalkInv, AtNode, HasOld, At
<1>3. /\ on \in Frame /\ on.pc = q /\ on.pred = f.pred
      /\ on.curr = f.curr /\ on.pnext = f.pnext /\ on.ins = f.ins
      /\ on.del = f.del /\ on.todo = <<>> /\ on.back = "marklist"
      /\ on.opid = f.opid
  BY <1>1 DEF Frame, Labels
<1>4. /\ back \in Frame /\ back.pc = q /\ back.pred = f.pred
      /\ back.curr = f.curr /\ back.pnext = f.pnext /\ back.ins = f.ins
      /\ back.del = f.del /\ back.todo = <<>> /\ back.back = "marklist"
      /\ back.opid = f.opid
  BY <1>1 DEF Frame, Labels
<1>5. Sound(on, d) /\ Sound(back, d)
  <2> HIDE DEF on, back
  <2>1. Sound(on, d)
    BY <1>1, <1>2, <1>3, OpSound
  <2>2. Sound(back, d)
    BY <1>1, <1>2, <1>4, OpSound
  <2> QED
    BY <2>1, <2>2
<1>6. \A r \in {"OK", "SKIP", "FAIL"} :
        /\ Sound(Finished(f, r), d)
        /\ Finished(f, r).opid = f.opid + 1 /\ ~InOp(Finished(f, r))
  BY <1>1, <1>2, FinishedSound
<1>7. PICK g : /\ SetFrame(t, g)
               /\ g = on \/ g = back \/ \E r \in {"OK", "SKIP", "FAIL"} : g = Finished(f, r)
  OBVIOUS
<1> HIDE DEF on, back
<1>8. Sound(g, d) /\ (g.opid = f.opid \/ (g.opid = f.opid + 1 /\ ~InOp(g)))
  <2>1. CASE g = on
    BY <1>3, <1>5, <2>1
  <2>2. CASE g = back
    BY <1>4, <1>5, <2>2
  <2>3. CASE \E r \in {"OK", "SKIP", "FAIL"} : g = Finished(f, r)
    BY <1>6, <2>3
  <2> QED
    BY <1>7, <2>1, <2>2, <2>3
<1>9. Advance(f, g, d)
  BY <1>8, OpAdvance
<1> QED
  BY <1>1, <1>7, <1>8, <1>9, QuietShape

LEMMA CheckShape ==
  ASSUME IInv, IInv', ShapeInv, NEW t \in Thread, CheckKeyExist(t) \/ CheckActive(t)
  PROVE  ShapeInv'
<1>1. CASE CheckKeyExist(t)
  <2>1. \/ SetFrame(t, [Fr(t) EXCEPT !.pc = "active"])
        \/ \E r \in {"OK", "SKIP", "FAIL"} : SetFrame(t, Finished(Fr(t), r))
    BY <1>1 DEF CheckKeyExist
  <2> QED
    BY <1>1, <2>1, AtNodeShape DEF CheckKeyExist
<1>2. CASE CheckActive(t)
  <2>1. \/ SetFrame(t, [Fr(t) EXCEPT !.pc = "update"])
        \/ \E r \in {"OK", "SKIP", "FAIL"} : SetFrame(t, Finished(Fr(t), r))
    BY <1>2 DEF CheckActive
  <2> QED
    BY <1>2, <2>1, AtNodeShape DEF CheckActive
<1> QED
  BY <1>1, <1>2
-----------------------------------------------------------------------------
(* The steps that write to the heap.                                       *)

\* A step that writes pointers and marks of nodes that are ready already.
LEMMA HeapShape ==
  ASSUME IInv, IInv', ShapeInv, NEW t \in Thread, Busy(t), NEW f,
         SetFrame(t, f), Sound(f, Top(t)), Advance(Fr(t), f, Top(t)),
         UNCHANGED <<nd, ops, status, persist, stack>>,
         \A n \in NodeDesc : ndmark[n] => ndmark'[n],
         \A n \in Node : next'[n] # next[n] =>
           /\ Ready(n) /\ Ready(next'[n])
           /\ next'[n] = m_tail \/ KeyOf(n) < KeyOf(next'[n]),
         \A n \in Node : marked'[n] # marked[n] =>
           Ready(n) /\ (n \in NodeDesc => ndmark[n]),
         \A n \in NodeDesc : ndmark'[n] # ndmark[n] => Ready(n)
  PROVE  ShapeInv'
<1>1. TypeOK /\ TypeOK' /\ Top(t) \in Desc /\ Top(t)' = Top(t)
  BY TopInStack DEF IInv, Top
<1>2. /\ Forward
      /\ fr'[t][Top(t)] = f
      /\ \A u \in Thread, d \in Desc :
           u # t \/ d # Top(t) => fr'[u][d] = fr[u][d]
  BY <1>1, ForwardStep DEF Persisted, persist
<1>3. f \in Frame
  BY <1>1, <1>2 DEF TypeOK
<1>4. FrameInv(f, Top(t))
  BY <1>1, <1>2 DEF IInv, FrameInv, InOp, AtNode, HasOld, Won
<1>5. PICK d \in Desc : d = Top(t)
  BY <1>1
<1>6. Sound(f, d)'
  BY <1>1, <1>2, <1>3, <1>4, <1>5, SoundStable
<1>7. Sound(f, Top(t))'
  BY <1>1, <1>5, <1>6
<1>8. \A n : Ready(n) => Ready(n)' /\ KeyOf(n)' = KeyOf(n)
  BY <1>1, <1>2, ReadyStable
<1>9. ASSUME NEW n \in Node, next'[n] # next[n]
      PROVE  /\ Ready(n)' /\ Ready(next[n])'
             /\ next'[n] = m_tail \/ KeyOf(n)' < KeyOf(next[n])'
  <2>1. PICK m : m = next'[n]
    OBVIOUS
  <2>2. Ready(n) /\ Ready(m) /\ (m = m_tail \/ KeyOf(n) < KeyOf(m))
    BY <1>9, <2>1
  <2>3. Ready(m)' /\ KeyOf(m)' = KeyOf(m) /\ Ready(n)' /\ KeyOf(n)' = KeyOf(n)
    BY <1>8, <2>2
  <2>4. Ready(next[n])' /\ KeyOf(next[n])' = KeyOf(m)
    BY <2>1, <2>3 DEF Ready, KeyOf
  <2> QED
    BY <2>1, <2>2, <2>3, <2>4
<1>10. \A n \in Node : marked'[n] # marked[n] =>
         Ready(n)' /\ (n \in NodeDesc => ndmark'[n])
  BY <1>8
<1>11. \A n \in NodeDesc : ndmark'[n] # ndmark[n] => Ready(n)'
  BY <1>8 DEF Node
<1>12. HeapInv' /\ NodeInv' /\ Sorted' /\ MarkOrder'
  BY <1>2, <1>9, <1>10, <1>11, HeapStep
<1> QED
  BY <1>2, <1>7, <1>12, ShapeStep

LEMMA LocateUnlinkShape ==
  ASSUME IInv, IInv', ShapeInv, NEW t \in Thread, LocateUnlink(t) PROVE ShapeInv'
<1> DEFINE d == Top(t)
           f == Fr(t)
           again == [f EXCEPT !.pc = "next", !.curr = m_head]
<1>1. At(t, "unlink") /\ f.pc = "unlink"
  BY DEF LocateUnlink, At
<1>2. /\ Sound(f, d) /\ f.todo = <<>> /\ f.pred \in Node
      /\ Ready(f.curr) /\ Ready(f.pred) /\ Ready(f.pnext)
      /\ f \in Frame /\ f.back = "marklist" /\ Op(t) \in Operator /\ Busy(t)
      /\ Op(t) = ops[d][f.opid] /\ TypeOK /\ f.opid \in 1..MaxOps
  BY <1>1, InOpFacts, WalkFacts DEF Frame, IInv
<1>3. /\ RefInv(f, d) /\ KeyOf(f.pred) < Op(t).key
      /\ f.curr = m_tail \/ KeyOf(f.pred) < KeyOf(f.curr)
  BY <1>1, <1>2 DEF Sound, WalkInv
<1>4. /\ again \in Frame /\ again.pc = "next" /\ again.pred = f.pred
      /\ again.curr = m_head /\ again.pnext = f.pnext /\ again.ins = f.ins
      /\ again.del = f.del /\ again.todo = <<>> /\ again.back = "marklist"
      /\ again.opid = f.opid
  BY <1>2 DEF Frame, Labels, Node
<1>5. Sound(again, d)
  BY <1>2, <1>3, <1>4, HeadKey, SentinelKeys, OpSound
<1>6. /\ Sound(Arrived(f, Op(t)), d)
      /\ \/ Arrived(f, Op(t)).opid = f.opid
         \/ Arrived(f, Op(t)).opid = f.opid + 1 /\ ~InOp(Arrived(f, Op(t)))
  BY <1>1, <1>2, ArrivedSound
<1>7. CASE CanSwing(f.pred, f.pnext)
  <2>1. /\ next' = [next EXCEPT ![f.pred] = f.curr]
        /\ SetFrame(t, Arrived(f, Op(t)))
        /\ UNCHANGED <<marked, nd, ndmark, ops, status, persist, stack>>
    BY <1>7 DEF LocateUnlink
  <2>2. \A n \in Node : next'[n] # next[n] =>
           /\ Ready(n) /\ Ready(next'[n])
           /\ next'[n] = m_tail \/ KeyOf(n) < KeyOf(next'[n])
    BY <1>2, <1>3, <2>1 DEF TypeOK
  <2>3. Advance(f, Arrived(f, Op(t)), d)
    BY <1>1, <1>6, OpAdvance
  <2> QED
    BY <1>2, <1>6, <2>1, <2>2, <2>3, HeapShape
<1>8. CASE ~CanSwing(f.pred, f.pnext)
  <2>1. SetFrame(t, again) /\ UNCHANGED <<heap, ops, status, persist, stack>>
    BY <1>8 DEF LocateUnlink, heap
  <2>2. Advance(f, again, d)
    <3> HIDE DEF again
    <3> QED
      BY <1>1, <1>4, OpAdvance
  <2> QED
    BY <1>2, <1>5, <2>1, <2>2, QuietShape
<1> QED
  BY <1>7, <1>8

LEMMA HelpMarkShape ==
  ASSUME IInv, IInv', ShapeInv, NEW t \in Thread, HelpMark(t) PROVE ShapeInv'
<1> DEFINE d == Top(t)
           f == Fr(t)
           again == [f EXCEPT !.pc = "next", !.curr = m_head]
<1>1. At(t, "helpmark") /\ f.pc = "helpmark" /\ SetFrame(t, again)
  BY DEF HelpMark, At
<1>2. /\ Sound(f, d) /\ f.todo = <<>>
      /\ Ready(f.curr) /\ Ready(f.pred) /\ Ready(f.pnext)
      /\ f \in Frame /\ f.back = "marklist" /\ Op(t) \in Operator /\ Busy(t)
      /\ Op(t) = ops[d][f.opid] /\ TypeOK
  BY <1>1, InOpFacts, WalkFacts DEF IInv
<1>3. RefInv(f, d) /\ ndmark[f.curr]
  BY <1>1, <1>2 DEF Sound, MarkInv
<1>4. /\ again \in Frame /\ again.pc = "next" /\ again.pred = f.pred
      /\ again.curr = m_head /\ again.pnext = f.pnext /\ again.ins = f.ins
      /\ again.del = f.del /\ again.todo = <<>> /\ again.back = "marklist"
      /\ again.opid = f.opid
  BY <1>2 DEF Frame, Labels, Node
<1>5. Sound(again, d)
  BY ZenonT(30), <1>2, <1>3, <1>4, HeadKey, SentinelKeys, OpSound
<1>6. Advance(f, again, d)
  <2> HIDE DEF again
  <2> QED
    BY <1>1, <1>4, OpAdvance
<1>7. /\ UNCHANGED <<next, nd, ndmark, ops, status, persist, stack>>
      /\ \A n \in Node : marked'[n] # marked[n] => n = f.curr
  BY <1>2 DEF HelpMark, TypeOK
<1> QED
  BY <1>1, <1>2, <1>3, <1>5, <1>6, <1>7, HeapShape

-----------------------------------------------------------------------------
(* An operation that succeeds: its own NodeDesc becomes ready.             *)

\* Thread t finishes the operation that m stands for, with the frame f.
LEMMA MineReady ==
  ASSUME IInv, NEW t \in Thread, NEW f, f \in Frame, SetFrame(t, f),
         \E p \in {"link", "update"} : At(t, p),
         f.opid = Fr(t).opid + 1, ~InOp(f), NEW m, m = Mine(t),
         UNCHANGED <<ops, status, persist, stack, ndmark>>
  PROVE  /\ Forward
         /\ fr'[t][Top(t)] = f
         /\ \A u \in Thread, d \in Desc :
              u # t \/ d # Top(t) => fr'[u][d] = fr[u][d]
         /\ m \in NodeDesc /\ ~Ready(m)
         /\ Ready(m)'
         /\ KeyOf(m) = Op(t).key /\ KeyOf(m)' = Op(t).key
<1>1. /\ TypeOK /\ Top(t) \in Desc /\ Busy(t) /\ m \in NodeDesc /\ InOp(Fr(t))
      /\ Fr(t).opid \in 1..MaxOps /\ Fr(t).opid <= Len(ops[Top(t)])
  BY InOpFacts DEF IInv, InOp, At, PersistLabels, EndLabels
<1>2. Advance(Fr(t), f, Top(t))
  BY OpAdvance
<1>3. /\ Forward
      /\ fr'[t][Top(t)] = f
      /\ \A u \in Thread, d \in Desc :
           u # t \/ d # Top(t) => fr'[u][d] = fr[u][d]
  BY <1>1, <1>2, ForwardStep DEF Persisted, persist
<1>4. m.by = t /\ m.desc = Top(t) /\ m.opid = Fr(t).opid
  BY DEF Mine
<1>5. m # m_head /\ m # m_tail /\ m.desc # PreDesc
  BY <1>1, <1>4, NodeDescFacts, ConstantsAssumption
<1>6. KeyOf(m) = Op(t).key /\ KeyOf(m)' = Op(t).key
  BY <1>4, <1>5 DEF KeyOf, Op
<1>7. ~Unborn(m)'
  <2>1. fr'[m.by][m.desc].opid = Fr(t).opid + 1 /\ ~(m.opid >= Fr(t).opid + 1)
    BY <1>1, <1>3, <1>4, ConstantsAssumption
  <2> QED
    BY <2>1 DEF Unborn
<1>8. Unborn(m)
  BY <1>1, <1>4, <1>5, ConstantsAssumption DEF Unborn, Fr
<1> QED
  BY <1>1, <1>3, <1>4, <1>5, <1>6, <1>7, <1>8 DEF Ready

\* The frame of an operation that has put a node on one of its lists.
LEMMA EntrySound ==
  ASSUME IInv, ShapeInv, NEW t \in Thread,
         \E p \in {"link", "update"} : At(t, p),
         NEW d, NEW ins, NEW del, NEW g,
         g = Finished([Fr(t) EXCEPT !.ins = ins, !.del = del], "OK"),
         \A i \in 1..Len(ins) : EntryOf(ins[i], d, "INSERT")',
         \A i \in 1..Len(del) : EntryOf(del[i], d, "DELETE")'
  PROVE  Sound(g, d)' /\ g.opid = Fr(t).opid + 1 /\ ~InOp(g)
<1> DEFINE f == Fr(t)
<1>1. f \in Frame /\ f.back = "marklist" /\ f.todo = <<>>
  BY InOpFacts, WalkFacts
<1>2. /\ g.pc = "loop" /\ g.ins = ins /\ g.del = del /\ g.todo = <<>>
      /\ g.back = "marklist" /\ g.curr = m_head /\ g.pred = m_head /\ g.pnext = m_head
      /\ g.opid = f.opid + 1
  BY <1>1 DEF Finished, Frame
<1>3. RefInv(g, d)'
  BY <1>2, SentinelKeys DEF RefInv, Ready
<1>4. WalkInv(g, d)' /\ MarkInv(g, d)'
  BY <1>2 DEF WalkInv, MarkInv, AtNode, HasOld, EndLabels
<1> QED
  BY <1>2, <1>3, <1>4 DEF Sound, InOp, PersistLabels, EndLabels

LEMMA InsertLinkShape ==
  ASSUME IInv, IInv', ShapeInv, NEW t \in Thread, InsertLink(t) PROVE ShapeInv'
<1> DEFINE f == Fr(t)
           again == [f EXCEPT !.pc = "next",
                              !.curr = IF marked[f.pred] THEN m_head ELSE f.pred]
<1>1. At(t, "link") /\ f.pc = "link"
  BY DEF InsertLink, At
<1>2. /\ Sound(f, Top(t)) /\ f.todo = <<>> /\ f.pred \in Node /\ f.curr \in Node
      /\ Ready(f.curr) /\ Ready(f.pred) /\ Ready(f.pnext)
      /\ f \in Frame /\ f.back = "marklist" /\ Op(t) \in Operator /\ Busy(t)
      /\ Op(t) = ops[Top(t)][f.opid] /\ TypeOK /\ f.opid \in 1..MaxOps
      /\ TypeOK' /\ f.ins \in Seq(Entry) /\ Top(t) \in Desc
  BY <1>1, InOpFacts, WalkFacts DEF Frame, IInv
<1>3. /\ RefInv(f, Top(t)) /\ KeyOf(f.pred) < Op(t).key /\ Op(t).key < KeyOf(f.curr)
      /\ Op(t).type = "INSERT"
  BY <1>1, <1>2 DEF Sound, WalkInv
<1>4. CASE ~CanSwing(f.pred, f.curr)
  <2>1. SetFrame(t, again) /\ UNCHANGED <<heap, ops, status, persist, stack>>
    BY <1>4 DEF InsertLink, heap
  <2>2. /\ again \in Frame /\ again.pc = "next" /\ again.pred = f.pred
        /\ again.curr \in {m_head, f.pred} /\ again.pnext = f.pnext
        /\ again.ins = f.ins /\ again.del = f.del /\ again.todo = <<>>
        /\ again.back = "marklist" /\ again.opid = f.opid
    <3>1. PICK c \in {m_head, f.pred} : again = [f EXCEPT !.pc = "next", !.curr = c]
      OBVIOUS
    <3>2. c \in Node
      BY <1>2 DEF Node
    <3> HIDE DEF again
    <3> QED
      BY <1>2, <3>1, <3>2 DEF Frame, Labels
  <2> HIDE DEF again
  <2>3. Ready(again.curr) /\ KeyOf(again.curr) < Op(t).key
    BY <1>2, <1>3, <2>2, HeadKey, SentinelKeys
  <2>4. Sound(again, Top(t))
    BY <1>2, <1>3, <2>2, <2>3, OpSound
  <2>5. Advance(f, again, Top(t))
    BY <1>1, <2>2, OpAdvance
  <2> QED
    BY <1>2, <2>1, <2>4, <2>5, QuietShape
<1>5. CASE CanSwing(f.pred, f.curr)
  <2>1. PICK m : m = Mine(t)
    OBVIOUS
  <2>2. PICK d : d = Top(t)
    OBVIOUS
  <2>3. PICK e : e = [node |-> m, pred |-> f.pred]
    OBVIOUS
  <2>4. PICK ins : ins = Append(f.ins, e)
    OBVIOUS
  <2>5. PICK del : del = f.del
    OBVIOUS
  <2>6. PICK g : g = Finished([f EXCEPT !.ins = ins, !.del = del], "OK")
    OBVIOUS
  <2>7. /\ next' = [next EXCEPT ![m] = f.curr, ![f.pred] = m]
        /\ SetFrame(t, g)
        /\ UNCHANGED <<marked, nd, ndmark, ops, status, persist, stack>>
    <3>1. [f EXCEPT !.ins = ins, !.del = del] = [f EXCEPT !.ins = ins]
      BY <1>2, <2>5 DEF Frame
    <3> QED
      BY <1>5, <2>1, <2>3, <2>4, <2>6, <3>1 DEF InsertLink
  <2>8. g \in Frame /\ g.opid = f.opid + 1 /\ ~InOp(g)
    <3>1. d \in Desc /\ fr'[t][d] = g
      BY <1>2, <2>2, <2>7 DEF SetFrame, TypeOK
    <3>2. g.pc = "loop" /\ g.opid = f.opid + 1 /\ g.back = "marklist"
      BY <1>2, <2>6 DEF Finished, Frame
    <3> QED
      BY <1>2, <3>1, <3>2 DEF TypeOK, InOp
  <2>9. /\ Forward
        /\ fr'[t][d] = g
        /\ \A u \in Thread, x \in Desc : u # t \/ x # d => fr'[u][x] = fr[u][x]
        /\ m \in NodeDesc /\ ~Ready(m)
        /\ Ready(m)'
        /\ KeyOf(m) = Op(t).key /\ KeyOf(m)' = Op(t).key
    BY <1>1, <2>1, <2>2, <2>7, <2>8, MineReady
  <2>10. PICK p \in Node : p = f.pred
    BY <1>2
  <2>11. PICK c \in Node : c = f.curr
    BY <1>2
  <2>12. /\ Ready(p)' /\ KeyOf(p)' = KeyOf(p) /\ Ready(c)' /\ KeyOf(c)' = KeyOf(c)
    BY <1>2, <2>9, <2>10, <2>11, ReadyStable
  <2>13. m \in Node /\ m # p
    BY <1>2, <2>9, <2>10 DEF Node
  <2>14. ASSUME NEW n \in Node, next'[n] # next[n]
         PROVE  /\ Ready(n)' /\ Ready(next[n])'
                /\ next'[n] = m_tail \/ KeyOf(n)' < KeyOf(next[n])'
    <3>1. CASE n = m
      <4>1. next'[n] = c
        BY <1>2, <2>7, <2>10, <2>11, <2>13, <3>1 DEF TypeOK
      <4>2. Ready(next[n])' /\ KeyOf(next[n])' = KeyOf(c)
        BY <2>12, <4>1 DEF Ready, KeyOf
      <4> QED
        BY <1>3, <2>9, <2>11, <3>1, <4>2
    <3>2. CASE n # m
      <4>1. n = p /\ next'[n] = m
        BY <1>2, <2>7, <2>10, <2>13, <2>14, <3>2 DEF TypeOK
      <4>2. Ready(next[n])' /\ KeyOf(next[n])' = Op(t).key
        BY <2>9, <4>1 DEF Ready, KeyOf
      <4> QED
        BY <1>3, <2>10, <2>12, <4>1, <4>2
    <3> QED
      BY <3>1, <3>2
  <2>15. HeapInv' /\ NodeInv' /\ Sorted' /\ MarkOrder'
    BY <2>7, <2>9, <2>14, HeapStep
  <2>16. ops'[d] = ops[d] /\ d \in Desc
    BY <1>2, <2>2, <2>7
  <2>17. EntryOf(e, d, "INSERT")'
    <3>1. Op(t).type = "INSERT" /\ Op(t) = ops[d][f.opid] /\ f.opid \in 1..Len(ops[d])
      BY <1>1, <1>2, <1>3, <2>2, InOpFacts
    <3>2. Op(t) = [type |-> "INSERT", key |-> Op(t).key]
      BY <1>2, <3>1 DEF Operator
    <3>3. e.node = m /\ e.pred = p
      BY <2>3, <2>10
    <3> QED
      BY <2>9, <2>12, <2>16, <3>1, <3>2, <3>3 DEF EntryOf
  <2>18. \A i \in 1..Len(ins) : EntryOf(ins[i], d, "INSERT")'
    <3> SUFFICES ASSUME NEW i \in 1..Len(ins) PROVE EntryOf(ins[i], d, "INSERT")'
      OBVIOUS
    <3>1. CASE i = Len(ins)
      <4>1. ins[i] = e
        BY <1>2, <2>4, <3>1
      <4> QED
        BY <2>17, <4>1
    <3>2. CASE i # Len(ins)
      <4>1. i \in 1..Len(f.ins) /\ ins[i] = f.ins[i]
        BY <1>2, <2>4, <3>2
      <4>2. PICK x : x = ins[i]
        OBVIOUS
      <4>3. EntryOf(x, d, "INSERT")
        BY <1>3, <2>2, <4>1, <4>2 DEF RefInv
      <4>4. EntryOf(x, d, "INSERT")'
        BY <1>2, <2>9, <2>16, <4>3, EntryStable
      <4> QED
        BY <4>2, <4>4
    <3> QED
      BY <3>1, <3>2
  <2>19. \A i \in 1..Len(del) : EntryOf(del[i], d, "DELETE")'
    <3> SUFFICES ASSUME NEW i \in 1..Len(del) PROVE EntryOf(del[i], d, "DELETE")'
      OBVIOUS
    <3>1. PICK x : x = del[i]
      OBVIOUS
    <3>2. EntryOf(x, d, "DELETE")
      BY <1>3, <2>2, <2>5, <3>1 DEF RefInv
    <3>3. EntryOf(x, d, "DELETE")'
      BY <1>2, <2>9, <2>16, <3>2, EntryStable
    <3> QED
      BY <3>1, <3>3
  <2>20. Sound(g, d)'
    BY <1>1, <2>6, <2>18, <2>19, EntrySound
  <2>21. Top(t)' = d
    BY <2>2, <2>7 DEF Top
  <2>22. Sound(g, Top(t))'
    BY <2>20, <2>21
  <2> QED
    BY <1>2, <2>2, <2>7, <2>9, <2>15, <2>22, ShapeStep
<1> QED
  BY <1>4, <1>5

\* A list of entries with one more.
LEMMA EntriesAppend ==
  ASSUME TypeOK, TypeOK', Forward, NEW d \in Desc, NEW type,
         NEW s \in Seq(Entry), NEW e,
         \A i \in 1..Len(s) : EntryOf(s[i], d, type), EntryOf(e, d, type)'
  PROVE  \A i \in 1..Len(Append(s, e)) : EntryOf(Append(s, e)[i], d, type)'
<1> SUFFICES ASSUME NEW i \in 1..Len(Append(s, e))
             PROVE  EntryOf(Append(s, e)[i], d, type)'
  OBVIOUS
<1>1. CASE i \in 1..Len(s)
  <2>1. PICK x : x = s[i]
    OBVIOUS
  <2>2. EntryOf(x, d, type)'
    BY <1>1, <2>1, EntryStable
  <2> QED
    BY <1>1, <2>1, <2>2
<1>2. CASE i = Len(s) + 1
  BY <1>2
<1> QED
  BY <1>1, <1>2

LEMMA EntriesStable ==
  ASSUME TypeOK, TypeOK', Forward, NEW d \in Desc, NEW type, NEW s,
         \A i \in 1..Len(s) : EntryOf(s[i], d, type)
  PROVE  \A i \in 1..Len(s) : EntryOf(s[i], d, type)'
BY EntryStable

LEMMA UpdateDescShape ==
  ASSUME IInv, IInv', ShapeInv, NEW t \in Thread, UpdateDesc(t) PROVE ShapeInv'
<1> DEFINE f == Fr(t)
<1>1. At(t, "update") /\ f.pc = "update"
  BY DEF UpdateDesc, At
<1>2. /\ Sound(f, Top(t)) /\ f.todo = <<>> /\ f.curr \in NodeDesc
      /\ Ready(f.curr) /\ Ready(f.pred) /\ Ready(f.pnext)
      /\ f \in Frame /\ f.back = "marklist" /\ Op(t) \in Operator /\ Busy(t)
      /\ Op(t) = ops[Top(t)][f.opid] /\ TypeOK /\ f.opid \in 1..Len(ops[Top(t)])
      /\ TypeOK' /\ f.ins \in Seq(Entry) /\ f.del \in Seq(Entry) /\ Top(t) \in Desc
  BY <1>1, InOpFacts, WalkFacts DEF Frame, IInv, FrameInv, AtNode, HasOld
<1>3. RefInv(f, Top(t)) /\ KeyOf(f.curr) = Op(t).key
  BY <1>1, <1>2 DEF Sound, WalkInv, AtNode, HasOld
<1>4. CASE ~CanTake(f.curr, f.old)
  <2>1. SetFrame(t, [f EXCEPT !.pc = "read", !.old = Null])
    BY <1>4 DEF UpdateDesc
  <2>2. UNCHANGED <<heap, ops, status, persist, stack>>
    BY <1>4 DEF UpdateDesc, heap
  <2> QED
    BY <1>1, <2>1, <2>2, AtNodeShape
<1>5. CASE CanTake(f.curr, f.old)
  <2>1. PICK m : m = Mine(t)
    OBVIOUS
  <2>2. PICK d : d = Top(t)
    OBVIOUS
  <2>3. PICK c \in NodeDesc : c = f.curr
    BY <1>2
  <2>4. PICK e : e = [node |-> c, pred |-> f.pred]
    OBVIOUS
  <2>5. PICK ins : ins = IF Op(t).type = "INSERT" THEN Append(f.ins, e) ELSE f.ins
    OBVIOUS
  <2>6. PICK del : del = IF Op(t).type = "DELETE" THEN Append(f.del, e) ELSE f.del
    OBVIOUS
  <2>7. PICK g : g = Finished([f EXCEPT !.ins = ins, !.del = del], "OK")
    OBVIOUS
  <2>8. /\ nd' = [nd EXCEPT ![c] = m]
        /\ SetFrame(t, g)
        /\ UNCHANGED <<next, marked, ndmark, ops, status, persist, stack>>
    <3>1. [f EXCEPT !.ins = ins, !.del = del]
            = CASE Op(t).type = "INSERT" -> [f EXCEPT !.ins = Append(@, e)]
                [] Op(t).type = "DELETE" -> [f EXCEPT !.del = Append(@, e)]
                [] OTHER -> f
      BY <1>2, <2>5, <2>6 DEF Frame
    <3> QED
      BY <1>5, <2>1, <2>3, <2>4, <2>7, <3>1 DEF UpdateDesc
  <2>9. g \in Frame /\ g.opid = f.opid + 1 /\ ~InOp(g)
    <3>1. d \in Desc /\ fr'[t][d] = g
      BY <1>2, <2>2, <2>8 DEF SetFrame, TypeOK
    <3>2. g.pc = "loop" /\ g.opid = f.opid + 1 /\ g.back = "marklist"
      BY <1>2, <2>7 DEF Finished, Frame
    <3> QED
      BY <1>2, <3>1, <3>2 DEF TypeOK, InOp
  <2>10. /\ Forward
         /\ fr'[t][d] = g
         /\ \A u \in Thread, x \in Desc : u # t \/ x # d => fr'[u][x] = fr[u][x]
         /\ m \in NodeDesc /\ ~Ready(m)
         /\ Ready(m)'
         /\ KeyOf(m) = Op(t).key /\ KeyOf(m)' = Op(t).key
    BY <1>1, <2>1, <2>2, <2>8, <2>9, MineReady
  <2>11. PICK p : p = f.pred
    OBVIOUS
  <2>12. /\ Ready(p)' /\ Ready(c)' /\ KeyOf(c)' = Op(t).key /\ KeyOf(c) = Op(t).key
    BY <1>2, <1>3, <2>3, <2>10, <2>11, ReadyStable
  <2>13. ASSUME NEW n \in NodeDesc, nd'[n] # nd[n]
         PROVE  Ready(n)' /\ Ready(nd[n])' /\ KeyOf(nd[n])' = KeyOf(n)'
    <3>1. n = c /\ nd'[n] = m
      BY <1>2, <2>8, <2>13 DEF TypeOK
    <3>2. Ready(nd[n])' /\ KeyOf(nd[n])' = Op(t).key
      BY <2>10, <3>1 DEF Ready, KeyOf
    <3> QED
      BY <2>12, <3>1, <3>2
  <2>14. HeapInv' /\ NodeInv' /\ Sorted' /\ MarkOrder'
    BY <2>8, <2>10, <2>13, HeapStep
  <2>15. ops'[d] = ops[d] /\ d \in Desc
    BY <1>2, <2>2, <2>8
  <2>22. PICK op : op = Op(t)
    OBVIOUS
  <2>16. EntryOf(e, d, op.type)'
    <3>1. op = ops[d][f.opid] /\ f.opid \in 1..Len(ops[d])
      BY <1>2, <2>2, <2>22
    <3>2. op = [type |-> op.type, key |-> op.key]
      BY <1>2, <2>22 DEF Operator
    <3>3. e.node = c /\ e.pred = p
      BY <2>4, <2>11
    <3>4. \E i \in 1..Len(ops'[d]) : ops'[d][i] = [type |-> op.type, key |-> KeyOf(c)']
      BY <2>12, <2>15, <2>22, <3>1, <3>2
    <3> QED
      BY <2>12, <3>3, <3>4 DEF EntryOf
  <2>17. \A i \in 1..Len(ins) : EntryOf(ins[i], d, "INSERT")'
    <3>1. \A i \in 1..Len(f.ins) : EntryOf(f.ins[i], d, "INSERT")
      BY <1>3, <2>2 DEF RefInv
    <3>2. PICK s \in Seq(Entry) : s = f.ins
      BY <1>2
    <3>3. \A i \in 1..Len(s) : EntryOf(s[i], d, "INSERT")'
      BY <1>2, <2>10, <2>15, <3>1, <3>2, EntriesStable
    <3>4. CASE Op(t).type = "INSERT"
      <4>1. EntryOf(e, d, "INSERT")'
        BY <2>16, <2>22, <3>4
      <4>2. \A i \in 1..Len(Append(s, e)) : EntryOf(Append(s, e)[i], d, "INSERT")'
        BY <1>2, <2>10, <2>15, <3>1, <3>2, <4>1, EntriesAppend
      <4> QED
        BY <2>5, <3>2, <3>4, <4>2
    <3> QED
      BY <2>5, <3>2, <3>3, <3>4
  <2>18. \A i \in 1..Len(del) : EntryOf(del[i], d, "DELETE")'
    <3>1. \A i \in 1..Len(f.del) : EntryOf(f.del[i], d, "DELETE")
      BY <1>3, <2>2 DEF RefInv
    <3>2. PICK s \in Seq(Entry) : s = f.del
      BY <1>2
    <3>3. \A i \in 1..Len(s) : EntryOf(s[i], d, "DELETE")'
      BY <1>2, <2>10, <2>15, <3>1, <3>2, EntriesStable
    <3>4. CASE Op(t).type = "DELETE"
      <4>1. EntryOf(e, d, "DELETE")'
        BY <2>16, <2>22, <3>4
      <4>2. \A i \in 1..Len(Append(s, e)) : EntryOf(Append(s, e)[i], d, "DELETE")'
        BY <1>2, <2>10, <2>15, <3>1, <3>2, <4>1, EntriesAppend
      <4> QED
        BY <2>6, <3>2, <3>4, <4>2
    <3> QED
      BY <2>6, <3>2, <3>3, <3>4
  <2>19. Sound(g, d)'
    BY <1>1, <2>7, <2>17, <2>18, EntrySound
  <2>20. Top(t)' = d
    BY <2>2, <2>8 DEF Top
  <2>21. Sound(g, Top(t))'
    BY <2>19, <2>20
  <2> QED
    BY <1>2, <2>2, <2>8, <2>10, <2>14, <2>21, ShapeStep
<1> QED
  BY <1>4, <1>5

-----------------------------------------------------------------------------
(* The steps at the end of HelpOps.                                        *)

\* The frame of the removal of a node.
LEMMA EndFacts ==
  ASSUME IInv, ShapeInv, NEW t \in Thread, \E p \in EndLabels : At(t, p),
         Fr(t).todo # <<>>
  PROVE  /\ Busy(t) /\ Top(t) \in Desc /\ Fr(t) \in Frame
         /\ Fr(t).back = "marklist" /\ status[Top(t)] # "ACTIVE"
         /\ Sound(Fr(t), Top(t)) /\ Won(Fr(t)) /\ ~InOp(Fr(t))
         /\ Head(Fr(t).todo) \in Entry
         /\ Head(Fr(t).todo).node \in NodeDesc
         /\ Head(Fr(t).todo).pred \in Node
         /\ EntryOf(Head(Fr(t).todo), Top(t), Undone(Top(t)))
         /\ Tail(Fr(t).todo) \in Seq(Entry)
         /\ \A i \in 1..Len(Tail(Fr(t).todo)) :
              EntryOf(Tail(Fr(t).todo)[i], Top(t), Undone(Top(t)))
<1> DEFINE f == Fr(t)
<1>1. Busy(t) /\ f.pc \in EndLabels
  BY DEF At
<1>2. Top(t) \in Desc /\ f \in Frame /\ FrameInv(f, Top(t))
  BY <1>1, Running DEF Good
<1>3. Sound(f, Top(t))
  BY <1>2 DEF ShapeInv, Fr
<1>4. f.todo \in Seq(Entry)
  BY <1>2 DEF Frame
<1>5. Head(f.todo) = f.todo[1] /\ 1 \in 1..Len(f.todo) /\ Head(f.todo) \in Entry
  BY <1>4
<1>6. /\ Tail(f.todo) \in Seq(Entry)
      /\ \A i \in 1..Len(Tail(f.todo)) :
           Tail(f.todo)[i] = f.todo[i+1] /\ i + 1 \in 1..Len(f.todo)
  BY <1>4
<1>7. \A i \in 1..Len(f.todo) : EntryOf(f.todo[i], Top(t), Undone(Top(t)))
  BY <1>3 DEF Sound, RefInv
<1> QED
  BY <1>1, <1>2, <1>3, <1>5, <1>6, <1>7
  DEF FrameInv, Won, InOp, EndLabels, PersistLabels, Entry, Frame

\* The frames that follow: the lists stay, or the first entry is dropped.
LEMMA EndSound ==
  ASSUME IInv, ShapeInv, NEW t \in Thread, \E p \in EndLabels : At(t, p),
         Fr(t).todo # <<>>, NEW g,
         g.pc \in EndLabels, g.opid = Fr(t).opid, g.back = "marklist",
         g.ins = Fr(t).ins, g.del = Fr(t).del,
         g.pred = Fr(t).pred, g.pnext = Fr(t).pnext, Ready(g.curr),
         g.todo = Fr(t).todo \/ g.todo = Tail(Fr(t).todo),
         g.pc = "unlinknode" =>
           g.curr = m_tail \/ KeyOf(Head(g.todo).node) < KeyOf(g.curr),
         g.pc = "marknode" => ndmark[Head(g.todo).node],
         g.pc = "markdesc" => g.old.desc = Top(t)
  PROVE  Sound(g, Top(t)) /\ Advance(Fr(t), g, Top(t))
<1>1. /\ Sound(Fr(t), Top(t)) /\ Fr(t).opid \in Nat /\ Fr(t).pc \in EndLabels
  BY EndFacts, ConstantsAssumption DEF Frame, At
<1>2. \A i \in 1..Len(g.todo) : EntryOf(g.todo[i], Top(t), Undone(Top(t)))
  BY <1>1, EndFacts DEF Sound, RefInv
<1>3. RefInv(g, Top(t))
  BY <1>1, <1>2 DEF Sound, RefInv, Won
<1>4. WalkInv(g, Top(t))
  BY DEF WalkInv, EndLabels, AtNode, HasOld
<1>5. MarkInv(g, Top(t))
  BY <1>1 DEF MarkInv, Sound, EndLabels
<1>6. Advance(Fr(t), g, Top(t))
  BY <1>1 DEF Advance, InOp, EndLabels, PersistLabels
<1> QED
  BY <1>3, <1>4, <1>5, <1>6 DEF Sound

LEMMA MarkNextShape ==
  ASSUME IInv, IInv', ShapeInv, NEW t \in Thread, MarkNext(t), Fr(t).todo # <<>>
  PROVE  ShapeInv'
<1> DEFINE f == Fr(t)
           n == Head(f.todo).node
           on == [f EXCEPT !.pc = "markdesc", !.old = nd[n]]
<1>1. /\ \E p \in EndLabels : At(t, p)
      /\ \/ SetFrame(t, on) /\ nd[n].desc = Top(t)
         \/ SetFrame(t, Dropped(f))
      /\ UNCHANGED <<heap, ops, status, persist, stack>>
  BY DEF MarkNext, EndLabels
<1>2. Busy(t) /\ f \in Frame /\ f.back = "marklist" /\ Ready(f.curr) /\ Sound(f, Top(t))
  BY <1>1, EndFacts DEF Sound, RefInv
<1>3. nd[n].desc = Top(t) => Sound(on, Top(t)) /\ Advance(f, on, Top(t))
  <2>1. /\ on.pc = "markdesc" /\ on.old = nd[n] /\ on.opid = f.opid /\ on.back = "marklist"
        /\ on.ins = f.ins /\ on.del = f.del /\ on.pred = f.pred
        /\ on.pnext = f.pnext /\ on.curr = f.curr /\ on.todo = f.todo
    BY <1>2 DEF Frame
  <2> HIDE DEF on
  <2> QED
    BY <1>1, <1>2, <2>1, EndSound DEF EndLabels
<1>4. Sound(Dropped(f), Top(t)) /\ Advance(f, Dropped(f), Top(t))
  <2>1. PICK g : g = Dropped(f)
    OBVIOUS
  <2>2. /\ g.pc = "marklist" /\ g.opid = f.opid /\ g.back = "marklist"
        /\ g.ins = f.ins /\ g.del = f.del /\ g.pred = f.pred
        /\ g.pnext = f.pnext /\ g.curr = f.curr /\ g.todo = Tail(f.todo)
    BY <1>2, <2>1 DEF Frame, Dropped
  <2>3. Sound(g, Top(t)) /\ Advance(f, g, Top(t))
    BY <1>1, <1>2, <2>2, EndSound DEF EndLabels
  <2> QED
    BY <2>1, <2>3
<1> QED
  <2> HIDE DEF on
  <2> QED
    BY <1>1, <1>2, <1>3, <1>4, QuietShape

LEMMA MarkDescShape ==
  ASSUME IInv, IInv', ShapeInv, NEW t \in Thread, MarkDesc(t) PROVE ShapeInv'
<1> DEFINE f == Fr(t)
<1>1. At(t, "markdesc") /\ f.pc = "markdesc"
  BY DEF MarkDesc, At
<1>2. f.todo # <<>>
  BY <1>1, Running DEF Good, FrameInv, EndLabels, At
<1>3. /\ Busy(t) /\ f \in Frame /\ f.back = "marklist" /\ Sound(f, Top(t))
      /\ Top(t) \in Desc /\ Head(f.todo).node \in NodeDesc
      /\ Ready(Head(f.todo).node) /\ Tail(f.todo) \in Seq(Entry)
      /\ f.opid \in Nat /\ TypeOK /\ TypeOK' /\ FrameInv(f, Top(t))
  <2>1. \E p \in EndLabels : At(t, p)
    BY <1>1 DEF EndLabels
  <2>2. Busy(t) /\ FrameInv(f, Top(t)) /\ f \in Frame
    BY <1>1, Running DEF Good, At
  <2>3. f.opid \in 1..(MaxOps + 1)
    BY <2>2 DEF Frame
  <2>4. Ready(Head(f.todo).node)
    BY <1>2, <2>1, EndFacts DEF EntryOf
  <2> QED
    BY <1>2, <2>1, <2>2, <2>3, <2>4, EndFacts, ConstantsAssumption DEF IInv
<1>4. PICK n \in NodeDesc : n = Head(f.todo).node
  BY <1>3
<1>5. PICK d \in Desc : d = Top(t)
  BY <1>3
<1>6. PICK h \in Frame : h = f
  BY <1>3
<1>7. PICK g : /\ SetFrame(t, g)
               /\ \/ /\ CanTake(n, h.old)
                     /\ ndmark' = [ndmark EXCEPT ![n] = TRUE]
                     /\ g = [[h EXCEPT !.old = Null] EXCEPT !.pc = "marknode"]
                  \/ /\ ndmark' = [ndmark EXCEPT ![n] = @]
                     /\ g = Dropped([h EXCEPT !.old = Null])
  <2>1. CASE CanTake(n, h.old)
    BY <1>3, <1>4, <1>6, <2>1 DEF MarkDesc, TypeOK
  <2>2. CASE ~CanTake(n, h.old)
    BY <1>3, <1>4, <1>6, <2>2 DEF MarkDesc, TypeOK
  <2> QED
    BY <2>1, <2>2
<1>8. /\ UNCHANGED <<next, marked, nd, ops, status, persist, stack>>
      /\ \A m \in NodeDesc : ndmark[m] => ndmark'[m]
      /\ \A m \in NodeDesc : ndmark'[m] # ndmark[m] => m = n
  BY <1>3, <1>7 DEF MarkDesc, TypeOK
<1>9. /\ g.opid = h.opid /\ g.back = "marklist" /\ g.ins = h.ins
      /\ g.del = h.del /\ g.pred = h.pred /\ g.pnext = h.pnext /\ g.curr = h.curr
      /\ \/ g.pc = "marknode" /\ g.todo = h.todo /\ ndmark'[n]
         \/ g.pc = "marklist" /\ g.todo = Tail(h.todo)
  <2>1. h.back = "marklist" /\ ndmark \in [NodeDesc -> BOOLEAN]
    BY <1>3, <1>6 DEF TypeOK
  <2>2. CASE g = [[h EXCEPT !.old = Null] EXCEPT !.pc = "marknode"]
              /\ ndmark' = [ndmark EXCEPT ![n] = TRUE]
    BY <2>1, <2>2 DEF Frame
  <2>3. CASE g = Dropped([h EXCEPT !.old = Null])
    BY <2>1, <2>3 DEF Frame, Dropped
  <2> QED
    BY <1>7, <2>2, <2>3
<1>10. Advance(f, g, Top(t))
  BY <1>3, <1>6, <1>9 DEF Advance, InOp, EndLabels
<1>11. /\ Forward
       /\ fr'[t][Top(t)] = g
       /\ \A u \in Thread, x \in Desc :
            u # t \/ x # Top(t) => fr'[u][x] = fr[u][x]
  BY <1>3, <1>7, <1>8, <1>10, ForwardStep DEF Persisted, persist
<1>12. Ready(n)'
  BY <1>3, <1>4, <1>11, ReadyStable
<1>13. HeapInv' /\ NodeInv' /\ Sorted' /\ MarkOrder'
  BY <1>8, <1>11, <1>12, HeapStep
<1>14. Sound(h, d)'
  BY <1>3, <1>5, <1>6, <1>11, SoundStable
<1>15. Sound(g, d)'
  <2>1. \A i \in 1..Len(g.todo) : EntryOf(g.todo[i], d, Undone(d))'
    <3>1. \A i \in 1..Len(h.todo) : EntryOf(h.todo[i], d, Undone(d))'
      BY <1>14 DEF Sound, RefInv
    <3>2. h.todo \in Seq(Entry) /\ h.todo # <<>>
      <4>1. h.todo # <<>>
        BY <1>2, <1>6
      <4>2. h.todo \in Seq(Entry)
        BY ONLY h \in Frame DEF Frame
      <4> QED
        BY <4>1, <4>2
    <3>3. \A i \in 1..Len(Tail(h.todo)) :
            Tail(h.todo)[i] = h.todo[i+1] /\ i + 1 \in 1..Len(h.todo)
      BY <3>2
    <3> QED
      BY <1>9, <3>1, <3>3
  <2>2. RefInv(g, d)'
    BY <1>9, <1>14, <2>1 DEF RefInv, Sound, Won, EndLabels
  <2>3. WalkInv(g, d)'
    BY <1>9 DEF WalkInv, AtNode, HasOld
  <2>4. MarkInv(g, d)'
    BY <1>1, <1>4, <1>6, <1>9, <1>14 DEF MarkInv, Sound, EndLabels
  <2> QED
    BY <2>2, <2>3, <2>4 DEF Sound
<1>16. Sound(g, Top(t))'
  BY <1>5, <1>8, <1>15 DEF Top
<1> QED
  BY <1>3, <1>8, <1>11, <1>13, <1>16, ShapeStep

LEMMA MarkNodeShape ==
  ASSUME IInv, IInv', ShapeInv, NEW t \in Thread, MarkNode(t) PROVE ShapeInv'
<1> DEFINE f == Fr(t)
           n == Head(f.todo).node
           c == next[n]
           g == [f EXCEPT !.pc = "unlinknode", !.curr = c]
<1>1. At(t, "marknode") /\ f.pc = "marknode" /\ SetFrame(t, g)
  BY DEF MarkNode, At
<1>2. f.todo # <<>>
  BY <1>1, Running DEF Good, FrameInv, EndLabels, At
<1>3. /\ Busy(t) /\ f \in Frame /\ f.back = "marklist" /\ Sound(f, Top(t))
      /\ n \in NodeDesc /\ n \in Node /\ Ready(n) /\ TypeOK
  BY <1>1, <1>2, EndFacts DEF EntryOf, EndLabels, IInv, Node
<1>4. c \in Node /\ Ready(c) /\ (c = m_tail \/ KeyOf(n) < KeyOf(c)) /\ ndmark[n]
  BY <1>1, <1>3 DEF ShapeInv, HeapInv, Sorted, TypeOK, Sound, MarkInv
<1>5. /\ g.pc = "unlinknode" /\ g.opid = f.opid /\ g.back = "marklist"
      /\ g.ins = f.ins /\ g.del = f.del /\ g.pred = f.pred
      /\ g.pnext = f.pnext /\ g.curr = c /\ g.todo = f.todo
  BY <1>3 DEF Frame
<1>6. Sound(g, Top(t)) /\ Advance(f, g, Top(t))
  <2> HIDE DEF g, c
  <2> QED
    BY <1>1, <1>2, <1>4, <1>5, EndSound DEF EndLabels
<1>7. /\ UNCHANGED <<next, nd, ndmark, ops, status, persist, stack>>
      /\ \A m \in Node : marked'[m] # marked[m] => m = n
  BY <1>3 DEF MarkNode, TypeOK
<1> QED
  <2> HIDE DEF g, c
  <2> QED
    BY <1>1, <1>3, <1>4, <1>6, <1>7, HeapShape

LEMMA UnlinkNodeShape ==
  ASSUME IInv, IInv', ShapeInv, NEW t \in Thread, UnlinkNode(t) PROVE ShapeInv'
<1> DEFINE f == Fr(t)
           e == Head(f.todo)
           g == Dropped([f EXCEPT !.curr = m_head])
<1>1. At(t, "unlinknode") /\ f.pc = "unlinknode" /\ SetFrame(t, g)
  BY DEF UnlinkNode, At
<1>2. f.todo # <<>>
  BY <1>1, Running DEF Good, FrameInv, EndLabels, At
<1>3. /\ Busy(t) /\ f \in Frame /\ f.back = "marklist" /\ Sound(f, Top(t))
      /\ e.node \in NodeDesc /\ e.node \in Node /\ e.pred \in Node
      /\ Ready(e.node) /\ Ready(e.pred) /\ TypeOK
  BY <1>1, <1>2, EndFacts DEF EntryOf, EndLabels, IInv, Node
<1>4. /\ Ready(f.curr) /\ f.curr \in Node
      /\ f.curr = m_tail \/ KeyOf(e.node) < KeyOf(f.curr)
  BY <1>1, <1>3 DEF Sound, RefInv, WalkInv, Frame
<1>5. CanSwing(e.pred, e.node) =>
        f.curr = m_tail \/ KeyOf(e.pred) < KeyOf(f.curr)
  <2> SUFFICES ASSUME next[e.pred] = e.node, f.curr # m_tail
               PROVE  KeyOf(e.pred) < KeyOf(f.curr)
    BY DEF CanSwing
  <2>1. KeyOf(e.pred) < KeyOf(e.node)
    BY <1>3, NodeDescFacts DEF ShapeInv, Sorted
  <2>2. /\ KeyOf(e.pred) \in 0..(MaxKey + 1) /\ KeyOf(e.node) \in 0..(MaxKey + 1)
        /\ KeyOf(f.curr) \in 0..(MaxKey + 1)
    BY <1>3, <1>4, ReadyKey
  <2> QED
    BY <1>4, <2>1, <2>2, ConstantsAssumption
<1>6. /\ g.pc = "marklist" /\ g.opid = f.opid /\ g.back = "marklist"
      /\ g.ins = f.ins /\ g.del = f.del /\ g.pred = f.pred
      /\ g.pnext = f.pnext /\ g.curr = m_head /\ g.todo = Tail(f.todo)
  BY <1>3 DEF Frame, Dropped
<1>7. Sound(g, Top(t)) /\ Advance(f, g, Top(t))
  <2> HIDE DEF g
  <2> QED
    BY <1>1, <1>2, <1>6, SentinelKeys, EndSound DEF EndLabels
<1>8. /\ UNCHANGED <<marked, nd, ndmark, ops, status, persist, stack>>
      /\ \A m \in Node : next'[m] # next[m] =>
           m = e.pred /\ next'[m] = f.curr /\ CanSwing(e.pred, e.node)
  BY <1>3 DEF UnlinkNode, TypeOK
<1>9. \A m \in Node : next'[m] # next[m] =>
        /\ Ready(m) /\ Ready(next'[m])
        /\ next'[m] = m_tail \/ KeyOf(m) < KeyOf(next'[m])
  BY <1>3, <1>4, <1>5, <1>8
<1> QED
  <2> HIDE DEF g, e
  <2> QED
    BY <1>1, <1>3, <1>7, <1>8, <1>9, HeapShape

-----------------------------------------------------------------------------
(* persistDesc.                                                            *)

\* A step of persistDesc keeps the pointers and the lists of its frame.
LEMMA PersistShape ==
  ASSUME IInv, IInv', ShapeInv, NEW t \in Thread, \E p \in PersistLabels : At(t, p),
         NEW g, SetFrame(t, g),
         g.opid = Fr(t).opid, g.ins = Fr(t).ins, g.del = Fr(t).del,
         g.todo = Fr(t).todo, g.curr = Fr(t).curr, g.pred = Fr(t).pred,
         g.pnext = Fr(t).pnext,
         \/ g.pc \in PersistLabels /\ g.back = Fr(t).back
         \/ /\ g.pc = Fr(t).back /\ g.back = "marklist"
            /\ g.pc = "marklist" => Persisted(Top(t))',
         UNCHANGED <<heap, ops, status, stack>>,
         \A d \in AllDesc : Persisted(d) => Persisted(d)'
  PROVE  ShapeInv'
<1> DEFINE f == Fr(t)
<1>1. /\ Busy(t) /\ f.pc \in PersistLabels /\ TypeOK /\ TypeOK'
      /\ Top(t)' = Top(t)
  BY DEF At, IInv, Top
<1>2. PICK d \in Desc : d = Top(t)
  BY <1>1, Running
<1>3. PICK h \in Frame : h = f
  BY <1>1, Running DEF Good
<1>4. /\ FrameInv(h, d) /\ Sound(h, d) /\ h.opid \in 1..(MaxOps + 1)
      /\ h.back \in {"marklist", "exist"}
  BY <1>1, <1>2, <1>3 DEF IInv, ShapeInv, Fr, Frame
<1>5. InOp(g) => InOp(h)
  BY <1>1, <1>3, <1>4 DEF InOp, PersistLabels, EndLabels
<1>6. Advance(f, g, Top(t))
  BY <1>3, <1>4, <1>5, ConstantsAssumption DEF Advance
<1>7. /\ Forward
      /\ fr'[t][Top(t)] = g
      /\ \A u \in Thread, x \in Desc :
           u # t \/ x # Top(t) => fr'[u][x] = fr[u][x]
  BY <1>1, <1>6, ForwardStep DEF heap
<1>8. Sound(h, d)'
  BY <1>1, <1>4, <1>7, SoundStable
<1>9. RefInv(g, d)'
  <2>1. g.todo # <<>> => Won(g)
    BY <1>1, <1>3, <1>4 DEF Sound, RefInv, Won, PersistLabels, EndLabels
  <2> QED
    BY <1>3, <1>8, <2>1 DEF Sound, RefInv, Won
<1>10. WalkInv(g, d)'
  BY <1>1, <1>3, <1>4, <1>8 DEF Sound, WalkInv, AtNode, HasOld, PersistLabels
<1>11. MarkInv(g, d)'
  BY <1>1, <1>2, <1>3, <1>4 DEF MarkInv, PersistLabels, EndLabels
<1>12. Sound(g, Top(t))'
  BY <1>1, <1>2, <1>9, <1>10, <1>11 DEF Sound
<1> QED
  BY <1>1, <1>7, <1>12, SameHeap, ShapeStep

LEMMA PersistLabelsShape ==
  ASSUME IInv, IInv', ShapeInv, NEW t \in Thread,
         PersistClaim(t) \/ PersistTicket(t) \/ PersistStore(t) \/ PersistDone(t)
  PROVE  ShapeInv'
<1> DEFINE f == Fr(t)
           go(p) == [f EXCEPT !.pc = p]
           back == [f EXCEPT !.pc = f.back, !.back = "marklist"]
           store == [f EXCEPT !.pc = "store", !.tkt = lastTxId]
           done == [f EXCEPT !.pc = "persisted", !.tkt = 0]
<1>1. /\ \E p \in PersistLabels : At(t, p)
      /\ UNCHANGED <<heap, ops, status, stack>> /\ TypeOK /\ Busy(t)
  BY DEF PersistClaim, PersistTicket, PersistStore, PersistDone, PersistLabels, IInv, At
<1>2. f \in Frame /\ FrameInv(f, Top(t)) /\ Top(t) \in Desc
  BY <1>1, Running DEF Good
<1>3. PersistTarget(t) \in AllDesc /\ (f.back = "marklist" => PersistTarget(t) = Top(t))
  BY <1>1, <1>2 DEF PersistTarget, AllDesc, FrameInv, HasOld, Frame, NodeDesc
<1>4. /\ back.pc = f.back /\ back.back = "marklist" /\ back.opid = f.opid
      /\ back.ins = f.ins /\ back.del = f.del /\ back.todo = f.todo
      /\ back.curr = f.curr /\ back.pred = f.pred /\ back.pnext = f.pnext
  BY <1>2 DEF Frame
<1>5. CASE PersistClaim(t) /\ pstatus[PersistTarget(t)] = "PERSISTED"
  <2>1. SetFrame(t, back) /\ pstatus' = pstatus
    BY <1>5 DEF PersistClaim
  <2>2. f.back = "marklist" => Persisted(Top(t))'
    <3> SUFFICES ASSUME f.back = "marklist" PROVE Persisted(Top(t))'
      OBVIOUS
    <3>1. pstatus'[Top(t)] = "PERSISTED" /\ Top(t)' = Top(t)
      BY <1>1, <1>3, <1>5, <2>1 DEF Top
    <3> QED
      BY <3>1 DEF Persisted
  <2> HIDE DEF back
  <2> QED
    BY <1>1, <1>4, <2>1, <2>2, PersistShape DEF Persisted
<1>6. CASE PersistClaim(t) /\ pstatus[PersistTarget(t)] # "PERSISTED"
  <2>1. /\ SetFrame(t, go("ticket"))
        /\ pstatus' = [pstatus EXCEPT ![PersistTarget(t)] = "IN_PROGRESS"]
    BY <1>6 DEF PersistClaim, GoTo
  <2>2. \A d \in AllDesc : Persisted(d) => Persisted(d)'
    BY <1>1, <1>6, <2>1 DEF Persisted, TypeOK
  <2>3. /\ go("ticket").pc = "ticket" /\ go("ticket").back = f.back
        /\ go("ticket").opid = f.opid /\ go("ticket").ins = f.ins
        /\ go("ticket").del = f.del /\ go("ticket").todo = f.todo
        /\ go("ticket").curr = f.curr /\ go("ticket").pred = f.pred
        /\ go("ticket").pnext = f.pnext
    BY <1>2 DEF Frame
  <2> HIDE DEF go
  <2> QED
    BY <1>1, <2>1, <2>2, <2>3, PersistShape DEF PersistLabels
<1>7. CASE PersistTicket(t)
  <2>1. SetFrame(t, store) /\ pstatus' = pstatus
    BY <1>7 DEF PersistTicket
  <2>2. /\ store.pc = "store" /\ store.back = f.back /\ store.opid = f.opid
        /\ store.ins = f.ins /\ store.del = f.del /\ store.todo = f.todo
        /\ store.curr = f.curr /\ store.pred = f.pred /\ store.pnext = f.pnext
    BY <1>2 DEF Frame
  <2> HIDE DEF store
  <2> QED
    BY <1>1, <2>1, <2>2, PersistShape DEF PersistLabels, Persisted
<1>8. CASE PersistStore(t)
  <2>1. SetFrame(t, done) /\ pstatus' = pstatus
    BY <1>8 DEF PersistStore
  <2>2. /\ done.pc = "persisted" /\ done.back = f.back /\ done.opid = f.opid
        /\ done.ins = f.ins /\ done.del = f.del /\ done.todo = f.todo
        /\ done.curr = f.curr /\ done.pred = f.pred /\ done.pnext = f.pnext
    BY <1>2 DEF Frame
  <2> HIDE DEF done
  <2> QED
    BY <1>1, <2>1, <2>2, PersistShape DEF PersistLabels, Persisted
<1>9. CASE PersistDone(t)
  <2>1. /\ SetFrame(t, back)
        /\ pstatus' = [pstatus EXCEPT ![PersistTarget(t)] = "PERSISTED"]
    BY <1>9 DEF PersistDone
  <2>2. \A d \in AllDesc : Persisted(d) => Persisted(d)'
    BY <1>1, <2>1 DEF Persisted, TypeOK
  <2>3. f.back = "marklist" => Persisted(Top(t))'
    <3> SUFFICES ASSUME f.back = "marklist" PROVE Persisted(Top(t))'
      OBVIOUS
    <3>1. pstatus'[Top(t)] = "PERSISTED" /\ Top(t)' = Top(t)
      BY <1>1, <1>3, <2>1 DEF Top, TypeOK
    <3> QED
      BY <3>1 DEF Persisted
  <2> HIDE DEF back
  <2> QED
    BY <1>1, <1>4, <2>1, <2>2, <2>3, PersistShape
<1> QED
  BY <1>5, <1>6, <1>7, <1>8, <1>9

LEMMA CycleAbortShape ==
  ASSUME IInv, IInv', ShapeInv, NEW t \in Thread, CycleAbort(t) PROVE ShapeInv'
<1> DEFINE f == Fr(t)
<1>1. /\ At(t, "cycle") /\ f.pc = "cycle" /\ Busy(t) /\ TypeOK /\ TypeOK'
      /\ UNCHANGED <<heap, ops, persist, stack>> /\ Top(t)' = Top(t)
  BY DEF CycleAbort, At, IInv, Top
<1>2. PICK d \in Desc : d = Top(t)
  BY <1>1, Running
<1>3. PICK h \in Frame : h = f
  BY <1>1, Running DEF Good
<1>4. /\ FrameInv(h, d) /\ Sound(h, d) /\ h.opid \in 1..(MaxOps + 1)
      /\ h.back = "marklist" /\ h.todo = <<>> /\ InOp(h)
  BY <1>1, <1>2, <1>3, InOpFacts, WalkFacts
  DEF IInv, Fr, Frame, InOp, PersistLabels, EndLabels
<1>5. PICK g : SetFrame(t, g) /\ g \in {[h EXCEPT !.pc = "claim", !.back = "exist"],
                                       [h EXCEPT !.pc = "exist"]}
  BY <1>3 DEF CycleAbort
<1>6. /\ g.opid = h.opid /\ g.ins = h.ins /\ g.del = h.del /\ g.todo = <<>>
      /\ g.curr = h.curr /\ g.pred = h.pred /\ g.pnext = h.pnext
      /\ g.pc \in {"claim", "exist"}
  BY <1>4, <1>5 DEF Frame
<1>7. Advance(f, g, Top(t))
  BY <1>3, <1>4, <1>6, ConstantsAssumption DEF Advance
<1>8. /\ \A x \in AllDesc : status[x] # "ACTIVE" => status'[x] = status[x]
      /\ \A x \in AllDesc : Persisted(x) => Persisted(x)'
  BY <1>1 DEF CycleAbort, TypeOK, Persisted, persist
<1>9. /\ Forward
      /\ fr'[t][Top(t)] = g
      /\ \A u \in Thread, x \in Desc :
           u # t \/ x # Top(t) => fr'[u][x] = fr[u][x]
  BY <1>1, <1>5, <1>7, <1>8, ForwardStep DEF heap
<1>10. Sound(h, d)'
  BY <1>1, <1>4, <1>9, SoundStable
<1>11. RefInv(g, d)'
  BY <1>6, <1>10 DEF Sound, RefInv
<1>12. WalkInv(g, d)'
  BY <1>1, <1>3, <1>6, <1>10 DEF Sound, WalkInv, AtNode, HasOld
<1>13. MarkInv(g, d)'
  BY <1>6 DEF MarkInv, EndLabels
<1>14. Sound(g, Top(t))'
  BY <1>1, <1>2, <1>11, <1>12, <1>13 DEF Sound
<1> QED
  BY <1>1, <1>9, <1>14, SameHeap, ShapeStep

-----------------------------------------------------------------------------
(* The steps that change the stack of a thread.                            *)

LEMMA StackShape ==
  ASSUME IInv, IInv', ShapeInv, Forward, UNCHANGED heap, IdleInv',
         \A u \in Thread, d \in Desc : fr'[u][d] # fr[u][d] => Sound(fr[u][d], d)'
  PROVE  ShapeInv'
<1>1. ASSUME NEW u \in Thread, NEW d \in Desc, fr'[u][d] = fr[u][d]
      PROVE  Sound(fr[u][d], d)'
  <2>1. PICK g \in Frame : g = fr[u][d]
    BY DEF IInv, TypeOK
  <2>2. FrameInv(g, d) /\ Sound(g, d)
    BY <2>1 DEF IInv, ShapeInv
  <2>3. Sound(g, d)' /\ fr'[u][d] = g
    BY <1>1, <2>1, <2>2, SoundStable DEF IInv
  <2>4. RefInv(fr[u][d], d)'
    BY <2>3 DEF Sound, RefInv, Won
  <2>5. WalkInv(fr[u][d], d)'
    BY <2>3 DEF Sound, WalkInv, AtNode, HasOld
  <2>6. MarkInv(fr[u][d], d)'
    BY <2>3 DEF Sound, MarkInv
  <2> QED
    BY <2>4, <2>5, <2>6 DEF Sound
<1> QED
  BY <1>1, SameHeap DEF ShapeInv

LEMMA NewFrameSound ==
  ASSUME NEW f, NEW i \in Nat, f = NewFrame(i), NEW d
  PROVE  Sound(f, d)' /\ ~InOp(f) /\ f.opid = i
<1>1. /\ f.pc = "loop" /\ f.back = "marklist" /\ f.curr = m_head /\ f.pred = m_head
      /\ f.pnext = m_head /\ f.ins = <<>> /\ f.del = <<>> /\ f.todo = <<>>
      /\ f.opid = i
  BY DEF NewFrame
<1> QED
  BY <1>1 DEF Sound, RefInv, WalkInv, MarkInv, Ready, InOp, AtNode, HasOld,
     PersistLabels, EndLabels

LEMMA ReturnShape ==
  ASSUME IInv, IInv', ShapeInv, NEW t \in Thread, Busy(t), Return(t),
         status[Top(t)] # "ACTIVE", UNCHANGED <<heap, ops, status, persist>>
  PROVE  ShapeInv'
<1>1. TypeOK
  BY DEF IInv
<1>2. PICK d \in Desc : d = Top(t)
  BY <1>1, TopInStack
<1>3. PICK g : g = NewFrame(1)
  OBVIOUS
<1>4. SetFrame(t, g) /\ stack' = [stack EXCEPT ![t] = Front(@)]
  BY <1>3 DEF Return
<1>5. ~InOp(g) /\ Sound(g, d)'
  BY <1>3, NewFrameSound
<1>6. d \in AllDesc /\ status'[d] # "ACTIVE"
  BY <1>2 DEF AllDesc
<1>7. Advance(Fr(t), g, Top(t))
  BY <1>2, <1>5, <1>6 DEF Advance
<1>8. /\ Forward
      /\ fr'[t][d] = g
      /\ \A u \in Thread, x \in Desc : u # t \/ x # d => fr'[u][x] = fr[u][x]
  BY <1>1, <1>2, <1>4, <1>7, ForwardStep DEF heap, persist, Persisted
<1>9. IdleInv'
  <2> SUFFICES ASSUME NEW u \in Thread, NEW x \in Desc, ~OnStack(u, x)'
               PROVE  fr'[u][x] = NewFrame(1)
    BY DEF IdleInv, NewFrame
  <2>1. CASE u = t /\ x = d
    BY <1>3, <1>8, <2>1
  <2>2. CASE u = t /\ x # d
    <3>1. ~OnStack(t, x)
      <4>1. stack[t] \in Seq(Desc) /\ stack[t] # <<>>
        BY <1>1 DEF TypeOK, Busy
      <4>2. /\ Len(stack'[t]) = Len(stack[t]) - 1
            /\ \A i \in 1..(Len(stack[t]) - 1) : stack'[t][i] = stack[t][i]
        <5>1. stack'[t] = SubSeq(stack[t], 1, Len(stack[t]) - 1)
          BY <1>1, <1>4 DEF TypeOK, Front
        <5>2. Len(stack[t]) \in Nat \ {0}
          BY <4>1
        <5> QED
          BY <4>1, <5>1, <5>2
      <4>3. d = stack[t][Len(stack[t])]
        BY <1>1, <1>2, TopInStack
      <4> QED
        BY <2>2, <4>1, <4>2, <4>3 DEF OnStack
    <3> QED
      BY <1>8, <2>2, <3>1 DEF ShapeInv, IdleInv
  <2>3. CASE u # t
    <3>1. stack'[u] = stack[u]
      BY <1>1, <1>4, <2>3 DEF TypeOK
    <3> QED
      BY <1>8, <2>3, <3>1 DEF ShapeInv, IdleInv, OnStack
  <2> QED
    BY <2>1, <2>2, <2>3
<1>10. \A u \in Thread, x \in Desc : fr'[u][x] # fr[u][x] => Sound(fr[u][x], x)'
  <2> SUFFICES ASSUME NEW u \in Thread, NEW x \in Desc, fr'[u][x] # fr[u][x]
               PROVE  Sound(fr[u][x], x)'
    OBVIOUS
  <2>1. fr'[u][x] = g /\ x = d
    BY <1>8
  <2> QED
    BY <1>5, <2>1 DEF Sound, RefInv, WalkInv, MarkInv, Won, AtNode, HasOld
<1> QED
  BY <1>8, <1>9, <1>10, StackShape

LEMMA MarkListShape ==
  ASSUME IInv, IInv', ShapeInv, NEW t \in Thread, MarkNext(t) PROVE ShapeInv'
<1>1. CASE Fr(t).todo = <<>>
  <2>1. Busy(t) /\ Fr(t).pc = "marklist"
    BY DEF MarkNext, At
  <2>2. status[Top(t)] # "ACTIVE"
    BY <2>1, Running DEF Good, FrameInv, Won, EndLabels
  <2> QED
    BY <1>1, <2>1, <2>2, ReturnShape DEF MarkNext
<1> QED
  BY <1>1, MarkNextShape

LEMMA DecideTxnShape ==
  ASSUME IInv, IInv', ShapeInv, NEW t \in Thread, DecideTxn(t) PROVE ShapeInv'
<1> DEFINE f == Fr(t)
<1>1. /\ At(t, "decide") /\ f.pc = "decide" /\ Busy(t) /\ TypeOK /\ TypeOK'
      /\ UNCHANGED <<heap, ops, persist>>
  BY DEF DecideTxn, At, IInv
<1>2. CASE status[Top(t)] # "ACTIVE"
  BY <1>1, <1>2, ReturnShape DEF DecideTxn
<1>3. CASE status[Top(t)] = "ACTIVE"
  <2>1. PICK d \in Desc : d = Top(t)
    BY <1>1, Running
  <2>2. PICK h \in Frame : h = f
    BY <1>1, Running DEF Good
  <2>3. PICK g : g = [h EXCEPT !.pc = IF Persist THEN "claim" ELSE "marklist",
                               !.todo = Doomed(h), !.ins = <<>>, !.del = <<>>]
    OBVIOUS
  <2>4. /\ SetFrame(t, g) /\ stack' = stack
        /\ status' = [status EXCEPT ![d] = Verdict(h)]
    BY <1>3, <2>1, <2>2, <2>3 DEF DecideTxn
  <2>5. /\ FrameInv(h, d) /\ Sound(h, d) /\ h.opid \in 1..(MaxOps + 1)
        /\ h.back = "marklist"
    BY <1>1, <2>1, <2>2 DEF IInv, ShapeInv, Fr, Frame, FrameInv, PersistLabels
  <2>6. /\ g.opid = h.opid /\ g.ins = <<>> /\ g.del = <<>> /\ g.todo = Doomed(h)
        /\ g.curr = h.curr /\ g.pred = h.pred /\ g.pnext = h.pnext
        /\ g.back = "marklist" /\ g.pc = IF Persist THEN "claim" ELSE "marklist"
    BY <2>3, <2>5 DEF Frame
  <2>7. ~InOp(g) /\ Won(g)
    BY <2>6 DEF InOp, Won, PersistLabels, EndLabels
  <2>8. Advance(f, g, Top(t))
    BY <2>2, <2>5, <2>6, <2>7, ConstantsAssumption DEF Advance
  <2>9. \A x \in AllDesc : status[x] # "ACTIVE" => status'[x] = status[x]
    BY <1>1, <1>3, <2>1, <2>4 DEF TypeOK, AllDesc
  <2>10. /\ Forward
         /\ fr'[t][Top(t)] = g
         /\ \A u \in Thread, x \in Desc :
              u # t \/ x # Top(t) => fr'[u][x] = fr[u][x]
    BY <1>1, <2>4, <2>8, <2>9, ForwardStep DEF heap, persist, Persisted
  <2>11. Sound(h, d)'
    BY <1>1, <2>5, <2>10, SoundStable
  <2>12. status'[d] = Verdict(h)
    BY <1>1, <2>4 DEF TypeOK, AllDesc
  <2>13. \A i \in 1..Len(g.todo) : EntryOf(g.todo[i], d, Undone(d))'
    <3>1. CASE h.ret # "FAIL"
      <4>1. Undone(d)' = "DELETE" /\ g.todo = h.del
        BY <2>6, <2>12, <3>1 DEF Undone, Verdict, Doomed
      <4> QED
        BY <2>11, <4>1 DEF Sound, RefInv
    <3>2. CASE h.ret = "FAIL"
      <4>1. Undone(d)' = "INSERT" /\ g.todo = h.ins
        BY <2>6, <2>12, <3>2 DEF Undone, Verdict, Doomed
      <4> QED
        BY <2>11, <4>1 DEF Sound, RefInv
    <3> QED
      BY <3>1, <3>2
  <2>14. RefInv(g, d)'
    BY <2>6, <2>7, <2>11, <2>13 DEF Sound, RefInv, Won
  <2>15. WalkInv(g, d)'
    BY <2>6 DEF WalkInv, AtNode, HasOld
  <2>16. MarkInv(g, d)'
    BY <2>6 DEF MarkInv, EndLabels, Persisted
  <2>17. Sound(g, Top(t))'
    BY <2>1, <2>4, <2>14, <2>15, <2>16 DEF Sound, Top
  <2> QED
    BY <1>1, <2>4, <2>10, <2>17, SameHeap, ShapeStep
<1> QED
  BY <1>2, <1>3

LEMMA HelpCallShape ==
  ASSUME IInv, IInv', ShapeInv, NEW t \in Thread, At(t, "help"),
         ~Settled(Fr(t).old.desc), ~Contains(stack[t], Fr(t).old.desc),
         stack' = [stack EXCEPT ![t] = Append(@, Fr(t).old.desc)],
         fr' = [fr EXCEPT ![t] = [@ EXCEPT ![Top(t)].pc = "exist",
                                  ![Fr(t).old.desc] = NewFrame(Fr(t).old.opid + 1)]],
         UNCHANGED <<heap, ops, status, persist>>
  PROVE  ShapeInv'
<1> DEFINE f == Fr(t)
<1>1. /\ TypeOK /\ TypeOK' /\ Busy(t) /\ f \in Frame /\ Top(t) \in Desc
      /\ f.pc = "help" /\ f.back = "marklist" /\ f.old # Null /\ f.todo = <<>>
      /\ f.opid \in Nat /\ Sound(f, Top(t)) /\ FrameInv(f, Top(t)) /\ InOp(f)
  <2>1. /\ Busy(t) /\ f \in Frame /\ Top(t) \in Desc /\ f.back = "marklist"
        /\ f.opid \in 1..MaxOps /\ FrameInv(f, Top(t))
    BY InOpFacts
  <2>2. Sound(f, Top(t)) /\ f.todo = <<>>
    BY WalkFacts
  <2>3. TypeOK /\ TypeOK'
    BY DEF IInv
  <2>4. f.pc = "help"
    BY DEF At
  <2>5. InOp(f)
    BY <2>4 DEF InOp, PersistLabels, EndLabels
  <2>6. f.old # Null
    BY <2>1, <2>4 DEF FrameInv, HasOld
  <2> QED
    BY <2>1, <2>2, <2>3, <2>4, <2>5, <2>6, ConstantsAssumption
<1>2. PICK d \in Desc : d = Top(t)
  BY <1>1
<1>3. PICK h \in Frame : h = f
  BY <1>1
<1>4. h.old.desc \in Desc /\ h.old.opid \in 1..MaxOps
  <2>1. h.old \in NodeDesc
    BY <1>1, <1>3 DEF Frame
  <2>2. h.old.desc # PreDesc
    BY <1>3 DEF IInv, PreInv, Settled, Persisted
  <2> QED
    BY <2>1, <2>2 DEF NodeDesc
<1>5. PICK e \in Desc : e = h.old.desc
  BY <1>4
<1>6. PICK i \in Nat : i = h.old.opid + 1
  BY <1>4, ConstantsAssumption
<1>7. i \in 1..(MaxOps + 1) /\ i >= 1
  BY <1>4, <1>6, ConstantsAssumption
<1>8. PICK new \in Frame : new = NewFrame(i)
  BY <1>7, NewFrameType
<1>9. /\ [h EXCEPT !.pc = "exist"] \in Frame
  BY DEF Frame, Labels
<1>10. PICK wait \in Frame : wait = [h EXCEPT !.pc = "exist"]
  BY <1>9
<1>11. stack[t] \in Seq(Desc) /\ \A j \in 1..Len(stack[t]) : stack[t][j] # e
  BY <1>1, <1>3, <1>5 DEF Contains, TypeOK
<1>12. d # e
  BY <1>1, <1>2, <1>11, TopInStack
<1>13. SetFrames(t, d, wait, e, new)
  BY <1>1, <1>2, <1>3, <1>5, <1>6, <1>8, <1>10 DEF SetFrames, TypeOK, Fr
<1>14. /\ fr'[t][d] = wait /\ fr'[t][e] = new
       /\ \A x \in Desc : x # d /\ x # e => fr'[t][x] = fr[t][x]
       /\ \A u \in Thread : u # t => fr'[u] = fr[u]
  <2>1. wait \in Frame /\ new \in Frame /\ d \in Desc /\ e \in Desc /\ d # e /\ TypeOK
    BY <1>1, <1>12
  <2>2. /\ fr'[t][d] = wait /\ fr'[t][e] = new
        /\ \A x \in Desc : x # d /\ x # e => fr'[t][x] = fr[t][x]
        /\ \A u \in Thread : u # t => fr'[u] = fr[u]
        /\ fr' \in [Thread -> [Desc -> Frame]]
    BY ONLY <1>13, <2>1, TwoFrames, t \in Thread
  <2> QED
    BY <2>2
<1>15. /\ wait.pc = "exist" /\ wait.opid = h.opid /\ wait.ins = h.ins
       /\ wait.del = h.del /\ wait.todo = <<>> /\ wait.curr = h.curr
       /\ wait.pred = h.pred /\ wait.pnext = h.pnext /\ wait.back = "marklist"
  BY <1>1, <1>3, <1>10 DEF Frame
<1>16. fr[t][e] = NewFrame(1) /\ fr[t][d] = h
  BY <1>2, <1>3, <1>11 DEF ShapeInv, IdleInv, OnStack, Fr
<1>17. Sound(new, e)' /\ ~InOp(new) /\ new.opid = i
  BY <1>8, NewFrameSound
<1>18. \A u \in Thread, x \in Desc : Advance(fr[u][x], fr'[u][x], x)
  <2> SUFFICES ASSUME NEW u \in Thread, NEW x \in Desc
               PROVE  Advance(fr[u][x], fr'[u][x], x)
    OBVIOUS
  <2>1. CASE u = t /\ x = d
    BY <1>1, <1>3, <1>14, <1>15, <1>16, <2>1 DEF Advance
  <2>2. CASE u = t /\ x = e
    <3>1. fr[u][x].opid = 1
      BY <1>16, <2>2 DEF NewFrame
    <3> QED
      BY <1>7, <1>14, <1>17, <2>2, <3>1 DEF Advance
  <2>3. CASE u # t \/ (x # d /\ x # e)
    <3>1. fr'[u][x] = fr[u][x] /\ fr[u][x] \in Frame
      BY <1>1, <1>14, <2>3 DEF TypeOK
    <3>2. fr[u][x].opid \in 1..(MaxOps + 1)
      BY <3>1 DEF Frame
    <3>3. fr[u][x].opid >= fr[u][x].opid
      BY <3>2, ConstantsAssumption
    <3> QED
      BY <3>1, <3>3 DEF Advance
  <2> QED
    BY <2>1, <2>2, <2>3
<1>19. Forward
  BY <1>18 DEF Forward, heap, persist, Persisted
<1>20. Sound(h, d)'
  BY <1>1, <1>2, <1>3, <1>19, SoundStable
<1>21. Sound(wait, d)'
  <2>1. RefInv(wait, d)'
    BY <1>15, <1>20 DEF Sound, RefInv
  <2>2. WalkInv(wait, d)'
    BY <1>1, <1>3, <1>15, <1>20 DEF Sound, WalkInv, AtNode, HasOld
  <2>3. MarkInv(wait, d)'
    BY <1>15 DEF MarkInv, EndLabels
  <2> QED
    BY <2>1, <2>2, <2>3 DEF Sound
<1>22. \A u \in Thread, x \in Desc : fr'[u][x] # fr[u][x] => Sound(fr[u][x], x)'
  <2> SUFFICES ASSUME NEW u \in Thread, NEW x \in Desc, fr'[u][x] # fr[u][x]
               PROVE  Sound(fr[u][x], x)'
    OBVIOUS
  <2>1. (fr'[u][x] = wait /\ x = d) \/ (fr'[u][x] = new /\ x = e)
    BY <1>14
  <2>2. PICK g : g = fr'[u][x]
    OBVIOUS
  <2>3. Sound(g, x)'
    BY <1>17, <1>21, <2>1, <2>2
  <2>4. RefInv(fr[u][x], x)'
    BY ONLY <2>2, <2>3 DEF Sound, RefInv, Won
  <2>5. WalkInv(fr[u][x], x)'
    BY ONLY <2>2, <2>3 DEF Sound, WalkInv, AtNode, HasOld
  <2>6. MarkInv(fr[u][x], x)'
    BY ONLY <2>2, <2>3 DEF Sound, MarkInv
  <2> QED
    BY ONLY <2>4, <2>5, <2>6 DEF Sound
<1>23. IdleInv'
  <2> SUFFICES ASSUME NEW u \in Thread, NEW x \in Desc, ~OnStack(u, x)'
               PROVE  fr'[u][x] = NewFrame(1)
    BY DEF IdleInv, NewFrame
  <2>1. CASE u = t
    <3>1. /\ Len(stack'[t]) = Len(stack[t]) + 1
          /\ stack'[t][Len(stack[t]) + 1] = e
          /\ \A j \in 1..Len(stack[t]) : stack'[t][j] = stack[t][j]
      <4>1. stack'[t] = Append(stack[t], e)
        BY <1>1, <1>3, <1>5 DEF TypeOK
      <4> QED
        BY <1>11, <4>1
    <3>2. Len(stack[t]) \in Nat
      BY <1>11
    <3>3. x # e /\ ~OnStack(t, x)
      BY <2>1, <3>1, <3>2 DEF OnStack
    <3>4. x # d
      BY <1>1, <1>2, <3>3, TopInStack DEF OnStack
    <3> QED
      BY <1>14, <2>1, <3>3, <3>4 DEF ShapeInv, IdleInv
  <2>2. CASE u # t
    <3>1. stack'[u] = stack[u]
      BY <1>1, <2>2 DEF TypeOK
    <3> QED
      BY <1>14, <2>2, <3>1 DEF ShapeInv, IdleInv, OnStack
  <2> QED
    BY <2>1, <2>2
<1> QED
  BY <1>19, <1>22, <1>23, StackShape

LEMMA FinishPendingTxnShape ==
  ASSUME IInv, IInv', ShapeInv, NEW t \in Thread, FinishPendingTxn(t)
  PROVE  ShapeInv'
<1>1. At(t, "help") /\ UNCHANGED <<heap, ops, status, persist>>
  BY DEF FinishPendingTxn
<1>2. CASE GoTo(t, "exist") /\ UNCHANGED stack
  BY <1>1, <1>2, AtNodeShape DEF GoTo
<1>3. CASE GoTo(t, "cycle") /\ UNCHANGED stack
  BY <1>1, <1>3, AtNodeShape DEF GoTo
<1>4. CASE /\ ~Settled(Fr(t).old.desc) /\ ~Contains(stack[t], Fr(t).old.desc)
           /\ stack' = [stack EXCEPT ![t] = Append(@, Fr(t).old.desc)]
           /\ fr' = [fr EXCEPT ![t] =
                       [@ EXCEPT ![Top(t)].pc = "exist",
                                 ![Fr(t).old.desc] = NewFrame(Fr(t).old.opid + 1)]]
  BY <1>1, <1>4, HelpCallShape
<1> QED
  BY <1>2, <1>3, <1>4 DEF FinishPendingTxn

LEMMA ExecuteOpsShape ==
  ASSUME IInv, IInv', ShapeInv, NEW t \in Thread, ExecuteOps(t) PROVE ShapeInv'
<1>1. PICK d \in Desc, o \in OpArrays :
        /\ ops[d] = <<>>
        /\ ops' = [ops EXCEPT ![d] = o]
        /\ stack' = [stack EXCEPT ![t] = <<d>>]
        /\ fr' = [fr EXCEPT ![t][d] = NewFrame(1)]
  BY DEF ExecuteOps
<1>2. TypeOK /\ stack[t] = <<>> /\ UNCHANGED <<heap, status, persist>>
  BY DEF ExecuteOps, IInv, Busy
<1>3. \A x \in Desc : fr[t][x] = NewFrame(1)
  BY <1>2 DEF ShapeInv, IdleInv, OnStack
<1>4. \A u \in Thread, x \in Desc : fr'[u][x] = fr[u][x]
  BY <1>1, <1>2, <1>3 DEF TypeOK
<1>5. \A u \in Thread, x \in Desc : Advance(fr[u][x], fr'[u][x], x)
  <2> SUFFICES ASSUME NEW u \in Thread, NEW x \in Desc
               PROVE  Advance(fr[u][x], fr'[u][x], x)
    OBVIOUS
  <2>1. fr[u][x] \in Frame
    BY <1>2 DEF TypeOK
  <2>2. fr[u][x].opid \in 1..(MaxOps + 1)
    BY <2>1 DEF Frame
  <2>3. fr[u][x].opid >= fr[u][x].opid
    BY <2>2, ConstantsAssumption
  <2> QED
    BY <1>4, <2>3 DEF Advance
<1>6. Forward
  BY <1>1, <1>2, <1>5 DEF Forward, heap, persist, Persisted, TypeOK
<1>7. IdleInv'
  <2> SUFFICES ASSUME NEW u \in Thread, NEW x \in Desc, ~OnStack(u, x)'
               PROVE  fr'[u][x] = NewFrame(1)
    BY DEF IdleInv, NewFrame
  <2>1. CASE u = t
    BY <1>3, <1>4, <2>1
  <2>2. CASE u # t
    <3>1. stack'[u] = stack[u]
      BY <1>1, <1>2, <2>2 DEF TypeOK
    <3> QED
      BY <1>4, <2>2, <3>1 DEF ShapeInv, IdleInv, OnStack
  <2> QED
    BY <2>1, <2>2
<1> QED
  BY <1>2, <1>4, <1>6, <1>7, StackShape

-----------------------------------------------------------------------------
(* The shape of the list is an invariant.                                  *)

LEMMA InitShape == Init => ShapeInv
<1> SUFFICES ASSUME Init PROVE ShapeInv
  OBVIOUS
<1> USE ConstantsAssumption, NullAssumption
<1>1. PICK S \in Prefills : next = Linked(S)
  BY DEF Init
<1>2. S \subseteq Key
  OBVIOUS
<1> DEFINE at(k) == [by |-> Main, desc |-> PreDesc, opid |-> k]
           IsNext(k, j) == j > k /\ \A i \in S : i > k => j <= i
           after(k) == IF \E j \in S : IsNext(k, j)
                       THEN at(CHOOSE j \in S : IsNext(k, j)) ELSE m_tail
<1>3. ASSUME NEW k
      PROVE  after(k) = m_tail \/ \E j \in Key : after(k) = at(j) /\ j > k
  <2>1. CASE \E j \in S : IsNext(k, j)
    <3> DEFINE j == CHOOSE j \in S : IsNext(k, j)
    <3>1. j \in S /\ IsNext(k, j)
      <4> HIDE DEF IsNext
      <4> QED
        BY <2>1
    <3> QED
      BY <1>2, <2>1, <3>1
  <2>2. CASE ~\E j \in S : IsNext(k, j)
    BY <2>2
  <2> QED
    BY <2>1, <2>2
<1>4. \A j \in Key : at(j) \in NodeDesc /\ Ready(at(j)) /\ KeyOf(at(j)) = j
  <2> SUFFICES ASSUME NEW j \in Key
               PROVE  at(j) \in NodeDesc /\ Ready(at(j)) /\ KeyOf(at(j)) = j
    OBVIOUS
  <2>1. at(j) \in NodeDesc
    BY DEF NodeDesc
  <2> QED
    BY <2>1 DEF Ready, KeyOf
<1>5. /\ next[m_head] = after(0)
      /\ \A n \in NodeDesc : n.desc = PreDesc => next[n] \in {after(n.opid), m_tail}
      /\ \A n \in NodeDesc : n.desc # PreDesc => next[n] = m_tail
      /\ next[m_tail] = m_tail
  <2>1. next = [n \in Node |->
                  IF n = m_head THEN after(0)
                  ELSE IF n \in NodeDesc /\ n.desc = PreDesc /\ n.opid \in S
                  THEN after(n.opid) ELSE m_tail]
    BY <1>1 DEF Linked
  <2> HIDE DEF after
  <2> QED
    BY <2>1 DEF Node
<1> HIDE DEF after, at
<1>6. ASSUME NEW n \in Node
      PROVE  /\ Ready(next[n])
             /\ next[n] # m_tail => KeyOf(n) < KeyOf(next[n])
             /\ ~Ready(n) => next[n] = m_tail
  <2>1. CASE n = m_head
    <3>1. next[n] = m_tail \/ \E j \in Key : next[n] = at(j) /\ j > 0
      BY <1>3, <1>5, <2>1
    <3> QED
      BY <1>4, <2>1, <3>1, SentinelKeys
  <2>2. CASE n = m_tail
    BY <1>5, <2>2, SentinelKeys
  <2>3. CASE n \in NodeDesc /\ n.desc = PreDesc
    <3>1. KeyOf(n) = n.opid /\ Ready(n)
      BY <2>3, NodeDescFacts DEF KeyOf, Ready
    <3>2. next[n] = m_tail \/ \E j \in Key : next[n] = at(j) /\ j > n.opid
      BY <1>3, <1>5, <2>3
    <3> QED
      BY <1>4, <2>3, <3>1, <3>2, SentinelKeys DEF Key
  <2>4. CASE n \in NodeDesc /\ n.desc # PreDesc
    BY <1>5, <2>4, SentinelKeys
  <2> QED
    BY <2>1, <2>2, <2>3, <2>4 DEF Node
<1>7. /\ \A n \in Node : ~marked[n]
      /\ \A n \in NodeDesc : nd[n] = n /\ ~ndmark[n]
      /\ \A t \in Thread, d \in Desc : fr[t][d] = NewFrame(1)
  BY DEF Init
<1>8. \A t \in Thread, d \in Desc : Sound(fr[t][d], d)
  <2> SUFFICES ASSUME NEW t \in Thread, NEW d \in Desc PROVE Sound(fr[t][d], d)
    OBVIOUS
  <2>1. PICK f : f = NewFrame(1) /\ f = fr[t][d]
    BY <1>7
  <2>2. /\ f.pc = "loop" /\ f.back = "marklist" /\ f.curr = m_head /\ f.pred = m_head
        /\ f.pnext = m_head /\ f.ins = <<>> /\ f.del = <<>> /\ f.todo = <<>>
    BY <2>1 DEF NewFrame
  <2>3. Sound(f, d)
    BY <2>2, SentinelKeys DEF Sound, RefInv, WalkInv, MarkInv, AtNode, HasOld, EndLabels
  <2> QED
    BY <2>1, <2>3
<1> QED
  BY <1>6, <1>7, <1>8 DEF ShapeInv, IdleInv, HeapInv, NodeInv, Sorted, MarkOrder, Node

LEMMA NextShape == IInv /\ ShapeInv /\ [Next]_vars => ShapeInv'
<1> SUFFICES ASSUME IInv, ShapeInv, [Next]_vars PROVE ShapeInv'
  OBVIOUS
<1>1. IInv'
  BY NextIInv
<1>2. CASE UNCHANGED vars
  <2>1. Forward
    <3>1. \A u \in Thread, x \in Desc : Advance(fr[u][x], fr'[u][x], x)
      <4> SUFFICES ASSUME NEW u \in Thread, NEW x \in Desc
                   PROVE  Advance(fr[u][x], fr'[u][x], x)
        OBVIOUS
      <4>1. fr[u][x] \in Frame
        BY DEF IInv, TypeOK
      <4>2. fr[u][x].opid \in 1..(MaxOps + 1)
        BY <4>1 DEF Frame
      <4>3. fr[u][x].opid >= fr[u][x].opid
        BY <4>2, ConstantsAssumption
      <4> QED
        BY <1>2, <4>3 DEF Advance, vars
    <3> QED
      BY <1>2, <3>1 DEF Forward, vars, Persisted
  <2>2. IdleInv'
    BY <1>2 DEF ShapeInv, IdleInv, OnStack, vars
  <2> QED
    BY <1>1, <1>2, <2>1, <2>2, StackShape DEF vars, heap
<1>3. ASSUME NEW t \in Thread, ExecuteOps(t) PROVE ShapeInv'
  BY <1>1, <1>3, ExecuteOpsShape
<1>4. ASSUME NEW t \in Thread, Step(t) PROVE ShapeInv'
  BY <1>1, <1>4, HelpLoopShape, LocateNextShape, LocateSkipShape, LocateUnlinkShape,
     InsertAbsentShape, InsertLinkShape, ReadNodeDescShape, HelpMarkShape,
     FinishPendingTxnShape, CycleAbortShape, CheckShape, UpdateDescShape,
     DecideTxnShape, PersistLabelsShape, MarkListShape, MarkDescShape,
     MarkNodeShape, UnlinkNodeShape DEF Step
<1> QED
  BY <1>2, <1>3, <1>4 DEF Next, Terminated

-----------------------------------------------------------------------------
(* Tickets.                                                                *)

LEMMA TargetType ==
  ASSUME IInv, NEW t \in Thread, NEW d \in Desc
  PROVE  Target(fr[t][d], d) \in AllDesc
<1>1. PICK f \in Frame : f = fr[t][d]
  BY DEF IInv, TypeOK
<1>2. FrameInv(f, d)
  BY <1>1 DEF IInv
<1> QED
  BY <1>1, <1>2 DEF Target, AllDesc, FrameInv, HasOld, Frame, NodeDesc

\* No ticket is drawn or used.
LEMMA TicketFrames ==
  ASSUME TicketInv, UNCHANGED <<txid, lastTxId>>,
         \A d \in Desc : pstatus'[d] = "PERSISTED" =>
           pstatus[d] = "PERSISTED" \/ txid[d] # 0,
         \A u \in Thread, d \in Desc :
           fr'[u][d].pc \in {"store", "persisted"} => fr'[u][d] = fr[u][d]
  PROVE  TicketInv'
<1>1. \A u \in Thread, d \in Desc : fr'[u][d].pc = "store" =>
        fr[u][d].pc = "store" /\ fr'[u][d].tkt = fr[u][d].tkt
  OBVIOUS
<1>2. \A u \in Thread, d \in Desc : fr'[u][d].pc = "persisted" =>
        fr[u][d].pc = "persisted" /\ Target(fr[u][d], d)' = Target(fr[u][d], d)
  BY DEF Target
<1> QED
  BY <1>1, <1>2 DEF TicketInv

\* Thread t goes on with the frame g, which holds no ticket.
LEMMA TicketQuiet ==
  ASSUME IInv, TicketInv, NEW t \in Thread, Busy(t), NEW g, SetFrame(t, g),
         g.pc \notin {"store", "persisted"}, UNCHANGED <<txid, lastTxId>>,
         \A d \in Desc : pstatus'[d] = "PERSISTED" =>
           pstatus[d] = "PERSISTED" \/ txid[d] # 0
  PROVE  TicketInv'
<1>1. Top(t) \in Desc /\ TypeOK
  BY TopInStack DEF IInv
<1>2. /\ fr'[t][Top(t)] = g
      /\ \A u \in Thread, d \in Desc :
           u # t \/ d # Top(t) => fr'[u][d] = fr[u][d]
  BY <1>1 DEF SetFrame, TypeOK
<1>3. \A u \in Thread, d \in Desc :
        fr'[u][d].pc \in {"store", "persisted"} => fr'[u][d] = fr[u][d]
  BY <1>2
<1> QED
  BY <1>3, TicketFrames

\* The labels that the steps of an operation and of the removal lead to.
LEMMA FinishedPc ==
  ASSUME NEW f \in Frame, NEW r
  PROVE  Finished(f, r).pc = "loop"
BY DEF Finished, Frame

LEMMA ArrivedPc ==
  ASSUME NEW f \in Frame, NEW op
  PROVE  Arrived(f, op).pc \in {"next", "read", "absent", "loop"}
<1>1. [f EXCEPT !.pnext = m_head] \in Frame
  BY DEF Frame, Node
<1>2. Finished([f EXCEPT !.pnext = m_head], "FAIL").pc = "loop"
  BY <1>1, FinishedPc
<1> QED
  BY <1>1, <1>2 DEF Arrived, Frame

\* The walk of LocatePred and the removal stand at these labels.
WayLabels == {"skip", "unlink", "unlinknode"}

LEMMA OpLabels ==
  ASSUME IInv, NEW t \in Thread,
         \/ HelpLoop(t) \/ LocateUnlink(t)
         \/ InsertAbsent(t) \/ InsertLink(t) \/ ReadNodeDesc(t) \/ HelpMark(t)
         \/ CycleAbort(t) \/ CheckKeyExist(t) \/ CheckActive(t) \/ UpdateDesc(t)
  PROVE  /\ Busy(t) /\ UNCHANGED persist
         /\ \E g : SetFrame(t, g) /\ g.pc \notin {"store", "persisted"} \union WayLabels
<1> DEFINE f == Fr(t)
           Free == \E g : SetFrame(t, g) /\ g.pc \notin {"store", "persisted"} \union WayLabels
<1> USE DEF WayLabels
<1>1. Busy(t) /\ UNCHANGED persist
  BY DEF HelpLoop, LocateUnlink, InsertAbsent, InsertLink,
     ReadNodeDesc, HelpMark, CycleAbort, CheckKeyExist, CheckActive, UpdateDesc, At,
     persist
<1>2. f \in Frame
  BY <1>1, TopInStack DEF IInv
<1>3. \A p : [f EXCEPT !.pc = p].pc = p
  BY <1>2 DEF Frame
<1>4. \A r : Finished(f, r).pc = "loop"
  BY <1>2, FinishedPc
<1>5. HelpLoop(t) => Free
  <2>1. HelpLoop(t) => \E p \in {"next", "decide"} : SetFrame(t, [f EXCEPT !.pc = p])
    BY DEF HelpLoop, GoTo
  <2> QED
    BY <1>3, <2>1
<1>8. LocateUnlink(t) => Free
  <2>1. [f EXCEPT !.pc = "next", !.curr = m_head].pc = "next"
    BY <1>2 DEF Frame
  <2>2. Arrived(f, Op(t)).pc \in {"next", "read", "absent", "loop"}
    BY <1>2, ArrivedPc
  <2>3. LocateUnlink(t) => \/ SetFrame(t, [f EXCEPT !.pc = "next", !.curr = m_head])
                           \/ SetFrame(t, Arrived(f, Op(t)))
    BY DEF LocateUnlink
  <2> QED
    BY <2>1, <2>2, <2>3
<1>9. InsertAbsent(t) => Free
  <2>1. InsertAbsent(t) => \/ SetFrame(t, Finished(f, "FAIL"))
                           \/ SetFrame(t, [f EXCEPT !.pc = "link"])
    BY DEF InsertAbsent
  <2> QED
    BY <1>3, <1>4, <2>1
<1>10. InsertLink(t) => Free
  <2> DEFINE a == [f EXCEPT !.ins = Append(@, [node |-> Mine(t), pred |-> f.pred])]
             b == [f EXCEPT !.pc = "next",
                            !.curr = IF marked[f.pred] THEN m_head ELSE f.pred]
  <2>1. b.pc = "next" /\ Finished(a, "OK").pc = "loop"
    BY <1>2 DEF Frame, Finished
  <2>2. InsertLink(t) => SetFrame(t, b) \/ SetFrame(t, Finished(a, "OK"))
    BY DEF InsertLink
  <2> HIDE DEF a, b
  <2> QED
    BY <2>1, <2>2
<1>11. ReadNodeDesc(t) => Free
  <2>1. \A p \in {"exist", "help"} : [f EXCEPT !.pc = p, !.old = nd[f.curr]].pc = p
    BY <1>2 DEF Frame
  <2>2. ReadNodeDesc(t) =>
          \/ SetFrame(t, Finished(f, "FAIL"))
          \/ SetFrame(t, [f EXCEPT !.pc = "helpmark"])
          \/ \E p \in {"exist", "help"} :
               SetFrame(t, [f EXCEPT !.pc = p, !.old = nd[f.curr]])
    BY DEF ReadNodeDesc
  <2> QED
    BY <1>3, <1>4, <2>1, <2>2
<1>12. HelpMark(t) => Free
  <2>1. [f EXCEPT !.pc = "next", !.curr = m_head].pc = "next"
    BY <1>2 DEF Frame
  <2> QED
    BY <2>1 DEF HelpMark
<1>13. CycleAbort(t) => Free
  <2>1. [f EXCEPT !.pc = "claim", !.back = "exist"].pc = "claim"
    BY <1>2 DEF Frame
  <2>2. CycleAbort(t) => \/ SetFrame(t, [f EXCEPT !.pc = "claim", !.back = "exist"])
                         \/ SetFrame(t, [f EXCEPT !.pc = "exist"])
    BY DEF CycleAbort
  <2> QED
    BY <1>3, <2>1, <2>2
<1>14. CheckKeyExist(t) => Free
  <2>1. CheckKeyExist(t) => \/ \E r : SetFrame(t, Finished(f, r))
                            \/ SetFrame(t, [f EXCEPT !.pc = "active"])
    BY DEF CheckKeyExist
  <2> QED
    BY <1>3, <1>4, <2>1
<1>15. CheckActive(t) => Free
  <2>1. CheckActive(t) => \/ SetFrame(t, Finished(f, "FAIL"))
                          \/ SetFrame(t, [f EXCEPT !.pc = "update"])
    BY DEF CheckActive
  <2> QED
    BY <1>3, <1>4, <2>1
<1>16. UpdateDesc(t) => Free
  <2> DEFINE e == [node |-> f.curr, pred |-> f.pred]
             a == CASE Op(t).type = "INSERT" -> [f EXCEPT !.ins = Append(@, e)]
                    [] Op(t).type = "DELETE" -> [f EXCEPT !.del = Append(@, e)]
                    [] OTHER -> f
             b == [f EXCEPT !.pc = "read", !.old = Null]
  <2>1. b.pc = "read" /\ Finished(a, "OK").pc = "loop"
    BY <1>2 DEF Frame, Finished
  <2>2. UpdateDesc(t) => SetFrame(t, b) \/ SetFrame(t, Finished(a, "OK"))
    BY DEF UpdateDesc
  <2> HIDE DEF a, b
  <2> QED
    BY <2>1, <2>2
<1> HIDE DEF Free
<1>17. Free
  BY <1>5, <1>8, <1>9, <1>10, <1>11, <1>12, <1>13, <1>14, <1>15, <1>16
<1> QED
  BY <1>1, <1>17 DEF Free

LEMMA OpTicket ==
  ASSUME IInv, NEW t \in Thread,
         \/ HelpLoop(t) \/ LocateNext(t) \/ LocateSkip(t) \/ LocateUnlink(t)
         \/ InsertAbsent(t) \/ InsertLink(t) \/ ReadNodeDesc(t) \/ HelpMark(t)
         \/ CycleAbort(t) \/ CheckKeyExist(t) \/ CheckActive(t) \/ UpdateDesc(t)
  PROVE  /\ Busy(t) /\ UNCHANGED persist
         /\ \E g : SetFrame(t, g) /\ g.pc \notin {"store", "persisted"}
<1> DEFINE f == Fr(t)
           Free == \E g : SetFrame(t, g) /\ g.pc \notin {"store", "persisted"}
<1>1. LocateNext(t) \/ LocateSkip(t) => Busy(t) /\ UNCHANGED persist
  BY DEF LocateNext, LocateSkip, At, persist
<1>2. LocateNext(t) \/ LocateSkip(t) => f \in Frame
  BY <1>1, TopInStack DEF IInv
<1>3. ASSUME LocateNext(t) PROVE Free
  <2> DEFINE g == [f EXCEPT !.pc = "skip", !.pred = f.curr,
                            !.pnext = next[f.curr], !.curr = next[f.curr]]
  <2>1. g.pc = "skip"
    BY <1>2, <1>3 DEF Frame
  <2>2. SetFrame(t, g)
    BY <1>3 DEF LocateNext
  <2> QED
    BY <2>1, <2>2
<1>4. ASSUME LocateSkip(t) PROVE Free
  <2>1. f \in Frame /\ f.pc = "skip"
    BY <1>2, <1>4 DEF LocateSkip, At
  <2>2. /\ [f EXCEPT !.curr = next[f.curr]].pc = "skip"
        /\ [f EXCEPT !.pc = "unlink"].pc = "unlink"
    BY <2>1 DEF Frame
  <2>3. Arrived(f, Op(t)).pc \in {"next", "read", "absent", "loop"}
    BY <2>1, ArrivedPc
  <2>4. \/ SetFrame(t, [f EXCEPT !.curr = next[f.curr]])
        \/ SetFrame(t, [f EXCEPT !.pc = "unlink"])
        \/ SetFrame(t, Arrived(f, Op(t)))
    BY <1>4 DEF LocateSkip
  <2> QED
    BY <2>2, <2>3, <2>4
<1> QED
  BY <1>1, <1>3, <1>4, OpLabels

LEMMA EndLabelsLeft ==
  ASSUME IInv, NEW t \in Thread,
         \/ DecideTxn(t) \/ MarkNext(t) \/ MarkDesc(t) \/ UnlinkNode(t)
  PROVE  /\ Busy(t) /\ UNCHANGED persist
         /\ \E g : SetFrame(t, g) /\ g.pc \notin {"store", "persisted"} \union WayLabels
<1> DEFINE f == Fr(t)
           Free == \E g : SetFrame(t, g) /\ g.pc \notin {"store", "persisted"} \union WayLabels
<1> USE DEF WayLabels
<1>1. Busy(t) /\ UNCHANGED persist
  BY DEF DecideTxn, MarkNext, MarkDesc, UnlinkNode, At, persist
<1>2. f \in Frame
  BY <1>1, TopInStack DEF IInv
<1>3. Return(t) => Free
  BY DEF Return, NewFrame
<1>4. Dropped(f).pc = "marklist"
  BY <1>2 DEF Dropped, Frame
<1>5. DecideTxn(t) => Free
  <2> DEFINE g == [f EXCEPT !.pc = IF Persist THEN "claim" ELSE "marklist",
                            !.todo = Doomed(f), !.ins = <<>>, !.del = <<>>]
  <2>1. g.pc \in {"claim", "marklist"}
    BY <1>2 DEF Frame
  <2>2. DecideTxn(t) => SetFrame(t, g) \/ Return(t)
    BY DEF DecideTxn
  <2> QED
    BY <1>3, <2>1, <2>2
<1>6. MarkNext(t) => Free
  <2> DEFINE g == [f EXCEPT !.pc = "markdesc", !.old = nd[Head(f.todo).node]]
  <2>1. g.pc = "markdesc"
    BY <1>2 DEF Frame
  <2>2. MarkNext(t) => SetFrame(t, g) \/ SetFrame(t, Dropped(f)) \/ Return(t)
    BY DEF MarkNext
  <2> QED
    BY <1>3, <1>4, <2>1, <2>2
<1>7. MarkDesc(t) => Free
  <2> DEFINE g == [f EXCEPT !.old = Null]
             h == [g EXCEPT !.pc = "marknode"]
  <2>1. h.pc = "marknode" /\ Dropped(g).pc = "marklist"
    BY <1>2 DEF Frame, Dropped
  <2>2. MarkDesc(t) => SetFrame(t, h) \/ SetFrame(t, Dropped(g))
    BY DEF MarkDesc
  <2> HIDE DEF g, h
  <2> QED
    BY <2>1, <2>2
<1>9. UnlinkNode(t) => Free
  <2> DEFINE g == Dropped([f EXCEPT !.curr = m_head])
  <2>1. g.pc = "marklist"
    BY <1>2 DEF Frame, Dropped
  <2>2. UnlinkNode(t) => SetFrame(t, g)
    BY DEF UnlinkNode
  <2> QED
    BY <2>1, <2>2
<1> HIDE DEF Free
<1>10. Free
  BY <1>5, <1>6, <1>7, <1>9
<1> QED
  BY <1>1, <1>10 DEF Free

LEMMA EndTicket ==
  ASSUME IInv, NEW t \in Thread,
         \/ DecideTxn(t) \/ MarkNext(t) \/ MarkDesc(t) \/ MarkNode(t) \/ UnlinkNode(t)
  PROVE  /\ Busy(t) /\ UNCHANGED persist
         /\ \E g : SetFrame(t, g) /\ g.pc \notin {"store", "persisted"}
<1> DEFINE f == Fr(t)
           Free == \E g : SetFrame(t, g) /\ g.pc \notin {"store", "persisted"}
<1>1. ASSUME MarkNode(t) PROVE Busy(t) /\ (UNCHANGED persist) /\ Free
  <2> DEFINE g == [f EXCEPT !.pc = "unlinknode", !.curr = next[Head(f.todo).node]]
  <2>1. Busy(t) /\ f \in Frame /\ UNCHANGED persist
    BY <1>1, TopInStack DEF MarkNode, At, persist, IInv
  <2>2. g.pc = "unlinknode"
    BY <2>1 DEF Frame
  <2>3. SetFrame(t, g)
    BY <1>1 DEF MarkNode
  <2> QED
    BY <2>1, <2>2, <2>3
<1> QED
  BY <1>1, EndLabelsLeft

\* FinishPendingTxn and ExecuteOps set frames that hold no ticket and no way.
LEMMA CallLabels ==
  ASSUME IInv, NEW t \in Thread, FinishPendingTxn(t) \/ ExecuteOps(t)
  PROVE  /\ UNCHANGED persist
         /\ \A u \in Thread, x \in Desc :
              fr'[u][x] = fr[u][x] \/ fr'[u][x].pc \in {"loop", "exist", "cycle"}
<1> DEFINE Quiet == \A u \in Thread, x \in Desc :
                      fr'[u][x] = fr[u][x] \/ fr'[u][x].pc \in {"loop", "exist", "cycle"}
<1>1. TypeOK /\ UNCHANGED persist
  BY DEF FinishPendingTxn, ExecuteOps, IInv, persist
<1>2. \A i : NewFrame(i).pc = "loop"
  BY DEF NewFrame
<1>3. ExecuteOps(t) => Quiet
  BY <1>1, <1>2 DEF ExecuteOps, TypeOK
<1>4. FinishPendingTxn(t) => Quiet
  <2> SUFFICES ASSUME FinishPendingTxn(t) PROVE Quiet
    OBVIOUS
  <2>1. PICK f \in Frame : f = Fr(t) /\ Busy(t)
    BY TopInStack DEF FinishPendingTxn, At, IInv
  <2>2. PICK d \in Desc : d = Top(t)
    BY <1>1, <2>1, TopInStack
  <2>3. PICK e : e = f.old.desc
    OBVIOUS
  <2>4. PICK new : new = NewFrame(f.old.opid + 1)
    OBVIOUS
  <2>5. /\ [f EXCEPT !.pc = "exist"].pc = "exist"
        /\ [f EXCEPT !.pc = "cycle"].pc = "cycle"
    BY DEF Frame
  <2>6. PICK wait : wait = [f EXCEPT !.pc = "exist"]
    OBVIOUS
  <2>7. PICK cyc : cyc = [f EXCEPT !.pc = "cycle"]
    OBVIOUS
  <2>8. \/ fr' = [fr EXCEPT ![t][d] = wait]
        \/ fr' = [fr EXCEPT ![t][d] = cyc]
        \/ SetFrames(t, d, wait, e, new)
    BY <1>1, <2>1, <2>2, <2>3, <2>4, <2>6, <2>7
    DEF FinishPendingTxn, GoTo, SetFrame, SetFrames, TypeOK, Fr
  <2>9. fr \in [Thread -> [Desc -> Frame]]
    BY <1>1 DEF TypeOK
  <2>10. \A u \in Thread, x \in Desc :
           fr'[u][x] \in {fr[u][x], wait, cyc, new}
    BY ONLY <2>8, <2>9, t \in Thread, d \in Desc DEF SetFrames
  <2>11. wait.pc = "exist" /\ cyc.pc = "cycle" /\ new.pc = "loop"
    BY <1>2, <2>4, <2>5, <2>6, <2>7
  <2> QED
    BY <2>10, <2>11
<1> QED
  BY <1>1, <1>3, <1>4

LEMMA CallTicket ==
  ASSUME IInv, TicketInv, NEW t \in Thread, FinishPendingTxn(t) \/ ExecuteOps(t)
  PROVE  TicketInv'
<1>1. /\ UNCHANGED persist
      /\ \A u \in Thread, x \in Desc :
           fr'[u][x].pc \in {"store", "persisted"} => fr'[u][x] = fr[u][x]
  BY CallLabels
<1> QED
  BY <1>1, TicketFrames DEF persist

LEMMA PersistTicketTicket ==
  ASSUME IInv, TicketInv, NEW t \in Thread, PersistTicket(t) PROVE TicketInv'
<1>1. /\ Busy(t) /\ TypeOK /\ lastTxId' = lastTxId + 1 /\ lastTxId \in Nat
      /\ UNCHANGED <<pstatus, txid>>
  BY DEF PersistTicket, At, IInv, TypeOK
<1>2. PICK d \in Desc : d = Top(t)
  BY <1>1, TopInStack
<1>3. PICK f \in Frame : f = Fr(t)
  BY <1>1, TopInStack
<1>4. PICK g : g = [f EXCEPT !.pc = "store", !.tkt = lastTxId]
  OBVIOUS
<1>5. g.pc = "store" /\ g.tkt = lastTxId
  BY <1>4 DEF Frame
<1>6. /\ fr'[t][d] = g
      /\ \A u \in Thread, x \in Desc : u # t \/ x # d => fr'[u][x] = fr[u][x]
  <2>1. SetFrame(t, g)
    BY <1>3, <1>4 DEF PersistTicket
  <2> QED
    BY <1>1, <1>2, <2>1 DEF SetFrame, TypeOK
<1>7. \A x \in AllDesc : txid[x] \in Nat /\ txid[x] < lastTxId
  BY <1>1 DEF TypeOK, TicketInv
<1>8. \A u \in Thread, x \in Desc :
        fr'[u][x].pc = "store" /\ ~(u = t /\ x = d) =>
          fr[u][x].pc = "store" /\ fr'[u][x].tkt = fr[u][x].tkt /\ fr[u][x].tkt < lastTxId
          /\ fr[u][x].tkt \in Nat
  <2>1. \A u \in Thread, x \in Desc : fr[u][x].tkt \in Nat
    <3>1. \A h \in Frame : h.tkt \in Nat
      BY DEF Frame
    <3>2. \A u \in Thread, x \in Desc : fr[u][x] \in Frame
      BY <1>1 DEF TypeOK
    <3> QED
      BY <3>1, <3>2
  <2> QED
    BY <1>6, <2>1 DEF TicketInv
<1>9. ASSUME NEW u \in Thread, NEW x \in Desc, fr'[u][x].pc = "store"
      PROVE  /\ 0 < fr'[u][x].tkt /\ fr'[u][x].tkt < lastTxId'
             /\ \A e \in AllDesc : txid'[e] # fr'[u][x].tkt
             /\ \A v \in Thread, e \in Desc :
                  fr'[v][e].pc = "store" /\ fr'[v][e].tkt = fr'[u][x].tkt => v = u /\ e = x
  <2>1. CASE u = t /\ x = d
    <3>1. fr'[u][x].tkt = lastTxId /\ lastTxId > 0
      BY <1>5, <1>6, <2>1 DEF TicketInv
    <3>2. \A e \in AllDesc : txid'[e] # lastTxId
      BY <1>1, <1>7
    <3>3. \A v \in Thread, e \in Desc :
            fr'[v][e].pc = "store" /\ fr'[v][e].tkt = lastTxId => v = u /\ e = x
      BY <1>1, <1>8, <2>1
    <3> QED
      BY <1>1, <3>1, <3>2, <3>3
  <2>2. CASE ~(u = t /\ x = d)
    <3>1. /\ fr[u][x].pc = "store" /\ fr'[u][x].tkt = fr[u][x].tkt
          /\ fr[u][x].tkt < lastTxId /\ fr[u][x].tkt \in Nat
      BY <1>8, <1>9, <2>2
    <3>2. /\ 0 < fr[u][x].tkt
          /\ \A e \in AllDesc : txid[e] # fr[u][x].tkt
          /\ \A v \in Thread, e \in Desc :
               fr[v][e].pc = "store" /\ fr[v][e].tkt = fr[u][x].tkt => v = u /\ e = x
      BY <3>1 DEF TicketInv
    <3>3. \A v \in Thread, e \in Desc :
            fr'[v][e].pc = "store" /\ fr'[v][e].tkt = fr[u][x].tkt => v = u /\ e = x
      <4> SUFFICES ASSUME NEW v \in Thread, NEW e \in Desc,
                          fr'[v][e].pc = "store", fr'[v][e].tkt = fr[u][x].tkt
                   PROVE  v = u /\ e = x
        OBVIOUS
      <4>1. ~(v = t /\ e = d)
        BY <1>1, <1>5, <1>6, <3>1
      <4> QED
        BY <1>8, <3>2, <4>1
    <3> QED
      BY <1>1, <3>1, <3>2, <3>3
  <2> QED
    BY <2>1, <2>2
<1>10. ASSUME NEW u \in Thread, NEW x \in Desc, fr'[u][x].pc = "persisted"
       PROVE  txid'[Target(fr[u][x], x)'] # 0
  <2>1. fr'[u][x] = fr[u][x]
    BY <1>5, <1>6, <1>10
  <2> QED
    BY <1>1, <1>10, <2>1 DEF TicketInv, Target
<1>11. lastTxId' > 0 /\ \A x \in AllDesc : txid'[x] < lastTxId'
  BY <1>1, <1>7
<1> QED
  BY <1>1, <1>9, <1>10, <1>11 DEF TicketInv

LEMMA PersistStoreTicket ==
  ASSUME IInv, TicketInv, NEW t \in Thread, PersistStore(t) PROVE TicketInv'
<1>1. /\ Busy(t) /\ TypeOK /\ UNCHANGED <<pstatus, lastTxId>> /\ Fr(t).pc = "store"
  BY DEF PersistStore, At, IInv
<1>2. PICK d \in Desc : d = Top(t)
  BY <1>1, TopInStack
<1>3. PICK f \in Frame : f = Fr(t)
  BY <1>1, TopInStack
<1>4. PICK g : g = [f EXCEPT !.pc = "persisted", !.tkt = 0]
  OBVIOUS
<1>5. /\ g.pc = "persisted" /\ g.back = f.back /\ g.old = f.old
      /\ Target(g, d) = Target(f, d)
  BY <1>4 DEF Frame, Target
<1>6. PICK e \in AllDesc : e = Target(f, d)
  BY <1>2, <1>3, TargetType DEF Fr
<1>7. PICK k : k = f.tkt
  OBVIOUS
<1>8. SetFrame(t, g) /\ txid' = [txid EXCEPT ![e] = k]
  BY <1>2, <1>3, <1>4, <1>6, <1>7 DEF PersistStore, PersistTarget, Target
<1>9. /\ fr'[t][d] = g /\ fr[t][d] = f
      /\ \A u \in Thread, x \in Desc : u # t \/ x # d => fr'[u][x] = fr[u][x]
  BY <1>1, <1>2, <1>3, <1>8 DEF SetFrame, TypeOK, Fr
<1>10. /\ txid'[e] = k
       /\ \A x \in AllDesc : x # e => txid'[x] = txid[x]
  BY <1>1, <1>8 DEF TypeOK
<1>11. /\ 0 < k /\ k < lastTxId /\ k # 0
       /\ \A x \in AllDesc : txid[x] # k
       /\ \A u \in Thread, x \in Desc :
            fr[u][x].pc = "store" /\ fr[u][x].tkt = k => u = t /\ x = d
  <2>1. k \in Nat
    BY <1>7 DEF Frame
  <2>2. fr[t][d].pc = "store" /\ fr[t][d].tkt = k
    BY <1>1, <1>3, <1>7, <1>9
  <2> QED
    BY <2>1, <2>2 DEF TicketInv
<1>12. \A x \in AllDesc : txid'[x] < lastTxId'
  BY <1>1, <1>10, <1>11 DEF TicketInv
<1>13. \A x, y \in AllDesc : x # y /\ txid'[x] = txid'[y] => txid'[x] = 0
  BY <1>10, <1>11 DEF TicketInv
<1>14. ASSUME NEW u \in Thread, NEW x \in Desc, fr'[u][x].pc = "store"
       PROVE  /\ 0 < fr'[u][x].tkt /\ fr'[u][x].tkt < lastTxId'
              /\ \A y \in AllDesc : txid'[y] # fr'[u][x].tkt
              /\ \A v \in Thread, y \in Desc :
                   fr'[v][y].pc = "store" /\ fr'[v][y].tkt = fr'[u][x].tkt => v = u /\ y = x
  <2>1. fr'[u][x] = fr[u][x] /\ (u # t \/ x # d)
    BY <1>5, <1>9, <1>14
  <2>2. PICK h : h = fr[u][x] /\ h.pc = "store"
    BY <1>14, <2>1
  <2>3. /\ 0 < h.tkt /\ h.tkt < lastTxId
        /\ \A y \in AllDesc : txid[y] # h.tkt
        /\ \A v \in Thread, y \in Desc :
             fr[v][y].pc = "store" /\ fr[v][y].tkt = h.tkt => v = u /\ y = x
    BY <2>2 DEF TicketInv
  <2>4. h.tkt # k
    BY <1>11, <2>1, <2>2
  <2>5. \A y \in AllDesc : txid'[y] # h.tkt
    BY <1>10, <2>3, <2>4
  <2>6. \A v \in Thread, y \in Desc :
          fr'[v][y].pc = "store" => fr'[v][y] = fr[v][y]
    BY <1>5, <1>9
  <2> QED
    BY <1>1, <2>1, <2>2, <2>3, <2>5, <2>6
<1>15. ASSUME NEW u \in Thread, NEW x \in Desc, fr'[u][x].pc = "persisted"
       PROVE  txid'[Target(fr[u][x], x)'] # 0
  <2>1. CASE u = t /\ x = d
    <3>1. Target(fr[u][x], x)' = e
      BY <1>5, <1>6, <1>9, <2>1 DEF Target
    <3> QED
      BY <1>10, <1>11, <3>1
  <2>2. CASE u # t \/ x # d
    <3>1. fr'[u][x] = fr[u][x]
      BY <1>9, <2>2
    <3>2. PICK y \in AllDesc : y = Target(fr[u][x], x)
      BY TargetType
    <3>3. txid[y] # 0
      BY <1>15, <3>1, <3>2 DEF TicketInv
    <3>4. Target(fr[u][x], x)' = y
      BY <3>1, <3>2 DEF Target
    <3> QED
      BY <1>10, <1>11, <3>3, <3>4
  <2> QED
    BY <2>1, <2>2
<1>16. \A x \in Desc : pstatus'[x] = "PERSISTED" => txid'[x] # 0
  BY <1>1, <1>10, <1>11 DEF TicketInv, AllDesc
<1> QED
  BY <1>1, <1>12, <1>13, <1>14, <1>15, <1>16 DEF TicketInv

LEMMA PersistEndTicket ==
  ASSUME IInv, TicketInv, NEW t \in Thread, PersistClaim(t) \/ PersistDone(t)
  PROVE  TicketInv'
<1> DEFINE f == Fr(t)
           back == [f EXCEPT !.pc = f.back, !.back = "marklist"]
           go == [f EXCEPT !.pc = "ticket"]
<1>1. /\ Busy(t) /\ TypeOK /\ UNCHANGED <<txid, lastTxId>>
  BY DEF PersistClaim, PersistDone, At, IInv
<1>2. f \in Frame /\ Top(t) \in Desc
  BY <1>1, TopInStack
<1>3. f.back \in {"marklist", "exist"} /\ back.pc = f.back /\ go.pc = "ticket"
  BY <1>2 DEF Frame
<1>4. PICK e \in AllDesc : e = PersistTarget(t) /\ e = Target(f, Top(t))
  BY <1>2, TargetType DEF PersistTarget, Target, Fr
<1>5. CASE PersistClaim(t)
  <2>1. \E g \in {back, go} : SetFrame(t, g)
    BY <1>5 DEF PersistClaim, GoTo
  <2>2. \A d \in Desc : pstatus'[d] = "PERSISTED" => pstatus[d] = "PERSISTED"
    BY <1>1, <1>5 DEF PersistClaim, TypeOK, AllDesc
  <2> HIDE DEF back, go
  <2> QED
    BY <1>1, <1>3, <2>1, <2>2, TicketQuiet
<1>6. CASE PersistDone(t)
  <2>1. SetFrame(t, back) /\ pstatus' = [pstatus EXCEPT ![e] = "PERSISTED"]
    BY <1>4, <1>6 DEF PersistDone
  <2>2. txid[e] # 0
    <3>1. fr[t][Top(t)].pc = "persisted"
      BY <1>6 DEF PersistDone, At, Fr
    <3> QED
      BY <1>2, <1>4, <3>1 DEF TicketInv, Fr
  <2>3. \A d \in Desc : pstatus'[d] = "PERSISTED" => pstatus[d] = "PERSISTED" \/ txid[d] # 0
    BY <1>1, <2>1, <2>2 DEF TypeOK, AllDesc
  <2> HIDE DEF back
  <2> QED
    BY <1>1, <1>3, <2>1, <2>3, TicketQuiet
<1> QED
  BY <1>5, <1>6

LEMMA InitTicket == Init => TicketInv
<1> SUFFICES ASSUME Init PROVE TicketInv
  OBVIOUS
<1>1. \A t \in Thread, d \in Desc : fr[t][d].pc = "loop"
  BY DEF Init, NewFrame
<1>2. /\ lastTxId = 1
      /\ \A d \in AllDesc : txid[d] = 0
      /\ \A d \in Desc : pstatus[d] = "MAYBE"
  BY ConstantsAssumption DEF Init, AllDesc
<1> QED
  BY <1>1, <1>2 DEF TicketInv

LEMMA NextTicket == IInv /\ TicketInv /\ [Next]_vars => TicketInv'
<1> SUFFICES ASSUME IInv, TicketInv, [Next]_vars PROVE TicketInv'
  OBVIOUS
<1>1. CASE UNCHANGED vars
  BY <1>1, TicketFrames DEF vars
<1>2. ASSUME NEW t \in Thread, ExecuteOps(t) PROVE TicketInv'
  BY <1>2, CallTicket
<1>3. ASSUME NEW t \in Thread, Step(t) PROVE TicketInv'
  <2>1. CASE \/ HelpLoop(t) \/ LocateNext(t) \/ LocateSkip(t) \/ LocateUnlink(t)
             \/ InsertAbsent(t) \/ InsertLink(t) \/ ReadNodeDesc(t) \/ HelpMark(t)
             \/ CycleAbort(t) \/ CheckKeyExist(t) \/ CheckActive(t) \/ UpdateDesc(t)
    BY <2>1, OpTicket, TicketQuiet DEF persist
  <2>2. CASE \/ DecideTxn(t) \/ MarkNext(t) \/ MarkDesc(t) \/ MarkNode(t)
             \/ UnlinkNode(t)
    BY <2>2, EndTicket, TicketQuiet DEF persist
  <2> QED
    BY <1>3, <2>1, <2>2, CallTicket, PersistTicketTicket, PersistStoreTicket,
       PersistEndTicket DEF Step
<1> QED
  BY <1>1, <1>2, <1>3 DEF Next, Terminated

-----------------------------------------------------------------------------
(* What is unlinked is marked.                                             *)

\* The step InsertLink(t) of a thread whose compare-and-swap succeeds.
LEMMA LinkStep ==
  ASSUME IInv, ShapeInv, NEW t \in Thread, InsertLink(t), next' # next
  PROVE  /\ CanSwing(Fr(t).pred, Fr(t).curr)
         /\ next' = [next EXCEPT ![Mine(t)] = Fr(t).curr, ![Fr(t).pred] = Mine(t)]
         /\ Mine(t) \in NodeDesc /\ ~Ready(Mine(t))
<1>1. /\ At(t, "link") /\ CanSwing(Fr(t).pred, Fr(t).curr)
      /\ next' = [next EXCEPT ![Mine(t)] = Fr(t).curr, ![Fr(t).pred] = Mine(t)]
  BY DEF InsertLink
<1>2. /\ Mine(t) \in NodeDesc /\ Top(t) \in Desc /\ Fr(t).opid \in 1..MaxOps
      /\ InOp(Fr(t))
  BY <1>1, InOpFacts DEF InOp, At, PersistLabels, EndLabels
<1>3. PICK m \in NodeDesc : m = Mine(t)
  BY <1>2
<1>4. m.by = t /\ m.desc = Top(t) /\ m.opid = Fr(t).opid
  BY <1>3 DEF Mine
<1>5. m # m_head /\ m # m_tail /\ m.desc # PreDesc
  BY <1>2, <1>4, NodeDescFacts, ConstantsAssumption
<1>6. Unborn(m)
  BY <1>2, <1>4, <1>5, ConstantsAssumption DEF Unborn, Fr
<1> QED
  BY <1>1, <1>3, <1>5, <1>6 DEF Ready

\* No step writes through a marked pointer.
Frozen ==
  /\ \A n \in Node : marked[n] => marked'[n] /\ next'[n] = next[n]
  /\ \A n \in NodeDesc : ndmark[n] => ndmark'[n] /\ nd'[n] = nd[n]

LEMMA StepFrozen == IInv /\ ShapeInv /\ [Next]_vars => Frozen
<1> SUFFICES ASSUME IInv, ShapeInv, [Next]_vars PROVE Frozen
  OBVIOUS
<1>1. TypeOK /\ MarkOrder
  BY DEF IInv, ShapeInv
<1>2. CASE UNCHANGED heap
  BY <1>2 DEF Frozen, heap
<1>3. ASSUME NEW t \in Thread, LocateUnlink(t) PROVE Frozen
  BY <1>1, <1>3 DEF LocateUnlink, CanSwing, Frozen, TypeOK
<1>4. ASSUME NEW t \in Thread, InsertLink(t) PROVE Frozen
  <2>1. CASE next' = next
    BY <1>4, <2>1 DEF InsertLink, Frozen
  <2>2. CASE next' # next
    <3>1. ~marked[Fr(t).pred] /\ ~marked[Mine(t)]
      BY <1>4, <2>2, LinkStep DEF CanSwing, ShapeInv, HeapInv, Node
    <3>2. next' = [next EXCEPT ![Mine(t)] = Fr(t).curr, ![Fr(t).pred] = Mine(t)]
      BY <1>4, <2>2, LinkStep
    <3>3. UNCHANGED <<marked, nd, ndmark>>
      BY <1>4 DEF InsertLink
    <3>4. \A n \in Node : n # Mine(t) /\ n # Fr(t).pred => next'[n] = next[n]
      BY <1>1, <3>2 DEF TypeOK
    <3> QED
      BY <3>1, <3>3, <3>4 DEF Frozen
  <2> QED
    BY <2>1, <2>2
<1>5. ASSUME NEW t \in Thread, HelpMark(t) PROVE Frozen
  BY <1>1, <1>5 DEF HelpMark, Frozen, TypeOK
<1>6. ASSUME NEW t \in Thread, UpdateDesc(t) PROVE Frozen
  BY <1>1, <1>6 DEF UpdateDesc, CanTake, Frozen, TypeOK
<1>7. ASSUME NEW t \in Thread, MarkDesc(t) PROVE Frozen
  BY <1>1, <1>7 DEF MarkDesc, Frozen, TypeOK
<1>8. ASSUME NEW t \in Thread, MarkNode(t) PROVE Frozen
  BY <1>1, <1>8 DEF MarkNode, Frozen, TypeOK
<1>9. ASSUME NEW t \in Thread, UnlinkNode(t) PROVE Frozen
  BY <1>1, <1>9 DEF UnlinkNode, CanSwing, Frozen, TypeOK
<1>10. CASE UNCHANGED vars
  BY <1>2, <1>10 DEF vars, heap
<1>11. ASSUME NEW t \in Thread, ExecuteOps(t) PROVE Frozen
  BY <1>2, <1>11 DEF ExecuteOps
<1>12. ASSUME NEW t \in Thread, Step(t) PROVE Frozen
  <2>1. CASE \/ HelpLoop(t) \/ LocateNext(t) \/ LocateSkip(t) \/ InsertAbsent(t)
             \/ ReadNodeDesc(t) \/ FinishPendingTxn(t) \/ CycleAbort(t)
             \/ CheckKeyExist(t) \/ CheckActive(t) \/ DecideTxn(t) \/ MarkNext(t)
             \/ PersistClaim(t) \/ PersistTicket(t) \/ PersistStore(t) \/ PersistDone(t)
    BY <1>2, <2>1
    DEF HelpLoop, LocateNext, LocateSkip, InsertAbsent, ReadNodeDesc, FinishPendingTxn,
        CycleAbort, CheckKeyExist, CheckActive, DecideTxn, MarkNext, PersistClaim,
        PersistTicket, PersistStore, PersistDone
  <2> QED
    BY <1>3, <1>4, <1>5, <1>6, <1>7, <1>8, <1>9, <1>12, <2>1 DEF Step
<1> QED
  BY <1>10, <1>11, <1>12 DEF Next, Terminated

LEMMA NoWay == ASSUME NEW n PROVE MarkedPath(n, n)
<1>1. {} \in SUBSET {m \in Node : marked[m]}
  OBVIOUS
<1>2. n \in {} \union {n} /\ \A m \in {} : next[m] \in {} \union {n}
  OBVIOUS
<1> QED
  BY <1>1, <1>2 DEF MarkedPath

LEMMA WayOn ==
  ASSUME NEW p, NEW c \in Node, MarkedPath(p, c), marked[c]
  PROVE  MarkedPath(p, next[c])
<1>1. PICK M \in SUBSET {n \in Node : marked[n]} :
        p \in M \union {c} /\ \A n \in M : next[n] \in M \union {c}
  BY DEF MarkedPath
<1>2. M \union {c} \in SUBSET {n \in Node : marked[n]}
  OBVIOUS
<1> QED
  BY <1>1, <1>2 DEF MarkedPath

LEMMA WayStays ==
  ASSUME Frozen, NEW p, NEW c, MarkedPath(p, c)
  PROVE  MarkedPath(p, c)'
<1>1. PICK M \in SUBSET {n \in Node : marked[n]} :
        p \in M \union {c} /\ \A n \in M : next[n] \in M \union {c}
  BY DEF MarkedPath
<1>2. M \in SUBSET {n \in Node : marked'[n]} /\ \A n \in M : next'[n] = next[n]
  BY DEF Frozen
<1> QED
  BY <1>1, <1>2 DEF MarkedPath

LEMMA WayInvStays ==
  ASSUME Frozen, NEW f, WayInv(f)
  PROVE  WayInv(f)'
<1>1. Head(f.todo).node \in NodeDesc => Head(f.todo).node \in Node
  BY DEF Node
<1> QED
  BY <1>1, WayStays DEF WayInv, Frozen

\* Every frame that a step sets is past the walk, or its way is known.
LEMMA WayFrames ==
  ASSUME Frozen, WaysInv,
         \A u \in Thread, d \in Desc :
           \/ fr'[u][d] = fr[u][d]
           \/ fr'[u][d].pc \notin WayLabels
           \/ \E g : fr'[u][d] = g /\ (WayInv(g) \/ WayInv(g)')
  PROVE  WaysInv'
<1> SUFFICES ASSUME NEW u \in Thread, NEW d \in Desc PROVE WayInv(fr[u][d])'
  BY DEF WaysInv
<1>1. CASE fr'[u][d] = fr[u][d]
  <2>1. PICK g : g = fr[u][d]
    OBVIOUS
  <2>2. WayInv(g)
    BY <2>1 DEF WaysInv
  <2>3. WayInv(g)'
    BY <2>2, WayInvStays
  <2> QED
    BY <1>1, <2>1, <2>3 DEF WayInv
<1>2. CASE fr'[u][d].pc \notin WayLabels
  BY <1>2 DEF WayInv, WayLabels
<1>3. ASSUME NEW g, fr'[u][d] = g, WayInv(g) \/ WayInv(g)'
      PROVE  WayInv(fr[u][d])'
  <2>1. WayInv(g)'
    BY <1>3, WayInvStays
  <2> QED
    BY <1>3, <2>1 DEF WayInv
<1> QED
  BY <1>1, <1>2, <1>3

\* Thread t goes on with the frame g.
LEMMA WayQuiet ==
  ASSUME TypeOK, Frozen, WaysInv, NEW t \in Thread, Busy(t), NEW g, SetFrame(t, g),
         g.pc \notin WayLabels \/ WayInv(g) \/ WayInv(g)'
  PROVE  WaysInv'
<1>1. Top(t) \in Desc
  BY TopInStack
<1>2. /\ fr'[t][Top(t)] = g
      /\ \A u \in Thread, d \in Desc :
           u # t \/ d # Top(t) => fr'[u][d] = fr[u][d]
  BY <1>1 DEF SetFrame, TypeOK
<1>3. ASSUME NEW u \in Thread, NEW d \in Desc
      PROVE  \/ fr'[u][d] = fr[u][d]
             \/ fr'[u][d].pc \notin WayLabels
             \/ \E h : fr'[u][d] = h /\ (WayInv(h) \/ WayInv(h)')
  BY <1>2
<1> QED
  BY <1>3, WayFrames

LEMMA InitWays == Init => WaysInv
BY DEF Init, WaysInv, WayInv, NewFrame

\* LocatePred has read the successor of pred, or steps over a marked node.
LEMMA LocateWays ==
  ASSUME IInv, WaysInv, Frozen, NEW t \in Thread, LocateNext(t) \/ LocateSkip(t)
  PROVE  WaysInv'
<1> DEFINE f == Fr(t)
<1>1. Busy(t) /\ TypeOK /\ f \in Frame /\ WayInv(f) /\ f.curr \in Node
  BY TopInStack DEF LocateNext, LocateSkip, At, IInv, WaysInv, Fr, Frame
<1>2. CASE LocateNext(t)
  <2> DEFINE g == [f EXCEPT !.pc = "skip", !.pred = f.curr,
                            !.pnext = next[f.curr], !.curr = next[f.curr]]
  <2>1. g.pc = "skip" /\ g.pnext = next[f.curr] /\ g.curr = next[f.curr]
    BY <1>1 DEF Frame
  <2>2. WayInv(g)
    BY <2>1, NoWay DEF WayInv
  <2>3. SetFrame(t, g)
    BY <1>2 DEF LocateNext
  <2> HIDE DEF g
  <2> QED
    BY <1>1, <2>2, <2>3, WayQuiet
<1>3. CASE LocateSkip(t)
  <2>1. f.pc = "skip" /\ MarkedPath(f.pnext, f.curr)
    BY <1>1, <1>3 DEF LocateSkip, At, WayInv
  <2> DEFINE g == [f EXCEPT !.curr = next[f.curr]]
             h == [f EXCEPT !.pc = "unlink"]
  <2>2. /\ g.pc = "skip" /\ g.pnext = f.pnext /\ g.curr = next[f.curr]
        /\ h.pc = "unlink" /\ h.pnext = f.pnext /\ h.curr = f.curr
    BY <1>1, <2>1 DEF Frame
  <2>3. marked[f.curr] => MarkedPath(f.pnext, next[f.curr])
    BY <1>1, <2>1, WayOn
  <2>4. marked[f.curr] => WayInv(g)
    BY <2>2, <2>3 DEF WayInv
  <2>5. WayInv(h)
    BY <2>1, <2>2 DEF WayInv
  <2>6. Arrived(f, Op(t)).pc \notin WayLabels
    BY <1>1, ArrivedPc DEF WayLabels
  <2>7. \/ marked[f.curr] /\ SetFrame(t, g)
        \/ SetFrame(t, h)
        \/ SetFrame(t, Arrived(f, Op(t)))
    BY <1>3 DEF LocateSkip
  <2> HIDE DEF g, h
  <2> QED
    BY <1>1, <2>4, <2>5, <2>6, <2>7, WayQuiet
<1> QED
  BY <1>2, <1>3

\* MarkForDeletion has marked the node that it unlinks next.
LEMMA MarkNodeWays ==
  ASSUME IInv, ShapeInv, WaysInv, Frozen, NEW t \in Thread, MarkNode(t)
  PROVE  WaysInv'
<1> DEFINE f == Fr(t)
<1>1. At(t, "marknode") /\ f.pc = "marknode"
  BY DEF MarkNode, At
<1>2. f.todo # <<>>
  BY <1>1, Running DEF Good, FrameInv, EndLabels, At
<1>3. Busy(t) /\ f \in Frame /\ Head(f.todo).node \in NodeDesc /\ TypeOK
  BY <1>1, <1>2, EndFacts DEF EndLabels, IInv
<1>4. PICK n \in NodeDesc : n = Head(f.todo).node
  BY <1>3
<1>5. PICK g : g = [f EXCEPT !.pc = "unlinknode", !.curr = next[n]]
  OBVIOUS
<1>6. SetFrame(t, g)
  BY <1>4, <1>5 DEF MarkNode
<1>7. n \in Node /\ marked'[n] /\ next'[n] = next[n]
  BY <1>3, <1>4 DEF MarkNode, TypeOK, Node
<1>8. g.pc = "unlinknode" /\ Head(g.todo).node = n /\ g.curr = next[n]
  BY <1>3, <1>4, <1>5 DEF Frame
<1>9. WayInv(g)'
  BY <1>7, <1>8 DEF WayInv
<1> QED
  BY <1>3, <1>6, <1>9, WayQuiet

LEMMA PersistLabelsLeft ==
  ASSUME IInv, NEW t \in Thread,
         PersistClaim(t) \/ PersistTicket(t) \/ PersistStore(t) \/ PersistDone(t)
  PROVE  Busy(t) /\ \E g : SetFrame(t, g) /\ g.pc \notin WayLabels
<1> DEFINE f == Fr(t)
           back == [f EXCEPT !.pc = f.back, !.back = "marklist"]
           wait == [f EXCEPT !.pc = "ticket"]
           draw == [f EXCEPT !.pc = "store", !.tkt = lastTxId]
           done == [f EXCEPT !.pc = "persisted", !.tkt = 0]
<1>1. Busy(t) /\ f \in Frame
  BY TopInStack DEF PersistClaim, PersistTicket, PersistStore, PersistDone, At, IInv
<1>2. \A g \in {back, wait, draw, done} : g.pc \notin WayLabels
  <2>1. f.back \in {"marklist", "exist"}
    BY <1>1 DEF Frame
  <2>2. /\ back.pc = f.back /\ wait.pc = "ticket" /\ draw.pc = "store"
        /\ done.pc = "persisted"
    BY <1>1 DEF Frame
  <2> HIDE DEF back, wait, draw, done
  <2> QED
    BY <2>1, <2>2 DEF WayLabels
<1>3. \E g \in {back, wait, draw, done} : SetFrame(t, g)
  BY DEF PersistClaim, PersistTicket, PersistStore, PersistDone, GoTo
<1> QED
  BY <1>1, <1>2, <1>3

LEMMA NextWays == IInv /\ ShapeInv /\ WaysInv /\ [Next]_vars => WaysInv'
<1> SUFFICES ASSUME IInv, ShapeInv, WaysInv, [Next]_vars PROVE WaysInv'
  OBVIOUS
<1>1. Frozen /\ TypeOK
  BY StepFrozen DEF IInv
<1>2. CASE UNCHANGED vars
  BY <1>1, <1>2, WayFrames DEF vars
<1>3. ASSUME NEW t \in Thread, ExecuteOps(t) \/ FinishPendingTxn(t) PROVE WaysInv'
  <2>1. \A u \in Thread, x \in Desc :
          fr'[u][x] = fr[u][x] \/ fr'[u][x].pc \notin WayLabels
    BY <1>3, CallLabels DEF WayLabels
  <2> QED
    BY <1>1, <2>1, WayFrames
<1>4. ASSUME NEW t \in Thread, Step(t) PROVE WaysInv'
  <2>1. CASE \/ HelpLoop(t) \/ LocateUnlink(t)
             \/ InsertAbsent(t) \/ InsertLink(t) \/ ReadNodeDesc(t) \/ HelpMark(t)
             \/ CycleAbort(t) \/ CheckKeyExist(t) \/ CheckActive(t) \/ UpdateDesc(t)
    <3>1. Busy(t) /\ \E g : SetFrame(t, g) /\ g.pc \notin WayLabels
      BY <2>1, OpLabels
    <3> QED
      BY <1>1, <3>1, WayQuiet
  <2>2. CASE DecideTxn(t) \/ MarkNext(t) \/ MarkDesc(t) \/ UnlinkNode(t)
    <3>1. Busy(t) /\ \E g : SetFrame(t, g) /\ g.pc \notin WayLabels
      BY <2>2, EndLabelsLeft
    <3> QED
      BY <1>1, <3>1, WayQuiet
  <2>3. CASE PersistClaim(t) \/ PersistTicket(t) \/ PersistStore(t) \/ PersistDone(t)
    <3>1. Busy(t) /\ \E g : SetFrame(t, g) /\ g.pc \notin WayLabels
      BY <2>3, PersistLabelsLeft
    <3> QED
      BY <1>1, <3>1, WayQuiet
  <2> QED
    BY <1>1, <1>3, <1>4, <2>1, <2>2, <2>3, LocateWays, MarkNodeWays DEF Step
<1> QED
  BY <1>2, <1>3, <1>4 DEF Next, Terminated

-----------------------------------------------------------------------------
(* The theorems.                                                           *)

\* The pointers, the marks and the txids of translist.cc stay as SafetyInv
\* says, through every interleaving of the workers and their helpers.
THEOREM SafetyInvariance == Spec => []SafetyInv
<1>1. Init => SafetyInv
  BY InitIInv, InitShape, InitTicket, InitWays DEF SafetyInv
<1>2. SafetyInv /\ [Next]_vars => SafetyInv'
  BY NextIInv, NextShape, NextTicket, NextWays DEF SafetyInv
<1> QED
  BY <1>1, <1>2, PTL DEF Spec

\* The links of the list lead to larger keys, so that LocatePred (line 688)
\* comes to an end and no key is linked twice.
THEOREM LinksSorted == Spec => []Sorted
<1>1. SafetyInv => Sorted
  BY DEF SafetyInv, ShapeInv
<1> QED
  BY <1>1, SafetyInvariance, PTL

\* MarkForDeletion (line 119) and the helpers of line 427 mark next behind nodeDesc.
THEOREM MarksInOrder == Spec => []MarkOrder
<1>1. SafetyInv => MarkOrder
  BY DEF SafetyInv, ShapeInv
<1> QED
  BY <1>1, SafetyInvariance, PTL

\* Two descriptors that persistDesc has persisted have different txids, however
\* many threads persist them.
THEOREM TxidsDiffer == Spec => []TxidUnique
<1>1. SafetyInv => TxidUnique
  BY DEF SafetyInv, TicketInv, TxidUnique, AllDesc
<1> QED
  BY <1>1, SafetyInvariance, PTL

\* The names that the model gives to nodes stand for memory: no Insert links a
\* node that has been linked before.
THEOREM FreshNodes == Spec => LinksFreshNodes
<1> DEFINE Fresh(t) == InsertLink(t) /\ next' # next =>
                         /\ next[Mine(t)] = m_tail /\ ~marked[Mine(t)]
                         /\ nd[Mine(t)] = Mine(t) /\ ~ndmark[Mine(t)]
                         /\ \A m \in Node : next[m] # Mine(t)
<1>1. SafetyInv => \A t \in Thread : Fresh(t)
  <2> SUFFICES ASSUME SafetyInv, NEW t \in Thread, InsertLink(t), next' # next
               PROVE  /\ next[Mine(t)] = m_tail /\ ~marked[Mine(t)]
                      /\ nd[Mine(t)] = Mine(t) /\ ~ndmark[Mine(t)]
                      /\ \A m \in Node : next[m] # Mine(t)
    OBVIOUS
  <2>1. Mine(t) \in NodeDesc /\ Mine(t) \in Node /\ ~Ready(Mine(t))
    BY LinkStep DEF SafetyInv, Node
  <2> QED
    BY <2>1 DEF SafetyInv, ShapeInv, HeapInv
<1>2. SafetyInv => [\A t \in Thread : Fresh(t)]_vars
  BY <1>1
<1> QED
  BY <1>2, SafetyInvariance, PTL DEF LinksFreshNodes

\* Once a node is marked no compare-and-swap on it succeeds, and no store of
\* Insert reaches it.
THEOREM MarksFreeze == Spec => MarkedIsFrozen
<1>1. SafetyInv /\ [Next]_vars => [Frozen]_vars
  BY StepFrozen DEF SafetyInv
<1> QED
  BY <1>1, SafetyInvariance, PTL DEF Spec, MarkedIsFrozen, Frozen

-----------------------------------------------------------------------------
(* A removal is final.                                                     *)

\* What no step takes back from a decided transaction.
Decided ==
  /\ \A d \in AllDesc : status[d] # "ACTIVE" => status'[d] = status[d]
  /\ \A d \in AllDesc : Persisted(d) => Persisted(d)'
  /\ \A d \in Desc : ops[d] # <<>> => ops'[d] = ops[d]

LEMMA StepDecided == IInv /\ [Next]_vars => Decided
<1> SUFFICES ASSUME IInv, [Next]_vars PROVE Decided
  OBVIOUS
<1>1. TypeOK
  BY DEF IInv
<1>2. CASE UNCHANGED <<ops, status, pstatus>>
  BY <1>2 DEF Decided, Persisted
<1>3. ASSUME NEW t \in Thread, ExecuteOps(t) PROVE Decided
  BY <1>1, <1>3 DEF ExecuteOps, Decided, Persisted, persist, TypeOK
<1>4. ASSUME NEW t \in Thread, CycleAbort(t) PROVE Decided
  <2>1. UNCHANGED <<ops, pstatus>>
    BY <1>4 DEF CycleAbort, persist
  <2>2. \A d \in AllDesc : status[d] # "ACTIVE" => status'[d] = status[d]
    BY <1>1, <1>4 DEF CycleAbort, TypeOK
  <2> QED
    BY <2>1, <2>2 DEF Decided, Persisted
<1>5. ASSUME NEW t \in Thread, DecideTxn(t) PROVE Decided
  <2>1. UNCHANGED <<ops, pstatus>>
    BY <1>5 DEF DecideTxn, persist
  <2>2. \A d \in AllDesc : status[d] # "ACTIVE" => status'[d] = status[d]
    BY <1>1, <1>5 DEF DecideTxn, TypeOK
  <2> QED
    BY <2>1, <2>2 DEF Decided, Persisted
<1>6. ASSUME NEW t \in Thread, PersistClaim(t) PROVE Decided
  BY <1>1, <1>6 DEF PersistClaim, Decided, Persisted, TypeOK
<1>7. ASSUME NEW t \in Thread, PersistDone(t) PROVE Decided
  BY <1>1, <1>7 DEF PersistDone, Decided, Persisted, TypeOK
<1>8. CASE UNCHANGED vars
  BY <1>2, <1>8 DEF vars
<1>9. ASSUME NEW t \in Thread, Step(t) PROVE Decided
  <2>1. CASE \/ HelpLoop(t) \/ LocateNext(t) \/ LocateSkip(t) \/ LocateUnlink(t)
             \/ InsertAbsent(t) \/ InsertLink(t) \/ ReadNodeDesc(t) \/ HelpMark(t)
             \/ FinishPendingTxn(t) \/ CheckKeyExist(t) \/ CheckActive(t)
             \/ UpdateDesc(t) \/ MarkNext(t) \/ MarkDesc(t) \/ MarkNode(t)
             \/ UnlinkNode(t) \/ PersistTicket(t) \/ PersistStore(t)
    BY <1>2, <2>1
    DEF HelpLoop, LocateNext, LocateSkip, LocateUnlink, InsertAbsent, InsertLink,
        ReadNodeDesc, HelpMark, FinishPendingTxn, CheckKeyExist, CheckActive,
        UpdateDesc, MarkNext, MarkDesc, MarkNode, UnlinkNode, PersistTicket,
        PersistStore, persist
  <2> QED
    BY <1>4, <1>5, <1>6, <1>7, <1>9, <2>1 DEF Step
<1> QED
  BY <1>3, <1>8, <1>9 DEF Next, Terminated

\* Nobody who reads the nodeDesc c finds its key: its transaction is over.
Gone(c) ==
  /\ status[c.desc] # "ACTIVE"
  /\ Persisted(c.desc)
  /\ ~IsKeyExist(c)

LEMMA GoneStable ==
  ASSUME TypeOK, Decided, NEW c \in NodeDesc, Ready(c), Gone(c)
  PROVE  Gone(c)'
<1>1. c.desc \in AllDesc
  BY DEF NodeDesc, AllDesc
<1>2. status'[c.desc] = status[c.desc] /\ Persisted(c.desc)'
  BY <1>1 DEF Gone, Decided
<1>3. OpType(c)' = OpType(c)
  <2>1. CASE c.desc = PreDesc
    BY <2>1 DEF OpType
  <2>2. CASE c.desc # PreDesc
    <3>1. ops'[c.desc] = ops[c.desc]
      BY <2>2, NodeDescFacts, ReadyKey DEF Decided
    <3> QED
      BY <3>1 DEF OpType
  <2> QED
    BY <2>1, <2>2
<1>4. IsNodeActive(c)' = IsNodeActive(c)
  BY <1>2 DEF IsNodeActive, Gone
<1> QED
  BY <1>2, <1>3, <1>4 DEF Gone, IsKeyExist, KeyExists

\* MarkForDeletion marks a nodeDesc that its own transaction has left on a node
\* whose key it takes out of the set.
LEMMA MarkDescGone ==
  ASSUME IInv, ShapeInv, DistinctKeys, NEW t \in Thread, MarkDesc(t),
         NEW n \in NodeDesc, ~ndmark[n], ndmark'[n]
  PROVE  Gone(nd[n]) /\ nd'[n] = nd[n]
<1> DEFINE f == Fr(t)
<1>1. At(t, "markdesc") /\ f.pc = "markdesc" /\ TypeOK
  BY DEF MarkDesc, At, IInv
<1>2. f.todo # <<>>
  BY <1>1, Running DEF Good, FrameInv, EndLabels, At
<1>3. PICK d \in Desc : d = Top(t)
  BY <1>1, Running DEF At
<1>4. /\ Sound(f, d) /\ status[d] # "ACTIVE"
      /\ EntryOf(Head(f.todo), d, Undone(d))
  BY <1>1, <1>2, <1>3, EndFacts DEF EndLabels
<1>5. n = Head(f.todo).node /\ nd[n] = f.old /\ nd' = nd
  BY <1>1 DEF MarkDesc, CanTake, TypeOK
<1>6. f.old.desc = d /\ Persisted(d)
  BY <1>1, <1>4 DEF Sound, MarkInv, EndLabels
<1>7. PICK c \in NodeDesc : c = nd[n]
  BY <1>1 DEF TypeOK
<1>8. c.desc = d /\ c.desc # PreDesc
  BY <1>3, <1>5, <1>6, <1>7, ConstantsAssumption
<1>9. Ready(n) /\ Ready(c) /\ KeyOf(c) = KeyOf(n)
  <2>1. Ready(n)
    BY <1>4, <1>5 DEF EntryOf
  <2> QED
    BY <1>7, <2>1 DEF ShapeInv, NodeInv
<1>10. PICK i \in 1..Len(ops[d]) :
         ops[d][i] = [type |-> Undone(d), key |-> KeyOf(n)]
  BY <1>4, <1>5 DEF EntryOf
<1>11. /\ c.opid \in 1..Len(ops[d]) /\ ops[d] # <<>>
       /\ KeyOf(c) = ops[d][c.opid].key
  <2>1. c.opid \in 1..Len(ops[d]) /\ ops[d] # <<>>
    BY <1>1, <1>8, <1>9, ReadyKey
  <2>2. c # m_head /\ c # m_tail
    BY NodeDescFacts
  <2> QED
    BY <1>8, <2>1, <2>2 DEF KeyOf
<1>12. i = c.opid
  <2>1. ops[d] \in OpArrays
    BY <1>1, <1>11 DEF TypeOK
  <2>2. ops[d][i].key = ops[d][c.opid].key
    BY <1>9, <1>10, <1>11
  <2> QED
    BY <1>11, <2>1, <2>2 DEF DistinctKeys
<1>13. OpType(c) = Undone(d)
  BY <1>8, <1>10, <1>12 DEF OpType
<1>14. ~IsKeyExist(c)
  BY <1>6, <1>8, <1>13 DEF IsKeyExist, KeyExists, IsNodeActive, Undone
<1> QED
  BY <1>4, <1>5, <1>6, <1>7, <1>8, <1>14 DEF Gone

LEMMA OnlyMarkDesc ==
  ASSUME IInv, [Next]_vars, ndmark' # ndmark
  PROVE  \E t \in Thread : MarkDesc(t)
<1>1. ~UNCHANGED vars /\ ~Terminated
  BY DEF vars, Terminated
<1>2. \A t \in Thread : ~ExecuteOps(t)
  BY DEF ExecuteOps, heap
<1>3. ASSUME NEW t \in Thread, Step(t) PROVE MarkDesc(t)
  BY <1>3
  DEF Step, HelpLoop, LocateNext, LocateSkip, LocateUnlink, InsertAbsent, InsertLink,
      ReadNodeDesc, HelpMark, FinishPendingTxn, CycleAbort, CheckKeyExist, CheckActive,
      UpdateDesc, DecideTxn, PersistClaim, PersistTicket, PersistStore, PersistDone,
      MarkNext, MarkNode, UnlinkNode, heap
<1> QED
  BY <1>1, <1>2, <1>3 DEF Next

\* If no transaction names a key twice, a node whose nodeDesc is marked belongs
\* to a transaction that is over and durable and has left its key out of the set.
THEOREM RemovalIsFinal == DistinctKeys => (Spec => []RemovedIsGone)
<1> SUFFICES ASSUME DistinctKeys PROVE Spec => []RemovedIsGone
  OBVIOUS
<1>1. Init => RemovedIsGone
  BY DEF Init, RemovedIsGone
<1>2. SafetyInv /\ RemovedIsGone /\ [Next]_vars => RemovedIsGone'
  <2> SUFFICES ASSUME IInv, ShapeInv, RemovedIsGone, [Next]_vars,
                      NEW n \in NodeDesc, ndmark'[n]
               PROVE  Gone(nd[n])'
    BY DEF SafetyInv, RemovedIsGone, Gone
  <2>1. TypeOK /\ Decided /\ Frozen
    BY StepDecided, StepFrozen DEF IInv
  <2>2. PICK c \in NodeDesc : c = nd[n]
    BY <2>1 DEF TypeOK
  <2>3. Gone(c) /\ nd'[n] = c
    <3>1. CASE ndmark[n]
      <4>1. Gone(nd[n])
        BY <3>1 DEF RemovedIsGone, Gone
      <4> QED
        BY <2>1, <2>2, <3>1, <4>1 DEF Frozen
    <3>2. CASE ~ndmark[n]
      <4>1. PICK t \in Thread : MarkDesc(t)
        BY <3>2, OnlyMarkDesc
      <4> QED
        BY <2>2, <3>2, <4>1, MarkDescGone
    <3> QED
      BY <3>1, <3>2
  <2>4. Ready(c)
    <3>1. Ready(n)
      <4>1. CASE ndmark[n]
        BY <4>1 DEF ShapeInv, HeapInv
      <4>2. CASE ~ndmark[n]
        <5>1. PICK t \in Thread : MarkDesc(t)
          BY <4>2, OnlyMarkDesc
        <5>2. At(t, "markdesc") /\ n = Head(Fr(t).todo).node
          BY <2>1, <4>2, <5>1 DEF MarkDesc, TypeOK
        <5>3. Fr(t).todo # <<>>
          BY <5>2, Running DEF Good, FrameInv, EndLabels, At
        <5> QED
          BY <5>2, <5>3, EndFacts DEF EndLabels, EntryOf
      <4> QED
        BY <4>1, <4>2
    <3> QED
      BY <2>2, <3>1 DEF ShapeInv, NodeInv
  <2>5. Gone(c)'
    BY <2>1, <2>3, <2>4, GoneStable
  <2> QED
    BY <2>3, <2>5 DEF Gone, IsKeyExist, KeyExists, IsNodeActive, OpType, Persisted
<1> QED
  BY <1>1, <1>2, SafetyInvariance, PTL DEF Spec

-----------------------------------------------------------------------------
(* No node drops out of the list.                                          *)

\* What a walk from the head meets.
ListPath == Path(Node, next, {m_tail}, next[m_head])

\* The keys give each node a distance from the tail.
LEMMA LinksRanked ==
  ASSUME IInv, ShapeInv
  PROVE  \E rank : Ranked(Node, next, {m_tail}, rank)
<1> DEFINE rank == [n \in Node |-> IF n = m_tail THEN 0
                                   ELSE IF next[n] = m_tail THEN 1
                                   ELSE MaxKey + 2 - KeyOf(n)]
<1>1. next \in [Node -> Node] /\ TypeOK /\ MaxKey \in Nat /\ m_tail \in Node
  BY ConstantsAssumption DEF IInv, TypeOK, Node
<1>2. ASSUME NEW n \in Node, next[n] # m_tail
      PROVE  KeyOf(n) \in 0..(MaxKey + 1) /\ KeyOf(n) < KeyOf(next[n])
             /\ KeyOf(next[n]) \in 0..(MaxKey + 1)
  <2>1. Ready(n) /\ Ready(next[n])
    BY <1>2 DEF ShapeInv, HeapInv
  <2> QED
    BY <1>1, <1>2, <2>1, ReadyKey DEF ShapeInv, Sorted
<1>3. ASSUME NEW n \in Node \ {m_tail}
      PROVE  next[n] \in Node /\ rank[next[n]] < rank[n]
  <2>1. CASE next[n] = m_tail
    BY <1>1, <1>3, <2>1
  <2>2. CASE next[n] # m_tail
    <3>1. next[n] \in Node /\ rank[n] = MaxKey + 2 - KeyOf(n)
      BY <1>1, <1>3, <2>2
    <3>2. /\ KeyOf(n) \in 0..(MaxKey + 1) /\ KeyOf(next[n]) \in 0..(MaxKey + 1)
          /\ KeyOf(n) < KeyOf(next[n])
      BY <1>2, <2>2
    <3>3. rank[next[n]] = IF next[next[n]] = m_tail THEN 1
                          ELSE MaxKey + 2 - KeyOf(next[n])
      BY <2>2, <3>1
    <3> HIDE DEF rank
    <3> QED
      BY <1>1, <3>1, <3>2, <3>3
  <2> QED
    BY <2>1, <2>2
<1>4. rank \in [Node -> Nat]
  <2>1. ASSUME NEW n \in Node
        PROVE  (IF n = m_tail THEN 0 ELSE IF next[n] = m_tail THEN 1
                ELSE MaxKey + 2 - KeyOf(n)) \in Nat
    BY <1>1, <1>2
  <2> QED
    BY <2>1
<1> HIDE DEF rank
<1>5. Ranked(Node, next, {m_tail}, rank)
  BY <1>3, <1>4 DEF Ranked
<1> QED
  BY <1>5

LEMMA ChainIsPath ==
  ASSUME IInv, ShapeInv
  PROVE  Chain = ListPath
<1> DEFINE E == {m_tail}
           W == [x \in Node |-> Path(Node, next, E, x)]
           Follows(F) == F = [x \in Node |-> IF x = m_tail THEN {}
                                             ELSE {x} \union F[next[x]]]
<1>1. PICK rank : Ranked(Node, next, E, rank)
  BY LinksRanked
<1>2. next[m_head] \in Node
  BY DEF IInv, TypeOK, Node
<1>3. Follows(W)
  <2>1. ASSUME NEW x \in Node
        PROVE  W[x] = IF x = m_tail THEN {} ELSE {x} \union W[next[x]]
    <3>1. CASE x = m_tail
      BY <3>1 DEF Path
    <3>2. CASE x # m_tail
      <4>1. x \in Node \ E /\ next[x] \in Node
        BY <1>1, <3>2 DEF Ranked
      <4>2. Path(Node, next, E, x) = {x} \union Path(Node, next, E, next[x])
        BY <4>1, PathStep
      <4> QED
        BY <3>2, <4>1, <4>2
    <3> QED
      BY <3>1, <3>2
  <2> HIDE DEF W
  <2>2. W = [x \in Node |-> W[x]]
    BY DEF W
  <2> QED
    BY <2>1, <2>2
<1> HIDE DEF W
<1>4. Follows(CHOOSE F : Follows(F))
  BY <1>3
<1>5. PICK F : F = (CHOOSE G : Follows(G))
  OBVIOUS
<1>6. Walks(F, Node, next, E)
  BY <1>4, <1>5 DEF Walks
<1>7. F[next[m_head]] = Path(Node, next, E, next[m_head])
  BY <1>1, <1>2, <1>6, WalkUnique
<1> QED
  BY <1>5, <1>7 DEF Chain, ListPath

\* A compare-and-swap of next[p] over marked nodes, or over none.
LEMMA SwingKeeps ==
  ASSUME TypeOK, Frozen, NEW p \in Node, NEW c \in Node, p # m_tail,
         MarkedPath(next[p], c), next' = [next EXCEPT ![p] = c],
         NEW n \in ListPath, ~marked[n]
  PROVE  n \in ListPath'
<1> DEFINE E == {m_tail}
<1>1. next \in [Node -> Node] /\ m_head \in Node /\ m_tail \in Node
  BY DEF TypeOK, Node
<1>2. PICK M \in SUBSET {x \in Node : marked[x]} :
        next[p] \in M \union {c} /\ \A x \in M : next[x] \in M \union {c}
  BY DEF MarkedPath
<1>3. next'[p] = c /\ \A x \in Node : x # p => next'[x] = next[x]
  BY <1>1
<1>4. ASSUME NEW D \in SUBSET (Node \ E), Held(next', E, m_head, D)
      PROVE  \E C \in SUBSET (Node \ E) :
               C \subseteq D \union M /\ Held(next, E, m_head, C)
  <2>1. \A x \in D \union {m_head} : next'[x] \in E \union D
    BY <1>4 DEF Held
  <2>2. CASE p \in D \union {m_head}
    <3> DEFINE C == D \union (M \ E)
    <3>1. C \in SUBSET (Node \ E) /\ C \subseteq D \union M
      OBVIOUS
    <3>2. c \in E \union D
      BY <1>3, <2>1, <2>2
    <3>3. \A x \in D \union {m_head} : next[x] \in E \union C
      BY <1>1, <1>2, <1>3, <2>1, <3>2
    <3>4. \A x \in M : next[x] \in E \union C
      BY <1>2, <3>2
    <3>5. Held(next, E, m_head, C)
      BY <3>3, <3>4 DEF Held
    <3> QED
      BY <3>1, <3>5
  <2>3. CASE p \notin D \union {m_head}
    <3>1. Held(next, E, m_head, D)
      BY <1>1, <1>3, <2>1, <2>3 DEF Held
    <3> QED
      BY <3>1
  <2> QED
    BY <2>2, <2>3
<1>5. n \in Path(Node, next, E, next[m_head]) /\ n \notin M
  BY <1>2 DEF ListPath
<1> HIDE DEF E
<1>6. Covers(Node, E, next, next', m_head, M)
  BY <1>4 DEF Covers
<1>7. n \in Path(Node, next', E, next'[m_head])
  BY <1>5, <1>6, PathKept
<1> QED
  BY <1>7 DEF ListPath, E

\* An Insert that links its node m, to which nothing has pointed.
LEMMA LinkKeeps ==
  ASSUME TypeOK, NEW p \in Node, NEW m \in NodeDesc, p # m, p # m_tail,
         \A x \in Node : next[x] # m,
         next' = [next EXCEPT ![m] = next[p], ![p] = m],
         NEW n \in ListPath
  PROVE  n \in ListPath'
<1> DEFINE E == {m_tail}
           M == {}
<1>1. /\ next \in [Node -> Node] /\ m_head \in Node /\ m \in Node
      /\ m # m_tail /\ m # m_head
  BY NodeDescFacts DEF TypeOK, Node
<1>2. /\ next'[p] = m /\ next'[m] = next[p]
      /\ \A x \in Node : x # p /\ x # m => next'[x] = next[x]
  BY <1>1
<1>3. ASSUME NEW D \in SUBSET (Node \ E), Held(next', E, m_head, D)
      PROVE  \E C \in SUBSET (Node \ E) :
               C \subseteq D \union M /\ Held(next, E, m_head, C)
  <2>1. \A x \in D \union {m_head} : next'[x] \in E \union D
    BY <1>3 DEF Held
  <2> DEFINE C == D \ {m}
  <2>2. ASSUME NEW x \in C \union {m_head} PROVE next[x] \in E \union C
    <3>1. x \in Node /\ x # m /\ next[x] # m /\ x \in D \union {m_head}
      BY <1>1, <2>2
    <3>2. CASE x = p
      <4>1. m \in D
        BY <1>1, <1>2, <2>1, <3>1, <3>2
      <4>2. next[p] \in E \union D
        BY <1>2, <2>1, <4>1
      <4> QED
        BY <3>1, <3>2, <4>2
    <3>3. CASE x # p
      BY <1>2, <2>1, <3>1, <3>3
    <3> QED
      BY <3>2, <3>3
  <2>3. Held(next, E, m_head, C)
    BY <2>2 DEF Held
  <2> QED
    BY <2>3
<1>4. n \in Path(Node, next, E, next[m_head]) /\ n \notin M
  BY DEF ListPath
<1> HIDE DEF E, M
<1>5. Covers(Node, E, next, next', m_head, M)
  BY <1>3 DEF Covers
<1>6. n \in Path(Node, next', E, next'[m_head])
  BY <1>4, <1>5, PathKept
<1> QED
  BY <1>6 DEF ListPath, E

LEMMA OnlyLinks ==
  ASSUME IInv, [Next]_vars, next' # next
  PROVE  \E t \in Thread : LocateUnlink(t) \/ InsertLink(t) \/ UnlinkNode(t)
<1>1. ~UNCHANGED vars /\ ~Terminated
  BY DEF vars, Terminated
<1>2. \A t \in Thread : ~ExecuteOps(t)
  BY DEF ExecuteOps, heap
<1>3. ASSUME NEW t \in Thread, Step(t)
      PROVE  LocateUnlink(t) \/ InsertLink(t) \/ UnlinkNode(t)
  BY <1>3
  DEF Step, HelpLoop, LocateNext, LocateSkip, InsertAbsent,
      ReadNodeDesc, HelpMark, FinishPendingTxn, CycleAbort, CheckKeyExist, CheckActive,
      UpdateDesc, DecideTxn, PersistClaim, PersistTicket, PersistStore, PersistDone,
      MarkNext, MarkDesc, MarkNode, heap
<1> QED
  BY <1>1, <1>2, <1>3 DEF Next

LEMMA StepKeeps ==
  ASSUME SafetyInv, [Next]_vars, NEW n \in ListPath, ~marked[n]
  PROVE  n \in ListPath'
<1>1. IInv /\ ShapeInv /\ WaysInv /\ TypeOK /\ Frozen
  BY StepFrozen DEF SafetyInv, IInv
<1>2. next \in [Node -> Node]
  BY <1>1 DEF TypeOK
<1>3. ASSUME NEW p \in Node, Ready(p), KeyOf(p) <= MaxKey PROVE p # m_tail
  BY <1>3, SentinelKeys, ConstantsAssumption
<1>4. CASE next' = next
  BY <1>4 DEF ListPath
<1>5. ASSUME NEW t \in Thread, LocateUnlink(t), next' # next PROVE n \in ListPath'
  <2> DEFINE f == Fr(t)
  <2>1. /\ At(t, "unlink") /\ f.pc = "unlink" /\ CanSwing(f.pred, f.pnext)
        /\ next' = [next EXCEPT ![f.pred] = f.curr]
    BY <1>5 DEF LocateUnlink, At
  <2>2. /\ f.pred \in Node /\ f.curr \in Node /\ Op(t) \in Operator
        /\ Sound(f, Top(t)) /\ WayInv(f) /\ Ready(f.pred)
        /\ Op(t) = ops[Top(t)][f.opid]
    BY <1>1, <2>1, InOpFacts, WalkFacts DEF Frame, WaysInv, Fr
  <2>3. f.pred # m_tail
    <3>1. KeyOf(f.pred) < Op(t).key /\ Op(t).key < KeyOf(m_tail)
          /\ Op(t).key \in Nat
      BY <2>1, <2>2, HeadKey DEF Sound, WalkInv
    <3>2. KeyOf(m_tail) \in Nat
      BY SentinelKeys, ConstantsAssumption
    <3> QED
      BY <3>1, <3>2
  <2>4. MarkedPath(next[f.pred], f.curr)
    BY <2>1, <2>2 DEF WayInv, CanSwing
  <2> QED
    BY <1>1, <2>1, <2>2, <2>3, <2>4, SwingKeeps
<1>6. ASSUME NEW t \in Thread, UnlinkNode(t), next' # next PROVE n \in ListPath'
  <2> DEFINE f == Fr(t)
             e == Head(f.todo)
  <2>1. /\ At(t, "unlinknode") /\ f.pc = "unlinknode" /\ CanSwing(e.pred, e.node)
        /\ next' = [next EXCEPT ![e.pred] = f.curr]
    BY <1>2, <1>6 DEF UnlinkNode, At
  <2>2. f.todo # <<>>
    BY <1>1, <2>1, Running DEF Good, FrameInv, EndLabels, At
  <2>3. /\ f \in Frame /\ f.curr \in Node /\ e.pred \in Node /\ e.node \in NodeDesc
        /\ WayInv(f)
    BY <1>1, <2>1, <2>2, EndFacts DEF EndLabels, Frame, WaysInv, Fr
  <2>4. marked[e.node] /\ f.curr = next[e.node] /\ e.node \in Node
    BY <2>1, <2>3 DEF WayInv, Node
  <2>5. MarkedPath(next[e.pred], f.curr)
    <3>1. next[e.pred] = e.node
      BY <2>1 DEF CanSwing
    <3>2. MarkedPath(e.node, next[e.node])
      BY <2>4, NoWay, WayOn
    <3> QED
      BY <2>4, <3>1, <3>2
  <2>6. e.pred # m_tail
    <3>1. next[e.pred] # m_tail
      BY <2>1, <2>3, NodeDescFacts DEF CanSwing
    <3>2. KeyOf(e.pred) < KeyOf(e.node)
      BY <2>1, <2>3, <3>1, <1>1 DEF CanSwing, ShapeInv, Sorted
    <3>3. Ready(e.node)
      BY <2>1, <2>2, <1>1, EndFacts DEF EndLabels, EntryOf
    <3>4. KeyOf(e.node) \in Key
      BY <1>1, <2>3, <3>3, ReadyKey
    <3> QED
      BY <3>2, <3>4, SentinelKeys, ConstantsAssumption DEF Key
  <2> QED
    BY <1>1, <2>1, <2>3, <2>5, <2>6, SwingKeeps
<1>7. ASSUME NEW t \in Thread, InsertLink(t), next' # next PROVE n \in ListPath'
  <2> DEFINE f == Fr(t)
             m == Mine(t)
  <2>1. /\ CanSwing(f.pred, f.curr) /\ m \in NodeDesc /\ ~Ready(m)
        /\ next' = [next EXCEPT ![m] = f.curr, ![f.pred] = m]
    BY <1>1, <1>7, LinkStep
  <2>2. /\ At(t, "link") /\ f.pc = "link"
    BY <1>7 DEF InsertLink, At
  <2>3. /\ f.pred \in Node /\ Op(t) \in Operator
        /\ Sound(f, Top(t)) /\ Ready(f.pred) /\ Op(t) = ops[Top(t)][f.opid]
    BY <1>1, <2>2, InOpFacts, WalkFacts DEF Frame
  <2>4. f.pred # m_tail
    <3>1. KeyOf(f.pred) < Op(t).key /\ Op(t).key < KeyOf(m_tail)
          /\ Op(t).key \in Nat
      BY <2>2, <2>3, HeadKey DEF Sound, WalkInv
    <3>2. KeyOf(m_tail) \in Nat
      BY SentinelKeys, ConstantsAssumption
    <3> QED
      BY <3>1, <3>2
  <2>5. next[f.pred] = f.curr /\ f.pred # m
    BY <2>1, <2>3 DEF CanSwing
  <2>6. \A x \in Node : next[x] # m
    BY <1>1, <2>1 DEF ShapeInv, HeapInv
  <2> HIDE DEF f, m
  <2> QED
    BY <1>1, <2>1, <2>3, <2>4, <2>5, <2>6, LinkKeeps
<1> QED
  BY <1>1, <1>4, <1>5, <1>6, <1>7, OnlyLinks

\* A node leaves the list only by its mark: the links of translist.cc (line 403)
\* and the unlinks (lines 705 and 135) do not cut off each other's neighbours,
\* for any number of threads, keys and transactions.
THEOREM NodesStay == Spec => NoLostNode
<1> DEFINE Stay == \A n \in Chain : n \notin Chain' => marked[n]
<1>1. SafetyInv => Chain = ListPath
  BY ChainIsPath DEF SafetyInv
<1>2. (SafetyInv => Chain = ListPath)'
  BY <1>1, PTL
<1>3. SafetyInv /\ SafetyInv' /\ [Next]_vars => [Stay]_vars
  <2> SUFFICES ASSUME SafetyInv, SafetyInv', [Next]_vars,
                      NEW n \in Chain, n \notin Chain', ~marked[n]
               PROVE  FALSE
    OBVIOUS
  <2> QED
    BY <1>1, <1>2, StepKeeps
<1> QED
  BY <1>3, SafetyInvariance, PTL DEF Spec, NoLostNode
=============================================================================
