------------------------- MODULE LockfreeListProofs -------------------------
(***************************************************************************)
(* Theorems about the lock-free list, for both builds: the order of its    *)
(* links, and that a mark freezes them.                                    *)
(***************************************************************************)
EXTENDS LockfreeListInv, LockfreeListAbs, Paths

LEMMA KeyRange ==
  ASSUME NEW n \in Node
  PROVE  /\ KeyOf(n) \in 0..(MaxKey + 1)
         /\ n = m_head => KeyOf(n) = 0
         /\ n = m_tail => KeyOf(n) = MaxKey + 1
         /\ n \in Inner => KeyOf(n) \in Key
         /\ KeyOf(n) \in Key => n \in Inner
  BY ListAssumption DEF KeyOf, Node, Inner, Key

\* Running a step of one call leaves the frames of all threads in order.
LEMMA FrameStep ==
  ASSUME TypeOK, \A u \in Thread : FrameInv(fr[u]),
         \A n \in Node : Linked(n) => Linked(n)',
         NEW t \in Thread, NEW g \in Frame,
         fr' = [fr EXCEPT ![t] = g],
         FrameInv(g)'
  PROVE  fr' \in [Thread -> Frame] /\ \A u \in Thread : FrameInv(fr[u])'
<1>1. fr' \in [Thread -> Frame]
  BY DEF TypeOK
<1>2. ASSUME NEW u \in Thread PROVE FrameInv(fr[u])'
  <2>1. CASE u = t
    <3>1. fr'[u] = g
      BY <2>1 DEF TypeOK
    <3> QED
      BY <3>1 DEF FrameInv, Linked
  <2>2. CASE u # t
    <3>1. fr'[u] = fr[u] /\ fr[u] \in Frame
      BY <2>2 DEF TypeOK
    <3>2. FrameInv(fr[u])
      OBVIOUS
    <3> QED
      BY <3>1, <3>2 DEF FrameInv, Linked, Frame
  <2> QED
    BY <2>1, <2>2
<1> QED
  BY <1>1, <1>2

\* A call starts, or starts over, with the head as left and right node.
LEMMA RestartInv ==
  ASSUME TypeOK, next[m_head] # Null, NEW f \in Frame
  PROVE  Restart(f) \in Frame /\ FrameInv(Restart(f))
<1>1. /\ m_head \in Node
      /\ m_head # m_tail
      /\ KeyOf(m_head) = 0
  BY ListAssumption DEF Node, KeyOf
<1>2. f.key \in Nat \ {0}
  BY DEF Frame, Key
<1>3. Restart(f) \in Frame
  BY <1>1 DEF Restart, Frame, Labels
<1> QED
  BY <1>1, <1>2, <1>3 DEF Restart, FrameInv, Linked, Arriving, Frame

LEMMA ReturnedInv ==
  ASSUME NEW r \in BOOLEAN
  PROVE  Returned(r) \in Frame /\ FrameInv(Returned(r))
  BY ListAssumption
     DEF Returned, Frame, FrameInv, Arriving, Labels, Node, Key, OpTypes

\* LocatePred returns to its caller.
LEMMA LocatedInv ==
  ASSUME NEW f \in Frame, FrameInv([f EXCEPT !.pc = "recheck"]), f.want = Null
  PROVE  Located(f) \in Frame /\ FrameInv(Located(f))
<1>1. ASSUME NEW r \in BOOLEAN PROVE Returned(r) \in Frame /\ FrameInv(Returned(r))
  BY <1>1, ReturnedInv
<1>2. ASSUME NEW pc \in {"link", "read"},
             pc = "link" <=> KeyOf(f.right) # f.key
      PROVE  [f EXCEPT !.pc = pc] \in Frame /\ FrameInv([f EXCEPT !.pc = pc])
  BY <1>2 DEF Frame, FrameInv, Arriving, Labels, Linked
<1>3. f.type \in OpTypes
  BY DEF Frame
<1> QED
  BY <1>1, <1>2, <1>3 DEF Located, OpTypes

\* The traversal has met its right node.
LEMMA ArrivedInv ==
  ASSUME NEW f \in Frame, FrameInv([f EXCEPT !.pc = "recheck"]), f.want = Null
  PROVE  Arrived(f) \in Frame /\ FrameInv(Arrived(f))
<1>1. Located(f) \in Frame /\ FrameInv(Located(f))
  BY LocatedInv
<1>2. ASSUME NEW pc \in {"unlink", "recheck"}
      PROVE  [f EXCEPT !.pc = pc] \in Frame /\ FrameInv([f EXCEPT !.pc = pc])
  BY <1>2 DEF Frame, FrameInv, Arriving, Labels, Linked
<1> QED
  BY <1>1, <1>2 DEF Arrived

-----------------------------------------------------------------------------
(* One lemma per action.                                                   *)

\* A step of one call that only reads the heap.
LEMMA QuietStep ==
  ASSUME IInv, NEW t \in Thread, NEW g \in Frame, FrameInv(g),
         fr' = [fr EXCEPT ![t] = g],
         UNCHANGED <<Heap, calls>>,
         fr[t].pc \in {"idle", "persist"} => g.pc \in {"idle", "persist"}
  PROVE  IInv'
<1>1. next' = next /\ marked' = marked /\ calls' = calls
  BY DEF Heap
<1>2. FrameInv(g)'
  BY <1>1 DEF FrameInv, Linked
<1>3. \A n \in Node : Linked(n) => Linked(n)'
  BY <1>1 DEF Linked
<1>4. TypeOK /\ \A u \in Thread : FrameInv(fr[u])
  BY DEF IInv
<1>5. fr' \in [Thread -> Frame] /\ \A u \in Thread : FrameInv(fr[u])'
  BY <1>2, <1>3, <1>4, FrameStep
<1>6. TypeOK'
  BY <1>1, <1>4, <1>5 DEF TypeOK
<1>7. OrderedLinks'
  BY <1>1 DEF IInv, OrderedLinks, Linked
<1>8. FreshInv'
  <2>1. \A u \in Thread : fr[u].pc \in {"idle", "persist"} => fr'[u].pc \in {"idle", "persist"}
    BY <1>4 DEF TypeOK
  <2> QED
    BY <1>1, <2>1 DEF IInv, FreshInv
<1> QED
  BY <1>1, <1>5, <1>6, <1>7, <1>8 DEF IInv

LEMMA CallStep ==
  ASSUME IInv, NEW t \in Thread, Call(t)
  PROVE  IInv'
<1>1. PICK type \in OpTypes, k \in Key :
        fr' = [fr EXCEPT ![t] = Restart([Returned(FALSE) EXCEPT
                                           !.type = type, !.key = k])]
  BY DEF Call
<1> DEFINE f == [Returned(FALSE) EXCEPT !.type = type, !.key = k]
           g == Restart(f)
<1>2. f \in Frame
  <2>1. Returned(FALSE) \in Frame
    BY ReturnedInv
  <2> QED
    BY <2>1 DEF Frame
<1>3. TypeOK /\ next[m_head] # Null /\ \A u \in Thread : FrameInv(fr[u])
  BY DEF IInv
<1>4. g \in Frame /\ FrameInv(g)
  BY <1>2, <1>3, RestartInv
<1>5. next' = next /\ marked' = marked
  BY DEF Call, Heap
<1> HIDE DEF g
<1>6. FrameInv(g)'
  BY <1>4, <1>5 DEF FrameInv, Linked
<1>7. \A n \in Node : Linked(n) => Linked(n)'
  BY <1>5 DEF Linked
<1>8. fr' = [fr EXCEPT ![t] = g]
  BY <1>1 DEF g
<1>9. fr' \in [Thread -> Frame] /\ \A u \in Thread : FrameInv(fr[u])'
  BY <1>3, <1>4, <1>6, <1>7, <1>8, FrameStep
<1>10. /\ calls' \in [Thread -> 0..MaxCalls]
       /\ calls'[t] = calls[t] + 1
       /\ \A u \in Thread \ {t} : calls'[u] = calls[u] /\ fr'[u] = fr[u]
  BY <1>3, <1>8, ListAssumption DEF Call, TypeOK
<1>11. TypeOK'
  BY <1>3, <1>5, <1>9, <1>10 DEF TypeOK
<1>12. OrderedLinks'
  BY <1>5 DEF IInv, OrderedLinks, Linked
<1>13. FreshInv'
  <2> SUFFICES ASSUME NEW n \in Inner, n.by \in Thread, next[n] # Null
               PROVE  /\ n.no <= calls'[n.by]
                      /\ n.no = calls'[n.by] => fr'[n.by].pc \in {"persist", "idle"}
    BY <1>5 DEF IInv, FreshInv
  <2>1. n.no \in Nat /\ calls[n.by] \in Nat /\ n.no <= calls[n.by]
    BY <1>3 DEF IInv, FreshInv, Inner, TypeOK
  <2>2. n.no = calls[n.by] => fr[n.by].pc \in {"persist", "idle"}
    BY DEF IInv, FreshInv
  <2> QED
    BY <1>10, <2>1, <2>2
<1> QED
  BY <1>5, <1>9, <1>11, <1>12, <1>13 DEF IInv

LEMMA SearchStep ==
  ASSUME IInv, NEW t \in Thread, Search(t)
  PROVE  IInv'
<1> DEFINE f == fr[t]
           i == f.right
           step == [f EXCEPT !.left  = IF marked[i] THEN @ ELSE i,
                             !.lnext = IF marked[i] THEN @ ELSE next[i],
                             !.right = next[i]]
<1>1. f \in Frame /\ FrameInv(f) /\ f.pc = "search" /\ UNCHANGED <<Heap, calls>>
  BY DEF IInv, TypeOK, Search, At
<1>2. /\ Linked(i) /\ i # m_tail /\ Linked(f.left) /\ KeyOf(f.left) < f.key
      /\ f.want = Null
  BY <1>1 DEF FrameInv
<1>3. Linked(next[i]) /\ KeyOf(i) < KeyOf(next[i])
  BY <1>2 DEF IInv, OrderedLinks, Linked
<1>4. f.key \in Key /\ KeyOf(i) \in Nat
  BY <1>1, <1>2, KeyRange DEF Frame, Linked
<1>5. CASE Passed(i, f.key) /\ next[i] = m_tail /\ fr' = [fr EXCEPT ![t] = Arrived(step)]
  <2>1. step \in Frame /\ step.want = Null
    BY <1>1, <1>2, <1>3 DEF Frame, Linked
  <2>2. FrameInv([step EXCEPT !.pc = "recheck"])
    <3>1. KeyOf(m_tail) >= f.key
      BY <1>4, KeyRange, ListAssumption DEF Node, Key
    <3> QED
      BY <1>1, <1>2, <1>3, <1>4, <1>5, <3>1 DEF FrameInv, Frame, Arriving, Passed
  <2>3. Arrived(step) \in Frame /\ FrameInv(Arrived(step))
    BY <2>1, <2>2, ArrivedInv
  <2> QED
    BY <1>1, <1>5, <2>3, QuietStep
<1>6. CASE Passed(i, f.key) /\ next[i] # m_tail /\ fr' = [fr EXCEPT ![t] = step]
  <2>1. step \in Frame
    BY <1>1, <1>2, <1>3 DEF Frame, Linked
  <2>2. /\ step.pc = "search" /\ step.right = next[i]
        /\ step.key = f.key /\ step.want = Null
        /\ step.left = IF marked[i] THEN f.left ELSE i
    BY <1>1, <1>2 DEF Frame
  <2>3. Linked(step.left) /\ KeyOf(step.left) < step.key
    BY <1>2, <1>6, <2>2 DEF Passed
  <2>4. FrameInv(step)
    <3> HIDE DEF step
    <3> QED
      BY <1>3, <1>6, <2>2, <2>3 DEF FrameInv, Arriving
  <2> QED
    BY <1>1, <1>6, <2>1, <2>4, QuietStep
<1>7. CASE ~Passed(i, f.key) /\ fr' = [fr EXCEPT ![t] = Arrived(f)]
  <2> DEFINE g == [f EXCEPT !.pc = "recheck"]
  <2>1. FrameInv(g)
    <3>1. /\ g.pc = "recheck" /\ g.right = i /\ g.left = f.left
          /\ g.key = f.key /\ g.want = Null
      BY <1>1, <1>2 DEF Frame
    <3>2. KeyOf(i) >= f.key
      BY <1>4, <1>7 DEF Passed, Key
    <3> HIDE DEF g
    <3> QED
      BY <1>2, <3>1, <3>2 DEF FrameInv, Arriving
  <2>2. Arrived(f) \in Frame /\ FrameInv(Arrived(f))
    BY <1>1, <1>2, <2>1, ArrivedInv
  <2> QED
    BY <1>1, <1>7, <2>2, QuietStep
<1> QED
  BY <1>5, <1>6, <1>7 DEF Search

LEMMA RecheckStep ==
  ASSUME IInv, NEW t \in Thread, Recheck(t)
  PROVE  IInv'
<1> DEFINE f == fr[t]
<1>1. /\ TypeOK /\ next[m_head] # Null /\ f \in Frame /\ FrameInv(f)
      /\ f.pc = "recheck" /\ UNCHANGED <<Heap, calls>>
  BY DEF IInv, TypeOK, Recheck, At
<1>2. Restart(f) \in Frame /\ FrameInv(Restart(f))
  BY <1>1, RestartInv
<1>3. f.want = Null /\ [f EXCEPT !.pc = "recheck"] = f
  BY <1>1 DEF FrameInv, Frame
<1>4. Located(f) \in Frame /\ FrameInv(Located(f))
  BY <1>1, <1>3, LocatedInv
<1>5. fr' = [fr EXCEPT ![t] = Restart(f)] \/ fr' = [fr EXCEPT ![t] = Located(f)]
  BY DEF Recheck
<1> QED
  BY <1>1, <1>2, <1>4, <1>5, QuietStep

LEMMA ReadNextStep ==
  ASSUME IInv, NEW t \in Thread, ReadNext(t)
  PROVE  IInv'
<1> DEFINE f == fr[t]
           s == next[f.right]
           first == IF Optimised
                    THEN [f EXCEPT !.want = s, !.exp = s, !.pc = "mark"]
                    ELSE [f EXCEPT !.want = s]
           second == [f EXCEPT !.exp = s, !.pc = "mark"]
<1>1. /\ f \in Frame /\ FrameInv(f) /\ f.pc = "read"
      /\ UNCHANGED <<Heap, calls>>
  BY DEF IInv, TypeOK, ReadNext, At
<1>2. /\ Linked(f.right) /\ KeyOf(f.right) = f.key /\ f.key \in Key
      /\ Linked(f.left) /\ KeyOf(f.left) < f.key
      /\ f.want # Null => Linked(f.want) /\ f.key < KeyOf(f.want)
  BY <1>1 DEF FrameInv, Arriving, Frame
<1>3. f.right # m_tail
  BY <1>2, KeyRange, ListAssumption DEF Linked, Key
<1>4. Linked(s) /\ f.key < KeyOf(s)
  BY <1>2, <1>3 DEF IInv, OrderedLinks, Linked
<1>5. \/ fr' = [fr EXCEPT ![t] = first]
      \/ f.want # Null /\ fr' = [fr EXCEPT ![t] = second]
  BY DEF ReadNext
<1>6. first \in Frame /\ second \in Frame
  BY <1>1, <1>4, ListAssumption DEF Frame, Labels, Linked
<1>7. FrameInv(first)
  <2>1. /\ first.pc \in {"mark", "read"} /\ first.right = f.right
        /\ first.left = f.left /\ first.key = f.key /\ first.want = s
    BY <1>1 DEF Frame
  <2> HIDE DEF first
  <2> QED
    BY <1>2, <1>4, <2>1, ListAssumption DEF FrameInv, Arriving, Linked, Key
<1>8. ASSUME f.want # Null PROVE FrameInv(second)
  <2>1. /\ second.pc = "mark" /\ second.right = f.right
        /\ second.left = f.left /\ second.key = f.key /\ second.want = f.want
    BY <1>1 DEF Frame
  <2> HIDE DEF second
  <2> QED
    BY <1>2, <1>4, <1>8, <2>1, ListAssumption DEF FrameInv, Arriving, Linked, Key
<1> HIDE DEF first, second
<1> QED
  BY <1>1, <1>5, <1>6, <1>7, <1>8, QuietStep

LEMMA RereadStep ==
  ASSUME IInv, NEW t \in Thread, Reread(t)
  PROVE  IInv'
<1> DEFINE f == fr[t]
           s == next[f.right]
           g == [f EXCEPT !.want = s, !.pc = "swing"]
<1>1. /\ f \in Frame /\ FrameInv(f) /\ f.pc = "reread"
      /\ UNCHANGED <<Heap, calls>>
  BY DEF IInv, TypeOK, Reread, At
<1>2. /\ Linked(f.right) /\ KeyOf(f.right) = f.key /\ f.key \in Key
      /\ Linked(f.left) /\ KeyOf(f.left) < f.key
  BY <1>1 DEF FrameInv, Arriving, Frame
<1>3. f.right # m_tail
  BY <1>2, KeyRange, ListAssumption DEF Linked, Key
<1>4. Linked(s) /\ f.key < KeyOf(s)
  BY <1>2, <1>3 DEF IInv, OrderedLinks, Linked
<1>5. g \in Frame
  BY <1>1, <1>4 DEF Frame, Labels, Linked
<1>6. FrameInv(g)
  <2>1. /\ g.pc = "swing" /\ g.right = f.right
        /\ g.left = f.left /\ g.key = f.key /\ g.want = s
    BY <1>1 DEF Frame
  <2> HIDE DEF g
  <2> QED
    BY <1>2, <1>4, <2>1, ListAssumption DEF FrameInv, Arriving, Linked, Key
<1>7. fr' = [fr EXCEPT ![t] = g]
  BY DEF Reread
<1> HIDE DEF g
<1> QED
  BY <1>1, <1>5, <1>6, <1>7, QuietStep

LEMMA PersistStep ==
  ASSUME IInv, NEW t \in Thread, Persist(t)
  PROVE  IInv'
<1>1. Returned(TRUE) \in Frame /\ FrameInv(Returned(TRUE))
  BY ReturnedInv
<1>2. Returned(TRUE).pc = "idle"
  BY DEF Returned
<1> QED
  BY <1>1, <1>2, QuietStep DEF Persist

\* One linked node gets another linked node with a larger key as successor.
LEMMA SwingStep ==
  ASSUME IInv, NEW t \in Thread, NEW g \in Frame, FrameInv(g),
         fr' = [fr EXCEPT ![t] = g],
         NEW a \in Node \ {m_tail}, NEW b \in Node,
         Linked(a), Linked(b), KeyOf(a) < KeyOf(b),
         next' = [next EXCEPT ![a] = b],
         marked' = marked \/ marked' = [marked EXCEPT ![a] = TRUE],
         calls' = calls,
         fr[t].pc \notin {"idle", "persist"}
  PROVE  IInv'
<1>1. TypeOK /\ \A u \in Thread : FrameInv(fr[u])
  BY DEF IInv
<1>2. /\ next' \in [Node -> Node \union {Null}]
      /\ marked' \in [Node -> BOOLEAN]
  BY <1>1 DEF TypeOK
<1>3. \A n \in Node : /\ next'[n] = (IF n = a THEN b ELSE next[n])
                      /\ Linked(n)' <=> Linked(n)
  BY <1>1, ListAssumption DEF TypeOK, Linked
<1>4. FrameInv(g)'
  BY <1>3 DEF FrameInv, Linked
<1>5. fr' \in [Thread -> Frame] /\ \A u \in Thread : FrameInv(fr[u])'
  BY <1>1, <1>3, <1>4, FrameStep
<1>6. TypeOK'
  BY <1>1, <1>2, <1>5 DEF TypeOK
<1>7. OrderedLinks'
  <2> SUFFICES ASSUME NEW n \in Node \ {m_tail}, Linked(n)'
               PROVE  Linked(next[n])' /\ KeyOf(n) < KeyOf(next'[n])
    BY DEF OrderedLinks, KeyOf
  <2>1. Linked(n) /\ Linked(next[n]) /\ KeyOf(n) < KeyOf(next[n])
    BY <1>3 DEF IInv, OrderedLinks
  <2>2. Linked(next'[n]) /\ KeyOf(n) < KeyOf(next'[n])
    BY <1>3, <2>1
  <2> QED
    BY <1>3, <2>2 DEF Linked
<1>8. FreshInv'
  <2>1. \A n \in Inner : (next'[n] = Null <=> next[n] = Null) /\ n \in Node
    BY <1>3, ListAssumption DEF Linked, Node
  <2>2. \A n \in Inner : next'[n] = Null => marked'[n] = marked[n]
    BY <1>1, <2>1 DEF TypeOK, Linked
  <2>3. \A u \in Thread : fr[u].pc \in {"idle", "persist"} => fr'[u] = fr[u]
    BY <1>1 DEF TypeOK
  <2> QED
    BY <2>1, <2>2, <2>3 DEF IInv, FreshInv
<1>9. next'[m_tail] = m_tail /\ next'[m_head] # Null
  BY <1>3, ListAssumption DEF IInv, Node
<1> QED
  BY <1>5, <1>6, <1>7, <1>8, <1>9 DEF IInv

LEMMA UnlinkStep ==
  ASSUME IInv, NEW t \in Thread, Unlink(t)
  PROVE  IInv'
<1> DEFINE f == fr[t]
           g == IF f.right = m_tail THEN Located(f)
                ELSE [f EXCEPT !.pc = "recheck"]
<1>1. /\ TypeOK /\ next[m_head] # Null /\ f \in Frame /\ FrameInv(f)
      /\ f.pc = "unlink"
  BY DEF IInv, TypeOK, Unlink, At
<1>2. /\ Linked(f.left) /\ KeyOf(f.left) < f.key /\ f.key \in Key
      /\ Linked(f.right) /\ KeyOf(f.right) >= f.key /\ f.want = Null
  BY <1>1 DEF FrameInv, Arriving, Frame
<1>3. CASE ~CanSwing(f, f.lnext)
  <2>1. Restart(f) \in Frame /\ FrameInv(Restart(f))
    BY <1>1, RestartInv
  <2>2. fr' = [fr EXCEPT ![t] = Restart(f)] /\ UNCHANGED <<Heap, calls>>
    BY <1>3 DEF Unlink, Heap
  <2> QED
    BY <1>1, <2>1, <2>2, QuietStep
<1>4. CASE CanSwing(f, f.lnext)
  <2>1. /\ fr' = [fr EXCEPT ![t] = g]
        /\ next' = [next EXCEPT ![f.left] = f.right]
        /\ marked' = marked /\ calls' = calls
    BY <1>4 DEF Unlink
  <2>2. [f EXCEPT !.pc = "recheck"] \in Frame
    BY <1>1 DEF Frame, Labels
  <2>3. FrameInv([f EXCEPT !.pc = "recheck"])
    BY <1>1, <1>2 DEF FrameInv, Arriving, Frame
  <2>4. g \in Frame /\ FrameInv(g)
    BY <1>1, <1>2, <2>2, <2>3, LocatedInv
  <2>5. f.left \in Node \ {m_tail} /\ f.right \in Node /\ KeyOf(f.left) < KeyOf(f.right)
    BY <1>2, KeyRange, ListAssumption DEF Linked, Key
  <2> HIDE DEF g
  <2> QED
    BY <1>1, <1>2, <2>1, <2>4, <2>5, SwingStep
<1> QED
  BY <1>3, <1>4

LEMMA MarkStep ==
  ASSUME IInv, NEW t \in Thread, Mark(t)
  PROVE  IInv'
<1> DEFINE f == fr[t]
           g == [f EXCEPT !.pc = "reread"]
<1>1. /\ TypeOK /\ next[m_head] # Null /\ f \in Frame /\ FrameInv(f)
      /\ f.pc = "mark"
  BY DEF IInv, TypeOK, Mark, At
<1>2. /\ Linked(f.right) /\ KeyOf(f.right) = f.key /\ f.key \in Key
      /\ Linked(f.want) /\ f.key < KeyOf(f.want)
  BY <1>1 DEF FrameInv, Arriving, Frame
<1>3. CASE ~CanMark(f)
  <2>1. Restart(f) \in Frame /\ FrameInv(Restart(f))
    BY <1>1, RestartInv
  <2>2. fr' = [fr EXCEPT ![t] = Restart(f)] /\ UNCHANGED <<Heap, calls>>
    BY <1>3 DEF Mark, Heap
  <2> QED
    BY <1>1, <2>1, <2>2, QuietStep
<1>4. CASE CanMark(f)
  <2>1. /\ fr' = [fr EXCEPT ![t] = g]
        /\ next' = [next EXCEPT ![f.right] = f.want]
        /\ marked' = [marked EXCEPT ![f.right] = TRUE] /\ calls' = calls
    BY <1>4 DEF Mark
  <2>2. g \in Frame
    BY <1>1 DEF Frame, Labels
  <2>3. FrameInv(g)
    BY <1>1, <1>2 DEF FrameInv, Arriving, Frame
  <2>4. /\ f.right \in Node \ {m_tail} /\ f.want \in Node
        /\ KeyOf(f.right) < KeyOf(f.want)
    BY <1>2, KeyRange, ListAssumption DEF Linked, Key
  <2> HIDE DEF g
  <2> QED
    BY <1>1, <1>2, <2>1, <2>2, <2>3, <2>4, SwingStep
<1> QED
  BY <1>3, <1>4

LEMMA UnlinkNextStep ==
  ASSUME IInv, NEW t \in Thread, Swing(t)
  PROVE  IInv'
<1> DEFINE f == fr[t]
           g == [f EXCEPT !.pc = "persist"]
<1>1. f \in Frame /\ FrameInv(f) /\ f.pc = "swing"
  BY DEF IInv, TypeOK, Swing, At
<1>2. /\ Linked(f.left) /\ KeyOf(f.left) < f.key /\ f.key \in Key
      /\ Linked(f.want) /\ f.key < KeyOf(f.want)
  BY <1>1 DEF FrameInv, Frame
<1>3. fr' = [fr EXCEPT ![t] = g] /\ marked' = marked /\ calls' = calls
  BY DEF Swing
<1>4. g \in Frame
  BY <1>1 DEF Frame, Labels
<1>5. FrameInv(g)
  BY <1>1, <1>2 DEF FrameInv, Arriving, Frame
<1>6. /\ f.left \in Node \ {m_tail} /\ f.want \in Node
      /\ KeyOf(f.left) < KeyOf(f.want)
  BY <1>2, KeyRange, ListAssumption DEF Linked, Key
<1>7. g.pc = "persist"
  BY <1>1 DEF Frame
<1> HIDE DEF g
<1>8. CASE next' = next
  BY <1>1, <1>3, <1>4, <1>5, <1>7, <1>8, QuietStep DEF Heap
<1>9. CASE next' = [next EXCEPT ![f.left] = f.want]
  BY <1>1, <1>2, <1>3, <1>4, <1>5, <1>6, <1>9, SwingStep
<1> QED
  BY <1>8, <1>9 DEF Swing

\* The node of a running Insert is fresh.
LEMMA MineFresh ==
  ASSUME IInv, NEW t \in Thread, fr[t].pc = "link"
  PROVE  /\ Mine(t) \in Inner /\ next[Mine(t)] = Null /\ ~marked[Mine(t)]
         /\ KeyOf(Mine(t)) = fr[t].key
<1>1. fr[t] \in Frame /\ calls[t] \in 0..MaxCalls
  BY DEF IInv, TypeOK
<1>2. Mine(t) \in Inner
  BY <1>1, ListAssumption DEF Mine, Inner, Frame
<1>3. Mine(t).by = t /\ Mine(t).no = calls[t] /\ Mine(t).key = fr[t].key
  BY DEF Mine
<1>4. next[Mine(t)] = Null /\ ~marked[Mine(t)]
  BY <1>2, <1>3 DEF IInv, FreshInv
<1>5. Mine(t) # m_head /\ Mine(t) # m_tail
  BY <1>2, ListAssumption
<1> QED
  BY <1>2, <1>3, <1>4, <1>5 DEF KeyOf

LEMMA LinkStep ==
  ASSUME IInv, NEW t \in Thread, Link(t)
  PROVE  IInv'
<1> DEFINE f == fr[t]
           m == Mine(t)
<1>1. /\ TypeOK /\ next[m_head] # Null /\ f \in Frame /\ FrameInv(f)
      /\ f.pc = "link" /\ \A u \in Thread : FrameInv(fr[u])
  BY DEF IInv, TypeOK, Link, At
<1>2. /\ Linked(f.left) /\ KeyOf(f.left) < f.key /\ f.key \in Key
      /\ Linked(f.right) /\ KeyOf(f.right) > f.key
  <2>1. Linked(f.right) /\ KeyOf(f.right) >= f.key /\ KeyOf(f.right) # f.key
    BY <1>1 DEF FrameInv, Arriving
  <2>2. KeyOf(f.right) \in Nat
    BY <2>1, KeyRange DEF Linked
  <2> QED
    BY <1>1, <2>1, <2>2 DEF FrameInv, Frame, Key
<1>3. m \in Inner /\ m \in Node /\ next[m] = Null /\ ~marked[m] /\ KeyOf(m) = f.key
  BY <1>1, MineFresh DEF Node
<1>4. CASE ~CanSwing(f, f.right)
  <2>1. Restart(f) \in Frame /\ FrameInv(Restart(f))
    BY <1>1, RestartInv
  <2>2. fr' = [fr EXCEPT ![t] = Restart(f)] /\ UNCHANGED <<Heap, calls>>
    BY <1>4 DEF Link, Heap
  <2> QED
    BY <1>1, <2>1, <2>2, QuietStep
<1>5. CASE CanSwing(f, f.right)
  <2>0. PICK g : g = [f EXCEPT !.pc = "persist"]
    OBVIOUS
  <2>1. /\ fr' = [fr EXCEPT ![t] = g]
        /\ next' = [next EXCEPT ![m] = f.right, ![f.left] = m]
        /\ marked' = marked /\ calls' = calls
    BY <1>5, <2>0 DEF Link
  <2>2. g \in Frame /\ g.pc = "persist"
    BY <1>1, <2>0 DEF Frame, Labels
  <2>3. FrameInv(g)
    BY <1>1, <1>2, <2>0 DEF FrameInv, Arriving, Frame
  <2>4. f.left \in Node \ {m_tail, m} /\ f.right \in Node
    BY <1>2, <1>3, KeyRange, ListAssumption DEF Linked, Key
  <2> HIDE DEF m
  <2>5. /\ next' \in [Node -> Node \union {Null}]
        /\ \A n \in Node : next'[n] = (IF n = m THEN f.right
                                       ELSE IF n = f.left THEN m ELSE next[n])
    BY <1>1, <1>3, <2>1, <2>4 DEF TypeOK
  <2>6. \A n \in Node : Linked(n)' <=> Linked(n) \/ n = m
    BY <1>2, <1>3, <2>4, <2>5, ListAssumption DEF Linked
  <2>7. FrameInv(g)'
    BY <2>3, <2>6 DEF FrameInv, Linked
  <2>8. fr' \in [Thread -> Frame] /\ \A u \in Thread : FrameInv(fr[u])'
    BY <1>1, <2>1, <2>2, <2>6, <2>7, FrameStep
  <2>9. TypeOK'
    BY <1>1, <2>1, <2>5, <2>8 DEF TypeOK
  <2>10. OrderedLinks'
    <3> SUFFICES ASSUME NEW n \in Node \ {m_tail}, Linked(n)'
                 PROVE  /\ next'[n] \in Node /\ next'[next'[n]] # Null
                        /\ KeyOf(n) < KeyOf(next'[n])
      BY DEF OrderedLinks, KeyOf, Linked
    <3>0. \A k \in Node : Linked(k) \/ k = m => next'[k] # Null
      BY <2>6 DEF Linked
    <3>1. CASE n = m
      BY <1>2, <1>3, <2>4, <2>5, <3>0, <3>1 DEF Linked
    <3>2. CASE n = f.left
      BY <1>2, <1>3, <2>4, <2>5, <3>0, <3>2 DEF Linked
    <3>3. CASE n # m /\ n # f.left
      <4>1. Linked(n) /\ Linked(next[n]) /\ KeyOf(n) < KeyOf(next[n])
        BY <2>6, <3>3 DEF IInv, OrderedLinks
      <4>2. next[n] \in Node
        BY <4>1 DEF Linked
      <4> QED
        BY <2>5, <3>0, <3>3, <4>1, <4>2
    <3> QED
      BY <3>1, <3>2, <3>3
  <2>11. FreshInv'
    <3> SUFFICES ASSUME NEW n \in Inner
                 PROVE  /\ next'[n] = Null => ~marked'[n]
                        /\ n.by \in Thread /\ next'[n] # Null =>
                             /\ n.no <= calls'[n.by]
                             /\ n.no = calls'[n.by] => fr'[n.by].pc \in {"persist", "idle"}
      BY DEF FreshInv
    <3>1. n \in Node
      BY DEF Node
    <3>2. next'[n] = Null => next[n] = Null
      BY <1>2, <2>4, <2>5, <2>6, <3>1 DEF Linked
    <3>3. \A u \in Thread : fr[u].pc \in {"idle", "persist"} => fr'[u] = fr[u]
      BY <1>1, <2>1 DEF TypeOK
    <3>4. CASE n = m
      <4>1. n.by = t /\ n.no = calls[t] /\ fr'[t].pc = "persist" /\ calls[t] \in Nat
        BY <1>1, <2>1, <2>2, <3>4 DEF m, Mine, TypeOK
      <4> QED
        BY <1>3, <2>1, <3>4, <4>1
    <3>5. CASE n # m
      <4>1. next'[n] # Null => next[n] # Null
        BY <2>6, <3>1, <3>5 DEF Linked
      <4> QED
        BY <2>1, <3>2, <3>3, <4>1 DEF IInv, FreshInv
    <3> QED
      BY <3>4, <3>5
  <2>12. next'[m_tail] = m_tail /\ next'[m_head] # Null
    <3>1. m_tail \in Node /\ m_head \in Node /\ m # m_tail
      BY <1>3, ListAssumption DEF Node
    <3> QED
      BY <2>4, <2>5, <2>6, <3>1 DEF IInv, Linked
  <2> QED
    BY <2>8, <2>9, <2>10, <2>11, <2>12 DEF IInv
<1> QED
  BY <1>4, <1>5

LEMMA Inductive == IInv /\ [Next]_vars => IInv'
<1> SUFFICES ASSUME IInv, [Next]_vars PROVE IInv'
  OBVIOUS
<1>1. CASE UNCHANGED vars
  BY <1>1 DEF vars, IInv, TypeOK, OrderedLinks, FrameInv, FreshInv, Linked
<1>2. ASSUME NEW t \in Thread, Call(t) \/ Step(t) PROVE IInv'
  BY <1>2, CallStep, SearchStep, RecheckStep, UnlinkStep, LinkStep,
     ReadNextStep, MarkStep, RereadStep, UnlinkNextStep, PersistStep DEF Step
<1> QED
  BY <1>1, <1>2 DEF Next

LEMMA InitIInv == Init => IInv
<1> SUFFICES ASSUME Init PROVE IInv
  OBVIOUS
<1>1. PICK S \in Prefills :
        next = [n \in Node |->
                  CASE n = m_tail -> m_tail
                    [] n = m_head -> Successor(S, 0)
                    [] OTHER -> IF n.key \in S /\ n = Prefilled(n.key)
                                THEN Successor(S, n.key) ELSE Null]
  BY DEF Init
<1>2. S \subseteq Key
  BY ListAssumption
<1> DEFINE succ(k) == Successor(S, k)
<1>3. ASSUME NEW k \in Nat, k <= MaxKey
      PROVE  \/ succ(k) = m_tail
             \/ \E j \in S : k < j /\ succ(k) = Prefilled(j)
  <2>1. CASE \E j \in S : IsNext(S, k, j)
    <3>1. PICK j \in S : IsNext(S, k, j) /\ succ(k) = Prefilled(j)
      BY <2>1 DEF Successor
    <3> QED
      BY <1>2, <3>1 DEF IsNext, Key
  <2> QED
    BY <2>1 DEF Successor
<1> HIDE DEF succ
<1>4. ASSUME NEW j \in S
      PROVE  /\ Prefilled(j) \in Inner /\ KeyOf(Prefilled(j)) = j
             /\ Prefilled(j).by = Main /\ Prefilled(j).key = j
  <2>1. Prefilled(j) \in Inner /\ Prefilled(j).key = j /\ Prefilled(j).by = Main
    BY <1>2, ListAssumption DEF Prefilled, Inner
  <2>2. Prefilled(j) # m_head /\ Prefilled(j) # m_tail
    BY <2>1, ListAssumption
  <2> QED
    BY <2>1, <2>2 DEF KeyOf
<1>5. /\ next[m_tail] = m_tail
      /\ next[m_head] = succ(0)
      /\ \A n \in Inner : \/ next[n] = Null
                          \/ /\ n.key \in S /\ n = Prefilled(n.key)
                             /\ next[n] = succ(n.key)
  BY <1>1, ListAssumption DEF Node, succ
<1>6. \A j \in S : next[Prefilled(j)] = succ(j)
  <2> SUFFICES ASSUME NEW j \in S PROVE next[Prefilled(j)] = succ(j)
    OBVIOUS
  <2>1. /\ Prefilled(j) \in Node /\ Prefilled(j) # m_tail /\ Prefilled(j) # m_head
        /\ Prefilled(j).key = j
    BY <1>4, ListAssumption DEF Node
  <2> QED
    BY <1>1, <2>1 DEF succ
<1>7. ASSUME NEW k \in Nat, k <= MaxKey
      PROVE  succ(k) \in Node /\ k < KeyOf(succ(k))
  <2>1. CASE succ(k) = m_tail
    BY <1>7, <2>1, ListAssumption, KeyRange DEF Node
  <2>2. ASSUME NEW j \in S, k < j, succ(k) = Prefilled(j)
        PROVE  succ(k) \in Node /\ k < KeyOf(succ(k))
    BY <1>4, <2>2 DEF Node
  <2> QED
    BY <1>3, <1>7, <2>1, <2>2
<1>8. ASSUME NEW k \in Nat, k <= MaxKey
      PROVE  Linked(succ(k))
  <2>1. CASE succ(k) = m_tail
    BY <1>5, <2>1, ListAssumption DEF Linked, Node
  <2>2. ASSUME NEW j \in S, succ(k) = Prefilled(j)
        PROVE  Linked(succ(k))
    <3>1. j \in Nat /\ j <= MaxKey
      BY <1>2, ListAssumption DEF Key
    <3> QED
      BY <1>6, <1>7, <2>2, <3>1, <1>8, ListAssumption DEF Linked
  <2> QED
    BY <1>3, <1>8, <2>1, <2>2
<1>9. \A n \in Inner : n.key \in S => n.key \in Nat /\ n.key <= MaxKey /\ KeyOf(n) = n.key
  BY <1>2, ListAssumption DEF Key, KeyOf, Inner
<1>10. KeyOf(m_head) = 0 /\ 0 <= MaxKey
  BY ListAssumption DEF KeyOf
<1>11. OrderedLinks
  <2> SUFFICES ASSUME NEW n \in Node \ {m_tail}, Linked(n)
               PROVE  Linked(next[n]) /\ KeyOf(n) < KeyOf(next[n])
    BY DEF OrderedLinks
  <2>1. CASE n = m_head
    BY <1>5, <1>7, <1>8, <1>10, <2>1
  <2>2. CASE n \in Inner
    BY <1>5, <1>7, <1>8, <1>9, <2>2 DEF Linked
  <2> QED
    BY <2>1, <2>2 DEF Node
<1>12. TypeOK
  <2>1. \A n \in Node : next[n] \in Node \union {Null}
    BY <1>5, <1>7, <1>9, <1>10, ListAssumption DEF Node
  <2>2. next \in [Node -> Node \union {Null}]
    BY <1>1, <2>1
  <2>3. Returned(FALSE) \in Frame
    BY ReturnedInv
  <2>4. 0 \in 0..MaxCalls
    BY ListAssumption
  <2> QED
    BY <2>2, <2>3, <2>4 DEF Init, TypeOK
<1>13. \A t \in Thread : FrameInv(fr[t])
  BY ReturnedInv DEF Init
<1>14. FreshInv
  <2>1. \A n \in Inner : next[n] = Null \/ n.by = Main
    BY <1>4, <1>5
  <2> QED
    BY <2>1, ListAssumption DEF FreshInv, Init, Node
<1>15. next[m_head] # Null
  BY <1>5, <1>7, <1>10, ListAssumption
<1> QED
  BY <1>5, <1>11, <1>12, <1>13, <1>14, <1>15 DEF IInv

\* The inductive invariant holds in every reachable state of either build.
THEOREM ListInvariance == Spec => []IInv
  BY InitIInv, Inductive, PTL DEF Spec

\* Every variable keeps its type, for any number of threads, keys and calls.
THEOREM ListTypeCorrect == Spec => []TypeOK
<1>1. IInv => TypeOK
  BY DEF IInv
<1> QED
  BY <1>1, ListInvariance, PTL

\* Links lead to larger keys, at any interleaving and also from nodes that are
\* unlinked already: no traversal can go round in a circle, and no two nodes
\* of the list hold the same key.
THEOREM LinksOrdered == Spec => []OrderedLinks
<1>1. IInv => OrderedLinks
  BY DEF IInv
<1> QED
  BY <1>1, ListInvariance, PTL

Frozen == \A n \in Node : marked[n] => marked'[n] /\ next'[n] = next[n]

LEMMA StepFrozen == IInv /\ [Next]_vars => Frozen
<1>1. ASSUME IInv, NEW t \in Thread, Call(t) \/ Step(t) PROVE Frozen
  <2>1. /\ next \in [Node -> Node \union {Null}] /\ marked \in [Node -> BOOLEAN]
        /\ fr[t] \in Frame
    BY <1>1 DEF IInv, TypeOK
  <2>2. CASE UNCHANGED Heap
    BY <2>2 DEF Heap, Frozen
  <2>3. CASE Unlink(t)
    BY <2>1, <2>3 DEF Unlink, CanSwing, Frozen
  <2>4. CASE Link(t)
    <3>1. Mine(t) \in Node /\ ~marked[Mine(t)]
      BY <1>1, <2>4, MineFresh DEF Link, At, Node
    <3> QED
      BY <2>1, <2>4, <3>1 DEF Link, CanSwing, Frozen
  <2>5. CASE Mark(t)
    BY <2>1, <2>5 DEF Mark, CanMark, Heap, Frozen
  <2>6. CASE Swing(t)
    BY <2>1, <2>6 DEF Swing, CanSwing, Frozen
  <2> QED
    BY <1>1, <2>2, <2>3, <2>4, <2>5, <2>6
       DEF Step, Call, Search, Recheck, ReadNext, Reread, Persist
<1>2. ASSUME UNCHANGED vars PROVE Frozen
  BY <1>2 DEF vars, Frozen
<1> QED
  BY <1>1, <1>2 DEF Next

\* No step of any thread changes a marked next pointer.
THEOREM MarkFreezes == Spec => MarkedIsFrozen
<1>1. IInv /\ [Next]_vars => [Frozen]_vars
  BY StepFrozen
<1> QED
  BY <1>1, ListInvariance, PTL DEF Spec, MarkedIsFrozen, Frozen

-----------------------------------------------------------------------------
(* No linked node is lost.                                                 *)

LEMMA NoWay == ASSUME NEW n PROVE MarkedPath(n, n)
<1>1. {} \in SUBSET {m \in Node : marked[m]}
  OBVIOUS
<1>2. n \in {} \union {n} /\ \A m \in {} : next[m] \in {} \union {n}
  OBVIOUS
<1> QED
  BY <1>1, <1>2 DEF MarkedPath

LEMMA WayOn ==
  ASSUME NEW p, NEW c \in Node, MarkedPath(p, c), marked[c]
  PROVE  MarkedPath(p, next[c])
<1>1. PICK M \in SUBSET {n \in Node : marked[n]} :
        p \in M \union {c} /\ \A n \in M : next[n] \in M \union {c}
  BY DEF MarkedPath
<1>2. M \union {c} \in SUBSET {n \in Node : marked[n]}
  OBVIOUS
<1> QED
  BY <1>1, <1>2 DEF MarkedPath

LEMMA WayStays ==
  ASSUME Frozen, NEW p, NEW c, MarkedPath(p, c)
  PROVE  MarkedPath(p, c)'
<1>1. PICK M \in SUBSET {n \in Node : marked[n]} :
        p \in M \union {c} /\ \A n \in M : next[n] \in M \union {c}
  BY DEF MarkedPath
<1>2. M \in SUBSET {n \in Node : marked'[n]} /\ \A n \in M : next'[n] = next[n]
  BY DEF Frozen
<1> QED
  BY <1>1, <1>2 DEF MarkedPath

LEMMA WayInvStays ==
  ASSUME Frozen, NEW f \in Frame, WayInv(f)
  PROVE  WayInv(f)'
<1>1. f.right \in Node
  BY DEF Frame
<1> QED
  BY <1>1, WayStays DEF WayInv, Frozen

LEMMA WayFrames ==
  ASSUME TypeOK, Frozen, \A u \in Thread : WayInv(fr[u]),
         NEW t \in Thread, NEW g, fr' = [fr EXCEPT ![t] = g], WayInv(g)'
  PROVE  \A u \in Thread : WayInv(fr[u])'
<1> SUFFICES ASSUME NEW u \in Thread PROVE WayInv(fr[u])'
  OBVIOUS
<1>1. CASE u = t
  <2>1. fr'[u] = g
    BY <1>1 DEF TypeOK
  <2> QED
    BY <2>1 DEF WayInv
<1>2. CASE u # t
  <2>1. fr'[u] = fr[u] /\ fr[u] \in Frame
    BY <1>2 DEF TypeOK
  <2>2. PICK f \in Frame : f = fr[u]
    BY <2>1
  <2>3. WayInv(f)'
    BY <2>2, WayInvStays
  <2> QED
    BY <2>1, <2>2, <2>3 DEF WayInv
<1> QED
  BY <1>1, <1>2

LEMMA RestartWay == \A f \in Frame : WayInv(Restart(f))
  BY NoWay DEF Restart, WayInv, Frame

LEMMA LocatedWay ==
  ASSUME NEW f \in Frame, f.want = Null
  PROVE  WayInv(Located(f))
<1>1. f.type \in OpTypes
  BY DEF Frame
<1> QED
  BY <1>1 DEF Located, WayInv, Returned, Frame, OpTypes

LEMMA ArrivedWay ==
  ASSUME NEW f \in Frame, f.want = Null, MarkedPath(f.lnext, f.right)
  PROVE  WayInv(Arrived(f))
<1>1. WayInv([f EXCEPT !.pc = "unlink"]) /\ WayInv([f EXCEPT !.pc = "recheck"])
  BY DEF WayInv, Frame
<1> QED
  BY <1>1, LocatedWay DEF Arrived

\* One step of a call in the build that reads next once.
LEMMA WayStep ==
  ASSUME IInv, Optimised, \A u \in Thread : WayInv(fr[u]), Frozen,
         NEW t \in Thread, Call(t) \/ Step(t)
  PROVE  \A u \in Thread : WayInv(fr[u])'
<1>1. TypeOK /\ TypeOK' /\ next[m_head] # Null
  <2>1. IInv'
    BY Inductive DEF Next
  <2> QED
    BY <2>1 DEF IInv
<1>2. PICK f \in Frame : f = fr[t] /\ FrameInv(f) /\ WayInv(f)
  BY <1>1 DEF IInv, TypeOK
<1> DEFINE To(g) == fr' = [fr EXCEPT ![t] = g]
<1>3. ASSUME NEW g, To(g), WayInv(g) \/ WayInv(g)'
      PROVE  \A u \in Thread : WayInv(fr[u])'
  <2>1. g \in Frame
    BY <1>1, <1>3 DEF TypeOK
  <2>2. WayInv(g)'
    BY <1>3, <2>1, WayInvStays
  <2> QED
    BY <1>1, <1>3, <2>2, WayFrames
<1>4. WayInv(Restart(f))
  BY RestartWay
<1>5. f.pc \in {"search", "recheck", "unlink", "link"} => f.want = Null
  BY <1>2 DEF FrameInv
<1>6. CASE Call(t)
  <2>1. PICK type \in OpTypes, k \in Key :
          To(Restart([Returned(FALSE) EXCEPT !.type = type, !.key = k]))
    BY <1>6 DEF Call
  <2>2. [Returned(FALSE) EXCEPT !.type = type, !.key = k] \in Frame
    <3>1. Returned(FALSE) \in Frame
      BY ReturnedInv
    <3> QED
      BY <3>1 DEF Frame
  <2>3. WayInv(Restart([Returned(FALSE) EXCEPT !.type = type, !.key = k]))
    BY <2>2, RestartWay
  <2> QED
    BY <1>3, <2>1, <2>3
<1>7. CASE Search(t)
  <2> DEFINE i == f.right
             step == [f EXCEPT !.left  = IF marked[i] THEN @ ELSE i,
                               !.lnext = IF marked[i] THEN @ ELSE next[i],
                               !.right = next[i]]
  <2>1. f.pc = "search" /\ MarkedPath(f.lnext, i) /\ f.want = Null /\ i \in Node
    BY <1>2, <1>5, <1>7 DEF Search, At, WayInv, Frame
  <2>2. Linked(f.left) /\ Linked(i) /\ i # m_tail
    BY <1>2, <2>1 DEF FrameInv
  <2>3. next[i] \in Node
    BY <2>2 DEF IInv, OrderedLinks, Linked
  <2>4. MarkedPath(step.lnext, step.right) /\ step \in Frame /\ step.want = Null
        /\ step.pc = "search"
    <3>1. /\ step \in Frame /\ step.want = Null /\ step.pc = "search"
          /\ step.lnext = (IF marked[i] THEN f.lnext ELSE next[i]) /\ step.right = next[i]
      BY <2>1, <2>3 DEF Frame
    <3>2. marked[i] => MarkedPath(f.lnext, next[i])
      BY <2>1, WayOn
    <3>3. MarkedPath(next[i], next[i])
      BY NoWay
    <3> QED
      BY <3>1, <3>2, <3>3
  <2> HIDE DEF step
  <2>5. WayInv(step)
    BY <2>4 DEF WayInv
  <2>6. WayInv(Arrived(step)) /\ WayInv(Arrived(f))
    BY <2>1, <2>4, ArrivedWay
  <2>7. To(step) \/ To(Arrived(step)) \/ To(Arrived(f))
    BY <1>2, <1>7 DEF Search, step
  <2> QED
    BY <1>3, <2>5, <2>6, <2>7
<1>8. CASE Recheck(t)
  <2>1. f.want = Null /\ (To(Restart(f)) \/ To(Located(f)))
    BY <1>2, <1>5, <1>8 DEF Recheck, At
  <2> QED
    BY <1>3, <1>4, <2>1, LocatedWay
<1>9. CASE Unlink(t)
  <2>1. f.want = Null /\ (To(Restart(f)) \/ To(Located(f)) \/ To([f EXCEPT !.pc = "recheck"]))
    BY <1>2, <1>5, <1>9 DEF Unlink, At
  <2>2. WayInv([f EXCEPT !.pc = "recheck"])
    BY DEF WayInv, Frame
  <2> QED
    BY <1>3, <1>4, <2>1, <2>2, LocatedWay
<1>10. ASSUME fr' = [fr EXCEPT ![t].pc = "persist"]
       PROVE  \A u \in Thread : WayInv(fr[u])'
  <2>1. WayInv([f EXCEPT !.pc = "persist"])
    BY DEF WayInv, Frame
  <2>2. To([f EXCEPT !.pc = "persist"])
    BY <1>2, <1>10
  <2> QED
    BY <1>3, <2>1, <2>2
<1>11. CASE Link(t)
  BY <1>2, <1>3, <1>4, <1>10, <1>11 DEF Link
<1>12. CASE ReadNext(t)
  <2> DEFINE s == next[f.right]
             g == [f EXCEPT !.want = s, !.exp = s, !.pc = "mark"]
  <2>1. f.pc = "read" /\ f.want = Null
    BY <1>2, <1>12 DEF ReadNext, At, WayInv
  <2>2. To(g)
    BY <1>2, <1>12, <2>1 DEF ReadNext
  <2>3. WayInv(g)
    BY DEF WayInv, Frame
  <2> QED
    BY <1>3, <2>2, <2>3
<1>13. CASE Mark(t)
  <2>1. CASE CanMark(f)
    <3>1. To([f EXCEPT !.pc = "reread"]) /\ marked' = [marked EXCEPT ![f.right] = TRUE]
      BY <1>2, <1>13, <2>1 DEF Mark
    <3>2. f.right \in Node /\ marked'[f.right]
      BY <1>1, <3>1 DEF Frame, TypeOK
    <3>3. WayInv([f EXCEPT !.pc = "reread"])'
      BY <3>2 DEF WayInv, Frame
    <3> QED
      BY <1>3, <3>1, <3>3
  <2>2. CASE ~CanMark(f)
    BY <1>2, <1>3, <1>4, <1>13, <2>2 DEF Mark
  <2> QED
    BY <2>1, <2>2
<1>14. CASE Reread(t)
  <2>1. marked[f.right]
    BY <1>2, <1>14 DEF Reread, At, WayInv
  <2>2. WayInv([f EXCEPT !.want = next[f.right], !.pc = "swing"])
    BY <2>1 DEF WayInv, Frame
  <2>3. To([f EXCEPT !.want = next[f.right], !.pc = "swing"])
    BY <1>2, <1>14 DEF Reread
  <2> QED
    BY <1>3, <2>2, <2>3
<1>15. CASE Swing(t)
  BY <1>10, <1>15 DEF Swing
<1>16. CASE Persist(t)
  <2>1. WayInv(Returned(TRUE)) /\ To(Returned(TRUE))
    BY <1>16 DEF Persist, WayInv, Returned
  <2> QED
    BY <1>3, <2>1
<1> QED
  BY <1>6, <1>7, <1>8, <1>9, <1>11, <1>12, <1>13, <1>14, <1>15, <1>16 DEF Step

\* A compare-and-swap of next[p] over marked nodes, or over none.
LEMMA SwingKeeps ==
  ASSUME IInv, KeptInv, Frozen, NEW p \in Node, NEW c \in Node,
         p # m_tail, Linked(p), MarkedPath(next[p], c),
         next' = [next EXCEPT ![p] = c]
  PROVE  KeptInv'
<1>1. next \in [Node -> Node \union {Null}] /\ marked \in [Node -> BOOLEAN]
  BY DEF IInv, TypeOK
<1>2. PICK M \in SUBSET {n \in Node : marked[n]} :
        next[p] \in M \union {c} /\ \A n \in M : next[n] \in M \union {c}
  BY DEF MarkedPath
<1> SUFFICES ASSUME NEW D \in SUBSET (Inner \union {m_head}), Holds(D)',
                    NEW n \in Inner, next'[n] # Null, ~marked'[n]
             PROVE  n \in D
  BY DEF KeptInv
<1>3. n \in Node /\ ~marked[n] /\ next[n] # Null
  BY <1>1 DEF Frozen, Node, Linked
<1>4. m_head \in D /\ \A x \in D : next'[x] \in Ends \union D
  BY DEF Holds
<1>5. next'[p] = c /\ \A x \in Node : x # p => next'[x] = next[x]
  BY <1>1
<1>6. D \subseteq Node
  BY DEF Node
<1>7. CASE p \in D
  <2> DEFINE C == D \union (M \ Ends)
  <2>1. C \in SUBSET (Inner \union {m_head})
    BY DEF Node, Ends
  <2>2. c \in Ends \union D
    BY <1>4, <1>5, <1>7
  <2>3. \A x \in D : next[x] \in Ends \union C
    BY <1>2, <1>4, <1>5, <1>6, <2>2
  <2>4. \A x \in M : next[x] \in Ends \union C
    BY <1>2, <2>2
  <2>5. Holds(C)
    BY <1>4, <2>3, <2>4 DEF Holds
  <2>6. n \in C
    BY <1>3, <2>1, <2>5 DEF KeptInv
  <2> QED
    BY <1>3, <2>6
<1>8. CASE p \notin D
  <2>1. Holds(D)
    BY <1>4, <1>5, <1>6, <1>8 DEF Holds
  <2> QED
    BY <1>3, <2>1 DEF KeptInv
<1> QED
  BY <1>7, <1>8

\* An Insert that links its node.
LEMMA LinkKeeps ==
  ASSUME IInv, KeptInv, Frozen, NEW p \in Node, NEW m \in Inner, NEW c \in Node,
         ~marked[p], p # m_tail, Linked(p), next[p] = c, next[m] = Null,
         next' = [next EXCEPT ![m] = c, ![p] = m]
  PROVE  KeptInv'
<1>1. next \in [Node -> Node \union {Null}] /\ marked \in [Node -> BOOLEAN]
  BY DEF IInv, TypeOK
<1> SUFFICES ASSUME NEW D \in SUBSET (Inner \union {m_head}), Holds(D)',
                    NEW n \in Inner, next'[n] # Null, ~marked'[n]
             PROVE  n \in D
  BY DEF KeptInv
<1>2. m \in Node /\ p # m /\ m \notin Ends /\ n \in Node /\ ~marked[n]
  BY <1>1, ListAssumption DEF Frozen, Node, Linked, Ends
<1>3. m_head \in D /\ \A x \in D : next'[x] \in Ends \union D
  BY DEF Holds
<1>4. next'[p] = m /\ next'[m] = c /\ \A x \in Node : x # p /\ x # m => next'[x] = next[x]
  BY <1>1, <1>2
<1>5. D \subseteq Node
  BY DEF Node
<1>6. Holds(D)
  <2> SUFFICES ASSUME NEW x \in D PROVE next[x] \in Ends \union D
    BY <1>3 DEF Holds
  <2>1. CASE x = p
    <3>1. m \in D
      BY <1>2, <1>3, <1>4, <2>1
    <3> QED
      BY <1>3, <1>4, <2>1, <3>1
  <2>2. CASE x = m
    BY <2>2 DEF Ends
  <2>3. CASE x # p /\ x # m
    BY <1>3, <1>4, <1>5, <2>3
  <2> QED
    BY <2>1, <2>2, <2>3
<1>7. p \in D
  <2>1. p \in Inner \/ p = m_head
    BY DEF Node
  <2> QED
    BY <1>3, <1>6, <2>1 DEF KeptInv, Linked
<1>8. CASE n = m
  BY <1>2, <1>3, <1>4, <1>7, <1>8
<1>9. CASE n # m
  <2>1. next[n] # Null
    BY <1>2, <1>4, <1>9 DEF Linked
  <2> QED
    BY <1>2, <1>6, <2>1 DEF KeptInv
<1> QED
  BY <1>8, <1>9

LEMMA KeptQuiet ==
  ASSUME IInv, KeptInv, Frozen, next' = next, marked' \in [Node -> BOOLEAN]
  PROVE  KeptInv'
<1>1. \A n \in Inner : ~marked'[n] => ~marked[n]
  BY DEF Frozen, IInv, TypeOK, Node
<1> QED
  BY <1>1 DEF KeptInv, Holds

LEMMA KeptStep ==
  ASSUME IInv, Optimised, ReachInv, Frozen, NEW t \in Thread, Call(t) \/ Step(t)
  PROVE  KeptInv'
<1>1. PICK f \in Frame : f = fr[t] /\ FrameInv(f) /\ WayInv(f)
  BY DEF IInv, TypeOK, ReachInv
<1>2. /\ IInv' /\ marked' \in [Node -> BOOLEAN]
      /\ next \in [Node -> Node \union {Null}] /\ marked \in [Node -> BOOLEAN]
      /\ KeptInv
  <2>1. IInv'
    BY Inductive DEF Next
  <2> QED
    BY <2>1 DEF IInv, TypeOK, ReachInv
<1>3. CASE next' = next
  BY <1>2, <1>3, KeptQuiet
<1>4. f.pc # "idle" => Linked(f.left) /\ f.left # m_tail
  BY <1>1, KeyRange, ListAssumption DEF FrameInv, Linked, Key, Frame
<1>5. f.right \in Node
  BY DEF Frame
<1>6. CASE Unlink(t) /\ next' # next
  <2>1. f.pc = "unlink" /\ CanSwing(f, f.lnext) /\ next' = [next EXCEPT ![f.left] = f.right]
    BY <1>1, <1>6 DEF Unlink, At
  <2>2. MarkedPath(next[f.left], f.right)
    BY <1>1, <2>1 DEF WayInv, CanSwing
  <2> QED
    BY <1>2, <1>4, <1>5, <2>1, <2>2, SwingKeeps DEF Linked
<1>7. CASE Swing(t) /\ next' # next
  <2>1. f.pc = "swing" /\ CanSwing(f, f.right) /\ next' = [next EXCEPT ![f.left] = f.want]
    BY <1>1, <1>7 DEF Swing, At
  <2>2. next[f.left] = f.right /\ marked[f.right] /\ f.want = next[f.right]
        /\ Linked(f.want)
    BY <1>1, <2>1 DEF WayInv, CanSwing, FrameInv
  <2>3. MarkedPath(next[f.left], f.want)
    BY <1>5, <2>2, NoWay, WayOn
  <2> QED
    BY <1>2, <1>4, <2>1, <2>2, <2>3, SwingKeeps DEF Linked
<1>8. CASE Link(t) /\ next' # next
  <2>1. /\ f.pc = "link" /\ CanSwing(f, f.right)
        /\ next' = [next EXCEPT ![Mine(t)] = f.right, ![f.left] = Mine(t)]
    BY <1>1, <1>8 DEF Link, At
  <2>2. Mine(t) \in Inner /\ next[Mine(t)] = Null
    BY <1>1, <2>1, MineFresh
  <2>3. next[f.left] = f.right /\ ~marked[f.left]
    BY <2>1 DEF CanSwing
  <2> QED
    BY <1>2, <1>4, <1>5, <2>1, <2>2, <2>3, LinkKeeps DEF Linked
<1>9. CASE Mark(t) /\ next' # next
  <2>1. f.pc = "mark" /\ CanMark(f) /\ next' = [next EXCEPT ![f.right] = f.want]
    BY <1>1, <1>9 DEF Mark, At, Heap
  <2>2. next[f.right] = f.want
    BY <1>1, <2>1 DEF WayInv, CanMark
  <2> QED
    BY <1>2, <1>5, <1>9, <2>1, <2>2
<1>10. Call(t) \/ Search(t) \/ Recheck(t) \/ ReadNext(t) \/ Reread(t) \/ Persist(t)
        => next' = next
  BY DEF Call, Search, Recheck, ReadNext, Reread, Persist, Heap
<1> QED
  BY <1>3, <1>6, <1>7, <1>8, <1>9, <1>10 DEF Step

\* The list that Main has filled.
LEMMA Filled ==
  ASSUME Init
  PROVE  \E S \in SUBSET Key :
           /\ next[m_head] = Successor(S, 0)
           /\ \A n \in Inner : next[n] # Null => n.key \in S /\ n = Prefilled(n.key)
           /\ \A j \in S : Prefilled(j) \in Inner /\ next[Prefilled(j)] = Successor(S, j)
<1>1. PICK S \in Prefills :
        next = [n \in Node |->
                  CASE n = m_tail -> m_tail
                    [] n = m_head -> Successor(S, 0)
                    [] OTHER -> IF n.key \in S /\ n = Prefilled(n.key)
                                THEN Successor(S, n.key) ELSE Null]
  BY DEF Init
<1>2. S \in SUBSET Key
  BY ListAssumption
<1>3. m_head \in Node /\ m_head # m_tail
  BY ListAssumption DEF Node
<1>4. \A n \in Inner : n \in Node /\ n # m_tail /\ n # m_head
  BY ListAssumption DEF Node
<1>5. ASSUME NEW j \in S
      PROVE  Prefilled(j) \in Inner /\ Prefilled(j).key = j
  BY <1>2, ListAssumption DEF Prefilled, Inner
<1>6. next[m_head] = Successor(S, 0)
  BY <1>1, <1>3
<1>7. \A n \in Inner : next[n] = IF n.key \in S /\ n = Prefilled(n.key)
                                 THEN Successor(S, n.key) ELSE Null
  BY <1>1, <1>4
<1>8. ASSUME NEW j \in S PROVE next[Prefilled(j)] = Successor(S, j)
  BY <1>5, <1>7
<1> QED
  BY <1>2, <1>5, <1>6, <1>7, <1>8

\* Each key of the prefill comes behind the largest one below it.
LEMMA Predecessor ==
  ASSUME NEW S \in SUBSET Key, NEW k \in S
  PROVE  \E j \in S \union {0} : j < k /\ Successor(S, j) = Prefilled(k)
<1>1. S \subseteq Nat /\ k > 0
  BY ListAssumption DEF Key
<1> DEFINE T == {k - j : j \in {i \in S \union {0} : i < k}}
<1>2. T \subseteq Nat
  BY <1>1
<1>3. k - 0 \in T
  BY <1>1
<1>4. PICK d \in T : \A e \in T : d <= e
  <2> HIDE DEF T
  <2> QED
    BY <1>2, <1>3, LeastNumber
<1>5. PICK j \in S \union {0} : j < k /\ d = k - j
  BY <1>4
<1>6. ASSUME NEW i \in S, i > j PROVE k <= i
  <2>1. CASE i < k
    <3>1. k - i \in T
      BY <2>1
    <3> HIDE DEF T
    <3> QED
      BY <1>1, <1>4, <1>5, <1>6, <2>1, <3>1
  <2> QED
    BY <1>1, <2>1
<1>7. IsNext(S, j, k)
  BY <1>5, <1>6 DEF IsNext
<1>8. \A i \in S : IsNext(S, j, i) => i = k
  BY <1>1, <1>7 DEF IsNext
<1>9. (CHOOSE i \in S : IsNext(S, j, i)) = k
  BY <1>7, <1>8
<1>10. Successor(S, j) = Prefilled(k)
  BY <1>7, <1>9 DEF Successor
<1> QED
  BY <1>5, <1>10

LEMMA InitReach == Init => ReachInv
<1> SUFFICES ASSUME Init PROVE ReachInv
  OBVIOUS
<1>1. \A t \in Thread : WayInv(fr[t])
  BY DEF Init, WayInv, Returned
<1>2. KeptInv
  <2> SUFFICES ASSUME NEW C \in SUBSET (Inner \union {m_head}), Holds(C),
                      NEW n \in Inner, next[n] # Null, n \notin C
               PROVE  FALSE
    BY DEF KeptInv
  <2>1. PICK S \in SUBSET Key :
           /\ next[m_head] = Successor(S, 0)
           /\ \A m \in Inner : next[m] # Null => m.key \in S /\ m = Prefilled(m.key)
           /\ \A j \in S : Prefilled(j) \in Inner /\ next[Prefilled(j)] = Successor(S, j)
    BY Filled
  <2> DEFINE T == {k \in S : Prefilled(k) \notin C}
  <2>2. S \subseteq Nat /\ T \subseteq Nat /\ T # {}
    <3>1. n.key \in S /\ Prefilled(n.key) \notin C
      BY <2>1
    <3>2. n.key \in T
      BY <3>1
    <3>3. Key \subseteq Nat
      BY DEF Key
    <3>4. S \subseteq Nat
      BY <3>3
    <3> QED
      BY <3>2, <3>4
  <2>3. PICK k \in T : \A j \in T : k <= j
    <3>1. T \subseteq Nat /\ T # {}
      BY <2>2
    <3> HIDE DEF T
    <3> QED
      BY <3>1, LeastNumber
  <2>4. PICK j \in S \union {0} : j < k /\ Successor(S, j) = Prefilled(k)
    BY <2>3, Predecessor
  <2>5. Prefilled(k) \in Inner /\ Prefilled(k) \notin C
    BY <2>1, <2>3
  <2>6. Prefilled(k) \notin Ends
    BY <2>5, ListAssumption DEF Ends, Node
  <2>7. CASE j = 0
    BY <2>1, <2>4, <2>5, <2>6, <2>7 DEF Holds
  <2>8. CASE j \in S /\ j \notin T
    BY <2>1, <2>4, <2>5, <2>6, <2>8 DEF Holds
  <2>9. j \notin T
    <3>1. j < k /\ j \in Nat /\ k \in Nat
      BY <2>2, <2>3, <2>4
    <3> HIDE DEF T
    <3> QED
      BY <2>3, <3>1
  <2> QED
    BY <2>4, <2>7, <2>8, <2>9
<1> QED
  BY <1>1, <1>2 DEF ReachInv

\* The links give each node a distance from the tail, so Chain is a path.
LEMMA ChainIsPath ==
  ASSUME IInv
  PROVE  Chain = Path(Node \union {Null}, next, Ends, next[m_head])
<1> DEFINE S == Node \union {Null}
           rank == [n \in S |-> IF n \in Ends THEN 0
                                ELSE IF next[n] = Null THEN 1 ELSE MaxKey + 2 - KeyOf(n)]
<1>1. next \in [Node -> S]
  BY DEF IInv, TypeOK
<1>2. \A n \in Node : KeyOf(n) \in 0..(MaxKey + 1) /\ MaxKey \in Nat
  BY KeyRange, ListAssumption
<1>3. ASSUME NEW n \in S \ Ends
      PROVE  next[n] \in S /\ rank[next[n]] < rank[n]
  <2>1. n \in Node \ {m_tail} /\ next[n] \in S
    BY <1>1, <1>3 DEF Ends
  <2>2. CASE next[n] = Null
    BY <1>3, <2>1, <2>2 DEF Ends
  <2>3. CASE next[n] # Null
    <3>1. Linked(next[n]) /\ KeyOf(n) < KeyOf(next[n])
      BY <2>1, <2>3 DEF IInv, OrderedLinks, Linked
    <3>2. next[n] \in Node /\ next[next[n]] # Null
      BY <3>1 DEF Linked
    <3>3. rank[n] = MaxKey + 2 - KeyOf(n)
      BY <1>3, <2>3
    <3>4. rank[next[n]] \in {0, MaxKey + 2 - KeyOf(next[n])}
      BY <3>2
    <3> HIDE DEF rank
    <3> QED
      BY <1>2, <2>1, <3>1, <3>2, <3>3, <3>4
  <2> QED
    BY <2>2, <2>3
<1>4. rank \in [S -> Nat]
  <2>1. ASSUME NEW n \in S
        PROVE  (IF n \in Ends THEN 0
                ELSE IF next[n] = Null THEN 1 ELSE MaxKey + 2 - KeyOf(n)) \in Nat
    <3>1. n \notin Ends => n \in Node
      BY DEF Ends
    <3> QED
      BY <1>2, <3>1
  <2> QED
    BY <2>1
<1>5. Ranked(S, next, Ends, rank)
  BY <1>3, <1>4 DEF Ranked
<1>6. next[m_head] \in S
  BY <1>1 DEF Node
<1> HIDE DEF rank
<1>7. Walk(S, next, Ends, next[m_head]) = Path(S, next, Ends, next[m_head])
  BY <1>5, <1>6, WalkIsPath
<1> QED
  BY <1>7 DEF Chain, Ends, Walk

LEMMA KeptMeansChain == IInv /\ KeptInv => NothingLost
<1> SUFFICES ASSUME IInv, KeptInv, NEW n \in Inner, next[n] # Null, ~marked[n]
             PROVE  n \in Chain
  BY DEF NothingLost
<1> DEFINE S == Node \union {Null}
           h == next[m_head]
<1>1. \A m \in Inner : m \in S \ Ends /\ m # m_head
  BY ListAssumption DEF Node, Ends
<1>2. S \ Ends = Inner \union {m_head}
  BY ListAssumption DEF Node, Ends
<1>3. h \in Node /\ h # m_head
  <2>1. Linked(h) /\ KeyOf(m_head) < KeyOf(h)
    BY ListAssumption DEF IInv, OrderedLinks, Linked, Node
  <2>2. KeyOf(h) \in Nat
    BY <2>1, KeyRange DEF Linked
  <2> QED
    BY <2>1, <2>2 DEF Linked
<1>4. ASSUME NEW C \in SUBSET (S \ Ends), h \in C \union Ends, Closed(next, Ends, C)
      PROVE  n \in C
  <2>1. Holds(C \union {m_head})
    BY <1>4 DEF Holds, Closed
  <2>2. C \union {m_head} \in SUBSET (Inner \union {m_head})
    BY <1>2
  <2> QED
    BY <1>1, <2>1, <2>2 DEF KeptInv
<1>5. h \notin Ends
  <2>1. {} \in SUBSET (S \ Ends) /\ Closed(next, Ends, {})
    BY DEF Closed
  <2> QED
    BY <1>4, <2>1
<1>6. n \in Path(S, next, Ends, h)
  BY <1>1, <1>4, <1>5 DEF Path
<1> QED
  BY <1>6, ChainIsPath

\* In the build that reads next once, what keeps nodes in the list is invariant.
THEOREM ReachInvariance == Optimised => (Spec => []ReachInv)
<1> SUFFICES ASSUME Optimised PROVE Spec => []ReachInv
  OBVIOUS
<1>1. IInv /\ ReachInv /\ [Next]_vars => ReachInv'
  <2> SUFFICES ASSUME IInv, ReachInv, [Next]_vars PROVE ReachInv'
    OBVIOUS
  <2>1. Frozen
    BY StepFrozen
  <2>2. ASSUME NEW t \in Thread, Call(t) \/ Step(t) PROVE ReachInv'
    BY <2>1, <2>2, WayStep, KeptStep DEF ReachInv
  <2>3. ASSUME UNCHANGED vars PROVE ReachInv'
    BY <2>3 DEF vars, ReachInv, WayInv, MarkedPath, KeptInv, Holds
  <2> QED
    BY <2>2, <2>3 DEF Next
<1> QED
  BY <1>1, InitReach, ListInvariance, PTL DEF Spec

\* An inserted key leaves the list only by its mark (lockfreelist.cc:195), for
\* any number of threads, keys and calls.
THEOREM NodesAreKept == Optimised => (Spec => []NothingLost)
<1> SUFFICES ASSUME Optimised PROVE Spec => []NothingLost
  OBVIOUS
<1>1. IInv /\ ReachInv => NothingLost
  BY KeptMeansChain DEF ReachInv
<1> QED
  BY <1>1, ListInvariance, ReachInvariance, PTL

-----------------------------------------------------------------------------
(* The keys that are present, and the moments at which one is.             *)

\* The nodes that hold their keys.
Live == {n \in Inner : next[n] # Null /\ ~marked[n]}

LEMMA PresentIsLive ==
  ASSUME IInv, KeptInv
  PROVE  PresentKeys = {KeyOf(n) : n \in Live}
<1> DEFINE S == Node \union {Null}
           C == {n \in Inner : next[n] # Null}
           h == next[m_head]
<1>1. Live \subseteq Chain
  BY KeptMeansChain DEF NothingLost, Live
<1>2. ASSUME NEW n \in Node \ {m_tail}, next[n] # Null
      PROVE  next[n] \in C \union {m_tail}
  <2>1. Linked(next[n]) /\ KeyOf(n) < KeyOf(next[n])
    BY <1>2 DEF IInv, OrderedLinks, Linked
  <2>2. next[n] # m_head
    <3>1. KeyOf(n) \in Nat /\ next[n] \in Node
      BY <2>1, KeyRange DEF Linked
    <3> QED
      BY <2>1, <3>1, KeyRange
  <2> QED
    BY <2>1, <2>2 DEF Linked, Node
<1>3. C \in SUBSET (S \ Ends) /\ Closed(next, Ends, C)
  <2>1. C \in SUBSET (S \ Ends)
    BY ListAssumption DEF Node, Ends
  <2>2. ASSUME NEW x \in C PROVE next[x] \in Ends \union C
    BY <1>2, ListAssumption DEF Node, Ends
  <2> QED
    BY <2>1, <2>2 DEF Closed
<1>4. h \in C \union {m_tail}
  BY <1>2, ListAssumption DEF IInv, Node
<1>5. Chain \subseteq C
  <2>1. Chain = Path(S, next, Ends, h)
    BY ChainIsPath
  <2> QED
    BY <1>3, <1>4, <2>1 DEF Path, Ends
<1>6. {m \in Chain : ~marked[m]} = Live
  BY <1>1, <1>5 DEF Live
<1> QED
  BY <1>6 DEF PresentKeys

\* A node p at which a walk from the head arrives, and whose successor lies beyond
\* the key k: p is the only node that can hold k.
LEMMA Gap ==
  ASSUME IInv, KeptInv, NEW k \in Key,
         NEW p \in Live \union {m_head}, KeyOf(p) <= k,
         KeyOf(next[p]) > k, NEW n \in Live, KeyOf(n) = k
  PROVE  n = p
<1> DEFINE Beyond == {y \in Inner : KeyOf(y) > k}
           To == {x \in Inner \union {m_head} :
                    \A C \in SUBSET (Inner \union {m_head}) :
                       x \in C /\ Closed(next, Ends, C) => p \in C}
           D == To \union Beyond
<1>1. /\ next \in [Node -> Node \union {Null}]
      /\ \A x \in Node : KeyOf(x) \in Nat
      /\ k \in Nat /\ p \in Inner \union {m_head}
  BY KeyRange DEF IInv, TypeOK, Key, Live
<1>2. ASSUME NEW x \in Inner \union {m_head}, next[x] \notin Ends
      PROVE  next[x] \in Inner /\ KeyOf(x) < KeyOf(next[x])
  <2>1. x \in Node \ {m_tail} /\ Linked(x)
    BY <1>2, ListAssumption DEF Node, Linked, Ends
  <2>2. next[x] \in Node /\ KeyOf(x) < KeyOf(next[x])
    BY <2>1 DEF IInv, OrderedLinks, Linked
  <2>3. next[x] # m_head
    BY <1>1, <2>1, <2>2, KeyRange
  <2> QED
    BY <1>2, <2>2, <2>3 DEF Node, Ends
<1>3. ASSUME NEW x \in Beyond PROVE next[x] \in Ends \union Beyond
  <2>1. CASE next[x] \in Ends
    BY <2>1
  <2>2. CASE next[x] \notin Ends
    <3>1. next[x] \in Inner /\ KeyOf(x) < KeyOf(next[x])
      BY <1>2, <2>2
    <3>2. KeyOf(x) > k /\ KeyOf(x) \in Nat /\ KeyOf(next[x]) \in Nat
      BY <1>1, <3>1 DEF Node
    <3> QED
      BY <1>1, <3>1, <3>2
  <2> QED
    BY <2>1, <2>2
<1>4. ASSUME NEW x \in To, x # p PROVE next[x] \in To
  <2>1. next[x] \notin Ends
    <3> SUFFICES ASSUME next[x] \in Ends PROVE FALSE
      OBVIOUS
    <3>1. {x} \in SUBSET (Inner \union {m_head}) /\ Closed(next, Ends, {x})
      BY DEF Closed
    <3> QED
      BY <1>4, <3>1
  <2>2. next[x] \in Inner
    BY <1>2, <2>1
  <2>3. ASSUME NEW C \in SUBSET (Inner \union {m_head}), next[x] \in C,
               Closed(next, Ends, C)
        PROVE  p \in C
    <3>1. /\ C \union {x} \in SUBSET (Inner \union {m_head})
          /\ Closed(next, Ends, C \union {x})
      BY <2>3 DEF Closed
    <3> QED
      BY <1>4, <3>1
  <2> QED
    BY <2>2, <2>3
<1>5. next[p] \in Ends \union Beyond
  BY <1>1, <1>2
<1>6. m_head \in To
  <2> SUFFICES ASSUME NEW C \in SUBSET (Inner \union {m_head}), m_head \in C,
                      Closed(next, Ends, C)
               PROVE  p \in C
    OBVIOUS
  <2>1. Holds(C)
    BY DEF Holds, Closed
  <2> QED
    BY <2>1 DEF KeptInv, Live
<1>7. D \in SUBSET (Inner \union {m_head}) /\ Holds(D)
  <2>1. ASSUME NEW x \in D PROVE next[x] \in Ends \union D
    BY <1>3, <1>4, <1>5
  <2> QED
    BY <1>6, <2>1 DEF Holds
<1>8. n \in To
  <2>1. n \in D
    BY <1>7 DEF KeptInv, Live
  <2>2. n \notin Beyond
    BY <1>1
  <2> QED
    BY <2>1, <2>2
<1>9. {n} \union Beyond \in SUBSET (Inner \union {m_head})
      /\ Closed(next, Ends, {n} \union Beyond)
  <2>1. next[n] \in Ends \union Beyond
    <3>1. CASE next[n] \in Ends
      BY <3>1
    <3>2. CASE next[n] \notin Ends
      BY <1>2, <3>2 DEF Live
    <3> QED
      BY <3>1, <3>2
  <2> QED
    BY <1>3, <2>1 DEF Closed, Live
<1>10. p \in {n} \union Beyond
  BY <1>8, <1>9
<1>11. p \notin Beyond
  BY <1>1 DEF Node
<1> QED
  BY <1>10, <1>11

\* The keys that are present, when they change.
LiveKeys == {KeyOf(n) : n \in Live}

LEMMA LiveUnique ==
  ASSUME IInv, KeptInv, NEW n \in Live, NEW m \in Live, KeyOf(n) = KeyOf(m)
  PROVE  n = m
<1>1. n \in Node \ {m_tail} /\ Linked(n) /\ n \in Inner
  BY ListAssumption DEF Live, Linked, Node
<1>2. Linked(next[n]) /\ KeyOf(n) < KeyOf(next[n])
  BY <1>1 DEF IInv, OrderedLinks
<1>3. KeyOf(n) \in Key /\ KeyOf(next[n]) > KeyOf(n) /\ KeyOf(n) <= KeyOf(n)
  BY <1>1, <1>2, KeyRange DEF Linked, Key
<1>4. m = n
  BY <1>3, Gap
<1> QED
  BY <1>4

\* An unmarked linked node with its successor beyond the key.
LEMMA AbsentBetween ==
  ASSUME IInv, KeptInv, NEW k \in Key, NEW p \in Node, Linked(p), ~marked[p],
         KeyOf(p) < k, KeyOf(next[p]) > k
  PROVE  k \notin LiveKeys
<1>1. p \in Live \union {m_head}
  <2>1. p # m_tail
    BY KeyRange, ListAssumption DEF Key
  <2> QED
    BY <2>1 DEF Node, Live, Linked
<1>2. KeyOf(p) \in Nat /\ k \in Nat
  BY KeyRange DEF Key
<1>3. ASSUME NEW n \in Live, KeyOf(n) = k PROVE FALSE
  BY <1>1, <1>2, <1>3, Gap
<1> QED
  BY <1>3 DEF LiveKeys

LEMMA PresentWhenMet ==
  ASSUME IInv, NEW p \in Node, Linked(p), ~marked[p], KeyOf(p) \in Key
  PROVE  KeyOf(p) \in LiveKeys
  BY KeyRange DEF LiveKeys, Live, Linked

\* A step that leaves the marks and links no node for the first time.
LEMMA LiveSame ==
  ASSUME IInv, IInv', marked' = marked,
         \A n \in Inner : next[n] # Null <=> next'[n] # Null
  PROVE  LiveKeys' = LiveKeys
<1>1. Live' = Live
  BY DEF Live
<1> QED
  BY <1>1 DEF LiveKeys

LEMMA LinkAdds ==
  ASSUME IInv, KeptInv, NEW t \in Thread, Link(t), CanSwing(fr[t], fr[t].right)
  PROVE  fr[t].key \notin LiveKeys /\ LiveKeys' = LiveKeys \union {fr[t].key}
<1> DEFINE f == fr[t]
           m == Mine(t)
<1>1. /\ f \in Frame /\ FrameInv(f) /\ f.pc = "link"
      /\ next \in [Node -> Node \union {Null}]
  BY DEF IInv, TypeOK, Link, At
<1>2. /\ f.key \in Key /\ f.left \in Node /\ Linked(f.left) /\ KeyOf(f.left) < f.key
      /\ f.right \in Node /\ KeyOf(f.right) >= f.key /\ KeyOf(f.right) # f.key
      /\ ~marked[f.left] /\ next[f.left] = f.right /\ Linked(f.right)
  BY <1>1 DEF FrameInv, Frame, Arriving, CanSwing
<1>3. KeyOf(f.right) > f.key
  BY <1>2, KeyRange DEF Key
<1>4. f.key \notin LiveKeys
  BY <1>2, <1>3, AbsentBetween
<1>5. m \in Inner /\ next[m] = Null /\ ~marked[m] /\ KeyOf(m) = f.key
  BY <1>1, MineFresh
<1>6. next' = [next EXCEPT ![m] = f.right, ![f.left] = m] /\ marked' = marked
  BY DEF Link
<1>7. f.left # m /\ m \in Node
  BY <1>2, <1>5 DEF Linked, Node
<1>8. /\ next'[m] = f.right /\ next'[f.left] = m
      /\ \A n \in Node : n # m /\ n # f.left => next'[n] = next[n]
  BY <1>1, <1>2, <1>6, <1>7
<1>9. Live' = Live \union {m}
  <2>1. ASSUME NEW n \in Inner
        PROVE  next'[n] # Null /\ ~marked'[n] <=> (next[n] # Null /\ ~marked[n]) \/ n = m
    <3>1. n \in Node /\ marked'[n] = marked[n] /\ f.right # Null /\ m # Null
      BY <1>2, <1>6, <1>7, ListAssumption DEF Node, Linked
    <3>2. CASE n = m
      BY <1>5, <1>6, <1>8, <3>1, <3>2
    <3>3. CASE n = f.left
      BY <1>2, <1>7, <1>8, <3>1, <3>3 DEF Linked
    <3>4. CASE n # m /\ n # f.left
      BY <1>8, <3>1, <3>4
    <3> QED
      BY <3>2, <3>3, <3>4
  <2> QED
    BY <1>5, <2>1 DEF Live
<1>10. LiveKeys' = LiveKeys \union {KeyOf(m)}
  BY <1>9 DEF LiveKeys
<1> QED
  BY <1>4, <1>5, <1>10

LEMMA MarkRemoves ==
  ASSUME IInv, KeptInv, NEW t \in Thread, Mark(t), CanMark(fr[t])
  PROVE  fr[t].key \in LiveKeys /\ LiveKeys' = LiveKeys \ {fr[t].key}
<1> DEFINE f == fr[t]
           r == f.right
<1>1. /\ f \in Frame /\ FrameInv(f) /\ f.pc = "mark"
      /\ next \in [Node -> Node \union {Null}] /\ marked \in [Node -> BOOLEAN]
  BY DEF IInv, TypeOK, Mark, At
<1>2. /\ f.key \in Key /\ r \in Node /\ Linked(r) /\ KeyOf(r) = f.key
      /\ f.want # Null
  BY <1>1 DEF FrameInv, Frame, Arriving
<1>3. ~marked[r] /\ r \in Inner /\ r \in Live
  BY <1>2, KeyRange DEF CanMark, Live, Linked
<1>4. next' = [next EXCEPT ![r] = f.want] /\ marked' = [marked EXCEPT ![r] = TRUE]
  BY DEF Mark
<1>5. Live' = Live \ {r}
  <2>1. ASSUME NEW n \in Inner
        PROVE  next'[n] # Null /\ ~marked'[n] <=> next[n] # Null /\ ~marked[n] /\ n # r
    BY <1>1, <1>2, <1>4 DEF Node
  <2> QED
    BY <2>1 DEF Live
<1>6. ASSUME NEW n \in Live PROVE KeyOf(n) = f.key <=> n = r
  BY <1>2, <1>3, LiveUnique
<1> QED
  BY <1>2, <1>3, <1>5, <1>6 DEF LiveKeys

-----------------------------------------------------------------------------
(* What a step means for the linearizable set.                             *)

CallOf(f) == [state |-> StateOf(f), type |-> f.type, key |-> f.key, res |-> f.res]
Opened(type, k) == [state |-> "open", type |-> type, key |-> k, res |-> FALSE]
Done(r) == [state |-> "idle", type |-> "FIND", key |-> 1, res |-> r]
Right(type, p) == p <=> type # "INSERT"

\* What g needs from the history s when the keys ks are present.
Justified(g, s, ks) ==
  /\ g.pc \in {"search", "unlink"} /\ KeyOf(g.lnext) > g.key =>
       FALSE \in s \/ g.key \notin ks
  /\ g.pc = "recheck" /\ KeyOf(g.right) > g.key => FALSE \in s \/ g.key \notin ks
  /\ g.pc = "link" => g.type = "INSERT"
  /\ g.pc \in {"read", "mark"} => g.type = "DELETE"

\* A call that may answer: its key was there if it has found it, or was not.
Known(h, s) == IF KeyOf(h.right) = h.key THEN TRUE \in s ELSE FALSE \in s

Responds(f, g, s) ==
  /\ StateOf(f) = "open"
  /\ \E p \in s : /\ f.type # "FIND" => ~Right(f.type, p)
                  /\ CallOf(g) = Done(Right(f.type, p))

\* A step of a call that leaves the keys alone.
Rests(f, g, s) ==
  \/ CallOf(g) = CallOf(f)
  \/ StateOf(f) = "idle" /\ \E type \in OpTypes, k \in Key : CallOf(g) = Opened(type, k)
  \/ StateOf(f) = "done" /\ CallOf(g) = Done(TRUE)
  \/ Responds(f, g, s)

\* The compare-and-swap that changes the keys from ks to new.
Changes(f, g, ks, new) ==
  /\ StateOf(f) = "open"
  /\ CallOf(g) = [CallOf(f) EXCEPT !.state = "done"]
  /\ \/ f.type = "INSERT" /\ f.key \notin ks /\ new = ks \union {f.key}
     \/ f.type = "DELETE" /\ f.key \in ks /\ new = ks \ {f.key}

Moves(f, g, s, ks, new) ==
  /\ Justified(g, s, new)
  /\ \/ new = ks /\ Rests(f, g, s)
     \/ Changes(f, g, ks, new)

\* LocatePred returns to its caller, which answers or goes on.
LEMMA LocatedMoves ==
  ASSUME NEW f \in Frame, NEW h \in Frame, NEW s, Known(h, s), NEW ks,
         StateOf(f) = "open", h.type = f.type, h.key = f.key, h.res = f.res
  PROVE  Moves(f, Located(h), s, ks, ks)
<1> DEFINE found == KeyOf(h.right) = h.key
<1>1. h.type \in {"FIND", "INSERT", "DELETE"}
  BY DEF Frame, OpTypes
<1>2. CASE (h.type = "INSERT" /\ ~found) \/ (h.type = "DELETE" /\ found)
  <2>1. PICK pc \in {"link", "read"} : Located(h) = [h EXCEPT !.pc = pc]
    BY <1>2 DEF Located
  <2>2. pc = IF h.type = "INSERT" THEN "link" ELSE "read"
    BY <1>2, <2>1 DEF Located, Frame
  <2>3. /\ CallOf([h EXCEPT !.pc = pc]) = CallOf(f) /\ [h EXCEPT !.pc = pc].pc = pc
        /\ [h EXCEPT !.pc = pc].type = h.type
    BY DEF CallOf, StateOf, Frame
  <2> QED
    BY <1>2, <2>1, <2>2, <2>3 DEF Moves, Justified, Rests
<1>3. CASE h.type = "FIND" \/ (h.type = "INSERT" /\ found) \/ (h.type = "DELETE" /\ ~found)
  <2> DEFINE p == found
  <2>1. p \in s
    BY DEF Known
  <2>2. Located(h) = Returned(Right(f.type, p)) /\ (f.type # "FIND" => ~Right(f.type, p))
    BY <1>1, <1>3 DEF Located, Right
  <2>3. ASSUME NEW r PROVE CallOf(Returned(r)) = Done(r) /\ Returned(r).pc = "idle"
    BY DEF CallOf, Returned, Done, StateOf
  <2> HIDE DEF p
  <2>4. Responds(f, Located(h), s)
    BY <2>1, <2>2, <2>3 DEF Responds
  <2> QED
    BY <2>2, <2>3, <2>4 DEF Moves, Justified, Rests
<1> HIDE DEF found
<1>4. CASE h.type = "FIND"
  BY <1>3, <1>4
<1>5. CASE h.type = "INSERT"
  BY <1>2, <1>3, <1>5
<1>6. CASE h.type = "DELETE"
  BY <1>2, <1>3, <1>6
<1> QED
  BY <1>1, <1>4, <1>5, <1>6

LEMMA RestartMoves ==
  ASSUME NEW f \in Frame, NEW h \in Frame, NEW s, NEW ks,
         StateOf(f) = "open", h.type = f.type, h.key = f.key, h.res = f.res
  PROVE  Moves(f, Restart(h), s, ks, ks)
<1>1. CallOf(Restart(h)) = CallOf(f)
  BY DEF Restart, CallOf, StateOf, Frame
<1>2. KeyOf(m_head) = 0 /\ ~(0 > h.key)
  BY ListAssumption DEF KeyOf, Frame, Key
<1>3. Justified(Restart(h), s, ks)
  BY <1>2 DEF Justified, Restart, Frame
<1> QED
  BY <1>1, <1>3 DEF Moves, Rests

\* The end of a traversal.
LEMMA ArrivedMoves ==
  ASSUME Optimised, NEW f \in Frame, NEW h \in Frame, NEW s, NEW ks,
         StateOf(f) = "open", h.type = f.type, h.key = f.key, h.res = f.res,
         h.pc = "search", h.lnext = h.right => Known(h, s), Justified(h, s, ks)
  PROVE  Moves(f, Arrived(h), s, ks, ks)
<1>1. CASE h.lnext = h.right
  BY <1>1, LocatedMoves DEF Arrived
<1>2. CASE h.lnext # h.right
  <2>1. Arrived(h) = [h EXCEPT !.pc = "unlink"]
    BY <1>2 DEF Arrived
  <2>2. CallOf([h EXCEPT !.pc = "unlink"]) = CallOf(f)
    BY DEF CallOf, StateOf, Frame
  <2>3. Justified([h EXCEPT !.pc = "unlink"], s, ks)
    BY DEF Justified, Frame
  <2> QED
    BY <2>1, <2>2, <2>3 DEF Moves, Rests
<1> QED
  BY <1>1, <1>2

\* What SeenInv and the invariants say of one call.
LEMMA SeenCall ==
  ASSUME IInv, KeptInv, SeenInv, NEW t \in Thread
  PROVE  /\ fr[t] \in Frame /\ FrameInv(fr[t])
         /\ fr[t].pc # "idle" => IF fr[t].key \in LiveKeys
                                 THEN TRUE \in seen[t] ELSE FALSE \in seen[t]
         /\ Justified(fr[t], seen[t], {fr[t].key})
<1>1. PresentKeys = LiveKeys
  BY PresentIsLive DEF LiveKeys
<1> QED
  BY <1>1 DEF SeenInv, SeenBy, Justified, IInv, TypeOK

LEMMA SearchMoves ==
  ASSUME IInv, KeptInv, SeenInv, Optimised, NEW t \in Thread, Search(t), LiveKeys' = LiveKeys
  PROVE  Moves(fr[t], fr'[t], seen[t], LiveKeys, LiveKeys')
<1> DEFINE f == fr[t]
           i == f.right
           s == seen[t]
           step == [f EXCEPT !.left  = IF marked[i] THEN @ ELSE i,
                             !.lnext = IF marked[i] THEN @ ELSE next[i],
                             !.right = next[i]]
<1>1. /\ f \in Frame /\ FrameInv(f) /\ f.pc = "search"
      /\ f.key \in LiveKeys => TRUE \in s
      /\ f.key \notin LiveKeys => FALSE \in s
      /\ KeyOf(f.lnext) > f.key => FALSE \in s
  BY SeenCall DEF Search, At, Justified
<1>2. /\ f.key \in Key /\ i \in Node \ {m_tail} /\ Linked(i)
      /\ Linked(next[i]) /\ KeyOf(i) < KeyOf(next[i])
  BY <1>1 DEF FrameInv, Frame, IInv, OrderedLinks, Linked
<1>3. /\ f.key \in Nat /\ KeyOf(i) \in Nat /\ KeyOf(next[i]) \in Nat
      /\ next[i] \in Node
  BY <1>2, KeyRange DEF Linked, Key
<1>4. ~marked[i] /\ KeyOf(i) < f.key /\ KeyOf(next[i]) > f.key => FALSE \in s
  BY <1>1, <1>2, AbsentBetween
<1>5. /\ step \in Frame /\ step.pc = "search" /\ step.right = next[i]
      /\ step.lnext = IF marked[i] THEN f.lnext ELSE next[i]
      /\ step.type = f.type /\ step.key = f.key /\ step.res = f.res
  BY <1>1, <1>2, <1>3 DEF Frame
<1> HIDE DEF step
<1>6. StateOf(f) = "open" /\ fr' = [fr EXCEPT ![t] = fr'[t]]
  BY <1>1 DEF StateOf, Search, IInv, TypeOK
<1>7. CASE Passed(i, f.key)
  <2>1. Justified(step, s, LiveKeys)
    BY <1>1, <1>4, <1>5, <1>7 DEF Justified, Passed
  <2>2. fr'[t] = IF next[i] = m_tail THEN Arrived(step) ELSE step
    BY <1>1, <1>7 DEF Search, IInv, TypeOK, step
  <2>3. CASE next[i] = m_tail
    <3>1. KeyOf(m_tail) > f.key
      BY <1>2, KeyRange, ListAssumption DEF Key, Node
    <3>2. ASSUME step.lnext = step.right PROVE Known(step, s)
      <4>1. KeyOf(step.right) > f.key
        BY <1>5, <2>3, <3>1
      <4>2. FALSE \in s
        BY <1>1, <1>4, <1>5, <1>7, <2>3, <3>1, <3>2 DEF Passed
      <4>3. KeyOf(step.right) # step.key
        BY <1>3, <1>5, <2>3, <4>1
      <4> QED
        BY <4>2, <4>3 DEF Known
    <3>3. Moves(f, Arrived(step), s, LiveKeys, LiveKeys)
      BY <1>1, <1>5, <1>6, <2>1, <3>2, ArrivedMoves
    <3> QED
      BY <2>2, <2>3, <3>3
  <2>4. CASE next[i] # m_tail
    <3>1. CallOf(step) = CallOf(f)
      BY <1>1, <1>5 DEF CallOf, StateOf
    <3> QED
      BY <2>1, <2>2, <2>4, <3>1 DEF Moves, Rests
  <2> QED
    BY <2>3, <2>4
<1>8. CASE ~Passed(i, f.key)
  <2>1. fr'[t] = Arrived(f)
    BY <1>1, <1>8 DEF Search, IInv, TypeOK
  <2>2. KeyOf(i) >= f.key /\ ~marked[i]
    BY <1>3, <1>8 DEF Passed
  <2>3. KeyOf(i) = f.key => TRUE \in s
    BY <1>1, <1>2, <2>2, PresentWhenMet
  <2>4. ASSUME f.lnext = f.right PROVE Known(f, s)
    <3>1. CASE KeyOf(i) = f.key
      BY <2>3, <3>1 DEF Known
    <3>2. CASE KeyOf(i) # f.key
      <4>1. KeyOf(f.lnext) > f.key
        BY <1>3, <2>2, <2>4, <3>2
      <4> QED
        BY <1>1, <3>2, <4>1 DEF Known
    <3> QED
      BY <3>1, <3>2
  <2>5. Justified(f, s, LiveKeys)
    BY <1>1 DEF Justified
  <2>6. Moves(f, Arrived(f), s, LiveKeys, LiveKeys)
    BY <1>1, <1>6, <2>4, <2>5, ArrivedMoves
  <2> QED
    BY <2>1, <2>6
<1> QED
  BY <1>7, <1>8

\* AbsentBetween as a state formula, and in the state after a step.
NoneBetween ==
  \A k \in Key, p \in Node :
    /\ Linked(p) /\ ~marked[p]
    /\ KeyOf(p) < k /\ KeyOf(next[p]) > k
    => k \notin LiveKeys

LEMMA AbsentNow == IInv /\ KeptInv => NoneBetween
  BY AbsentBetween DEF NoneBetween

LEMMA AbsentAfter ==
  ASSUME IInv', KeptInv', NEW k \in Key, NEW p \in Node, Linked(p)', ~marked'[p],
         KeyOf(p) < k, KeyOf(next'[p]) > k
  PROVE  k \notin LiveKeys'
<1>1. NoneBetween'
  BY AbsentNow, PTL
<1> QED
  BY <1>1 DEF NoneBetween

LEMMA UnlinkMoves ==
  ASSUME IInv, KeptInv, SeenInv, IInv', KeptInv', NEW t \in Thread, Unlink(t),
         LiveKeys' = LiveKeys
  PROVE  Moves(fr[t], fr'[t], seen[t], LiveKeys, LiveKeys')
<1> DEFINE f == fr[t]
           s == seen[t]
<1>1. /\ f \in Frame /\ FrameInv(f) /\ f.pc = "unlink"
      /\ f.key \notin LiveKeys => FALSE \in s
      /\ next \in [Node -> Node \union {Null}]
  BY SeenCall DEF Unlink, At, IInv, TypeOK
<1>2. /\ f.key \in Key /\ f.left \in Node /\ Linked(f.left) /\ KeyOf(f.left) < f.key
      /\ f.right \in Node /\ Linked(f.right) /\ KeyOf(f.right) >= f.key
  BY <1>1 DEF FrameInv, Frame, Arriving
<1>3. StateOf(f) = "open"
  BY <1>1 DEF StateOf
<1>4. CASE CanSwing(f, f.lnext)
  <2>1. /\ next' = [next EXCEPT ![f.left] = f.right] /\ marked' = marked
        /\ fr'[t] = IF f.right = m_tail THEN Located(f) ELSE [f EXCEPT !.pc = "recheck"]
    BY <1>1, <1>4 DEF Unlink, IInv, TypeOK
  <2>2. ASSUME KeyOf(f.right) > f.key PROVE f.key \notin LiveKeys /\ FALSE \in s
    <3>1. PICK p \in Node : p = f.left
      BY <1>2
    <3>2. next'[p] = f.right /\ ~marked'[p] /\ Linked(p)' /\ KeyOf(p) < f.key
      BY <1>1, <1>2, <1>4, <2>1, <3>1, ListAssumption DEF CanSwing, Linked
    <3>3. PICK k \in Key : k = f.key
      BY <1>2
    <3>4. k \notin LiveKeys'
      BY <2>2, <3>2, <3>3, AbsentAfter
    <3> QED
      BY <1>1, <3>3, <3>4
  <2>3. CASE f.right = m_tail
    <3>1. KeyOf(f.right) > f.key /\ KeyOf(f.right) # f.key
      BY <1>2, <2>3, KeyRange, ListAssumption DEF Key, Node
    <3>2. Known(f, s)
      BY <2>2, <3>1 DEF Known
    <3> QED
      BY <1>1, <1>3, <2>1, <2>3, <3>2, LocatedMoves
  <2>4. CASE f.right # m_tail
    <3>1. CallOf([f EXCEPT !.pc = "recheck"]) = CallOf(f)
      BY <1>1 DEF CallOf, StateOf, Frame
    <3>2. Justified([f EXCEPT !.pc = "recheck"], s, LiveKeys)
      BY <1>1, <2>2 DEF Justified, Frame
    <3> QED
      BY <2>1, <2>4, <3>1, <3>2 DEF Moves, Rests
  <2> QED
    BY <2>3, <2>4
<1>5. CASE ~CanSwing(f, f.lnext)
  <2>1. fr'[t] = Restart(f)
    BY <1>1, <1>5 DEF Unlink, IInv, TypeOK
  <2> QED
    BY <1>1, <1>3, <2>1, RestartMoves
<1> QED
  BY <1>4, <1>5

LEMMA RecheckMoves ==
  ASSUME IInv, KeptInv, SeenInv, NEW t \in Thread, Recheck(t), LiveKeys' = LiveKeys
  PROVE  Moves(fr[t], fr'[t], seen[t], LiveKeys, LiveKeys')
<1> DEFINE f == fr[t]
           s == seen[t]
<1>1. /\ f \in Frame /\ FrameInv(f) /\ f.pc = "recheck"
      /\ f.key \in LiveKeys => TRUE \in s
      /\ f.key \notin LiveKeys => FALSE \in s
      /\ KeyOf(f.right) > f.key => FALSE \in s
  BY SeenCall DEF Recheck, At, Justified
<1>2. f.key \in Key /\ f.right \in Node /\ Linked(f.right) /\ KeyOf(f.right) >= f.key
  BY <1>1 DEF FrameInv, Frame, Arriving
<1>3. StateOf(f) = "open"
  BY <1>1 DEF StateOf
<1>4. fr'[t] = IF marked[f.right] THEN Restart(f) ELSE Located(f)
  BY DEF Recheck, IInv, TypeOK
<1>5. CASE marked[f.right]
  BY <1>1, <1>3, <1>4, <1>5, RestartMoves
<1>6. CASE ~marked[f.right]
  <2>1. CASE KeyOf(f.right) = f.key
    <3>1. TRUE \in s
      BY <1>1, <1>2, <1>6, <2>1, PresentWhenMet
    <3>2. Known(f, s)
      BY <2>1, <3>1 DEF Known
    <3> QED
      BY <1>1, <1>3, <1>4, <1>6, <3>2, LocatedMoves
  <2>2. CASE KeyOf(f.right) # f.key
    <3>1. KeyOf(f.right) > f.key
      BY <1>2, <2>2, KeyRange DEF Key
    <3>2. Known(f, s)
      BY <1>1, <2>2, <3>1 DEF Known
    <3> QED
      BY <1>1, <1>3, <1>4, <1>6, <3>2, LocatedMoves
  <2> QED
    BY <2>1, <2>2
<1> QED
  BY <1>5, <1>6

LEMMA CallMoves ==
  ASSUME IInv, NEW t \in Thread, Call(t), LiveKeys' = LiveKeys
  PROVE  Moves(fr[t], fr'[t], seen[t], LiveKeys, LiveKeys')
<1>1. PICK type \in OpTypes, k \in Key :
        fr'[t] = Restart([Returned(FALSE) EXCEPT !.type = type, !.key = k])
  BY DEF Call, IInv, TypeOK
<1> DEFINE g == Restart([Returned(FALSE) EXCEPT !.type = type, !.key = k])
<1>2. /\ g.pc = "search" /\ g.lnext = m_head /\ g.key = k
      /\ CallOf(g) = Opened(type, k)
  BY DEF Restart, Returned, CallOf, StateOf, Opened
<1>3. ~(KeyOf(m_head) > k)
  BY ListAssumption DEF KeyOf, Key
<1>4. StateOf(fr[t]) = "idle"
  BY DEF Call, At, StateOf
<1> HIDE DEF g
<1>5. Justified(g, seen[t], LiveKeys)
  BY <1>2, <1>3 DEF Justified
<1>6. Rests(fr[t], g, seen[t])
  BY <1>2, <1>4 DEF Rests
<1>7. fr'[t] = g
  BY <1>1 DEF g
<1> QED
  BY <1>5, <1>6, <1>7 DEF Moves

\* The steps of a call that has found what it looked for.
LEMMA LaterMoves ==
  ASSUME IInv, KeptInv, SeenInv, NEW t \in Thread,
         Link(t) \/ ReadNext(t) \/ Mark(t) \/ Reread(t) \/ Swing(t) \/ Persist(t),
         \/ LiveKeys' = LiveKeys
         \/ Link(t) /\ CanSwing(fr[t], fr[t].right)
         \/ Mark(t) /\ CanMark(fr[t])
  PROVE  Moves(fr[t], fr'[t], seen[t], LiveKeys, LiveKeys')
<1> DEFINE f == fr[t]
           s == seen[t]
<1>1. /\ f \in Frame /\ fr \in [Thread -> Frame] /\ FrameInv(f)
      /\ f.pc = "link" => f.type = "INSERT"
      /\ f.pc \in {"read", "mark"} => f.type = "DELETE"
  BY SeenCall DEF IInv, TypeOK, Justified
<1>2. ASSUME NEW g, g.pc \in {"persist", "swing", "mark", "read", "reread"},
             g.type = f.type, g.key = f.key, g.res = f.res,
             g.pc \in {"mark", "read"} => f.type = "DELETE", NEW ks
      PROVE  /\ Justified(g, s, ks)
             /\ StateOf(g) = IF g.pc \in {"mark", "read"} THEN "open" ELSE "done"
  BY <1>1, <1>2 DEF Justified, StateOf
<1>3. CASE Link(t) /\ CanSwing(f, f.right)
  <2> DEFINE g == [f EXCEPT !.pc = "persist"]
  <2>1. f.pc = "link" /\ fr'[t] = g
    BY <1>1, <1>3 DEF Link, At, Frame
  <2>2. f.key \notin LiveKeys /\ LiveKeys' = LiveKeys \union {f.key}
    BY <1>3, LinkAdds
  <2>3. g.pc = "persist" /\ g.type = f.type /\ g.key = f.key /\ g.res = f.res
    BY <1>1 DEF Frame
  <2> HIDE DEF g
  <2>4. Justified(g, s, LiveKeys') /\ StateOf(g) = "done" /\ StateOf(f) = "open"
    BY <1>2, <2>1, <2>3 DEF StateOf
  <2>5. CallOf(g) = [CallOf(f) EXCEPT !.state = "done"]
    BY <2>3, <2>4 DEF CallOf
  <2> QED
    BY <1>1, <2>1, <2>2, <2>4, <2>5 DEF Moves, Changes
<1>4. CASE Mark(t) /\ CanMark(f)
  <2> DEFINE g == [f EXCEPT !.pc = "reread"]
  <2>1. f.pc = "mark" /\ fr'[t] = g
    BY <1>1, <1>4 DEF Mark, At, Frame
  <2>2. f.key \in LiveKeys /\ LiveKeys' = LiveKeys \ {f.key}
    BY <1>4, MarkRemoves
  <2>3. g.pc = "reread" /\ g.type = f.type /\ g.key = f.key /\ g.res = f.res
    BY <1>1 DEF Frame
  <2> HIDE DEF g
  <2>4. Justified(g, s, LiveKeys') /\ StateOf(g) = "done" /\ StateOf(f) = "open"
    BY <1>2, <2>1, <2>3 DEF StateOf
  <2>5. CallOf(g) = [CallOf(f) EXCEPT !.state = "done"]
    BY <2>3, <2>4 DEF CallOf
  <2> QED
    BY <1>1, <2>1, <2>2, <2>4, <2>5 DEF Moves, Changes
<1>5. ASSUME LiveKeys' = LiveKeys, NEW g, fr'[t] = g,
             g.pc \in {"persist", "swing", "mark", "read", "reread"},
             g.type = f.type, g.key = f.key, g.res = f.res,
             f.pc \in {"read", "mark"} <=> g.pc \in {"read", "mark"},
             f.pc \in {"read", "mark", "reread", "swing"}
      PROVE  Moves(f, fr'[t], s, LiveKeys, LiveKeys')
  <2>1. Justified(g, s, LiveKeys') /\ StateOf(g) = StateOf(f)
    BY <1>1, <1>2, <1>5 DEF StateOf
  <2>2. CallOf(g) = CallOf(f)
    BY <1>5, <2>1 DEF CallOf
  <2> QED
    BY <1>5, <2>1, <2>2 DEF Moves, Rests
<1>6. CASE ReadNext(t) /\ LiveKeys' = LiveKeys
  <2>1. ASSUME NEW g, fr'[t] = g, g.pc \in {"read", "mark"},
               g.type = f.type, g.key = f.key, g.res = f.res
        PROVE  Moves(f, fr'[t], s, LiveKeys, LiveKeys')
    BY <1>5, <1>6, <2>1 DEF ReadNext, At
  <2>2. \/ fr'[t] = [f EXCEPT !.want = next[f.right]]
        \/ fr'[t] = [f EXCEPT !.want = next[f.right], !.exp = next[f.right], !.pc = "mark"]
        \/ fr'[t] = [f EXCEPT !.exp = next[f.right], !.pc = "mark"]
    BY <1>1, <1>6 DEF ReadNext
  <2>3. /\ fr'[t].pc \in {"read", "mark"} /\ fr'[t].type = f.type
        /\ fr'[t].key = f.key /\ fr'[t].res = f.res
    BY <1>1, <1>6, <2>2 DEF Frame, ReadNext, At
  <2> QED
    BY <2>1, <2>3
<1>7. CASE (Mark(t) \/ Link(t)) /\ fr'[t] = Restart(f) /\ LiveKeys' = LiveKeys
  <2>1. StateOf(f) = "open"
    BY <1>7 DEF StateOf, Mark, Link, At
  <2> QED
    BY <1>1, <1>7, <2>1, RestartMoves
<1>8. CASE Reread(t) /\ LiveKeys' = LiveKeys
  <2> DEFINE g == [f EXCEPT !.want = next[f.right], !.pc = "swing"]
  <2>1. f.pc = "reread" /\ fr'[t] = g
    BY <1>1, <1>8 DEF Reread, At
  <2>2. g.pc = "swing" /\ g.type = f.type /\ g.key = f.key /\ g.res = f.res
    BY <1>1 DEF Frame
  <2> HIDE DEF g
  <2> QED
    BY <1>5, <1>8, <2>1, <2>2
<1>9. CASE Swing(t) /\ LiveKeys' = LiveKeys
  <2> DEFINE g == [f EXCEPT !.pc = "persist"]
  <2>1. f.pc = "swing" /\ fr'[t] = g
    BY <1>1, <1>9 DEF Swing, At
  <2>2. g.pc = "persist" /\ g.type = f.type /\ g.key = f.key /\ g.res = f.res
    BY <1>1 DEF Frame
  <2> HIDE DEF g
  <2> QED
    BY <1>5, <1>9, <2>1, <2>2
<1>10. CASE Persist(t) /\ LiveKeys' = LiveKeys
  <2> DEFINE g == Returned(TRUE)
  <2>1. f.pc = "persist" /\ fr'[t] = g
    BY <1>1, <1>10 DEF Persist, At
  <2>2. CallOf(g) = Done(TRUE) /\ g.pc = "idle"
    BY DEF CallOf, Done, Returned, StateOf
  <2>3. StateOf(f) = "done"
    BY <2>1 DEF StateOf
  <2> HIDE DEF g
  <2> QED
    BY <1>10, <2>1, <2>2, <2>3 DEF Moves, Rests, Justified
<1>11. /\ Link(t) => CanSwing(f, f.right) \/ fr'[t] = Restart(f)
       /\ Mark(t) => CanMark(f) \/ fr'[t] = Restart(f)
  BY <1>1 DEF Link, Mark
<1> QED
  BY <1>3, <1>4, <1>6, <1>7, <1>8, <1>9, <1>10, <1>11

LEMMA StepMoves ==
  ASSUME IInv, KeptInv, SeenInv, IInv', KeptInv', Optimised,
         NEW t \in Thread, Call(t) \/ Step(t)
  PROVE  /\ fr' = [fr EXCEPT ![t] = fr'[t]]
         /\ Moves(fr[t], fr'[t], seen[t], LiveKeys, LiveKeys')
<1> DEFINE f == fr[t]
<1>1. /\ f \in Frame /\ FrameInv(f) /\ fr \in [Thread -> Frame]
      /\ next \in [Node -> Node \union {Null}]
  BY DEF IInv, TypeOK
<1>2. fr' = [fr EXCEPT ![t] = fr'[t]]
  BY <1>1 DEF Call, Step, Search, Recheck, Unlink, Link, ReadNext, Mark, Reread,
              Swing, Persist
<1>3. CASE UNCHANGED Heap
  <2>1. LiveKeys' = LiveKeys
    BY <1>3 DEF Heap, LiveKeys, Live
  <2> QED
    BY <1>2, <2>1, CallMoves, SearchMoves, RecheckMoves, UnlinkMoves, LaterMoves DEF Step
<1>4. ASSUME NEW a \in Node, Linked(a), NEW b \in Node, next' = [next EXCEPT ![a] = b],
             marked' = marked
      PROVE  LiveKeys' = LiveKeys
  <2>1. \A n \in Inner : next[n] # Null <=> next'[n] # Null
    BY <1>1, <1>4, ListAssumption DEF Linked, Node
  <2> QED
    BY <1>4, <2>1, LiveSame
<1>5. CASE Unlink(t) /\ CanSwing(f, f.lnext)
  <2>1. /\ Linked(f.left) /\ f.right \in Node /\ f.left \in Node
        /\ next' = [next EXCEPT ![f.left] = f.right] /\ marked' = marked
    BY <1>1, <1>5 DEF Unlink, At, FrameInv, Frame
  <2> QED
    BY <1>2, <1>4, <1>5, <2>1, UnlinkMoves
<1>6. CASE Swing(t) /\ CanSwing(f, f.right)
  <2>1. /\ Linked(f.left) /\ f.want \in Node /\ f.left \in Node
        /\ next' = [next EXCEPT ![f.left] = f.want] /\ marked' = marked
    BY <1>1, <1>6 DEF Swing, At, FrameInv, Frame, Linked
  <2> QED
    BY <1>2, <1>4, <1>6, <2>1, LaterMoves
<1>7. CASE (Link(t) /\ CanSwing(f, f.right)) \/ (Mark(t) /\ CanMark(f))
  BY <1>2, <1>7, LaterMoves
<1> QED
  BY <1>3, <1>5, <1>6, <1>7
     DEF Call, Step, Search, Recheck, Unlink, Link, ReadNext, Mark, Reread, Swing,
         Persist, Heap

KeysAgree == PresentKeys = LiveKeys

LEMMA KeysNow == IInv /\ KeptInv => KeysAgree
  BY PresentIsLive DEF LiveKeys, KeysAgree

LEMMA KeysAfter ==
  ASSUME IInv', KeptInv'
  PROVE  PresentKeys' = LiveKeys'
<1>1. KeysAgree'
  BY KeysNow, PTL
<1> QED
  BY <1>1 DEF KeysAgree

\* How the history grows.
LEMMA SeenGrows ==
  ASSUME IInv', KeptInv', HNext, SeenInv, NEW u \in Thread
  PROVE  /\ seen' \in [Thread -> SUBSET BOOLEAN]
         /\ fr'[u].pc = "idle" => seen'[u] = {}
         /\ fr'[u].pc # "idle" =>
              seen'[u] = seen[u] \union (IF fr'[u].key \in LiveKeys' THEN {TRUE} ELSE {FALSE})
<1>1. PresentKeys' = LiveKeys'
  BY KeysAfter
<1>2. seen' = [v \in Thread |->
                 IF fr'[v].pc = "idle" THEN {}
                 ELSE seen[v] \union {fr'[v].key \in LiveKeys'}]
  BY <1>1 DEF HNext
<1>3. ASSUME NEW v \in Thread
      PROVE  {fr'[v].key \in LiveKeys'}
             = (IF fr'[v].key \in LiveKeys' THEN {TRUE} ELSE {FALSE})
  <2>1. CASE fr'[v].key \in LiveKeys'
    <3>1. (fr'[v].key \in LiveKeys') = TRUE
      BY <2>1
    <3> QED
      BY <2>1, <3>1
  <2>2. CASE fr'[v].key \notin LiveKeys'
    <3>1. (fr'[v].key \in LiveKeys') = FALSE
      BY <2>2
    <3> QED
      BY <2>2, <3>1
  <2> QED
    BY <2>1, <2>2
<1>4. seen \in [Thread -> SUBSET BOOLEAN]
  BY DEF SeenInv
<1>5. seen' \in [Thread -> SUBSET BOOLEAN]
  BY <1>2, <1>3, <1>4
<1> QED
  BY <1>2, <1>3, <1>5

LEMMA SeenStep ==
  ASSUME IInv, KeptInv, SeenInv, IInv', KeptInv', Optimised, HNext
  PROVE  SeenInv'
<1>1. PICK t \in Thread : Call(t) \/ Step(t)
  BY DEF HNext, Next
<1>2. /\ fr' = [fr EXCEPT ![t] = fr'[t]] /\ fr \in [Thread -> Frame]
      /\ Justified(fr'[t], seen[t], LiveKeys')
  BY <1>1, StepMoves DEF Moves, IInv, TypeOK
<1>3. ASSUME NEW u \in Thread PROVE Justified(fr'[u], seen[u], LiveKeys')
  <2>1. CASE u = t
    BY <1>2, <2>1
  <2>2. CASE u # t
    <3>1. fr'[u] = fr[u]
      BY <1>2, <2>2
    <3>2. Justified(fr[u], seen[u], {fr[u].key})
      BY SeenCall
    <3> QED
      BY <3>1, <3>2 DEF Justified
  <2> QED
    BY <2>1, <2>2
<1>4. ASSUME NEW u \in Thread PROVE SeenBy(fr[u], seen[u])'
  <2>1. /\ fr'[u].pc = "idle" => seen'[u] = {}
        /\ fr'[u].pc # "idle" =>
              seen'[u] = seen[u] \union (IF fr'[u].key \in LiveKeys' THEN {TRUE} ELSE {FALSE})
    BY SeenGrows
  <2>2. PresentKeys' = LiveKeys'
    BY KeysAfter
  <2>3. Justified(fr'[u], seen[u], LiveKeys')
    BY <1>3
  <2> QED
    BY ONLY <2>1, <2>2, <2>3 DEF SeenBy, Justified
<1> QED
  BY <1>4, SeenGrows DEF SeenInv

\* The calls as the linearizable set sees them.
LinCall == [u \in Thread |-> [state |-> StateOf(fr[u]), type |-> fr[u].type,
                              key |-> fr[u].key, res |-> fr[u].res]]

LEMMA LinCallIs ==
  ASSUME NEW u \in Thread
  PROVE  LinCall[u] = CallOf(fr[u]) /\ LinCall'[u] = CallOf(fr'[u])
  BY DEF LinCall, CallOf, StateOf

LEMMA LinCallStep ==
  ASSUME NEW t \in Thread, fr' = [fr EXCEPT ![t] = fr'[t]], fr \in [Thread -> Frame]
  PROVE  LinCall' = [LinCall EXCEPT ![t] = CallOf(fr'[t])]
<1>1. ASSUME NEW u \in Thread
      PROVE  CallOf(fr'[u]) = IF u = t THEN CallOf(fr'[t]) ELSE CallOf(fr[u])
  OBVIOUS
<1>2. LinCall = [u \in Thread |-> CallOf(fr[u])]
  BY DEF LinCall, CallOf
<1>3. LinCall' = [u \in Thread |-> CallOf(fr'[u])]
  BY DEF LinCall, CallOf, StateOf
<1> QED
  BY <1>1, <1>2, <1>3

LEMMA ObserveStep ==
  ASSUME HNext
  PROVE  Abstract!Observe
<1>1. ASSUME NEW u \in Thread
      PROVE  /\ LinCall'[u].state = "idle" <=> fr'[u].pc = "idle"
             /\ LinCall'[u].key = fr'[u].key
  <2>1. LinCall'[u] = CallOf(fr'[u])
    BY LinCallIs
  <2> QED
    BY <2>1 DEF CallOf, StateOf
<1>2. seen' = [u \in Thread |->
                 IF LinCall'[u].state = "idle" THEN {}
                 ELSE seen[u] \union {LinCall'[u].key \in PresentKeys'}]
  BY <1>1 DEF HNext
<1> QED
  BY <1>2 DEF Abstract!Observe, LinCall

LEMMA RestStep ==
  ASSUME NEW t \in Thread, fr \in [Thread -> Frame], PresentKeys' = PresentKeys,
         LinCall' = [LinCall EXCEPT ![t] = CallOf(fr'[t])],
         Rests(fr[t], fr'[t], seen[t]), CallOf(fr'[t]) # CallOf(fr[t])
  PROVE  Abstract!Invoke(t) \/ Abstract!Respond(t)
<1>1. /\ LinCall[t] = CallOf(fr[t])
      /\ LinCall[t].state = StateOf(fr[t]) /\ LinCall[t].type = fr[t].type
      /\ LinCall[t].key = fr[t].key
  <2>1. LinCall[t] = CallOf(fr[t])
    BY LinCallIs
  <2> QED
    BY <2>1 DEF CallOf
<1>2. CASE StateOf(fr[t]) = "idle"
           /\ \E type \in OpTypes, k \in Key : CallOf(fr'[t]) = Opened(type, k)
  <2>1. LinCall[t].state = "idle"
    BY <1>1, <1>2 DEF CallOf
  <2>2. PICK type \in OpTypes, k \in Key :
          LinCall' = [LinCall EXCEPT ![t] =
                       [state |-> "open", type |-> type, key |-> k, res |-> FALSE]]
    BY <1>2 DEF Opened
  <2>3. Abstract!Invoke(t)
    BY <2>1, <2>2 DEF Abstract!Invoke, Abstract!OpTypes, OpTypes, LinCall
  <2> QED
    BY <2>3
<1>3. CASE StateOf(fr[t]) = "done" /\ CallOf(fr'[t]) = Done(TRUE)
  <2>1. LinCall[t].state = "done" /\ LinCall' = [LinCall EXCEPT ![t] = Done(TRUE)]
    BY <1>1, <1>3
  <2>2. Abstract!Respond(t)
    BY <2>1 DEF Abstract!Respond, Abstract!NoCall, Done, LinCall
  <2> QED
    BY <2>2
<1>4. CASE Responds(fr[t], fr'[t], seen[t])
  <2>1. PICK p \in seen[t] : /\ fr[t].type # "FIND" => ~Right(fr[t].type, p)
                             /\ CallOf(fr'[t]) = Done(Right(fr[t].type, p))
    BY <1>4 DEF Responds
  <2>2. /\ LinCall[t].state = "open" /\ LinCall[t].type = fr[t].type
        /\ LinCall' = [LinCall EXCEPT ![t] = Done(Right(LinCall[t].type, p))]
        /\ LinCall[t].type # "FIND" => ~Right(LinCall[t].type, p)
    BY <1>1, <1>4, <2>1 DEF Responds
  <2>3. Abstract!Respond(t)
    BY <2>1, <2>2 DEF Abstract!Respond, Abstract!NoCall, Abstract!Answer, Right, Done, LinCall
  <2> QED
    BY <2>3
<1> QED
  BY <1>2, <1>3, <1>4 DEF Rests

LEMMA ChangeStep ==
  ASSUME NEW t \in Thread, fr \in [Thread -> Frame],
         LinCall' = [LinCall EXCEPT ![t] = CallOf(fr'[t])],
         Changes(fr[t], fr'[t], PresentKeys, PresentKeys')
  PROVE  Abstract!Change(t)
<1>1. /\ LinCall[t] = CallOf(fr[t])
      /\ LinCall[t].state = StateOf(fr[t]) /\ LinCall[t].type = fr[t].type
      /\ LinCall[t].key = fr[t].key
  <2>1. LinCall[t] = CallOf(fr[t])
    BY LinCallIs
  <2> QED
    BY <2>1 DEF CallOf
<1>2. /\ LinCall[t].state = "open" /\ LinCall[t].type = fr[t].type
      /\ LinCall[t].key = fr[t].key
      /\ LinCall' = [LinCall EXCEPT ![t] = [LinCall[t] EXCEPT !.state = "done"]]
  BY <1>1 DEF Changes
<1>3. \/ /\ LinCall[t].type = "INSERT" /\ LinCall[t].key \notin PresentKeys
         /\ PresentKeys' = PresentKeys \union {LinCall[t].key}
      \/ /\ LinCall[t].type = "DELETE" /\ LinCall[t].key \in PresentKeys
         /\ PresentKeys' = PresentKeys \ {LinCall[t].key}
  BY <1>2 DEF Changes
<1> QED
  BY <1>2, <1>3 DEF Abstract!Change, Abstract!Answer, Abstract!Apply, LinCall

LEMMA LinStep ==
  ASSUME IInv, KeptInv, SeenInv, IInv', KeptInv', Optimised, HNext
  PROVE  Abstract!Next \/ UNCHANGED Abstract!vars
<1>1. PICK t \in Thread : Call(t) \/ Step(t)
  BY DEF HNext, Next
<1>2. /\ fr \in [Thread -> Frame] /\ fr' = [fr EXCEPT ![t] = fr'[t]]
      /\ Moves(fr[t], fr'[t], seen[t], LiveKeys, LiveKeys')
  BY <1>1, StepMoves DEF IInv, TypeOK
<1>3. PresentKeys = LiveKeys /\ PresentKeys' = LiveKeys'
  BY KeysNow, KeysAfter DEF KeysAgree
<1>4. Abstract!Observe
  BY ObserveStep
<1>5. LinCall' = [LinCall EXCEPT ![t] = CallOf(fr'[t])]
  BY <1>2, LinCallStep
<1>6. CASE Changes(fr[t], fr'[t], LiveKeys, LiveKeys')
  <2>1. Abstract!Change(t)
    BY <1>2, <1>3, <1>5, <1>6, ChangeStep
  <2> QED
    BY <1>4, <2>1 DEF Abstract!Next
<1>7. CASE LiveKeys' = LiveKeys /\ Rests(fr[t], fr'[t], seen[t]) /\ CallOf(fr'[t]) # CallOf(fr[t])
  <2>1. Abstract!Invoke(t) \/ Abstract!Respond(t)
    BY <1>2, <1>3, <1>5, <1>7, RestStep
  <2> QED
    BY <1>4, <2>1 DEF Abstract!Next
<1>8. CASE LiveKeys' = LiveKeys /\ CallOf(fr'[t]) = CallOf(fr[t])
  <2>1. ASSUME NEW u \in Thread PROVE CallOf(fr'[u]) = CallOf(fr[u])
    BY <1>2, <1>8
  <2>2. LinCall' = LinCall
    <3>1. LinCall = [u \in Thread |-> CallOf(fr[u])]
      BY DEF LinCall, CallOf
    <3>2. LinCall' = [u \in Thread |-> CallOf(fr'[u])]
      BY DEF LinCall, CallOf, StateOf
    <3> QED
      BY <2>1, <3>1, <3>2
  <2>3. ASSUME NEW u \in Thread PROVE seen'[u] = seen[u]
    <3>1. /\ fr'[u].pc = "idle" <=> fr[u].pc = "idle"
          /\ fr'[u].key = fr[u].key
      BY <2>1 DEF CallOf, StateOf
    <3>2. CASE fr[u].pc = "idle"
      BY <3>1, <3>2, SeenGrows DEF SeenInv, SeenBy
    <3>3. CASE fr[u].pc # "idle"
      <4>1. seen'[u] = seen[u] \union (IF fr[u].key \in LiveKeys THEN {TRUE} ELSE {FALSE})
        BY <1>8, <3>1, <3>3, SeenGrows
      <4>2. IF fr[u].key \in LiveKeys THEN TRUE \in seen[u] ELSE FALSE \in seen[u]
        BY <3>3, SeenCall
      <4> QED
        BY <4>1, <4>2
    <3> QED
      BY <3>2, <3>3
  <2>4. seen' = seen
    <3>1. seen' \in [Thread -> SUBSET BOOLEAN] /\ seen \in [Thread -> SUBSET BOOLEAN]
      BY SeenGrows DEF SeenInv
    <3> QED
      BY <2>3, <3>1
  <2> QED
    BY <1>3, <1>8, <2>2, <2>4 DEF Abstract!vars, LinCall
<1> QED
  BY <1>2, <1>6, <1>7, <1>8 DEF Moves

LEMMA LinInit ==
  ASSUME HInit, IInv, KeptInv
  PROVE  SeenInv /\ Abstract!Init
<1>1. fr = [t \in Thread |-> Returned(FALSE)] /\ seen = [t \in Thread |-> {}]
  BY DEF HInit, Init
<1>2. SeenInv
  BY <1>1 DEF SeenInv, SeenBy, Returned
<1>3. PresentKeys \in SUBSET Key
  BY PresentIsLive, KeyRange DEF Live, Node
<1>4. LinCall = [t \in Thread |-> Done(FALSE)]
  BY <1>1 DEF LinCall, Returned, Done, StateOf
<1> QED
  BY <1>1, <1>2, <1>3, <1>4
     DEF Abstract!Init, Abstract!NoCall, Done, LinCall, Key, Abstract!OpTypes

\* In the build that reads next once in Delete, the lock-free list implements a
\* linearizable set (lockfreelist.cc:36, 118, 171), for any number of threads,
\* keys and calls.
THEOREM Linearizes == Optimised => (HSpec => Linearizable)
<1> SUFFICES ASSUME Optimised PROVE HSpec => Linearizable
  OBVIOUS
<1>1. HSpec => Spec
  <2>1. HInit => Init
    BY DEF HInit
  <2>2. [HNext]_<<vars, seen>> => [Next]_vars
    BY DEF HNext
  <2> QED
    BY <2>1, <2>2, PTL DEF HSpec, Spec
<1>2. IInv /\ ReachInv /\ HInit => SeenInv /\ Abstract!Init
  BY LinInit DEF ReachInv
<1>3. IInv /\ ReachInv /\ SeenInv /\ IInv' /\ ReachInv' /\ [HNext]_<<vars, seen>>
        => SeenInv' /\ [Abstract!Next]_(Abstract!vars)
  <2> SUFFICES ASSUME IInv, ReachInv, SeenInv, IInv', ReachInv', [HNext]_<<vars, seen>>
               PROVE  SeenInv' /\ [Abstract!Next]_(Abstract!vars)
    OBVIOUS
  <2>1. CASE HNext
    BY <2>1, SeenStep, LinStep DEF ReachInv
  <2>2. CASE UNCHANGED <<vars, seen>>
    <3>1. next' = next /\ marked' = marked /\ fr' = fr /\ seen' = seen
      BY <2>2 DEF vars
    <3>2. PresentKeys' = PresentKeys
      BY <3>1 DEF PresentKeys, Chain
    <3>3. SeenInv'
      BY <3>1, <3>2 DEF SeenInv, SeenBy
    <3>4. UNCHANGED Abstract!vars
      BY <3>1, <3>2 DEF Abstract!vars, StateOf
    <3> QED
      BY <3>3, <3>4
  <2> QED
    BY <2>1, <2>2
<1> QED
  BY <1>1, <1>2, <1>3, ListInvariance, ReachInvariance, PTL
     DEF HSpec, Linearizable, Abstract!Spec
=============================================================================
