-------------------------- MODULE TransListSafety --------------------------
(***************************************************************************)
(* What TransListInv leaves open: the shape of the list.  The inductive    *)
(* invariant behind the order of the links, the marks and the txids, which *)
(* TransListProofs proves.                                                 *)
(***************************************************************************)
EXTENDS TransListInv

\* The operation that allocates n is still to be run by its thread.
Unborn(n) ==
  /\ n.desc # PreDesc
  /\ n.opid >= fr[n.by][n.desc].opid
  /\ status[n.desc] = "ACTIVE" \/ InOp(fr[n.by][n.desc])

\* Pointers that a thread may find in the heap.
Ready(n) ==
  \/ n \in {m_head, m_tail}
  \/ /\ n \in NodeDesc
     /\ n.desc # PreDesc => n.opid <= Len(ops[n.desc]) /\ ~Unborn(n)

\* A node whose Insert has not run is in its initial state and nothing points to it.
HeapInv ==
  /\ \A n \in Node : Ready(next[n])
  /\ \A n \in Node : ~Ready(n) => next[n] = m_tail /\ ~marked[n]
  /\ \A n \in NodeDesc : ~Ready(n) => nd[n] = n /\ ~ndmark[n]

\* An operation takes over nodes of its own key only.
NodeInv ==
  \A n \in NodeDesc : Ready(n) => Ready(nd[n]) /\ KeyOf(nd[n]) = KeyOf(n)

OnStack(t, d) == \E i \in 1..Len(stack[t]) : stack[t][i] = d

IdleInv == \A t \in Thread, d \in Desc : OnStack(t, d) \/ fr[t][d] = NewFrame(1)

\* An entry of insNodes (type INSERT) or delNodes (DELETE) of transaction d.
EntryOf(e, d, type) ==
  /\ Ready(e.node)
  /\ Ready(e.pred)
  /\ \E i \in 1..Len(ops[d]) : ops[d][i] = [type |-> type, key |-> KeyOf(e.node)]

\* What a transaction removes in the end.
Undone(d) == IF status[d] = "COMMITTED" THEN "DELETE" ELSE "INSERT"

\* The pointers and the lists of a frame.
RefInv(f, d) ==
  /\ Ready(f.curr) /\ Ready(f.pred) /\ Ready(f.pnext)
  /\ \A i \in 1..Len(f.ins) : EntryOf(f.ins[i], d, "INSERT")
  /\ \A i \in 1..Len(f.del) : EntryOf(f.del[i], d, "DELETE")
  /\ \A i \in 1..Len(f.todo) : EntryOf(f.todo[i], d, Undone(d))
  /\ f.todo # <<>> => Won(f)

\* Where the walk of LocatePred stands.
WalkInv(f, d) ==
  LET k == ops[d][f.opid].key
  IN  /\ f.pc = "loop" => f.curr = m_head
      /\ f.pc = "next" => KeyOf(f.curr) < k
      /\ f.pc \in {"skip", "unlink", "absent", "link"} => KeyOf(f.pred) < k
      /\ f.pc \in {"skip", "unlink"} =>
           f.curr = m_tail \/ KeyOf(f.pred) < KeyOf(f.curr)
      /\ f.pc \in {"absent", "link"} =>
           k < KeyOf(f.curr) /\ ops[d][f.opid].type = "INSERT"
      /\ AtNode(f) => KeyOf(f.curr) = k
      /\ f.pc = "unlinknode" =>
           f.curr = m_tail \/ KeyOf(Head(f.todo).node) < KeyOf(f.curr)

\* A thread marks next only behind the mark on nodeDesc, and removes nodes
\* that its transaction touched last, once that is persisted.
MarkInv(f, d) ==
  /\ f.pc = "markdesc" => f.old.desc = d
  /\ f.pc = "helpmark" => ndmark[f.curr]
  /\ f.pc = "marknode" => ndmark[Head(f.todo).node]
  /\ f.pc \in EndLabels => Persisted(d)

Sound(f, d) == RefInv(f, d) /\ WalkInv(f, d) /\ MarkInv(f, d)

ShapeInv ==
  /\ IdleInv
  /\ HeapInv
  /\ NodeInv
  /\ Sorted
  /\ MarkOrder
  /\ \A t \in Thread, d \in Desc : Sound(fr[t][d], d)

-----------------------------------------------------------------------------
\* The descriptor that a frame persists.
Target(f, d) == IF f.back = "exist" THEN f.old.desc ELSE d

\* Every txid comes from a ticket of its own, also when several threads
\* persist a descriptor.
TicketInv ==
  /\ lastTxId > 0
  /\ \A d \in AllDesc : txid[d] < lastTxId
  /\ \A d, e \in AllDesc : d # e /\ txid[d] = txid[e] => txid[d] = 0
  /\ \A t \in Thread, d \in Desc : fr[t][d].pc = "store" =>
       /\ 0 < fr[t][d].tkt /\ fr[t][d].tkt < lastTxId
       /\ \A e \in AllDesc : txid[e] # fr[t][d].tkt
       /\ \A u \in Thread, e \in Desc :
            fr[u][e].pc = "store" /\ fr[u][e].tkt = fr[t][d].tkt => u = t /\ e = d
  /\ \A t \in Thread, d \in Desc :
       fr[t][d].pc = "persisted" => txid[Target(fr[t][d], d)] # 0
  /\ \A d \in Desc : pstatus[d] = "PERSISTED" => txid[d] # 0

-----------------------------------------------------------------------------
\* Only marked nodes lie on the way from p to c.
MarkedPath(p, c) ==
  \E M \in SUBSET {n \in Node : marked[n]} :
    p \in M \union {c} /\ \A n \in M : next[n] \in M \union {c}

\* What LocatePred and MarkForDeletion are about to unlink is marked.
WayInv(f) ==
  /\ f.pc \in {"skip", "unlink"} => MarkedPath(f.pnext, f.curr)
  /\ f.pc = "unlinknode" =>
       LET n == Head(f.todo).node
       IN  n \in NodeDesc /\ marked[n] /\ f.curr = next[n]

WaysInv == \A t \in Thread, d \in Desc : WayInv(fr[t][d])

SafetyInv == IInv /\ ShapeInv /\ TicketInv /\ WaysInv

-----------------------------------------------------------------------------
\* No transaction names a key twice.
DistinctKeys ==
  \A o \in OpArrays : \A i, j \in 1..Len(o) : o[i].key = o[j].key => i = j

\* The node that an Insert links has not been used before: it is as the
\* constructor left it, and nothing points to it.
LinksFreshNodes ==
  [][\A t \in Thread : InsertLink(t) /\ next' # next =>
       LET n == Mine(t)
       IN  /\ next[n] = m_tail /\ ~marked[n]
           /\ nd[n] = n /\ ~ndmark[n]
           /\ \A m \in Node : next[m] # n]_vars
=============================================================================
