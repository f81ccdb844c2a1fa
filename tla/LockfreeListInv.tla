-------------------------- MODULE LockfreeListInv --------------------------
(***************************************************************************)
(* The inductive invariant of the lock-free list.                          *)
(***************************************************************************)
EXTENDS LockfreeList

\* A node that is, or has been, in the list.
Linked(n) == n \in Node /\ next[n] # Null

\* Every link, also of unlinked nodes that a traversal may still stand on,
\* leads to a linked node with a larger key.
OrderedLinks ==
  \A n \in Node \ {m_tail} :
    Linked(n) => Linked(next[n]) /\ KeyOf(n) < KeyOf(next[n])

\* The successor of a marked node never changes, so that the reread of
\* right->next in Delete finds what its mark has frozen.
MarkedIsFrozen ==
  [][\A n \in Node : marked[n] => marked'[n] /\ next'[n] = next[n]]_vars

-----------------------------------------------------------------------------
\* The labels after LocatePred has found its right node.
Arriving == {"recheck", "unlink", "link", "read", "mark", "reread", "swing"}

\* What the locals of a running call say about the list.
FrameInv(f) ==
  /\ f.pc # "idle" => Linked(f.left) /\ KeyOf(f.left) < f.key
  /\ f.pc = "search" => Linked(f.right) /\ f.right # m_tail
  /\ f.pc \in Arriving => Linked(f.right) /\ KeyOf(f.right) >= f.key
  /\ f.pc = "link" => KeyOf(f.right) # f.key
  /\ f.pc \in {"read", "mark", "reread", "swing"} => KeyOf(f.right) = f.key
  /\ f.pc \in {"mark", "swing"} => f.want # Null
  /\ f.pc \in {"search", "recheck", "unlink", "link"} => f.want = Null
  /\ f.want # Null => Linked(f.want) /\ f.key < KeyOf(f.want)

\* The node of a running Insert is not linked before its compare-and-swap.
FreshInv ==
  \A n \in Inner :
    /\ next[n] = Null => ~marked[n]
    /\ n.by \in Thread /\ next[n] # Null =>
         /\ n.no <= calls[n.by]
         /\ n.no = calls[n.by] => fr[n.by].pc \in {"persist", "idle"}

IInv ==
  /\ TypeOK
  /\ next[m_tail] = m_tail
  /\ next[m_head] # Null
  /\ OrderedLinks
  /\ \A t \in Thread : FrameInv(fr[t])
  /\ FreshInv

-----------------------------------------------------------------------------
\* What keeps nodes in the list, for the build that reads next once in Delete.

\* Only marked nodes lie on the way from p to c.
MarkedPath(p, c) ==
  \E M \in SUBSET {n \in Node : marked[n]} :
    p \in M \union {c} /\ \A n \in M : next[n] \in M \union {c}

\* What a call is about to unlink is marked; what its mark keeps is what it read.
WayInv(f) ==
  /\ f.pc \in {"search", "unlink"} => MarkedPath(f.lnext, f.right)
  /\ f.pc = "read" => f.want = Null
  /\ f.pc = "mark" => f.want = f.exp
  /\ f.pc \in {"reread", "swing"} => marked[f.right]
  /\ f.pc = "swing" => f.want = next[f.right]

Ends == {m_tail, Null}

\* C is not left by a walk from the head.
Holds(C) == m_head \in C /\ \A n \in C : next[n] \in Ends \union C

\* Linked nodes that are not marked are met by every walk from the head: they
\* lie in each set of nodes that such a walk does not leave.
KeptInv ==
  \A C \in SUBSET (Inner \union {m_head}) : Holds(C) =>
    \A n \in Inner : next[n] # Null /\ ~marked[n] => n \in C

ReachInv == (\A t \in Thread : WayInv(fr[t])) /\ KeptInv
=============================================================================
