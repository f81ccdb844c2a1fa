----------------------------- MODULE Allocator -----------------------------
(***************************************************************************)
(* The persistent allocator, common/allocator.h, in a build with           *)
(* USE_MMAP_ALLOCATOR or USE_PMEM_ALLOCATOR.  A pool of Total bytes is cut *)
(* into Count regions; every call of Init draws a region by a ticket, and  *)
(* Alloc hands out the region's cells one after the other.  The free       *)
(* indices are kept in the pool's file, too, so that a process that finds  *)
(* the pool goes on behind the last cell, and can walk over all cells.     *)
(* The reload is that of USE_PMEM_ALLOCATOR: reload_pmem is empty in the   *)
(* other build.                                                            *)
(*                                                                         *)
(* Addresses are integers: m_pool is the address at which this process has *)
(* mapped the pool, and 0 is the null pointer.  A crash ends the process:  *)
(* the file keeps every store (memory-mapped files), the thread-local      *)
(* variables are lost.                                                     *)
(***************************************************************************)
EXTENDS Integers, FiniteSets

CONSTANTS
  Thread,   \* threads that call Init, the main thread among them
  Total,    \* m_totalBytes
  Count,    \* m_threadCount
  Size,     \* m_typeSize
  Pools     \* the addresses at which a process may find the pool

ASSUME SizesAssumption ==
  /\ Total \in Nat /\ Count \in Nat \ {0} /\ Size \in Nat \ {0}
  /\ Pools \subseteq Nat \ {0}

Region == 0..(Count - 1)
Null == 0

VARIABLES
  m_pool,       \* where the pool is mapped
  prev_m_pool,  \* where the process that created it had mapped it
  m_ticket,
  isReloadedMem,
  mg_freeIndex, \* mg_freeIndex[r]: bytes in use of region r
  up,           \* the threads that have called Init in this process
  threadId, m_base, m_freeIndex,  \* thread-local: [Thread -> Int]
  given         \* history: every cell that Alloc has returned

object == <<m_pool, prev_m_pool, m_ticket, isReloadedMem>>
locals == <<up, threadId, m_base, m_freeIndex>>
avars  == <<object, mg_freeIndex, locals, given>>

\* m_totalBytes / m_threadCount
Share == Total \div Count

\* Mutant: the division comes before the multiplication.
Offset_Divided(r) == (r \div Count) * Total

\* threadId * m_totalBytes / m_threadCount, an integer division.
Offset(r) == (r * Total) \div Count

\* A cell by its place in the pool, which no restart changes; nth tells cells
\* of a region apart that were handed out at the same place.
Cell == [region : Region, at : Int, nth : Nat]

AllocatorTypeOK ==
  /\ m_pool \in Pools /\ prev_m_pool \in Pools
  /\ m_ticket \in Nat
  /\ isReloadedMem \in BOOLEAN
  /\ mg_freeIndex \in [Region -> Nat]
  /\ up \subseteq Thread
  /\ threadId \in [Thread -> Nat]
  /\ m_base \in [Thread -> Int]
  /\ m_freeIndex \in [Thread -> Nat]
  /\ given \subseteq Cell

AllocatorInit ==
  /\ m_pool \in Pools
  /\ prev_m_pool = m_pool
  /\ m_ticket = 0
  /\ isReloadedMem = FALSE
  /\ mg_freeIndex = [r \in Region |-> 0]
  /\ up = {}
  /\ threadId = [t \in Thread |-> 0]
  /\ m_base = [t \in Thread |-> Null]
  /\ m_freeIndex = [t \in Thread |-> 0]
  /\ given = {}

-----------------------------------------------------------------------------
(* The operations.                                                         *)

\* Where Init lets a region go on.
StartOf(r) == IF isReloadedMem THEN mg_freeIndex[r] ELSE 0

\* The driver creates the allocator for as many calls as it makes.
Init(t) ==
  /\ m_ticket < Count
  /\ m_ticket' = m_ticket + 1
  /\ threadId' = [threadId EXCEPT ![t] = m_ticket]
  /\ m_base' = [m_base EXCEPT ![t] = m_pool + Offset(m_ticket)]
  /\ m_freeIndex' = [m_freeIndex EXCEPT ![t] = StartOf(m_ticket)]
  /\ mg_freeIndex' = [mg_freeIndex EXCEPT ![m_ticket] = StartOf(m_ticket)]
  /\ up' = up \union {t}
  /\ UNCHANGED <<m_pool, prev_m_pool, isReloadedMem, given>>

\* The number of cells that region r has handed out.
Handed(r) == Cardinality({c \in given : c.region = r})

\* What Alloc returns.
NewCell(t) == m_base[t] + m_freeIndex[t]

\* Mutant: the index that the file keeps is the one before the call.
Recorded_Before(t) == m_freeIndex[t]

\* The free index that the file keeps.
Recorded(t) == m_freeIndex[t] + Size

\* The assertion on the capacity is compiled out.
Alloc(t) ==
  /\ t \in up
  /\ m_freeIndex' = [m_freeIndex EXCEPT ![t] = @ + Size]
  /\ mg_freeIndex' = [mg_freeIndex EXCEPT ![threadId[t]] = Recorded(t)]
  /\ given' = given \union {[region |-> threadId[t], at |-> NewCell(t) - m_pool,
                             nth |-> Handed(threadId[t])]}
  /\ UNCHANGED <<object, up, threadId, m_base>>

\* The process ends; the next one maps the pool somewhere (reload_pmem).
Reload ==
  /\ m_pool' \in Pools
  /\ m_ticket' = 0
  /\ isReloadedMem' = TRUE
  /\ up' = {}
  /\ threadId' = [t \in Thread |-> 0]
  /\ m_base' = [t \in Thread |-> Null]
  /\ m_freeIndex' = [t \in Thread |-> 0]
  /\ UNCHANGED <<prev_m_pool, mg_freeIndex, given>>

getFirst(t) == m_base[t]

getNext(t, p) ==
  IF p + Size >= m_base[t] + m_freeIndex[t] THEN Null ELSE p + Size

getFirstForThread(r) == m_pool + Offset(r)

\* Mutant: the comparison forgets the last cell.
getNextForThread_Short(p, r) ==
  IF p + 2 * Size >= m_pool + Offset(r) + mg_freeIndex[r] THEN Null ELSE p + Size

\* Called with the null pointer, too, whose result the caller does not use.
getNextForThread(p, r) ==
  IF p + Size >= m_pool + Offset(r) + mg_freeIndex[r] THEN Null ELSE p + Size

\* A pointer of the process that created the pool, in this one.
getNewPointer(p) == IF p = Null THEN p ELSE m_pool + (p - prev_m_pool)

ANext == (\E t \in Thread : Init(t) \/ Alloc(t)) \/ Reload

ASpec == AllocatorInit /\ [][ANext]_avars

-----------------------------------------------------------------------------
\* No thread has used more than its share of the pool.
Within == \A r \in Region : mg_freeIndex[r] <= Share

Overlap(c, d) == c.at < d.at + Size /\ d.at < c.at + Size

\* As long as no thread uses more than its share, no byte of the pool is handed
\* out twice: not to two threads, although the regions are cut by an integer
\* division, and not to threads of two processes.
Disjoint ==
  Within => \A c, d \in given : c # d => ~Overlap(c, d)

\* A thread goes on in a region of its own, from the free index that the file
\* knows, and every cell of a region lies below that index, whichever process
\* has handed it out: what a restart finds is what the threads have used.
AInv ==
  /\ AllocatorTypeOK
  /\ m_ticket <= Count
  /\ \A t \in up : /\ threadId[t] < m_ticket
                   /\ m_base[t] = m_pool + Offset(threadId[t])
                   /\ m_freeIndex[t] = mg_freeIndex[threadId[t]]
  /\ \A t, u \in up : t # u => threadId[t] # threadId[u]
  /\ IsFiniteSet(given)
  /\ ~isReloadedMem => \A c \in given : c.region < m_ticket
  /\ \A c \in given : /\ Offset(c.region) <= c.at
                      /\ c.at + Size <= Offset(c.region) + mg_freeIndex[c.region]
  /\ \A c, d \in given : c # d /\ c.region = d.region => ~Overlap(c, d)
=============================================================================
