------------------------------- MODULE Paths -------------------------------
(***************************************************************************)
(* The nodes that a walk along next meets.  The lists define them by a     *)
(* recursive function (Chain); here they are the least set that a walk     *)
(* does not leave, and the two are shown to agree wherever each link       *)
(* brings the walk nearer to its end.                                      *)
(***************************************************************************)
EXTENDS Naturals, WellFoundedInduction, TLAPS

\* No link leads out of C, except to an end of the list.
Closed(next, ends, C) == \A x \in C : next[x] \in ends \/ next[x] \in C

\* The nodes of S that a walk from n meets before it reaches an end.
Path(S, next, ends, n) ==
  IF n \in ends THEN {}
  ELSE {m \in S \ ends : \A C \in SUBSET (S \ ends) :
                            n \in C /\ Closed(next, ends, C) => m \in C}

\* F[n] is what a walk from n meets, as the recursive definition says it.
Walks(F, S, next, ends) ==
  F = [n \in S |-> IF n \in ends THEN {} ELSE {n} \union F[next[n]]]

\* Each link leads to a node of a smaller rank.
Ranked(S, next, ends, rank) ==
  /\ rank \in [S -> Nat]
  /\ \A n \in S \ ends : next[n] \in S /\ rank[next[n]] < rank[n]

\* No set of nodes of D holds all their successors: no walk goes round in D.
Grounded(D, next) == \A C \in SUBSET D : C # {} => \E x \in C : next[x] \notin C

\* The recursive definition itself.
Walk(S, next, ends, n) ==
  LET from[x \in S] == IF x \in ends THEN {} ELSE {x} \union from[next[x]]
  IN  from[n]

-----------------------------------------------------------------------------
\* Every set of numbers has a least element: what stands for induction below.
LEMMA LeastNumber ==
  ASSUME NEW T, T \subseteq Nat, T # {}
  PROVE  \E n \in T : \A m \in T : n <= m
<1> DEFINE R == OpToRel(<, Nat)
<1>1. IsWellFoundedOn(R, Nat)
  BY NatLessThanWellFounded
<1>2. \A x, y \in Nat : x < y => <<x, y>> \in R
  BY DEF OpToRel
<1> HIDE DEF R
<1>3. PICK x \in T : \A y \in T : ~(<<y, x>> \in R)
  BY <1>1, WFMin
<1>4. \A y \in T : ~(y < x)
  BY <1>2, <1>3
<1> QED
  BY <1>4

\* A walk meets the node where it starts and then those of the walk from the next.
LEMMA PathStep ==
  ASSUME NEW S, NEW ends, NEW next, NEW n \in S \ ends,
         next[n] \in S
  PROVE  Path(S, next, ends, n) = {n} \union Path(S, next, ends, next[n])
<1> DEFINE P(x) == Path(S, next, ends, x)
<1>1. n \in P(n)
  BY DEF Path
<1>2. ASSUME NEW m \in P(next[n]) PROVE m \in P(n)
  BY <1>2 DEF Path, Closed
<1>3. ASSUME NEW m \in P(n), m # n PROVE m \in P(next[n])
  <2>1. m \in S \ ends /\ \A C \in SUBSET (S \ ends) :
                             n \in C /\ Closed(next, ends, C) => m \in C
    BY <1>3 DEF Path
  <2>2. next[n] \notin ends
    <3> SUFFICES ASSUME next[n] \in ends PROVE FALSE
      OBVIOUS
    <3>1. {n} \in SUBSET (S \ ends) /\ Closed(next, ends, {n})
      BY DEF Closed
    <3> QED
      BY <1>3, <2>1, <3>1
  <2>3. ASSUME NEW C \in SUBSET (S \ ends), next[n] \in C, Closed(next, ends, C)
        PROVE  m \in C
    <3>1. C \union {n} \in SUBSET (S \ ends) /\ Closed(next, ends, C \union {n})
      BY <2>3 DEF Closed
    <3> QED
      BY <1>3, <2>1, <3>1
  <2> QED
    BY <2>1, <2>2, <2>3 DEF Path
<1> QED
  BY <1>1, <1>2, <1>3

\* Ranks leave no set of nodes in which a walk could go round.
LEMMA RankedGrounded ==
  ASSUME NEW S, NEW ends, NEW next, NEW rank, Ranked(S, next, ends, rank)
  PROVE  Grounded(S \ ends, next)
<1> SUFFICES ASSUME NEW C \in SUBSET (S \ ends), C # {}
             PROVE  \E x \in C : next[x] \notin C
  BY DEF Grounded
<1> DEFINE T == {rank[x] : x \in C}
<1>1. T \subseteq Nat /\ T # {}
  BY DEF Ranked
<1>2. \A x \in C : rank[x] \in T
  OBVIOUS
<1> HIDE DEF T
<1>3. PICK r \in T : \A s \in T : r <= s
  BY <1>1, LeastNumber
<1>4. PICK x \in C : r = rank[x]
  BY <1>3 DEF T
<1>5. rank[next[x]] < rank[x] /\ rank[x] \in Nat /\ rank[next[x]] \in Nat
  BY <1>4 DEF Ranked
<1> QED
  BY <1>2, <1>3, <1>4, <1>5

\* The walks are the only function of that kind, as no walk goes on for ever.
LEMMA WalkGrounded ==
  ASSUME NEW S, NEW ends, NEW next, NEW D \in SUBSET (S \ ends),
         Closed(next, ends, D), Grounded(D, next), \A x \in D : next[x] \in S,
         NEW F, Walks(F, S, next, ends), NEW n \in D
  PROVE  F[n] = Path(S, next, ends, n)
<1> DEFINE P(x) == Path(S, next, ends, x)
           Odd == {x \in D : F[x] # P(x)}
<1>1. SUFFICES ASSUME n \in Odd PROVE FALSE
  OBVIOUS
<1>2. Odd \in SUBSET D /\ Odd # {}
  BY <1>1
<1>3. PICK x \in Odd : next[x] \notin Odd
  BY <1>2 DEF Grounded
<1>4. x \in S \ ends /\ next[x] \in S /\ (next[x] \in ends \/ next[x] \in D)
  BY DEF Closed
<1>5. F[next[x]] = P(next[x])
  BY <1>3, <1>4 DEF Path, Walks
<1>6. P(x) = {x} \union P(next[x])
  BY <1>4, PathStep
<1>7. F[x] = {x} \union F[next[x]]
  BY <1>4 DEF Walks
<1> QED
  BY <1>5, <1>6, <1>7

\* The same where ranks rule.
LEMMA WalkUnique ==
  ASSUME NEW S, NEW ends, NEW next, NEW rank, Ranked(S, next, ends, rank),
         NEW F, Walks(F, S, next, ends), NEW n \in S
  PROVE  F[n] = Path(S, next, ends, n)
<1>1. CASE n \in ends
  BY <1>1 DEF Walks, Path
<1>2. CASE n \notin ends
  <2> DEFINE D == S \ ends
  <2>1. Closed(next, ends, D) /\ (\A x \in D : next[x] \in S) /\ Grounded(D, next)
    BY RankedGrounded DEF Closed, Ranked
  <2>2. D \in SUBSET (S \ ends) /\ n \in D
    BY <1>2
  <2> HIDE DEF D
  <2> QED
    BY <2>1, <2>2, WalkGrounded
<1> QED
  BY <1>1, <1>2

\* The walks exist as a function, and what CHOOSE finds describes them.
LEMMA WalksExist ==
  ASSUME NEW S, NEW ends, NEW next, \A x \in S \ ends : next[x] \in S
  PROVE  Walks(CHOOSE F : Walks(F, S, next, ends), S, next, ends)
<1> DEFINE W == [x \in S |-> Path(S, next, ends, x)]
<1>1. Walks(W, S, next, ends)
  <2>1. ASSUME NEW x \in S
        PROVE  W[x] = IF x \in ends THEN {} ELSE {x} \union W[next[x]]
    <3>1. CASE x \in ends
      BY <3>1 DEF Path
    <3>2. CASE x \notin ends
      BY <3>2, PathStep
    <3> QED
      BY <3>1, <3>2
  <2> QED
    BY <2>1 DEF Walks
<1> HIDE DEF W
<1> QED
  BY <1>1

\* So a recursive definition of the walks means what it says.
LEMMA WalkIsPath ==
  ASSUME NEW S, NEW ends, NEW next, NEW rank, Ranked(S, next, ends, rank),
         NEW n \in S
  PROVE  Walk(S, next, ends, n) = Path(S, next, ends, n)
<1>1. Walks(CHOOSE F : Walks(F, S, next, ends), S, next, ends)
  BY WalksExist DEF Ranked
<1>2. (CHOOSE F : Walks(F, S, next, ends))[n] = Path(S, next, ends, n)
  BY <1>1, WalkUnique
<1> QED
  BY <1>2 DEF Walks, Walk

\* If the nodes of D, which no walk from them leaves, are in order, and a walk from
\* n meets all of them, they are the walk.
LEMMA WalkWhole ==
  ASSUME NEW S, NEW ends, NEW next, NEW D \in SUBSET (S \ ends), NEW n \in D,
         Closed(next, ends, D), Grounded(D, next), \A x \in D : next[x] \in S,
         \A C \in SUBSET D : n \in C /\ Closed(next, ends, C) => C = D,
         NEW F, Walks(F, S, next, ends)
  PROVE  F[n] = D
<1>1. F[n] = Path(S, next, ends, n)
  BY WalkGrounded
<1>2. \A m \in Path(S, next, ends, n) : m \in D
  BY DEF Path
<1>3. ASSUME NEW m \in D, NEW C \in SUBSET (S \ ends), n \in C, Closed(next, ends, C)
      PROVE  m \in C
  <2>1. C \intersect D \in SUBSET D /\ n \in C \intersect D
        /\ Closed(next, ends, C \intersect D)
    BY <1>3 DEF Closed
  <2> QED
    BY <2>1
<1>4. n \notin ends
  OBVIOUS
<1> QED
  BY <1>1, <1>2, <1>3, <1>4 DEF Path

-----------------------------------------------------------------------------
\* A walk from the successor of h does not leave C.
Held(next, ends, h, C) == \A x \in C \union {h} : next[x] \in ends \union C

\* Any set that holds a walk along new holds one along next when M is added.
Covers(S, ends, next, new, h, M) ==
  \A D \in SUBSET (S \ ends) : Held(new, ends, h, D) =>
    \E C \in SUBSET (S \ ends) : C \subseteq D \union M /\ Held(next, ends, h, C)

\* What a walk from h along next meets, a walk along new meets too, but for M.
LEMMA PathKept ==
  ASSUME NEW S, NEW ends, NEW next, NEW new, NEW h, NEW M,
         Covers(S, ends, next, new, h, M),
         NEW n \in Path(S, next, ends, next[h]), n \notin M
  PROVE  n \in Path(S, new, ends, new[h])
<1>1. /\ next[h] \notin ends /\ n \in S \ ends
      /\ \A C \in SUBSET (S \ ends) : Held(next, ends, h, C) => n \in C
  BY DEF Path, Held, Closed
<1>2. \A D \in SUBSET (S \ ends) : Held(new, ends, h, D) => n \in D
  BY <1>1 DEF Covers
<1>3. new[h] \notin ends
  <2>1. {} \in SUBSET (S \ ends) /\ (new[h] \in ends => Held(new, ends, h, {}))
    BY DEF Held
  <2> QED
    BY <1>2, <2>1
<1>4. ASSUME NEW D \in SUBSET (S \ ends), new[h] \in D, Closed(new, ends, D)
      PROVE  n \in D
  BY <1>2, <1>4 DEF Held, Closed
<1> QED
  BY <1>1, <1>3, <1>4 DEF Path

-----------------------------------------------------------------------------
(* How a walk that starts at h changes with the links.                     *)

\* A walk meets its start, goes on along the links, and meets nothing else.
LEMMA PathClosed ==
  ASSUME NEW S, NEW ends, NEW next, NEW h \in S \ ends, next \in [S -> S]
  PROVE  LET P == Path(S, next, ends, h)
         IN  /\ P \subseteq S \ ends /\ h \in P
             /\ \A x \in P : next[x] \in P \union ends
             /\ \A C \in SUBSET (S \ ends) :
                  h \in C /\ (\A x \in C : next[x] \in C \union ends) => P \subseteq C
BY DEF Path, Closed

\* If the keys rise along a walk, nothing lies between a node and its successor.
LEMMA PathGap ==
  ASSUME NEW S, NEW ends, NEW next, NEW h \in S \ ends, next \in [S -> S],
         NEW key, \A x \in S : key[x] \in Int,
         \A x \in Path(S, next, ends, h) :
           next[x] \notin ends => key[x] < key[next[x]],
         NEW p \in Path(S, next, ends, h), NEW m \in Path(S, next, ends, h),
         key[p] < key[m]
  PROVE  next[p] \notin ends /\ key[next[p]] <= key[m]
<1> DEFINE P(x) == Path(S, next, ends, x)
           C == {x \in P(h) : key[m] <= key[x]}
           D == {x \in P(h) : p \in P(x) \/ key[m] < key[x]}
<1>1. /\ P(h) \subseteq S \ ends /\ h \in P(h)
      /\ \A x \in P(h) : next[x] \in P(h) \union ends
  BY PathClosed
<1>2. SUFFICES ASSUME next[p] \in ends \/ key[m] < key[next[p]] PROVE FALSE
  BY <1>1
<1>3. P(m) \subseteq C
  <2>1. C \subseteq S \ ends /\ m \in C /\ \A x \in C : next[x] \in C \union ends
    BY <1>1
  <2>2. m \in S \ ends
    BY <1>1
  <2> HIDE DEF C
  <2> QED
    BY <2>1, <2>2, PathClosed
<1>4. ASSUME NEW x \in D PROVE next[x] \in D \union ends
  <2>1. x \in P(h) /\ next[x] \in P(h) \union ends /\ x \in S \ ends
    BY <1>1
  <2>2. CASE key[m] < key[x]
    BY <1>1, <2>1, <2>2
  <2>3. CASE p \in P(x) /\ x # p
    <3>1. P(x) = {x} \union P(next[x])
      BY <2>1, PathStep
    <3>2. p \in P(next[x])
      BY <2>3, <3>1
    <3> QED
      BY <2>1, <3>2
  <2>4. CASE x = p
    BY <1>2, <2>1, <2>4
  <2> QED
    BY <2>2, <2>3, <2>4
<1>5. P(h) \subseteq D
  <2>1. D \subseteq S \ ends /\ h \in D
    BY <1>1
  <2> HIDE DEF D
  <2> QED
    BY <1>4, <2>1, PathClosed
<1>6. p \in P(m)
  BY <1>1, <1>5
<1> QED
  BY <1>1, <1>3, <1>6

\* Where the links of its nodes stay, a walk stays.
LEMMA PathSame ==
  ASSUME NEW S, NEW ends, NEW next, NEW new, NEW h \in S \ ends,
         next \in [S -> S], new \in [S -> S],
         \A x \in Path(S, next, ends, h) : new[x] = next[x]
  PROVE  Path(S, new, ends, h) = Path(S, next, ends, h)
<1> DEFINE P == Path(S, next, ends, h)
           Q == Path(S, new, ends, h)
<1>1. /\ P \subseteq S \ ends /\ h \in P
      /\ \A x \in P : next[x] \in P \union ends
      /\ \A C \in SUBSET (S \ ends) :
           h \in C /\ (\A x \in C : next[x] \in C \union ends) => P \subseteq C
  BY PathClosed
<1>2. /\ Q \subseteq S \ ends /\ h \in Q
      /\ \A x \in Q : new[x] \in Q \union ends
      /\ \A C \in SUBSET (S \ ends) :
           h \in C /\ (\A x \in C : new[x] \in C \union ends) => Q \subseteq C
  BY PathClosed
<1>3. \A x \in P : new[x] = next[x]
  OBVIOUS
<1> HIDE DEF P, Q
<1>4. Q \subseteq P
  BY <1>1, <1>2, <1>3
<1>5. P \subseteq P \intersect Q
  <2>1. \A x \in P \intersect Q : next[x] \in (P \intersect Q) \union ends
    BY <1>1, <1>2, <1>3
  <2> QED
    BY <1>1, <1>2, <2>1
<1> QED
  BY <1>4, <1>5 DEF P, Q

\* On P the links new are those of next, but for n, which comes in behind p.
Enters(next, new, P, p, n) ==
  new[p] = n /\ new[n] = next[p] /\ \A x \in P : x # p => new[x] = next[x]

\* A node n that enters the walk behind p is all that it gains.
LEMMA PathGrows ==
  ASSUME NEW S, NEW ends, NEW next, NEW new, NEW h \in S \ ends,
         next \in [S -> S], new \in [S -> S],
         NEW p \in Path(S, next, ends, h), NEW n \in S \ ends,
         n \notin Path(S, next, ends, h),
         Enters(next, new, Path(S, next, ends, h), p, n)
  PROVE  Path(S, new, ends, h) = Path(S, next, ends, h) \union {n}
<1> DEFINE P == Path(S, next, ends, h)
           Q == Path(S, new, ends, h)
<1>1. /\ P \subseteq S \ ends /\ h \in P
      /\ \A x \in P : next[x] \in P \union ends
      /\ \A C \in SUBSET (S \ ends) :
           h \in C /\ (\A x \in C : next[x] \in C \union ends) => P \subseteq C
  BY PathClosed
<1>2. /\ Q \subseteq S \ ends /\ h \in Q
      /\ \A x \in Q : new[x] \in Q \union ends
      /\ \A C \in SUBSET (S \ ends) :
           h \in C /\ (\A x \in C : new[x] \in C \union ends) => Q \subseteq C
  BY PathClosed
<1>3. /\ p \in P /\ n \in S \ ends /\ n \notin P /\ new[p] = n /\ new[n] = next[p]
      /\ \A x \in P : x # p => new[x] = next[x]
  BY DEF Enters
<1> HIDE DEF P, Q
<1>4. Q \subseteq P \union {n}
  <2>1. \A x \in P \union {n} : new[x] \in (P \union {n}) \union ends
    BY <1>1, <1>3
  <2>2. P \union {n} \in SUBSET (S \ ends) /\ h \in P \union {n}
    BY <1>1, <1>3
  <2> QED
    BY <1>2, <2>1, <2>2
<1>5. P \subseteq P \intersect Q
  <2>1. ASSUME NEW x \in P \intersect Q PROVE next[x] \in (P \intersect Q) \union ends
    <3>1. CASE x # p
      BY <1>1, <1>2, <1>3, <3>1
    <3>2. CASE x = p
      BY <1>1, <1>2, <1>3, <3>2
    <3> QED
      BY <3>1, <3>2
  <2>2. P \intersect Q \in SUBSET (S \ ends) /\ h \in P \intersect Q
    BY <1>1, <1>2
  <2> QED
    BY <1>1, <2>1, <2>2
<1>6. n \in Q
  BY <1>2, <1>3, <1>5
<1> QED
  BY <1>4, <1>5, <1>6 DEF P, Q

-----------------------------------------------------------------------------
(* The digits of numbers.                                                  *)

LEMMA DivMod ==
  ASSUME NEW a \in Nat, NEW b \in Nat \ {0}
  PROVE  /\ a \div b \in Nat /\ a % b \in Nat /\ a % b < b
         /\ a = b * (a \div b) + (a % b)
OBVIOUS

\* A set of numbers up to n holds n if it holds 0 and, with a number, the next one.
LEMMA UpTo ==
  ASSUME NEW n \in Nat, NEW T, 0 \in T, \A i \in 0..n : i < n /\ i \in T => i + 1 \in T
  PROVE  \A i \in 0..n : i \in T
<1> DEFINE Odd == {i \in 0..n : i \notin T}
<1> SUFFICES ASSUME Odd # {} PROVE FALSE
  OBVIOUS
<1>1. Odd \subseteq Nat
  OBVIOUS
<1>2. PICK i \in Odd : \A j \in Odd : i <= j
  <2> HIDE DEF Odd
  <2> QED
    BY <1>1, LeastNumber
<1>3. i # 0 /\ i - 1 \in 0..n /\ i - 1 < n
  BY <1>2
<1>4. i - 1 \notin Odd
  BY <1>2, <1>3
<1>5. (i - 1) + 1 \in T
  BY <1>3, <1>4
<1> QED
  BY <1>2, <1>5

\* G is the recursion that shifts k down, up to n digits.
Shifts(G, k, b, n) == G = [j \in 0..n |-> IF j = 0 THEN k ELSE G[j - 1] \div b]

\* G describes the first n digits only.
ShiftsTo(G, k, b, n) ==
  DOMAIN G = 0..n /\ G[0] = k /\ \A j \in 0..n : j < n => G[j + 1] = G[j] \div b

LEMMA ShiftsExist ==
  ASSUME NEW k, NEW b, NEW n \in Nat
  PROVE  \E G : Shifts(G, k, b, n)
<1> DEFINE T == {i \in Nat : \E G : ShiftsTo(G, k, b, i)}
<1>1. 0 \in T
  <2>1. ShiftsTo([j \in 0..0 |-> k], k, b, 0)
    BY DEF ShiftsTo
  <2> QED
    BY <2>1
<1>2. ASSUME NEW i \in 0..n, i < n, i \in T PROVE i + 1 \in T
  <2>1. PICK G : ShiftsTo(G, k, b, i)
    BY <1>2
  <2> DEFINE H == [j \in 0..(i + 1) |-> IF j <= i THEN G[j] ELSE G[i] \div b]
  <2>2. ShiftsTo(H, k, b, i + 1)
    <3>1. DOMAIN H = 0..(i + 1) /\ H[0] = k
      BY <2>1 DEF ShiftsTo
    <3>2. ASSUME NEW j \in 0..(i + 1), j < i + 1 PROVE H[j + 1] = H[j] \div b
      <4>1. CASE j < i
        BY <2>1, <4>1 DEF ShiftsTo
      <4>2. CASE j = i
        BY <2>1, <4>2 DEF ShiftsTo
      <4> QED
        BY <3>2, <4>1, <4>2
    <3> QED
      BY <3>1, <3>2 DEF ShiftsTo
  <2> HIDE DEF H
  <2> QED
    BY <2>2
<1>3. n \in T
  <2> HIDE DEF T
  <2> QED
    BY <1>1, <1>2, UpTo
<1>4. PICK G : ShiftsTo(G, k, b, n)
  BY <1>3
<1> DEFINE H == [j \in 0..n |-> G[j]]
<1>5. H = [j \in 0..n |-> IF j = 0 THEN k ELSE H[j - 1] \div b]
  <2> SUFFICES ASSUME NEW j \in 0..n
               PROVE  G[j] = IF j = 0 THEN k ELSE H[j - 1] \div b
    OBVIOUS
  <2>1. CASE j = 0
    BY <1>4, <2>1 DEF ShiftsTo
  <2>2. CASE j # 0
    <3>1. j - 1 \in 0..n /\ j - 1 < n /\ (j - 1) + 1 = j
      BY <2>2
    <3> QED
      BY <1>4, <2>2, <3>1 DEF ShiftsTo
  <2> QED
    BY <2>1, <2>2
<1> QED
  BY <1>5 DEF Shifts
=============================================================================
