--------------------------- MODULE TransMapProofs ---------------------------
(***************************************************************************)
(* Theorems about TransMap: the bits of a hash first, then the slots and   *)
(* the frames, and the way of a key through the trie.                      *)
(***************************************************************************)
EXTENDS TransMapInv, Paths, TLAPS, FiniteSetTheorems, SequenceTheorems

-----------------------------------------------------------------------------
(* The levels of the trie.                                                 *)

LEMMA Sizes ==
  /\ KEY_SIZE \in Nat /\ KEY_SIZE > 0 /\ MAIN_POW \in Nat /\ MAIN_POW > 0
  /\ SUB_POW \in Nat /\ SUB_POW > 0 /\ MAX_CAS_FAILURE \in Nat /\ MaxOps \in Nat
  /\ MAIN_SIZE \in Nat \ {0} /\ SUB_SIZE \in Nat \ {0}
  /\ Key \subseteq Nat \ {0}
BY ConstantsAssumption, SizesAssumption

LEMMA Products ==
  ASSUME NEW i \in Nat, NEW j \in Nat, NEW s \in Nat \ {0}
  PROVE  /\ i * s \in Nat /\ i <= i * s
         /\ (i + 1) * s = i * s + s
         /\ i < j => i * s + s <= j * s
<1>1. i * s \in Nat /\ i <= i * s /\ (i + 1) * s = i * s + s
  BY SMT
<1>2. ASSUME i < j PROVE i * s + s <= j * s
  <2>1. PICK k \in Nat : j = i + 1 + k
    <3>1. j - i - 1 \in Nat /\ j = i + 1 + (j - i - 1)
      BY <1>2
    <3> QED
      BY <3>1
  <2>2. j * s = i * s + s + k * s
    BY <2>1, SMT
  <2>3. k * s \in Nat /\ i * s \in Nat /\ j * s \in Nat
    BY SMT
  <2> QED
    BY <2>2, <2>3
<1> QED
  BY <1>1, <1>2

\* The level of the i-th spine of a way.
Level(i) == MAIN_POW + i * SUB_POW

LEMMA LevelFacts ==
  ASSUME NEW i \in Nat
  PROVE  /\ Level(i) \in Nat /\ Level(i) >= i + 1 /\ Level(i) > 0
         /\ NextRight(Level(i)) = Level(i + 1)
         /\ Level(i) < Level(i + 1)
         /\ i \in 0..KEY_SIZE => Level(i) \in Levels
         /\ Level(i) < KEY_SIZE => i \in 0..KEY_SIZE /\ i + 1 \in 0..KEY_SIZE
<1>1. i * SUB_POW \in Nat /\ i <= i * SUB_POW /\ (i + 1) * SUB_POW = i * SUB_POW + SUB_POW
  BY Sizes, Products
<1>2. /\ Level(i) \in Nat /\ Level(i) >= i + 1 /\ Level(i) > 0
      /\ Level(i + 1) = Level(i) + SUB_POW
  BY <1>1, Sizes DEF Level
<1>3. i \in 0..KEY_SIZE => Level(i) \in Levels
  BY DEF Levels, Level
<1> QED
  BY <1>2, <1>3, Sizes DEF NextRight

LEMMA LevelsAre ==
  ASSUME NEW right \in Levels
  PROVE  right = 0 \/ \E i \in 0..KEY_SIZE : right = Level(i)
BY DEF Levels, Level

LEMMA RightsFacts ==
  /\ 0 \in Levels /\ 0 \in Rights /\ Levels \subseteq Nat /\ Rights \subseteq Levels
  /\ \A right \in Rights :
       /\ right \in Nat /\ right < KEY_SIZE
       /\ NextRight(right) \in Levels /\ NextRight(right) > right
       /\ NextRight(right) < KEY_SIZE => NextRight(right) \in Rights
<1>1. 0 \in Levels /\ 0 \in Rights
  BY Sizes DEF Levels, Rights
<1>2. Levels \subseteq Nat
  BY LevelsAre, LevelFacts
<1>3. Rights \subseteq Levels
  BY DEF Rights
<1>4. ASSUME NEW right \in Rights
      PROVE  /\ right \in Nat /\ right < KEY_SIZE
             /\ NextRight(right) \in Levels /\ NextRight(right) > right
  <2>1. right \in Nat /\ right < KEY_SIZE
    BY <1>2, <1>3 DEF Rights
  <2>2. CASE right = 0
    <3>1. NextRight(right) = MAIN_POW /\ MAIN_POW = Level(0)
      BY <2>2, Sizes DEF NextRight, Level
    <3>2. 0 \in 0..KEY_SIZE /\ 0 \in Nat
      BY Sizes
    <3> QED
      BY <2>1, <2>2, <3>1, <3>2, LevelFacts
  <2>3. CASE right # 0
    <3>1. PICK i \in 0..KEY_SIZE : right = Level(i)
      BY <1>3, <2>3, LevelsAre
    <3>2. i \in Nat /\ i + 1 \in 0..KEY_SIZE /\ i + 1 \in Nat
      BY <2>1, <3>1, LevelFacts
    <3> QED
      BY <2>1, <3>1, <3>2, LevelFacts
  <2> QED
    BY <2>1, <2>2, <2>3
<1> QED
  BY <1>1, <1>2, <1>3, <1>4 DEF Rights

LEMMA LevelBefore ==
  ASSUME NEW right \in Levels, right # 0
  PROVE  \E q \in Levels : q < right /\ NextRight(q) = right
<1>1. PICK i \in 0..KEY_SIZE : right = Level(i)
  BY LevelsAre
<1>2. CASE i = 0
  <2>1. right = MAIN_POW
    BY <1>1, <1>2, Sizes DEF Level
  <2> QED
    BY <2>1, RightsFacts, Sizes DEF NextRight
<1>3. CASE i # 0
  <2>1. i - 1 \in Nat /\ i - 1 \in 0..KEY_SIZE /\ (i - 1) + 1 = i
    BY <1>3, Sizes
  <2>2. /\ Level(i - 1) \in Levels /\ NextRight(Level(i - 1)) = right
        /\ Level(i - 1) < right
    BY <1>1, <2>1, LevelFacts
  <2> QED
    BY <2>2
<1> QED
  BY <1>2, <1>3

LEMMA NoLevelBetween ==
  ASSUME NEW q \in Levels, NEW right \in Levels, q < NextRight(right)
  PROVE  q <= right
<1>0. q \in Nat /\ right \in Nat
  BY RightsFacts
<1>1. CASE right = 0
  <2> SUFFICES ASSUME q # 0 PROVE FALSE
    BY <1>0, <1>1
  <2>1. PICK i \in 0..KEY_SIZE : q = Level(i)
    BY LevelsAre
  <2>2. i * SUB_POW \in Nat
    BY Sizes, Products
  <2> QED
    BY <1>1, <2>1, <2>2, Sizes DEF Level, NextRight
<1>2. CASE right # 0 /\ q # 0
  <2>1. PICK i \in 0..KEY_SIZE, j \in 0..KEY_SIZE : q = Level(i) /\ right = Level(j)
    BY <1>2, LevelsAre
  <2>2. i \in Nat /\ j \in Nat /\ i * SUB_POW \in Nat /\ j * SUB_POW \in Nat
    BY Sizes, Products
  <2>3. ~(j < i)
    <3> SUFFICES ASSUME j < i PROVE FALSE
      OBVIOUS
    <3>1. j * SUB_POW + SUB_POW <= i * SUB_POW
      BY <2>2, Sizes, Products
    <3> QED
      BY <1>2, <2>1, <2>2, <3>1, Sizes DEF Level, NextRight
  <2>4. i < j => q < right
    <3> SUFFICES ASSUME i < j PROVE q < right
      OBVIOUS
    <3>1. i * SUB_POW + SUB_POW <= j * SUB_POW
      BY <2>2, Sizes, Products
    <3> QED
      BY <2>1, <2>2, <3>1, Sizes DEF Level
  <2> QED
    BY <2>1, <2>2, <2>3, <2>4, <1>0
<1> QED
  BY <1>0, <1>1, <1>2

-----------------------------------------------------------------------------
(* The bits of a hash.                                                     *)

\* What is shifted at a level.
Width(right) == IF right = 0 THEN MAIN_SIZE ELSE SUB_SIZE

LEMMA WidthType == \A right : Width(right) \in Nat \ {0}
BY Sizes DEF Width

\* The recursion of Shifted.
Rests(h, hash) ==
  h = [right \in Levels |->
         IF right = 0 THEN hash
         ELSE IF right = MAIN_POW THEN hash \div MAIN_SIZE
         ELSE h[right - SUB_POW] \div SUB_SIZE]

LEMMA RestsExist ==
  ASSUME NEW hash \in Key
  PROVE  \E h : Rests(h, hash)
<1>1. PICK G : Shifts(G, hash \div MAIN_SIZE, SUB_SIZE, KEY_SIZE)
  BY Sizes, ShiftsExist
<1>2. /\ G[0] = hash \div MAIN_SIZE
      /\ \A j \in 0..KEY_SIZE : j # 0 => G[j] = G[j - 1] \div SUB_SIZE
  BY <1>1, Sizes DEF Shifts
<1> DEFINE index(right) == CHOOSE i \in 0..KEY_SIZE : right = Level(i)
           h == [right \in Levels |-> IF right = 0 THEN hash ELSE G[index(right)]]
<1>3. \A i \in 0..KEY_SIZE : index(Level(i)) = i
  <2> SUFFICES ASSUME NEW i \in 0..KEY_SIZE PROVE index(Level(i)) = i
    OBVIOUS
  <2>1. PICK j : j = index(Level(i))
    OBVIOUS
  <2>2. j \in 0..KEY_SIZE /\ Level(i) = Level(j)
    BY <2>1
  <2>3. i * SUB_POW = j * SUB_POW /\ i * SUB_POW \in Nat /\ i \in Nat /\ j \in Nat
    BY <2>2, Sizes, Products DEF Level
  <2>4. ~(i < j) /\ ~(j < i)
    <3>1. i < j => i * SUB_POW + SUB_POW <= j * SUB_POW
      BY <2>3, Sizes, Products
    <3>2. j < i => j * SUB_POW + SUB_POW <= i * SUB_POW
      BY <2>3, Sizes, Products
    <3> QED
      BY <2>3, <3>1, <3>2, Sizes
  <2> QED
    BY <2>1, <2>3, <2>4
<1>4. \A i \in 0..KEY_SIZE : h[Level(i)] = G[i]
  <2> SUFFICES ASSUME NEW i \in 0..KEY_SIZE PROVE h[Level(i)] = G[i]
    OBVIOUS
  <2>1. Level(i) \in Levels /\ Level(i) # 0
    BY LevelFacts
  <2>2. index(Level(i)) = i
    BY <1>3
  <2> HIDE DEF index
  <2> QED
    BY <2>1, <2>2
<1> HIDE DEF index
<1>5. ASSUME NEW right \in Levels
      PROVE  h[right] = IF right = 0 THEN hash
                        ELSE IF right = MAIN_POW THEN hash \div MAIN_SIZE
                        ELSE h[right - SUB_POW] \div SUB_SIZE
  <2>1. CASE right = 0
    BY <2>1
  <2>2. CASE right # 0
    <3>1. PICK i \in 0..KEY_SIZE : right = Level(i)
      BY <2>2, LevelsAre
    <3>2. h[right] = G[i]
      BY <1>4, <3>1
    <3> HIDE DEF h
    <3>3. CASE i = 0
      <4>1. right = MAIN_POW
        BY <3>1, <3>3, Sizes DEF Level
      <4> QED
        BY <1>2, <2>2, <3>2, <3>3, <4>1
    <3>4. CASE i # 0
      <4>1. i - 1 \in 0..KEY_SIZE /\ i - 1 \in Nat /\ (i - 1) + 1 = i /\ i \in Nat
        BY <3>4, Sizes
      <4>2. /\ (i - 1) * SUB_POW \in Nat /\ i * SUB_POW \in Nat
            /\ i * SUB_POW = (i - 1) * SUB_POW + SUB_POW
        BY <4>1, Sizes, Products
      <4>3. right - SUB_POW = Level(i - 1) /\ right # MAIN_POW
        BY <3>1, <4>2, Sizes DEF Level
      <4>4. h[right - SUB_POW] = G[i - 1]
        BY <1>4, <4>1, <4>3
      <4>5. G[i] = G[i - 1] \div SUB_SIZE
        BY <1>2, <3>4
      <4> QED
        BY <2>2, <3>2, <4>3, <4>4, <4>5
    <3> QED
      BY <3>3, <3>4
  <2> QED
    BY <2>1, <2>2
<1>6. h = [right \in Levels |-> h[right]]
  OBVIOUS
<1> HIDE DEF h
<1>7. h = [right \in Levels |->
             IF right = 0 THEN hash
             ELSE IF right = MAIN_POW THEN hash \div MAIN_SIZE
             ELSE h[right - SUB_POW] \div SUB_SIZE]
  BY <1>5, <1>6
<1> QED
  BY <1>7 DEF Rests

LEMMA ShiftedDef ==
  ASSUME NEW hash \in Key
  PROVE  Rests(Shifted[hash], hash)
<1> DEFINE G == CHOOSE h : Rests(h, hash)
<1>1. Rests(G, hash)
  BY RestsExist
<1>2. Shifted[hash] = G
  BY DEF Shifted, Rests
<1> QED
  BY <1>1, <1>2

\* The next level sees the hash without the bits of this one.
LEMMA ShiftedFacts ==
  ASSUME NEW hash \in Key
  PROVE  /\ Shifted[hash][0] = hash
         /\ \A right \in Rights :
              Shifted[hash][NextRight(right)] = Shifted[hash][right] \div Width(right)
         /\ \A right \in Levels : Shifted[hash][right] \in Nat
<1>1. PICK h : h = Shifted[hash]
  OBVIOUS
<1>2. h = [right \in Levels |->
             IF right = 0 THEN hash
             ELSE IF right = MAIN_POW THEN hash \div MAIN_SIZE
             ELSE h[right - SUB_POW] \div SUB_SIZE]
  BY <1>1, ShiftedDef DEF Rests
<1>3. h[0] = hash
  BY <1>2, RightsFacts
<1>4. ASSUME NEW right \in Levels, NextRight(right) \in Levels
      PROVE  h[NextRight(right)] = h[right] \div Width(right)
  <2>1. right \in Nat /\ NextRight(right) # 0
    BY RightsFacts, Sizes DEF NextRight
  <2>2. CASE right = 0
    BY <1>2, <1>3, <1>4, <2>1, <2>2, Sizes DEF NextRight, Width
  <2>3. CASE right # 0
    <3>1. PICK i \in 0..KEY_SIZE : right = Level(i)
      BY <2>3, LevelsAre
    <3>2. i * SUB_POW \in Nat
      BY Sizes, Products
    <3>3. NextRight(right) # MAIN_POW /\ NextRight(right) - SUB_POW = right
      BY <2>1, <2>3, <3>1, <3>2, Sizes DEF NextRight, Level
    <3> QED
      BY <1>2, <1>4, <2>1, <2>3, <3>3 DEF Width
  <2> QED
    BY <2>2, <2>3
<1>5. \A right \in Levels : h[right] \in Nat
  <2> DEFINE Odd == {right \in Levels : h[right] \notin Nat}
  <2> SUFFICES ASSUME Odd # {} PROVE FALSE
    OBVIOUS
  <2>1. Odd \subseteq Nat
    BY RightsFacts
  <2>2. PICK right \in Odd : \A q \in Odd : right <= q
    <3> HIDE DEF Odd
    <3> QED
      BY <2>1, LeastNumber
  <2>3. right # 0
    BY <1>3, <2>2, Sizes
  <2>4. PICK q \in Levels : q < right /\ NextRight(q) = right
    BY <2>2, <2>3, LevelBefore
  <2>5. q \in Nat /\ right \in Nat
    BY <2>2, RightsFacts
  <2>6. h[q] \in Nat
    BY <2>2, <2>4, <2>5
  <2>7. h[right] = h[q] \div Width(q)
    BY <1>4, <2>2, <2>4
  <2>8. h[q] \div Width(q) \in Nat
    BY <2>6, WidthType, DivMod
  <2> QED
    BY <2>2, <2>7, <2>8
<1> QED
  BY <1>1, <1>3, <1>4, <1>5, RightsFacts

LEMMA DigitType ==
  ASSUME NEW hash \in Key, NEW right \in Levels
  PROVE  Digit(hash, right) \in 0..(Width(right) - 1)
<1>1. PICK a \in Nat : a = Shifted[hash][right]
  BY ShiftedFacts
<1>2. PICK w \in Nat \ {0} : w = Width(right)
  BY WidthType
<1>3. a % w \in Nat /\ a % w < w
  BY DivMod
<1>4. Digit(hash, right) = a % w
  BY <1>1, <1>2 DEF Digit, Width
<1> QED
  BY <1>2, <1>3, <1>4

\* Hashes that agree behind a level and in its bits agree before them.
LEMMA SameBefore ==
  ASSUME NEW k \in Key, NEW l \in Key, NEW right \in Rights,
         Digit(k, right) = Digit(l, right),
         Shifted[k][NextRight(right)] = Shifted[l][NextRight(right)]
  PROVE  Shifted[k][right] = Shifted[l][right]
<1>1. PICK a \in Nat, b \in Nat : a = Shifted[k][right] /\ b = Shifted[l][right]
  BY ShiftedFacts, RightsFacts
<1>2. PICK w \in Nat \ {0} : w = Width(right)
  BY WidthType
<1>3. a \div w = b \div w /\ a % w = b % w
  BY <1>1, <1>2, ShiftedFacts DEF Digit, Width
<1>4. a = b
  BY <1>3, DivMod
<1> QED
  BY <1>1, <1>4

\* Hashes that agree from a level on in all digits are the same there.
LEMMA SameDigits ==
  ASSUME NEW k \in Key, NEW l \in Key, NEW right \in Levels,
         \A q \in Rights : q >= right => Digit(k, q) = Digit(l, q)
  PROVE  Shifted[k][right] = Shifted[l][right]
<1> DEFINE Odd == {q \in Levels : q >= right /\ Shifted[k][q] # Shifted[l][q]}
           T == {KEY_SIZE - q : q \in Odd}
<1> SUFFICES ASSUME right \in Odd PROVE FALSE
  BY RightsFacts
<1>1. \A q \in Odd : q \in Rights /\ q \in Nat
  <2> SUFFICES ASSUME NEW q \in Odd PROVE q \in Rights
    BY RightsFacts
  <2>1. q \in Levels /\ q \in Nat
    BY RightsFacts
  <2>2. ~(q >= KEY_SIZE)
    BY <2>1, KeyAssumption
  <2> QED
    BY <2>1, <2>2, Sizes DEF Rights
<1>2. T \subseteq Nat /\ T # {}
  BY <1>1, RightsFacts, Sizes
<1>3. PICK n \in T : \A m \in T : n <= m
  <2> HIDE DEF T
  <2> QED
    BY <1>2, LeastNumber
<1>4. PICK q \in Odd : n = KEY_SIZE - q
  BY <1>3
<1>5. /\ q \in Rights /\ q \in Nat /\ NextRight(q) \in Levels /\ NextRight(q) > q
      /\ NextRight(q) \in Nat /\ right \in Nat
  BY <1>1, RightsFacts
<1>6. NextRight(q) \notin Odd
  <2> SUFFICES ASSUME NextRight(q) \in Odd PROVE FALSE
    OBVIOUS
  <2>1. KEY_SIZE - NextRight(q) \in T
    OBVIOUS
  <2>2. n <= KEY_SIZE - NextRight(q)
    BY <1>3, <2>1
  <2> QED
    BY <1>4, <1>5, <2>2, Sizes
<1>7. Shifted[k][NextRight(q)] = Shifted[l][NextRight(q)]
  BY <1>5, <1>6
<1>8. Digit(k, q) = Digit(l, q)
  BY <1>5
<1>9. Shifted[k][q] = Shifted[l][q]
  BY <1>5, <1>7, <1>8, SameBefore
<1> QED
  BY <1>9

\* Keys that share a slot differ in later bits.
LEMMA KeysDiffer ==
  ASSUME NEW k \in Key, NEW l \in Key, NEW right \in Levels, Same(k, l, right), k # l
  PROVE  Shifted[k][right] # Shifted[l][right]
<1> SUFFICES ASSUME Shifted[k][right] = Shifted[l][right] PROVE FALSE
  OBVIOUS
<1> DEFINE T == {q \in Levels : Shifted[k][q] = Shifted[l][q]}
<1>1. right \in T /\ T \subseteq Nat
  BY RightsFacts
<1>2. PICK q \in T : \A r \in T : q <= r
  <2> HIDE DEF T
  <2> QED
    BY <1>1, LeastNumber
<1>3. q # 0
  BY <1>2, ShiftedFacts
<1>4. PICK r \in Levels : r < q /\ NextRight(r) = q
  BY <1>2, <1>3, LevelBefore
<1>6. r \in Nat /\ q \in Nat /\ q <= right /\ right \in Nat
  BY <1>1, <1>2, <1>4, RightsFacts
<1>7. r \in Rights
  <2> SUFFICES ASSUME ~(r < KEY_SIZE) PROVE FALSE
    BY <1>4 DEF Rights
  <2>1. Shifted[k][r] = 0 /\ Shifted[l][r] = 0
    BY <1>4, <1>6, KeyAssumption, Sizes
  <2>2. r \in T
    BY <1>4, <2>1
  <2> QED
    BY <1>2, <1>4, <1>6, <2>2
<1>8. Digit(k, r) = Digit(l, r)
  BY <1>4, <1>6, <1>7 DEF Same
<1>9. Shifted[k][r] = Shifted[l][r]
  BY <1>2, <1>4, <1>7, <1>8, SameBefore
<1>10. r \in T
  BY <1>4, <1>9
<1> QED
  BY <1>2, <1>4, <1>6, <1>10

\* One more level: the bits of this one as well.
LEMMA SameNext ==
  ASSUME NEW k, NEW l, NEW right \in Rights
  PROVE  Same(k, l, NextRight(right)) <=> Same(k, l, right) /\ Digit(k, right) = Digit(l, right)
<1>1. right \in Nat /\ right < NextRight(right) /\ NextRight(right) \in Nat
  BY RightsFacts
<1>2. ASSUME NEW q \in Rights, q < NextRight(right) PROVE q < right \/ q = right
  <2>1. q \in Levels /\ right \in Levels /\ q \in Nat
    BY RightsFacts
  <2> QED
    BY <1>1, <1>2, <2>1, NoLevelBetween
<1>3. \A q \in Rights : q < right => q < NextRight(right)
  BY <1>1, RightsFacts
<1> QED
  BY <1>1, <1>2, <1>3 DEF Same

LEMMA SameFacts ==
  ASSUME NEW right
  PROVE  /\ \A k : Same(k, k, right)
         /\ \A k, l : Same(k, l, right) => Same(l, k, right)
         /\ \A k, l, m : Same(k, l, right) /\ Same(l, m, right) => Same(k, m, right)
BY DEF Same

LEMMA SameAtHead == \A k, l : Same(k, l, 0)
BY RightsFacts DEF Same

-----------------------------------------------------------------------------
(* Pointers and slots.                                                     *)

LEMMA NodePointer ==
  ASSUME NEW n \in NodeDesc
  PROVE  IsData(n) /\ ~IsSpine(n) /\ n # Null
<1>1. n # Null
  BY NullAssumption
<1>2. "spine" \notin DOMAIN n
  BY DEF NodeDesc
<1> QED
  BY <1>1, <1>2 DEF IsData, IsSpine

LEMMA SpinePointer ==
  ASSUME NEW i \in Nat
  PROVE  /\ IsSpine(Spine(i)) /\ ~IsData(Spine(i)) /\ Spine(i) # Null
         /\ Spine(i).spine = i
<1>1. Spine(i) \in [spine : Nat] /\ "spine" \in DOMAIN Spine(i) /\ Spine(i).spine = i
  BY DEF Spine
<1>2. Spine(i) # Null
  BY <1>1, NullAssumption
<1> QED
  BY <1>1, <1>2 DEF IsData, IsSpine

LEMMA NullPointer == ~IsData(Null) /\ ~IsSpine(Null)
BY DEF IsData, IsSpine

LEMMA PointerCases ==
  ASSUME NEW m \in Nat, NEW p \in NodeDesc \union {Null} \union [spine : 2..m]
  PROVE  \/ p = Null /\ ~IsData(p) /\ ~IsSpine(p)
         \/ p \in NodeDesc /\ IsData(p) /\ ~IsSpine(p) /\ p # Null
         \/ IsSpine(p) /\ ~IsData(p) /\ p # Null /\ p.spine \in 2..m /\ p = Spine(p.spine)
<1>1. CASE p = Null
  BY <1>1, NullPointer
<1>2. CASE p \in NodeDesc
  BY <1>2, NodePointer
<1>3. CASE p \in [spine : 2..m]
  <2>1. p.spine \in 2..m /\ p = Spine(p.spine)
    BY <1>3 DEF Spine
  <2>2. p.spine \in Nat
    BY <2>1
  <2> QED
    BY <2>1, <2>2, SpinePointer
<1> QED
  BY <1>1, <1>2, <1>3

LEMMA SlotFacts ==
  /\ \A p : Slot(p).to = p /\ ~Slot(p).mark /\ Slot(p).mark = FALSE
  /\ NullSlot.to = Null /\ ~NullSlot.mark
BY DEF Slot, NullSlot

-----------------------------------------------------------------------------
(* What Allocate_Spine makes.                                              *)

\* The arrays of Spines, as deep as at is long.
SpinesAre(S, n1, n2, h1, h2, first, depth, at) ==
  S = [i \in 1..depth |-> [j \in 0..(SUB_SIZE - 1) |->
         IF j = Digit(h1, at[i])
         THEN IF i < depth THEN Slot(Spine(first + i)) ELSE Slot(n1)
         ELSE IF i = depth /\ j = Digit(h2, at[i]) THEN Slot(n2)
         ELSE NullSlot]]

\* The levels of the arrays: the last one tells the keys apart.
LevelsDown(at, depth, h1, h2, right) ==
  /\ at \in [1..depth -> Rights]
  /\ at[1] = right
  /\ \A i \in 1..depth : at[i] # 0
  /\ \A i \in 1..depth : i < depth =>
       at[i + 1] = NextRight(at[i]) /\ Digit(h1, at[i]) = Digit(h2, at[i])
  /\ Digit(h1, at[depth]) # Digit(h2, at[depth])

LEMMA SpinesFacts ==
  ASSUME NEW h1 \in Key, NEW h2 \in Key, NEW right \in Levels, right # 0,
         Shifted[h1][right] # Shifted[h2][right], NEW n1, NEW n2, NEW first \in Nat
  PROVE  \E depth \in Nat \ {0} : \E at \in [1..depth -> Rights] :
           /\ LevelsDown(at, depth, h1, h2, right)
           /\ SpinesAre(Spines(n1, n2, h1, h2, right, first), n1, n2, h1, h2, first, depth, at)
<1> DEFINE lev(i) == right + (i - 1) * SUB_POW
           apart(i) == lev(i) < KEY_SIZE /\ Digit(h1, lev(i)) # Digit(h2, lev(i))
           first_(i) == apart(i) /\ \A j \in 1..(i - 1) : ~apart(j)
           depth == CHOOSE i \in 1..KEY_SIZE : first_(i)
<1>1. PICK a \in 0..KEY_SIZE : right = Level(a)
  BY LevelsAre
<1>2. \A i \in Nat \ {0} : lev(i) = Level(a + (i - 1)) /\ lev(i) \in Nat
  <2> SUFFICES ASSUME NEW i \in Nat \ {0} PROVE lev(i) = Level(a + (i - 1)) /\ lev(i) \in Nat
    OBVIOUS
  <2>1. PICK b \in Nat : b = i - 1
    OBVIOUS
  <2>2. (a + b) * SUB_POW = a * SUB_POW + b * SUB_POW
    BY Sizes, SMT
  <2>3. a * SUB_POW \in Nat /\ b * SUB_POW \in Nat
    BY Sizes, Products
  <2> QED
    BY <1>1, <2>1, <2>2, <2>3, Sizes DEF Level
<1>3. \A i \in Nat \ {0} : lev(i) < KEY_SIZE => lev(i) \in Rights /\ lev(i) # 0
  <2> SUFFICES ASSUME NEW i \in Nat \ {0}, lev(i) < KEY_SIZE PROVE lev(i) \in Rights /\ lev(i) # 0
    OBVIOUS
  <2>1. a + (i - 1) \in Nat /\ lev(i) = Level(a + (i - 1))
    BY <1>2
  <2> HIDE DEF lev
  <2>2. lev(i) \in Levels /\ lev(i) # 0
    BY <2>1, LevelFacts
  <2> QED
    BY <2>2 DEF Rights
<1>4. \A i \in Nat \ {0} : lev(i + 1) = NextRight(lev(i)) /\ lev(i) < lev(i + 1)
  <2> SUFFICES ASSUME NEW i \in Nat \ {0} PROVE lev(i + 1) = NextRight(lev(i)) /\ lev(i) < lev(i + 1)
    OBVIOUS
  <2> HIDE DEF lev
  <2>1. i + 1 \in Nat \ {0} /\ a + (i - 1) \in Nat /\ a + ((i + 1) - 1) = (a + (i - 1)) + 1
    OBVIOUS
  <2>2. lev(i) = Level(a + (i - 1)) /\ lev(i + 1) = Level(a + ((i + 1) - 1))
    BY <1>2, <2>1
  <2> QED
    BY <2>1, <2>2, LevelFacts
<1>5. \E i \in 1..KEY_SIZE : apart(i)
  <2>1. PICK q \in Rights : q >= right /\ Digit(h1, q) # Digit(h2, q)
    BY SameDigits
  <2>2. q \in Levels /\ q \in Nat /\ q < KEY_SIZE /\ right \in Nat /\ q # 0
    BY <2>1, RightsFacts
  <2>3. PICK b \in 0..KEY_SIZE : q = Level(b)
    BY <2>2, LevelsAre
  <2>4. a \in Nat /\ b \in Nat /\ a * SUB_POW \in Nat /\ b * SUB_POW \in Nat
    BY Sizes, Products
  <2>5. ~(b < a)
    <3> SUFFICES ASSUME b < a PROVE FALSE
      OBVIOUS
    <3>1. b * SUB_POW + SUB_POW <= a * SUB_POW
      BY <2>4, Sizes, Products
    <3> QED
      BY <1>1, <2>1, <2>3, <2>4, <3>1, Sizes DEF Level
  <2>6. b < KEY_SIZE
    <3>1. b <= b * SUB_POW
      BY <2>4, Sizes, Products
    <3> QED
      BY <2>2, <2>3, <2>4, <3>1, Sizes DEF Level
  <2>7. (b - a) + 1 \in Nat \ {0} /\ (b - a) + 1 \in 1..KEY_SIZE /\ a + (((b - a) + 1) - 1) = b
    BY <2>4, <2>5, <2>6, Sizes
  <2>8. lev((b - a) + 1) = q
    BY <1>2, <2>3, <2>7
  <2> HIDE DEF lev
  <2>9. apart((b - a) + 1)
    BY <2>1, <2>2, <2>8
  <2> QED
    BY <2>7, <2>9
<1>6. depth \in 1..KEY_SIZE /\ first_(depth)
  <2> DEFINE T == {i \in 1..KEY_SIZE : apart(i)}
  <2>1. T \subseteq Nat /\ T # {}
    BY <1>5
  <2>2. PICK i \in T : \A j \in T : i <= j
    <3> HIDE DEF T
    <3> QED
      BY <2>1, LeastNumber
  <2> HIDE DEF apart
  <2>3. ASSUME NEW j \in 1..(i - 1) PROVE ~apart(j)
    <3>1. j \in 1..KEY_SIZE /\ ~(i <= j)
      BY Sizes
    <3> QED
      BY <2>2, <3>1
  <2>4. first_(i)
    BY <2>2, <2>3
  <2> HIDE DEF first_, T
  <2> QED
    BY <2>4 DEF T
<1> DEFINE at == [i \in 1..depth |-> lev(i)]
<1>7. Spines(n1, n2, h1, h2, right, first)
        = [i \in 1..depth |-> [j \in 0..(SUB_SIZE - 1) |->
            CASE i < depth /\ j = Digit(h1, lev(i))  -> Slot(Spine(first + i))
              [] i = depth /\ j = Digit(h1, lev(i))  -> Slot(n1)
              [] i = depth /\ j = Digit(h2, lev(i))  -> Slot(n2)
              [] OTHER                               -> NullSlot]]
  BY DEF Spines
<1>8. PICK m \in Nat \ {0} : m = depth
  <2> HIDE DEF depth
  <2> QED
    BY <1>6, Sizes
<1>9. lev(m) < KEY_SIZE /\ Digit(h1, lev(m)) # Digit(h2, lev(m)) /\ \A j \in 1..(m - 1) : ~apart(j)
  BY <1>6, <1>8
<1> HIDE DEF depth, lev
<1>10. \A i \in 1..m : lev(i) < KEY_SIZE
  <2> DEFINE Odd == {i \in 1..m : ~(lev(i) < KEY_SIZE)}
             T == {m - i : i \in Odd}
  <2> SUFFICES ASSUME Odd # {} PROVE FALSE
    OBVIOUS
  <2>1. T \subseteq Nat /\ T # {}
    OBVIOUS
  <2>2. PICK n \in T : \A o \in T : n <= o
    <3> HIDE DEF T
    <3> QED
      BY <2>1, LeastNumber
  <2>3. PICK i \in Odd : n = m - i
    BY <2>2
  <2>4. i # m /\ i \in Nat \ {0} /\ i + 1 \in 1..m /\ i + 1 \in Nat \ {0}
    BY <1>9, <2>3
  <2>5. lev(i + 1) < KEY_SIZE
    <3> SUFFICES ASSUME i + 1 \in Odd PROVE FALSE
      BY <2>4
    <3>1. m - (i + 1) \in T
      OBVIOUS
    <3>2. n <= m - (i + 1)
      BY <2>2, <3>1
    <3>3. m \in Nat /\ i \in Nat
      BY <2>4
    <3> QED
      BY <2>3, <3>2, <3>3
  <2>6. lev(i) \in Nat /\ lev(i + 1) \in Nat /\ lev(i) < lev(i + 1)
    BY <1>2, <1>4, <2>4
  <2> QED
    BY <2>3, <2>5, <2>6, Sizes
<1>11. \A i \in 1..m : i < m => Digit(h1, lev(i)) = Digit(h2, lev(i))
  <2> SUFFICES ASSUME NEW i \in 1..m, i < m PROVE Digit(h1, lev(i)) = Digit(h2, lev(i))
    OBVIOUS
  <2>1. i \in 1..(m - 1) /\ lev(i) < KEY_SIZE
    BY <1>10
  <2> QED
    BY <1>9, <2>1
<1>12. at \in [1..m -> Rights] /\ \A i \in 1..m : at[i] = lev(i)
  BY <1>3, <1>8, <1>10
<1>13. lev(1) = right
  <2>1. (1 - 1) * SUB_POW = 0 /\ right \in Nat
    BY Sizes, RightsFacts
  <2> QED
    BY <2>1 DEF lev
<1>14. SpinesAre(Spines(n1, n2, h1, h2, right, first), n1, n2, h1, h2, first, m, at)
  <2>1. ASSUME NEW i \in 1..m, NEW j \in 0..(SUB_SIZE - 1)
        PROVE (CASE i < m /\ j = Digit(h1, lev(i))  -> Slot(Spine(first + i))
                 [] i = m /\ j = Digit(h1, lev(i))  -> Slot(n1)
                 [] i = m /\ j = Digit(h2, lev(i))  -> Slot(n2)
                 [] OTHER                           -> NullSlot)
              = IF j = Digit(h1, at[i])
                THEN IF i < m THEN Slot(Spine(first + i)) ELSE Slot(n1)
                ELSE IF i = m /\ j = Digit(h2, at[i]) THEN Slot(n2)
                ELSE NullSlot
    <3>1. at[i] = lev(i) /\ (i < m \/ i = m) /\ ~(i < m /\ i = m)
      BY <1>12
    <3> HIDE DEF at
    <3> QED
      BY <1>9, <3>1
  <2> HIDE DEF at
  <2> QED
    BY <1>7, <1>8, <2>1 DEF SpinesAre
<1>15. LevelsDown(at, m, h1, h2, right)
  <2>1. at[1] = right
    BY <1>12, <1>13
  <2>2. \A i \in 1..m : at[i] # 0
    BY <1>3, <1>10, <1>12
  <2>3. ASSUME NEW i \in 1..m, i < m
        PROVE  at[i + 1] = NextRight(at[i]) /\ Digit(h1, at[i]) = Digit(h2, at[i])
    <3>1. i + 1 \in 1..m /\ i \in Nat \ {0}
      BY <2>3
    <3>2. at[i + 1] = lev(i + 1) /\ at[i] = lev(i)
      BY <1>12, <3>1
    <3> HIDE DEF at
    <3> QED
      BY <1>4, <1>11, <2>3, <3>1, <3>2
  <2>4. at[m] = lev(m)
    BY <1>12
  <2> HIDE DEF at
  <2> QED
    BY <1>9, <1>12, <2>1, <2>2, <2>3, <2>4 DEF LevelsDown
<1> HIDE DEF at
<1> QED
  BY <1>12, <1>14, <1>15

-----------------------------------------------------------------------------
(* The types.                                                              *)

LEMMA KnownFacts ==
  ASSUME TypeOK, NEW n \in NodeDesc, Known(n)
  PROVE  /\ OpOf(n).key \in Key /\ OpOf(n).type \in OpTypes /\ OpOf(n).value \in Nat
         /\ n.desc # PreDesc => n.desc \in Desc /\ n.opid \in 1..Len(ops[n.desc])
                                /\ OpOf(n) = ops[n.desc][n.opid]
<1>1. CASE n.desc = PreDesc
  <2>1. n.opid \in Key
    BY <1>1, ConstantsAssumption DEF NodeDesc
  <2>2. OpOf(n) = [type |-> "INSERT", key |-> n.opid, value |-> PrefillValue]
    BY <1>1 DEF OpOf
  <2> QED
    BY <1>1, <2>1, <2>2, ConstantsAssumption DEF OpTypes
<1>2. CASE n.desc # PreDesc
  <2>1. n.desc \in Desc /\ n.opid \in Nat /\ n.opid >= 1
    BY <1>2, Sizes DEF NodeDesc
  <2>2. ops[n.desc] \in Seq(Operator) /\ n.opid <= Len(ops[n.desc])
    BY <1>2, <2>1 DEF Known, TypeOK
  <2>3. n.opid \in 1..Len(ops[n.desc])
    BY <2>1, <2>2
  <2>4. ops[n.desc][n.opid] \in Operator
    BY <2>2, <2>3, ElementOfSeq
  <2>5. OpOf(n) = ops[n.desc][n.opid]
    BY <1>2 DEF OpOf
  <2> QED
    BY <1>2, <2>1, <2>3, <2>4, <2>5 DEF Operator
<1> QED
  BY <1>1, <1>2

LEMMA TopFacts ==
  ASSUME TypeOK, NEW t \in Thread, Busy(t)
  PROVE  /\ Top(t) \in Desc /\ Fr(t) \in Frame /\ Fr(t) = fr[t][Top(t)]
         /\ stack[t] \in Seq(Desc) /\ stack[t] # <<>>
<1>1. stack[t] \in Seq(Desc) /\ stack[t] # <<>>
  BY DEF TypeOK, Busy
<1>2. Last(stack[t]) \in Desc
  <2>1. Len(stack[t]) \in 1..Len(stack[t])
    BY <1>1, EmptySeq, LenProperties
  <2> QED
    BY <1>1, <2>1, ElementOfSeq DEF Last
<1> QED
  BY <1>1, <1>2 DEF Top, Fr, TypeOK

LEMMA SpineFacts ==
  ASSUME TypeInv
  PROVE  /\ Len(spine) \in Nat \ {0} /\ DOMAIN spine = 1..Len(spine)
         /\ \A i \in DOMAIN spine :
              /\ DOMAIN spine[i] = 0..(Size(i) - 1)
              /\ \A j \in 0..(Size(i) - 1) : spine[i][j] \in Contents
<1>1. /\ spine \in Seq(Array(1) \union Array(2)) /\ spine # <<>>
      /\ \A i \in DOMAIN spine : spine[i] \in [0..(Size(i) - 1) -> Contents]
  BY DEF TypeInv, SpinesInv
<1>2. Len(spine) \in Nat \ {0} /\ DOMAIN spine = 1..Len(spine)
  BY <1>1, EmptySeq, LenProperties
<1> QED
  BY <1>1, <1>2

-----------------------------------------------------------------------------
(* Where the way of a key ends.                                            *)

\* What the recursion of EndOfRoute says of p.
EndFrom(F, k, p) ==
  LET s    == spine[p[2]][Digit(k, p[1])]
      next == NextRight(p[1])
  IN  IF IsSpine(s.to) /\ next < KEY_SIZE THEN F[<<next, s.to.spine>>] ELSE s

Ends(F, k) == F = [p \in Stations |-> EndFrom(F, k, p)]

LEMMA StationFacts ==
  ASSUME TypeInv, NEW k \in Key, NEW p \in Stations
  PROVE  LET s    == spine[p[2]][Digit(k, p[1])]
             next == NextRight(p[1])
         IN  /\ p[1] \in Rights /\ p[1] \in Nat /\ next \in Nat /\ p[1] < next
             /\ p[2] \in DOMAIN spine /\ s \in Contents
             /\ Digit(k, p[1]) \in DOMAIN spine[p[2]]
             /\ IsSpine(s.to) /\ next < KEY_SIZE => <<next, s.to.spine>> \in Stations
<1>1. PICK r \in Rights, i \in DOMAIN spine : p = <<r, i>> /\ (r = 0 <=> i = 1)
  BY DEF Stations
<1>2. PICK n : n = NextRight(r)
  OBVIOUS
<1>3. /\ r \in Nat /\ n \in Nat /\ r < n /\ r \in Levels
      /\ n < KEY_SIZE => n \in Rights
  BY <1>2, RightsFacts
<1>4. Digit(k, r) \in 0..(Size(i) - 1)
  BY <1>1, <1>3, DigitType DEF Width, Size
<1>5. PICK s \in Contents : s = spine[i][Digit(k, r)]
  BY <1>4, SpineFacts
<1>6. IsSpine(s.to) => s.to.spine \in 2..Len(spine)
  BY SpineFacts, PointerCases DEF Contents, Pointer
<1>7. IsSpine(s.to) /\ n < KEY_SIZE => <<n, s.to.spine>> \in Stations
  <2> SUFFICES ASSUME IsSpine(s.to), n < KEY_SIZE PROVE <<n, s.to.spine>> \in Stations
    OBVIOUS
  <2>1. PICK m : m = s.to.spine
    OBVIOUS
  <2>2. m \in DOMAIN spine /\ m # 1 /\ n # 0 /\ n \in Rights
    BY <1>3, <1>6, <2>1, SpineFacts
  <2> QED
    BY <2>1, <2>2 DEF Stations
<1>8. DOMAIN spine[i] = 0..(Size(i) - 1)
  BY SpineFacts
<1> QED
  BY <1>1, <1>2, <1>3, <1>4, <1>5, <1>7, <1>8

LEMMA EndsExist ==
  ASSUME TypeInv, NEW k \in Key
  PROVE  \E F : Ends(F, k)
<1> DEFINE near(n) == {p \in Stations : KEY_SIZE - p[1] <= n}
           T == {n \in Nat : \E F : \A p \in near(n) : F[p] = EndFrom(F, k, p)}
<1>1. 0 \in T
  <2>1. ASSUME NEW p \in near(0) PROVE FALSE
    <3>1. p[1] \in Nat /\ p[1] < KEY_SIZE /\ KEY_SIZE - p[1] <= 0
      BY StationFacts, RightsFacts
    <3> QED
      BY <3>1, Sizes
  <2> HIDE DEF near
  <2> QED
    BY <2>1
<1>2. ASSUME NEW n \in 0..KEY_SIZE, n < KEY_SIZE /\ n \in T PROVE n + 1 \in T
  <2>1. PICK F : \A p \in near(n) : F[p] = EndFrom(F, k, p)
    BY <1>2
  <2> DEFINE G == [p \in Stations |-> IF p \in near(n) THEN F[p] ELSE EndFrom(F, k, p)]
  <2>2. ASSUME NEW p \in near(n + 1) PROVE G[p] = EndFrom(G, k, p)
    <3>1. p \in Stations /\ G[p] = EndFrom(F, k, p)
      BY <2>1
    <3> DEFINE s    == spine[p[2]][Digit(k, p[1])]
               next == NextRight(p[1])
    <3>2. CASE IsSpine(s.to) /\ next < KEY_SIZE
      <4>1. <<next, s.to.spine>> \in Stations /\ p[1] \in Nat /\ next \in Nat /\ p[1] < next
        BY <3>1, <3>2, StationFacts
      <4>2. KEY_SIZE - p[1] <= n + 1
        OBVIOUS
      <4>3. <<next, s.to.spine>> \in near(n)
        BY <1>2, <4>1, <4>2, Sizes
      <4>4. G[<<next, s.to.spine>>] = F[<<next, s.to.spine>>]
        BY <4>1, <4>3
      <4>5. EndFrom(F, k, p) = F[<<next, s.to.spine>>] /\ EndFrom(G, k, p) = G[<<next, s.to.spine>>]
        BY <3>2 DEF EndFrom
      <4> QED
        BY <3>1, <4>4, <4>5
    <3>3. CASE ~(IsSpine(s.to) /\ next < KEY_SIZE)
      BY <3>1, <3>3 DEF EndFrom
    <3> QED
      BY <3>2, <3>3
  <2>3. n + 1 \in Nat
    BY <1>2
  <2> HIDE DEF G, near
  <2> QED
    BY <2>2, <2>3
<1>3. KEY_SIZE \in T
  <2> HIDE DEF T
  <2> QED
    BY <1>1, <1>2, Sizes, UpTo
<1>4. ASSUME NEW p \in Stations PROVE p \in near(KEY_SIZE)
  <2>1. p[1] \in Nat
    BY StationFacts
  <2> QED
    BY <2>1, Sizes
<1>5. PICK F : \A p \in Stations : F[p] = EndFrom(F, k, p)
  <2> HIDE DEF near
  <2> QED
    BY <1>3, <1>4
<1> DEFINE G == [p \in Stations |-> F[p]]
<1>6. ASSUME NEW p \in Stations PROVE G[p] = EndFrom(G, k, p)
  <2> DEFINE s    == spine[p[2]][Digit(k, p[1])]
             next == NextRight(p[1])
  <2>1. G[p] = EndFrom(F, k, p)
    BY <1>5
  <2>2. CASE IsSpine(s.to) /\ next < KEY_SIZE
    <3>1. <<next, s.to.spine>> \in Stations
      BY <2>2, StationFacts
    <3> QED
      BY <2>1, <2>2, <3>1 DEF EndFrom
  <2>3. CASE ~(IsSpine(s.to) /\ next < KEY_SIZE)
    BY <2>1, <2>3 DEF EndFrom
  <2> QED
    BY <2>2, <2>3
<1>7. G = [p \in Stations |-> G[p]]
  OBVIOUS
<1> HIDE DEF G
<1>8. G = [p \in Stations |-> EndFrom(G, k, p)]
  BY <1>6, <1>7
<1> QED
  BY <1>8 DEF Ends

\* The recursive definition goes by what is in the slots.
LEMMA EndOfRouteIs ==
  ASSUME TypeInv, NEW k \in Key
  PROVE  \E F : Ends(F, k) /\ EndOfRoute(k) = F[<<0, 1>>]
<1> DEFINE G == CHOOSE F : Ends(F, k)
<1>1. Ends(G, k)
  BY EndsExist
<1>2. EndOfRoute(k) = G[<<0, 1>>]
  BY DEF EndOfRoute, Ends, EndFrom
<1> QED
  BY <1>1, <1>2


-----------------------------------------------------------------------------
(* The way of a key goes through every array that the key comes to.        *)

LEMMA PlaceFacts ==
  ASSUME TypeInv, NEW at \in Places, NEW i \in DOMAIN spine
  PROVE  at[i].right \in Rights /\ at[i].right \in Nat /\ at[i].key \in Nat
BY RightsFacts DEF Places

\* A key that comes to an array has come to the one above it, at the slot that
\* leads down.
LEMMA FromAbove ==
  ASSUME TypeInv, NEW at \in Places, TrieInv(at), NEW k,
         NEW i \in DOMAIN spine, i # 1, ComesTo(k, i, at)
  PROVE  \E p \in DOMAIN spine :
           /\ ComesTo(k, p, at) /\ at[i].right = NextRight(at[p].right)
           /\ at[p].right < at[i].right
           /\ spine[p][Digit(k, at[p].right)].to = Spine(i)
<1>0. PICK p \in DOMAIN spine : \E j \in DOMAIN spine[p] : spine[p][j].to = Spine(i)
  BY DEF TrieInv
<1>1. PICK j \in DOMAIN spine[p] : spine[p][j].to = Spine(i)
  BY <1>0
<1>2. i \in Nat
  BY SpineFacts
<1>3. IsSpine(spine[p][j].to) /\ spine[p][j].to.spine = i
  BY <1>1, <1>2, SpinePointer
<1>4. /\ at[i].right = NextRight(at[p].right)
      /\ ComesTo(at[i].key, p, at)
      /\ Digit(at[i].key, at[p].right) = j
  BY <1>3 DEF TrieInv
<1>5. at[p].right \in Rights
  BY PlaceFacts
<1>6. Same(k, at[i].key, at[p].right) /\ Digit(k, at[p].right) = j
  BY <1>4, <1>5, SameNext DEF ComesTo
<1>7. ComesTo(k, p, at)
  BY <1>4, <1>6, SameFacts DEF ComesTo
<1>8. at[p].right < at[i].right
  BY <1>4, <1>5, RightsFacts
<1> QED
  BY <1>1, <1>4, <1>6, <1>7, <1>8

LEMMA RouteEnd ==
  ASSUME TypeInv, NEW at \in Places, TrieInv(at), NEW k \in Key,
         NEW F, Ends(F, k), NEW i \in DOMAIN spine, ComesTo(k, i, at)
  PROVE  F[<<at[i].right, i>>] = F[<<0, 1>>]
<1> DEFINE Odd == {m \in DOMAIN spine : ComesTo(k, m, at) /\ F[<<at[m].right, m>>] # F[<<0, 1>>]}
           T == {at[m].right : m \in Odd}
<1> SUFFICES ASSUME i \in Odd PROVE FALSE
  OBVIOUS
<1>1. T \subseteq Nat /\ T # {}
  BY PlaceFacts
<1>2. PICK r \in T : \A q \in T : r <= q
  <2> HIDE DEF T
  <2> QED
    BY <1>1, LeastNumber
<1>3. PICK m \in Odd : r = at[m].right
  BY <1>2
<1>4. m # 1
  BY <1>3, SpineFacts DEF TrieInv
<1>5. PICK p \in DOMAIN spine :
        /\ ComesTo(k, p, at) /\ at[m].right = NextRight(at[p].right)
        /\ at[p].right < at[m].right
        /\ spine[p][Digit(k, at[p].right)].to = Spine(m)
  BY <1>3, <1>4, FromAbove
<1>6. p \notin Odd
  <2> SUFFICES ASSUME p \in Odd PROVE FALSE
    OBVIOUS
  <2>1. at[p].right \in T
    OBVIOUS
  <2>2. at[p].right \in Nat /\ r \in Nat
    BY <1>1, <1>2, PlaceFacts
  <2>3. at[p].right < r
    BY <1>3, <1>5
  <2>4. r <= at[p].right
    <3> HIDE DEF T
    <3> QED
      BY <1>2, <2>1
  <2> QED
    BY <2>2, <2>3, <2>4
<1>7. F[<<at[p].right, p>>] = F[<<0, 1>>]
  BY <1>5, <1>6
<1>8. <<at[p].right, p>> \in Stations
  BY PlaceFacts DEF Stations, TrieInv
<1>9. m \in Nat /\ at[m].right \in Rights /\ at[m].right < KEY_SIZE
  BY <1>3, PlaceFacts, RightsFacts, SpineFacts
<1>10. IsSpine(spine[p][Digit(k, at[p].right)].to) /\ spine[p][Digit(k, at[p].right)].to.spine = m
  BY <1>5, <1>9, SpinePointer
<1>11. F[<<at[p].right, p>>] = EndFrom(F, k, <<at[p].right, p>>)
  BY <1>8 DEF Ends
<1>12. EndFrom(F, k, <<at[p].right, p>>) = F[<<at[m].right, m>>]
  BY <1>5, <1>9, <1>10 DEF EndFrom
<1> QED
  BY <1>3, <1>7, <1>11, <1>12

LEMMA RouteWell ==
  ASSUME TypeInv, RouteInv
  PROVE  WellRouted
<1> SUFFICES ASSUME NEW i \in DOMAIN spine, NEW j \in DOMAIN spine[i], IsData(spine[i][j].to)
             PROVE  EndOfRoute(KeyOf(spine[i][j].to)) = spine[i][j]
  BY DEF WellRouted, KeyOf
<1>1. PICK at \in Places : TrieInv(at)
  BY DEF RouteInv
<1>2. PICK n \in NodeDesc : n = spine[i][j].to /\ Known(n)
  <2>1. spine[i][j] \in Contents /\ j \in 0..(Size(i) - 1)
    BY SpineFacts
  <2>2. spine[i][j].to \in NodeDesc
    BY <2>1, SpineFacts, PointerCases DEF Contents, Pointer
  <2> QED
    BY <2>1, <2>2 DEF TypeInv, SpinesInv
<1>3. PICK k \in Key : k = KeyOf(n)
  BY <1>2, KnownFacts DEF KeyOf, TypeInv
<1>4. ComesTo(k, i, at) /\ Digit(k, at[i].right) = j
  BY <1>1, <1>2, <1>3 DEF TrieInv
<1>5. PICK F : Ends(F, k) /\ EndOfRoute(k) = F[<<0, 1>>]
  BY EndOfRouteIs
<1>6. F[<<at[i].right, i>>] = F[<<0, 1>>]
  BY <1>1, <1>4, <1>5, RouteEnd
<1>7. <<at[i].right, i>> \in Stations
  BY <1>1, PlaceFacts DEF Stations, TrieInv
<1>8. F[<<at[i].right, i>>] = EndFrom(F, k, <<at[i].right, i>>)
  BY <1>5, <1>7 DEF Ends
<1>9. ~IsSpine(spine[i][j].to)
  BY <1>2, NodePointer
<1>10. EndFrom(F, k, <<at[i].right, i>>) = spine[i][j]
  BY <1>4, <1>9 DEF EndFrom
<1> QED
  BY <1>2, <1>3, <1>5, <1>6, <1>8, <1>10

LEMMA RouteUnmarked ==
  ASSUME TypeInv, RouteInv
  PROVE  NeverMarked
<1>1. PICK at \in Places : TrieInv(at) /\ WaysInv(at)
  BY DEF RouteInv
<1>2. ASSUME NEW t \in Thread, Busy(t) PROVE Fr(t).fails <= 2
  <2>1. Top(t) \in Desc /\ Fr(t) = fr[t][Top(t)]
    BY <1>2, TopFacts DEF TypeInv
  <2>2. InOp(Fr(t)) => Fr(t).fails <= 2
    BY <1>1, <2>1 DEF WaysInv, WayInv
  <2>3. ~InOp(Fr(t)) => Fr(t).fails = 0
    BY <2>1 DEF TypeInv, FramesInv, FrameInv
  <2> QED
    BY <2>2, <2>3
<1> QED
  BY <1>1, <1>2 DEF NeverMarked, TrieInv

-----------------------------------------------------------------------------
(* What every step keeps.                                                  *)

\* A marked slot changes only into a spine, and operations keep their keys.
Grows ==
  /\ \A i \in DOMAIN spine : i \in DOMAIN spine' /\ DOMAIN spine'[i] = DOMAIN spine[i]
  /\ \A i \in DOMAIN spine : \A j \in DOMAIN spine[i] :
       /\ IsSpine(spine[i][j].to) => IsSpine(spine'[i][j].to)
       /\ spine[i][j].mark => spine'[i][j] = spine[i][j] \/ IsSpine(spine'[i][j].to)
  /\ Len(spine) \in Nat /\ Len(spine') \in Nat /\ Len(spine) <= Len(spine')
  /\ \A d \in Desc :
       /\ Len(ops[d]) \in Nat /\ Len(ops'[d]) \in Nat /\ Len(ops[d]) <= Len(ops'[d])
       /\ \A i \in 1..Len(ops[d]) : ops'[d][i].key = ops[d][i].key

\* A node makes room only for a spine.
Routes ==
  \A i \in DOMAIN spine : \A j \in DOMAIN spine[i] :
    LET s == spine[i][j]
        r == spine'[i][j]
    IN  r = s \/ (s.to = Null /\ r.to # Null) \/ IsSpine(r.to)

LEMMA KnownStable ==
  ASSUME TypeInv, Grows, NEW n \in NodeDesc, Known(n)
  PROVE  Known(n)' /\ KeyOf(n)' = KeyOf(n)
<1>1. CASE n.desc = PreDesc
  BY <1>1 DEF Known, KeyOf, OpOf
<1>2. CASE n.desc # PreDesc
  <2>1. n.desc \in Desc /\ n.opid \in 1..Len(ops[n.desc])
    BY <1>2, KnownFacts DEF TypeInv
  <2>2. n.opid \in Nat /\ n.opid <= Len(ops[n.desc]) /\ Len(ops[n.desc]) <= Len(ops'[n.desc])
        /\ Len(ops[n.desc]) \in Nat /\ Len(ops'[n.desc]) \in Nat
    BY <2>1 DEF Grows
  <2> QED
    BY <1>2, <2>1, <2>2 DEF Known, KeyOf, OpOf, Grows
<1> QED
  BY <1>1, <1>2

LEMMA PointerStable ==
  ASSUME TypeInv, Grows
  PROVE  \A p \in Pointer : p \in Pointer'
BY SpineFacts DEF Pointer, Grows

LEMMA CellFacts ==
  ASSUME TypeInv, NEW f \in Frame, NEW k \in Key,
         f.local \in DOMAIN spine, f.right = 0 <=> f.local = 1
  PROVE  /\ Digit(k, f.right) \in DOMAIN spine[f.local]
         /\ spine[f.local][Digit(k, f.right)] \in Contents
         /\ IsData(spine[f.local][Digit(k, f.right)].to) =>
              Known(spine[f.local][Digit(k, f.right)].to)
<1>1. f.right \in Levels
  BY RightsFacts DEF Frame
<1>2. Digit(k, f.right) \in 0..(Size(f.local) - 1)
  BY <1>1, DigitType DEF Width, Size
<1> QED
  BY <1>2, SpineFacts DEF TypeInv, SpinesInv

LEMMA OpInvStable ==
  ASSUME TypeInv, Grows, NEW f \in Frame, NEW o \in Operator, NEW q, q.key = o.key, OpInv(f, o)
  PROVE  OpInv(f, q)'
<1>1. f.local \in DOMAIN spine /\ f.local \in DOMAIN spine' /\ (f.right = 0 <=> f.local = 1)
  BY DEF OpInv, Grows
<1>2. f.node.to \in Pointer /\ f.node.to \in Pointer'
  BY PointerStable DEF OpInv
<1>3. IsData(f.node.to) => /\ f.node.to \in NodeDesc /\ Known(f.node.to) /\ Known(f.node.to)'
                           /\ KeyOf(f.node.to)' = KeyOf(f.node.to)
  <2> SUFFICES ASSUME IsData(f.node.to)
               PROVE  /\ f.node.to \in NodeDesc /\ Known(f.node.to) /\ Known(f.node.to)'
                      /\ KeyOf(f.node.to)' = KeyOf(f.node.to)
    OBVIOUS
  <2>1. f.node.to \in NodeDesc /\ Known(f.node.to)
    BY <1>2, SpineFacts, PointerCases DEF Pointer, OpInv
  <2> QED
    BY <2>1, KnownStable
<1>4. HasOld(f) => f.old # Null /\ Known(f.old)'
  <2> SUFFICES ASSUME HasOld(f) PROVE f.old # Null /\ Known(f.old)'
    OBVIOUS
  <2>1. f.old # Null /\ Known(f.old) /\ f.old \in NodeDesc
    BY DEF OpInv, Frame
  <2> QED
    BY <2>1, KnownStable
<1>5. HasCurr(f) => f.curr # Null /\ Known(f.curr)'
  <2> SUFFICES ASSUME HasCurr(f) PROVE f.curr # Null /\ Known(f.curr)'
    OBVIOUS
  <2>1. f.curr # Null /\ Known(f.curr) /\ f.curr \in NodeDesc
    BY DEF OpInv, Frame
  <2> QED
    BY <2>1, KnownStable
<1>6. f.pc \in {"mark", "expand"} /\ f.node.mark =>
        spine'[f.local][Digit(q.key, f.right)] = f.node
          \/ IsSpine(spine'[f.local][Digit(q.key, f.right)].to)
  <2>1. o.key \in Key /\ Digit(o.key, f.right) \in DOMAIN spine[f.local]
    BY <1>1, CellFacts DEF Operator
  <2>2. PICK j : j = Digit(o.key, f.right)
    OBVIOUS
  <2>3. f.pc \in {"mark", "expand"} /\ f.node.mark =>
          spine[f.local][j] = f.node \/ IsSpine(spine[f.local][j].to)
    BY <2>2 DEF OpInv, Cell
  <2>4. /\ IsSpine(spine[f.local][j].to) => IsSpine(spine'[f.local][j].to)
        /\ spine[f.local][j].mark => spine'[f.local][j] = spine[f.local][j]
                                       \/ IsSpine(spine'[f.local][j].to)
    BY <1>1, <2>1, <2>2 DEF Grows
  <2>5. Digit(q.key, f.right) = j
    BY <2>2
  <2> QED
    BY <2>3, <2>4, <2>5
<1>7. /\ HasNode(f) => IsData(f.node.to)
      /\ f.pc = "place" => f.node = NullSlot
      /\ f.pc = "split" => IsData(f.node.to) /\ ~f.node.mark /\ KeyOf(f.node.to) # o.key
      /\ f.pc = "expand" => f.node.mark
  BY DEF OpInv, KeyOf
<1> QED
  BY <1>1, <1>2, <1>3, <1>4, <1>5, <1>6, <1>7 DEF OpInv, Cell, KeyOf

LEMMA OpFacts ==
  ASSUME TypeOK, NEW d \in Desc, NEW i \in 1..(MaxOps + 1), i <= Len(ops[d])
  PROVE  ops[d][i] \in Operator /\ i \in 1..MaxOps /\ i \in 1..Len(ops[d])
<1>1. ops[d] \in Seq(Operator) /\ Len(ops[d]) <= MaxOps /\ Len(ops[d]) \in Nat /\ MaxOps \in Nat
  BY Sizes, LenProperties DEF TypeOK
<1>2. i \in 1..Len(ops[d]) /\ i \in 1..MaxOps
  BY <1>1
<1> QED
  BY <1>1, <1>2, ElementOfSeq

LEMMA FrameInvStable ==
  ASSUME TypeInv, Grows, NEW f \in Frame, NEW d \in Desc, FrameInv(f, d)
  PROVE  FrameInv(f, d)'
<1>1. CASE InOp(f)
  <2>1. f.opid <= Len(ops[d]) /\ OpInv(f, ops[d][f.opid]) /\ f.opid \in 1..(MaxOps + 1)
    BY <1>1 DEF FrameInv, Frame
  <2>2. PICK o \in Operator : o = ops[d][f.opid] /\ f.opid \in 1..Len(ops[d])
    BY <2>1, OpFacts DEF TypeInv
  <2>3. PICK q : q = ops'[d][f.opid]
    OBVIOUS
  <2>4. q.key = o.key
    BY <2>2, <2>3 DEF Grows
  <2>5. OpInv(f, q)'
    BY <2>1, <2>2, <2>4, OpInvStable
  <2>6. f.opid <= Len(ops'[d])
    BY <2>1, <2>2 DEF Grows
  <2> QED
    BY <1>1, <2>3, <2>5, <2>6 DEF FrameInv
<1>2. CASE ~InOp(f)
  BY <1>2 DEF FrameInv
<1> QED
  BY <1>1, <1>2

LEMMA WayStable ==
  ASSUME TypeInv, Grows, Routes, NEW f \in Frame, NEW o \in Operator, NEW q, q.key = o.key,
         OpInv(f, o), NEW at, NEW at2, at2[f.local] = at[f.local], WayInv(f, o, at)
  PROVE  WayInv(f, q, at2)'
<1>1. PICK i, j : i = f.local /\ j = Digit(o.key, f.right)
  OBVIOUS
<1>2. i \in DOMAIN spine /\ j \in DOMAIN spine[i]
  BY <1>1, CellFacts DEF OpInv, Operator
<1>3. PICK s, r : s = spine[i][j] /\ r = spine'[i][j]
  OBVIOUS
<1>4. r = s \/ (s.to = Null /\ r.to # Null) \/ IsSpine(r.to)
  BY <1>2, <1>3 DEF Routes
<1>5. IsSpine(s.to) => IsSpine(r.to)
  BY <1>2, <1>3 DEF Grows
<1>6. Cell(f, o) = s /\ spine'[f.local][Digit(q.key, f.right)] = r
  BY <1>1, <1>3 DEF Cell
<1>7. IsSpine(r.to) => r.to # Null
  BY NullPointer
<1>8. at2[f.local].right = f.right /\ ComesTo(q.key, f.local, at2)
      /\ f.pc \notin {"mark", "expand"} /\ f.fails <= 2 /\ (f.pc = "place" => f.fails = 0)
  BY DEF WayInv, ComesTo
<1>9. (f.fails >= 1 => r.to # Null) /\ (f.fails >= 2 => IsSpine(r.to))
  BY <1>4, <1>5, <1>6, <1>7 DEF WayInv
<1>10. ASSUME f.pc = "split"
       PROVE  /\ f.fails <= 1 /\ (r = f.node \/ IsSpine(r.to))
              /\ Same(KeyOf(f.node.to)', q.key, NextRight(f.right))
  <2>1. IsData(f.node.to) /\ f.node.to # Null
    BY <1>10, NullPointer DEF OpInv
  <2>2. f.node.to \in NodeDesc /\ Known(f.node.to)
    BY <2>1, SpineFacts, PointerCases DEF OpInv, Pointer
  <2>3. KeyOf(f.node.to)' = KeyOf(f.node.to)
    BY <2>2, KnownStable
  <2>4. s = f.node \/ IsSpine(s.to)
    BY <1>6, <1>10 DEF WayInv
  <2> QED
    BY <1>4, <1>5, <1>10, <2>1, <2>3, <2>4 DEF WayInv
<1> QED
  BY <1>6, <1>8, <1>9, <1>10 DEF WayInv, Cell, ComesTo

\* The frame of a call for descriptor d is on the way that at tells.
OnWay(f, d, at) == InOp(f) => WayInv(f, ops[d][f.opid], at)

LEMMA OnWayStable ==
  ASSUME TypeInv, Grows, Routes, NEW f \in Frame, NEW d \in Desc, FrameInv(f, d),
         NEW at, NEW at2, \A i \in DOMAIN spine : at2[i] = at[i], OnWay(f, d, at)
  PROVE  OnWay(f, d, at2)'
<1> SUFFICES ASSUME InOp(f) PROVE WayInv(f, ops[d][f.opid], at2)'
  BY DEF OnWay
<1>1. f.opid <= Len(ops[d]) /\ OpInv(f, ops[d][f.opid]) /\ f.opid \in 1..(MaxOps + 1)
  BY DEF FrameInv, Frame
<1>2. PICK o \in Operator : o = ops[d][f.opid] /\ f.opid \in 1..Len(ops[d])
  BY <1>1, OpFacts DEF TypeInv
<1>3. PICK q : q = ops'[d][f.opid]
  OBVIOUS
<1>4. q.key = o.key
  BY <1>2, <1>3 DEF Grows
<1>5. f.local \in DOMAIN spine /\ at2[f.local] = at[f.local]
  BY <1>1 DEF OpInv
<1>6. WayInv(f, o, at)
  BY <1>2 DEF OnWay
<1>7. OpInv(f, o)
  BY <1>1, <1>2
<1>8. WayInv(f, q, at2)'
  BY <1>2, <1>4, <1>5, <1>6, <1>7, WayStable
<1> QED
  BY <1>3, <1>8

-----------------------------------------------------------------------------
(* Steps.                                                                  *)

LEMMA TypeKept ==
  ASSUME TypeInv, Grows, TypeOK', SpinesInv', DescInv', PreInv',
         \A u \in Thread, e \in Desc : fr'[u][e] = fr[u][e] \/ FrameInv(fr[u][e], e)'
  PROVE  TypeInv'
<1>1. ASSUME NEW u \in Thread, NEW e \in Desc PROVE FrameInv(fr[u][e], e)'
  <2>1. CASE fr'[u][e] = fr[u][e]
    <3>1. PICK g \in Frame : g = fr[u][e]
      BY DEF TypeInv, TypeOK
    <3>2. FrameInv(g, e)
      BY <3>1 DEF TypeInv, FramesInv
    <3>3. FrameInv(g, e)'
      BY <3>2, FrameInvStable
    <3>4. fr'[u][e] = g
      BY <2>1, <3>1
    <3> QED
      BY <3>3, <3>4
  <2> QED
    BY <2>1
<1> QED
  BY <1>1 DEF TypeInv, FramesInv

LEMMA RouteKept ==
  ASSUME TypeInv, Grows, Routes, NEW at, WaysInv(at), NEW at2 \in Places', TrieInv(at2)',
         \A i \in DOMAIN spine : at2[i] = at[i],
         \A u \in Thread, e \in Desc : fr'[u][e] = fr[u][e] \/ OnWay(fr[u][e], e, at2)'
  PROVE  RouteInv'
<1>1. ASSUME NEW u \in Thread, NEW e \in Desc PROVE OnWay(fr[u][e], e, at2)'
  <2>1. CASE fr'[u][e] = fr[u][e]
    <3>1. PICK g \in Frame : g = fr[u][e]
      BY DEF TypeInv, TypeOK
    <3>2. FrameInv(g, e) /\ OnWay(g, e, at)
      BY <3>1 DEF TypeInv, FramesInv, WaysInv, OnWay
    <3>3. OnWay(g, e, at2)'
      BY <3>2, OnWayStable
    <3>4. fr'[u][e] = g
      BY <2>1, <3>1
    <3> QED
      BY <3>3, <3>4
  <2> QED
    BY <2>1
<1>2. WaysInv(at2)'
  BY <1>1 DEF WaysInv, OnWay
<1> QED
  BY <1>2 DEF RouteInv

\* The operation of the frame has to start again in an array of later bits.
Lost(f, g) ==
  f.pc \in {"update", "swap"} /\ f.right > MAIN_POW /\ g.pc = "slot" /\ g.right = MAIN_POW

\* Frame g may follow frame f in the call for descriptor d.
Good(f, g, d) ==
  /\ g \in Frame /\ FrameInv(g, d)
  /\ Patient /\ ~Lost(f, g) =>
       \A at \in Places : TrieInv(at) /\ OnWay(f, d, at) => OnWay(g, d, at)

\* What a step of t has to keep.
Kept(t) == TypeInv' /\ (Patient /\ RouteInv /\ ~LosesItsWay(t) => RouteInv')

LEMMA GrowsSame ==
  ASSUME TypeInv, UNCHANGED <<spine, ops>>
  PROVE  Grows /\ Routes
<1>1. \A d \in Desc : Len(ops[d]) \in Nat
  BY LenProperties DEF TypeInv, TypeOK
<1> QED
  BY <1>1, SpineFacts DEF Grows, Routes

LEMMA GrowsOps ==
  ASSUME TypeInv, UNCHANGED spine,
         \A d \in Desc : /\ Len(ops[d]) \in Nat /\ Len(ops'[d]) \in Nat /\ Len(ops[d]) <= Len(ops'[d])
                         /\ \A i \in 1..Len(ops[d]) : ops'[d][i].key = ops[d][i].key
  PROVE  Grows /\ Routes
BY SpineFacts DEF Grows, Routes

LEMMA DescStable ==
  ASSUME TypeInv, Grows, UNCHANGED nd
  PROVE  DescInv'
<1> SUFFICES ASSUME NEW n \in NodeDesc PROVE (nd[n] = n \/ Known(nd[n]))'
  BY DEF DescInv
<1>1. PICK c \in NodeDesc : c = nd[n]
  BY DEF TypeInv, TypeOK
<1>2. c = n \/ Known(c)
  BY <1>1 DEF TypeInv, DescInv
<1>3. c = n \/ Known(c)'
  BY <1>2, KnownStable
<1>4. nd'[n] = c
  BY <1>1
<1> QED
  BY <1>3, <1>4

LEMMA DescTaken ==
  ASSUME TypeInv, Grows, NEW n, NEW m \in NodeDesc, Known(m), nd' = [nd EXCEPT ![n] = m]
  PROVE  DescInv'
<1> SUFFICES ASSUME NEW x \in NodeDesc PROVE (nd[x] = x \/ Known(nd[x]))'
  BY DEF DescInv
<1>1. PICK c \in NodeDesc : c = nd[x]
  BY DEF TypeInv, TypeOK
<1>2. c = x \/ Known(c)'
  BY <1>1, KnownStable DEF TypeInv, DescInv
<1>3. Known(m)'
  BY KnownStable
<1>4. PICK e : e = nd'[x] /\ (e = c \/ e = m)
  BY <1>1 DEF TypeInv, TypeOK
<1>5. e = x \/ Known(e)'
  BY <1>2, <1>3, <1>4
<1> QED
  BY <1>4, <1>5

LEMMA SpinesStable ==
  ASSUME TypeInv, Grows, UNCHANGED spine
  PROVE  SpinesInv'
<1> SUFFICES ASSUME NEW i \in DOMAIN spine, NEW j \in 0..(Size(i) - 1), IsData(spine[i][j].to)
             PROVE  Known(spine[i][j].to)'
  BY DEF TypeInv, SpinesInv, Contents, Pointer
<1>1. spine[i][j].to \in NodeDesc
  BY SpineFacts, PointerCases DEF Contents, Pointer
<1>2. Known(spine[i][j].to)
  BY DEF TypeInv, SpinesInv
<1> QED
  BY <1>1, <1>2, KnownStable

LEMMA TrieStable ==
  ASSUME TypeInv, Grows, UNCHANGED spine, NEW at, TrieInv(at)
  PROVE  TrieInv(at)'
<1>1. ASSUME NEW i \in DOMAIN spine, NEW j \in DOMAIN spine[i], IsData(spine[i][j].to)
      PROVE  KeyOf(spine[i][j].to)' = KeyOf(spine[i][j].to)
  <2>1. j \in 0..(Size(i) - 1)
    BY SpineFacts
  <2>2. spine[i][j].to \in NodeDesc
    BY <1>1, <2>1, SpineFacts, PointerCases DEF Contents, Pointer
  <2>3. Known(spine[i][j].to)
    BY <1>1, <2>1 DEF TypeInv, SpinesInv
  <2> QED
    BY <2>2, <2>3, KnownStable
<1> QED
  BY <1>1 DEF TrieInv, ComesTo

LEMMA FrameSet ==
  ASSUME TypeInv, NEW t \in Thread, Busy(t), NEW g \in Frame, SetFrame(t, g)
  PROVE  /\ fr' \in [Thread -> [Desc -> Frame]] /\ fr'[t][Top(t)] = g
         /\ \A u \in Thread, e \in Desc : u # t \/ e # Top(t) => fr'[u][e] = fr[u][e]
BY TopFacts DEF TypeInv, TypeOK, SetFrame

\* A step within the call of t, with the slots as they are.
LEMMA CallKept ==
  ASSUME TypeInv, NEW t \in Thread, Busy(t), NEW g, Good(Fr(t), g, Top(t)), SetFrame(t, g),
         UNCHANGED spine, Grows, UNCHANGED stack \/ Fr(t).pc \notin {"update", "swap"},
         /\ nd' \in [NodeDesc -> NodeDesc]
         /\ value' \in [NodeDesc -> Nat]
         /\ ops' \in [Desc -> Seq(Operator)]
         /\ \A d \in Desc : Len(ops'[d]) <= MaxOps
         /\ status' \in [AllDesc -> {"ACTIVE", "COMMITTED", "ABORTED"}]
         /\ pstatus' \in [AllDesc -> {"MAYBE", "IN_PROGRESS", "PERSISTED"}]
         /\ stack' \in [Thread -> Seq(Desc)],
         DescInv', PreInv'
  PROVE  Kept(t)
<1>1. PICK d \in Desc : d = Top(t)
  BY TopFacts DEF TypeInv
<1>2. PICK f \in Frame : f = Fr(t) /\ f = fr[t][d]
  BY <1>1, TopFacts DEF TypeInv
<1>3. g \in Frame /\ FrameInv(g, d)
  BY <1>1 DEF Good
<1>4. /\ fr' \in [Thread -> [Desc -> Frame]] /\ fr'[t][d] = g
      /\ \A u \in Thread, e \in Desc : u # t \/ e # d => fr'[u][e] = fr[u][e]
  BY <1>1, <1>3, FrameSet
<1>5. FrameInv(g, d)'
  BY <1>3, FrameInvStable
<1>6. TypeInv'
  <2>1. TypeOK'
    BY <1>4 DEF TypeInv, TypeOK
  <2>2. SpinesInv'
    BY SpinesStable
  <2>3. \A u \in Thread, e \in Desc : fr'[u][e] = fr[u][e] \/ FrameInv(fr[u][e], e)'
    BY <1>4, <1>5
  <2> QED
    BY <2>1, <2>2, <2>3, TypeKept
<1>7. ASSUME Patient, RouteInv, ~LosesItsWay(t) PROVE RouteInv'
  <2>1. Routes
    BY DEF Routes
  <2>2. PICK at \in Places : TrieInv(at) /\ WaysInv(at)
    BY <1>7 DEF RouteInv
  <2>3. OnWay(f, d, at)
    BY <1>2, <2>2 DEF WaysInv, OnWay
  <2>4. ~Lost(f, g)
    <3>1. CASE f.pc \notin {"update", "swap"}
      BY <3>1 DEF Lost
    <3>2. CASE UNCHANGED stack
      <4>1. Fr(t)' = g
        BY <1>1, <1>4, <3>2 DEF Fr, Top
      <4> QED
        BY <1>2, <1>7, <4>1 DEF Lost, LosesItsWay
    <3> QED
      BY <1>2, <3>1, <3>2
  <2>5. OnWay(g, d, at)
    BY <1>1, <1>2, <1>7, <2>2, <2>3, <2>4 DEF Good
  <2>6. OnWay(g, d, at)'
    BY <1>3, <2>1, <2>5, OnWayStable
  <2>7. at \in Places' /\ TrieInv(at)'
    BY <2>2, TrieStable DEF Places
  <2>8. \A u \in Thread, e \in Desc : fr'[u][e] = fr[u][e] \/ OnWay(fr[u][e], e, at)'
    BY <1>4, <2>6
  <2> QED
    BY <2>1, <2>2, <2>7, <2>8, RouteKept
<1> QED
  BY <1>6, <1>7 DEF Kept

\* A step that changes nothing but its frame, or what no other frame depends on.
LEMMA LocalKept ==
  ASSUME TypeInv, NEW t \in Thread, Busy(t), NEW g, Good(Fr(t), g, Top(t)), SetFrame(t, g),
         UNCHANGED <<spine, nd, txn, stack>>, value' \in [NodeDesc -> Nat]
  PROVE  Kept(t)
<1>1. UNCHANGED <<spine, ops>> /\ UNCHANGED <<nd, status, pstatus, stack>>
  BY DEF txn
<1>2. Grows
  BY <1>1, GrowsSame
<1>3. DescInv' /\ PreInv'
  BY <1>1, <1>2, DescStable DEF TypeInv, PreInv
<1> QED
  BY <1>1, <1>2, <1>3, CallKept DEF TypeInv, TypeOK

LEMMA QuietKept ==
  ASSUME TypeInv, NEW t \in Thread, Busy(t), NEW g, Good(Fr(t), g, Top(t)), SetFrame(t, g),
         UNCHANGED <<heap, txn, stack>>
  PROVE  Kept(t)
<1>1. UNCHANGED <<spine, nd, txn, stack>> /\ value' \in [NodeDesc -> Nat]
  BY DEF heap, TypeInv, TypeOK
<1> QED
  BY <1>1, LocalKept

-----------------------------------------------------------------------------
(* Frames that are as they should be.                                      *)

OpLabels == Labels \ {"loop", "decide", "claim", "persisted"}

\* Frame f runs operation o of descriptor d.
Runs(f, o, d) ==
  /\ f \in Frame /\ d \in Desc /\ o \in Operator /\ o = ops[d][f.opid]
  /\ f.opid \in 1..MaxOps /\ f.opid <= Len(ops[d])
  /\ InOp(f) /\ f.local \in DOMAIN spine /\ (f.right = 0 <=> f.local = 1)

LEMMA Running ==
  ASSUME TypeInv, NEW t \in Thread, NEW p \in OpLabels, At(t, p)
  PROVE  /\ Busy(t) /\ Top(t) \in Desc /\ Fr(t).pc = p /\ Fr(t).back = "return"
         /\ Runs(Fr(t), Op(t), Top(t)) /\ OpInv(Fr(t), Op(t)) /\ FrameInv(Fr(t), Top(t))
         /\ Op(t).key \in Key
         /\ Mine(t) \in NodeDesc /\ Known(Mine(t)) /\ KeyOf(Mine(t)) = Op(t).key
<1>1. Busy(t) /\ Fr(t).pc = p
  BY DEF At
<1>2. Top(t) \in Desc /\ Fr(t) \in Frame /\ FrameInv(Fr(t), Top(t))
  BY <1>1, TopFacts DEF TypeInv, FramesInv
<1>3. InOp(Fr(t)) /\ Fr(t).back = "return"
  BY <1>1, <1>2 DEF InOp, OpLabels, FrameInv, Frame
<1>4. Fr(t).opid <= Len(ops[Top(t)]) /\ OpInv(Fr(t), Op(t)) /\ Fr(t).opid \in 1..(MaxOps + 1)
  BY <1>2, <1>3 DEF FrameInv, Op, Frame
<1>5. Op(t) \in Operator /\ Fr(t).opid \in 1..MaxOps
  BY <1>2, <1>4, OpFacts DEF Op, TypeInv
<1>6. Runs(Fr(t), Op(t), Top(t))
  BY <1>2, <1>3, <1>4, <1>5 DEF Runs, Op, OpInv
<1>7. Mine(t) \in NodeDesc /\ Known(Mine(t)) /\ KeyOf(Mine(t)) = Op(t).key
  <2>1. Top(t) # PreDesc
    BY <1>2, ConstantsAssumption
  <2> QED
    BY <1>2, <1>4, <1>5, <2>1 DEF Mine, NodeDesc, Known, KeyOf, OpOf, Op
<1> QED
  BY <1>1, <1>2, <1>3, <1>4, <1>5, <1>6, <1>7 DEF Operator

LEMMA NewFrameFacts ==
  ASSUME NEW i \in 1..(MaxOps + 1)
  PROVE  /\ NewFrame(i) \in Frame /\ ~InOp(NewFrame(i))
         /\ NewFrame(i).local = 1 /\ NewFrame(i).right = 0 /\ NewFrame(i).node = NullSlot
         /\ NewFrame(i).fails = 0 /\ NewFrame(i).pc = "loop" /\ NewFrame(i).back = "return"
<1>1. NullSlot \in [to : NodeDesc \union {Null} \union [spine : Nat], mark : BOOLEAN]
  BY DEF NullSlot, Slot
<1>2. NewFrame(i) \in Frame
  BY <1>1, RightsFacts DEF NewFrame, Frame, Labels
<1> QED
  BY <1>2 DEF NewFrame, InOp

\* A frame that runs no operation.
LEMMA LooseGood ==
  ASSUME NEW f, NEW g \in Frame, NEW d, ~InOp(g), g.local = 1, g.right = 0,
         g.node = NullSlot, g.fails = 0
  PROVE  Good(f, g, d)
BY DEF Good, FrameInv, OnWay, InOp

LEMMA NewFrameGood ==
  ASSUME NEW f, NEW d, NEW i \in 1..(MaxOps + 1)
  PROVE  Good(f, NewFrame(i), d)
BY NewFrameFacts, LooseGood

LEMMA FinishedGood ==
  ASSUME NEW f, NEW d, NEW r \in BOOLEAN, f.opid \in 1..MaxOps
  PROVE  Good(f, Finished(f, r), d)
<1>1. PICK i \in 1..(MaxOps + 1) : i = f.opid + 1
  BY Sizes
<1>2. NewFrame(i) \in Frame /\ ~InOp(NewFrame(i))
      /\ NewFrame(i).local = 1 /\ NewFrame(i).right = 0 /\ NewFrame(i).node = NullSlot
      /\ NewFrame(i).fails = 0 /\ NewFrame(i).pc = "loop" /\ NewFrame(i).back = "return"
  BY NewFrameFacts
<1>3. PICK h \in Frame : h = NewFrame(i)
  BY <1>2
<1>4. PICK g : g = [h EXCEPT !.ret = r]
  OBVIOUS
<1>5. g \in Frame /\ g.pc = h.pc /\ g.back = h.back /\ g.local = h.local /\ g.right = h.right
      /\ g.node = h.node /\ g.fails = h.fails
  BY <1>4 DEF Frame
<1>6. Finished(f, r) = g
  BY <1>1, <1>3, <1>4 DEF Finished
<1>7. ~InOp(g)
  BY <1>2, <1>3, <1>5 DEF InOp
<1> QED
  BY <1>2, <1>3, <1>5, <1>6, <1>7, LooseGood

\* A frame that stays at its slot.
LEMMA StayGood ==
  ASSUME TypeInv, NEW f, NEW o, NEW d, Runs(f, o, d), OpInv(f, o), NEW g \in Frame,
         g.opid = f.opid /\ g.local = f.local /\ g.right = f.right,
         g.node = f.node /\ g.fails = f.fails,
         g.pc \in OpLabels \ {"mark", "expand", "place", "split"}, g.back = "return",
         HasNode(g) => IsData(g.node.to),
         HasOld(g) => g.old # Null /\ Known(g.old),
         HasCurr(g) => g.curr # Null /\ Known(g.curr)
  PROVE  Good(f, g, d)
<1>1. InOp(g)
  BY DEF InOp, OpLabels
<1>2. OpInv(g, o)
  BY DEF OpInv, Runs, OpLabels, Labels
<1>3. FrameInv(g, d)
  BY <1>1, <1>2 DEF FrameInv, Runs, OpLabels
<1>4. ASSUME NEW at, OnWay(f, d, at) PROVE OnWay(g, d, at)
  <2>1. WayInv(f, o, at)
    BY <1>4 DEF OnWay, Runs
  <2>2. WayInv(g, o, at)
    BY <2>1 DEF WayInv, Cell
  <2> QED
    BY <2>2 DEF OnWay, Runs
<1> QED
  BY <1>3, <1>4 DEF Good

-----------------------------------------------------------------------------
(* Frames on the way down.                                                 *)

\* A frame that looks at a slot.
AtSlot(f, o, d) ==
  /\ Runs(f, o, d) /\ f.back = "return" /\ f.pc \in OpLabels
  /\ f.node.to \in Pointer /\ f.node.mark \in BOOLEAN
  /\ IsData(f.node.to) => Known(f.node.to)

\* Its part of the way.
SlotWay(f, o, at) ==
  /\ at[f.local].right = f.right
  /\ ComesTo(o.key, f.local, at)
  /\ f.fails <= 2
  /\ f.fails >= 1 => Cell(f, o).to # Null
  /\ f.fails >= 2 => IsSpine(Cell(f, o).to)

LEMMA NullSlotIs ==
  ASSUME NEW f \in Frame, f.node.to = Null, ~f.node.mark
  PROVE  f.node = NullSlot
BY DEF Frame, NullSlot, Slot

\* The slot leads down for the keys that come to it and have its bits.
LEMMA LeadsDown ==
  ASSUME TypeInv, NEW at \in Places, TrieInv(at), NEW p \in DOMAIN spine, NEW k, ComesTo(k, p, at),
         NEW j \in DOMAIN spine[p], Digit(k, at[p].right) = j,
         NEW i \in 2..Len(spine), spine[p][j].to = Spine(i)
  PROVE  at[i].right = NextRight(at[p].right) /\ ComesTo(k, i, at)
<1>1. IsSpine(spine[p][j].to) /\ spine[p][j].to.spine = i
  BY SpinePointer
<1>2. /\ at[i].right = NextRight(at[p].right)
      /\ ComesTo(at[i].key, p, at)
      /\ Digit(at[i].key, at[p].right) = j
  BY <1>1 DEF TrieInv
<1>3. at[p].right \in Rights
  BY PlaceFacts
<1>4. Same(k, at[i].key, at[p].right)
  BY <1>2, SameFacts DEF ComesTo
<1> QED
  BY <1>2, <1>3, <1>4, SameNext DEF ComesTo

\* An operation that is over.
LEMMA FinishedFacts ==
  ASSUME NEW f, NEW r \in BOOLEAN, f.opid \in 1..MaxOps, NEW g, g = Finished(f, r)
  PROVE  /\ g \in Frame /\ ~InOp(g) /\ g.local = 1 /\ g.right = 0 /\ g.node = NullSlot
         /\ g.fails = 0 /\ g.back = "return"
<1>1. PICK i \in 1..(MaxOps + 1) : i = f.opid + 1
  BY Sizes
<1>2. PICK e \in Frame : /\ e = NewFrame(i) /\ ~InOp(e) /\ e.local = 1 /\ e.right = 0
                         /\ e.node = NullSlot /\ e.fails = 0 /\ e.back = "return"
  BY NewFrameFacts
<1>3. g = [e EXCEPT !.ret = r]
  BY <1>1, <1>2 DEF Finished
<1> QED
  BY <1>2, <1>3 DEF InOp, Frame

\* The frame goes on in array i, or it ends, or it is lost.
LEMMA DescendCases ==
  ASSUME NEW f \in Frame, NEW o \in Operator, f.opid \in 1..MaxOps, f.back = "return",
         NEW i \in Nat \ {0}, NEW g, g = Descend(f, o, i)
  PROVE  /\ g \in Frame /\ g.back = "return"
         /\ \/ /\ g.pc = "slot" /\ g.local = i /\ g.right = NextRight(f.right) /\ g.right # 0
               /\ g.fails = 0 /\ g.opid = f.opid /\ g.node = f.node
            \/ ~InOp(g) /\ g.local = 1 /\ g.right = 0 /\ g.node = NullSlot /\ g.fails = 0
            \/ /\ g.pc = "wild" /\ g.local = f.local /\ g.right = f.right
               /\ g.fails = f.fails /\ g.opid = f.opid /\ g.node = f.node
<1> DEFINE h == [f EXCEPT !.pc = "slot", !.local = i, !.right = NextRight(@), !.fails = 0]
<1>1. f.right \in Rights /\ o.type \in OpTypes
  BY DEF Frame, Operator
<1>2. /\ NextRight(f.right) \in Nat /\ NextRight(f.right) > f.right /\ f.right \in Nat
      /\ NextRight(f.right) < KEY_SIZE => NextRight(f.right) \in Rights
  BY <1>1, RightsFacts
<1>0. /\ h.right = NextRight(f.right)
      /\ g = CASE h.right < KEY_SIZE                                       -> h
                [] h.right >= KEY_SIZE /\ o.type \in {"INSERT", "DELETE"}  -> Finished(f, FALSE)
                [] h.right >= KEY_SIZE /\ o.type \in {"UPDATE", "FIND"}    -> Wild(f)
  BY <1>1 DEF Descend, Frame
<1>3. CASE NextRight(f.right) < KEY_SIZE
  <2>1. g = h
    <3>1. h.right < KEY_SIZE /\ ~(h.right >= KEY_SIZE)
      BY <1>0, <1>2, <1>3, Sizes
    <3> HIDE DEF h
    <3> QED
      BY <1>0, <3>1
  <2>2. /\ h \in Frame /\ h.pc = "slot" /\ h.local = i /\ h.right = NextRight(f.right)
        /\ h.fails = 0 /\ h.opid = f.opid /\ h.back = "return" /\ h.node = f.node
    BY <1>1, <1>2, <1>3 DEF Frame, Labels
  <2> HIDE DEF h
  <2> QED
    BY <1>2, <2>1, <2>2
<1>4. CASE ~(NextRight(f.right) < KEY_SIZE) /\ o.type \in {"INSERT", "DELETE"}
  <2>1. g = Finished(f, FALSE)
    <3>1. ~(h.right < KEY_SIZE) /\ h.right >= KEY_SIZE
      BY <1>0, <1>2, <1>4, Sizes
    <3>2. ~(o.type \in {"UPDATE", "FIND"})
      BY <1>4
    <3> HIDE DEF h
    <3> QED
      BY <1>0, <1>4, <3>1, <3>2
  <2> QED
    BY <2>1, FinishedFacts
<1>5. CASE ~(NextRight(f.right) < KEY_SIZE) /\ o.type \in {"UPDATE", "FIND"}
  <2>1. g = Wild(f)
    <3>1. ~(h.right < KEY_SIZE) /\ h.right >= KEY_SIZE
      BY <1>0, <1>2, <1>5, Sizes
    <3>2. ~(o.type \in {"INSERT", "DELETE"})
      BY <1>5
    <3> HIDE DEF h
    <3> QED
      BY <1>0, <1>5, <3>1, <3>2
  <2> QED
    BY <2>1 DEF Wild, Frame, Labels
<1> QED
  BY <1>1, <1>3, <1>4, <1>5 DEF OpTypes

LEMMA DescendGood ==
  ASSUME TypeInv, NEW f, NEW o, NEW d, AtSlot(f, o, d), NEW i \in 2..Len(spine),
         NEW g, g = Descend(f, o, i)
  PROVE  /\ g \in Frame /\ FrameInv(g, d)
         /\ \A at \in Places :
              TrieInv(at) /\ SlotWay(f, o, at) /\ Cell(f, o).to = Spine(i) => OnWay(g, d, at)
<1>1. /\ f \in Frame /\ f.opid \in 1..MaxOps /\ o \in Operator /\ f.back = "return"
      /\ o.key \in Key /\ i \in DOMAIN spine /\ i # 1 /\ i \in Nat \ {0}
  BY SpineFacts DEF AtSlot, Runs, Operator
<1>2. g \in Frame /\ g.back = "return"
  BY <1>1, DescendCases
<1>3. CASE /\ g.pc = "slot" /\ g.local = i /\ g.right = NextRight(f.right) /\ g.right # 0
           /\ g.fails = 0 /\ g.opid = f.opid /\ g.node = f.node
  <2>1. InOp(g) /\ ~HasNode(g) /\ ~HasOld(g) /\ ~HasCurr(g)
    BY <1>2, <1>3 DEF InOp, HasNode, HasOld, HasCurr
  <2>2. OpInv(g, o)
    BY <1>1, <1>3, <2>1 DEF OpInv, AtSlot
  <2>3. FrameInv(g, d)
    BY <1>2, <1>3, <2>1, <2>2 DEF FrameInv, AtSlot, Runs
  <2>4. ASSUME NEW at \in Places, TrieInv(at), SlotWay(f, o, at), Cell(f, o).to = Spine(i)
        PROVE  OnWay(g, d, at)
    <3>1. /\ f.local \in DOMAIN spine /\ Digit(o.key, f.right) \in DOMAIN spine[f.local]
          /\ at[f.local].right = f.right /\ ComesTo(o.key, f.local, at)
      BY <1>1, <2>4, CellFacts DEF AtSlot, Runs, SlotWay
    <3>2. spine[f.local][Digit(o.key, f.right)].to = Spine(i)
      BY <2>4 DEF Cell
    <3>3. at[i].right = NextRight(f.right) /\ ComesTo(o.key, i, at)
      BY <2>4, <3>1, <3>2, LeadsDown
    <3>4. WayInv(g, o, at)
      BY <1>3, <3>3 DEF WayInv
    <3> QED
      BY <1>3, <3>4 DEF OnWay, AtSlot, Runs
  <2> QED
    BY <1>2, <2>3, <2>4
<1>4. CASE ~InOp(g) /\ g.local = 1 /\ g.right = 0 /\ g.node = NullSlot /\ g.fails = 0
  BY <1>2, <1>4 DEF FrameInv, OnWay, InOp
<1>5. CASE /\ g.pc = "wild" /\ g.local = f.local /\ g.right = f.right
           /\ g.fails = f.fails /\ g.opid = f.opid /\ g.node = f.node
  <2>1. InOp(g) /\ ~HasNode(g) /\ ~HasOld(g) /\ ~HasCurr(g)
    BY <1>2, <1>5 DEF InOp, HasNode, HasOld, HasCurr
  <2>2. FrameInv(g, d)
    BY <1>2, <1>5, <2>1 DEF FrameInv, AtSlot, Runs, OpInv
  <2>3. ASSUME NEW at, SlotWay(f, o, at) PROVE OnWay(g, d, at)
    BY <1>5, <2>3 DEF OnWay, SlotWay, WayInv, Cell, AtSlot, Runs
  <2> QED
    BY <1>2, <2>2, <2>3
<1> QED
  BY <1>1, <1>3, <1>4, <1>5, DescendCases

\* What a thread does with what it has read.
LookedAt(f, o, g) ==
  LET p == f.node.to
  IN  \/ f.node.mark /\ g = [f EXCEPT !.pc = "expand"]
      \/ IsSpine(p) /\ p.spine \in 2..Len(spine) /\ p = Spine(p.spine) /\ g = Descend(f, o, p.spine)
      \/ p = Null /\ ~f.node.mark /\ g = [f EXCEPT !.pc = "place"]
      \/ g = Finished(f, FALSE)
      \/ IsData(p) /\ g = [f EXCEPT !.pc = "read"]
      \/ IsData(p) /\ ~f.node.mark /\ OpOf(p).key # o.key /\ g = [f EXCEPT !.pc = "split"]

LEMMA LookCases ==
  ASSUME TypeInv, NEW f, NEW o, NEW d, AtSlot(f, o, d), NEW g, g = Look(f, o)
  PROVE  LookedAt(f, o, g)
<1> DEFINE p == f.node.to
           marked == f.node.mark /\ o.type # "FIND"
           hit == IsData(p) /\ (OpOf(p).key = o.key \/ LastFind(f, o))
           put == o.type \in {"INSERT", "UPDATE"}
<1>0. o.type \in OpTypes
  BY DEF AtSlot, Runs, Operator
<1>1. \/ p = Null /\ ~IsData(p) /\ ~IsSpine(p)
      \/ IsData(p) /\ ~IsSpine(p) /\ p # Null
      \/ IsSpine(p) /\ ~IsData(p) /\ p # Null /\ p.spine \in 2..Len(spine) /\ p = Spine(p.spine)
  BY SpineFacts, PointerCases DEF AtSlot, Pointer
<1> DEFINE a == marked /\ (o.type = "DELETE" \/ ~IsSpine(p))
           b == IsSpine(p) /\ ~(marked /\ o.type = "DELETE")
<1>2. g = CASE a -> [f EXCEPT !.pc = "expand"]
            [] b -> Descend(f, o, p.spine)
            [] ~marked /\ p = Null -> IF o.type = "INSERT" THEN [f EXCEPT !.pc = "place"]
                                      ELSE Finished(f, FALSE)
            [] ~marked /\ hit -> [f EXCEPT !.pc = "read"]
            [] ~marked /\ IsData(p) /\ ~hit -> IF put THEN [f EXCEPT !.pc = "split"]
                                               ELSE Finished(f, FALSE)
  BY DEF Look
<1>3. CASE a
  <2>1. ~b /\ marked
    BY <1>3
  <2>2. g = [f EXCEPT !.pc = "expand"]
    <3> HIDE DEF a, b, marked, hit, put
    <3> QED
      BY <1>2, <1>3, <2>1
  <2> QED
    BY <1>3, <2>2 DEF LookedAt
<1>4. CASE b
  <2>1. ~a /\ p # Null /\ ~IsData(p) /\ ~hit
    BY <1>1, <1>4
  <2>2. g = Descend(f, o, p.spine)
    <3> HIDE DEF a, b, marked, hit, put, p
    <3> QED
      BY <1>2, <1>4, <2>1
  <2> QED
    BY <1>1, <1>4, <2>2 DEF LookedAt
<1>5. CASE ~a /\ ~b
  <2>1. ~marked /\ ~IsSpine(p)
    BY <1>5
  <2>2. CASE p = Null
    <3>1. ~IsData(p) /\ ~hit
      BY <1>1, <2>2
    <3>2. g = IF o.type = "INSERT" THEN [f EXCEPT !.pc = "place"] ELSE Finished(f, FALSE)
      <4> HIDE DEF a, b, marked, hit, put, p
      <4> QED
        BY <1>2, <1>5, <2>1, <2>2, <3>1
    <3> QED
      BY <2>1, <2>2, <3>2 DEF LookedAt
  <2>3. CASE hit
    <3>1. IsData(p) /\ p # Null
      BY <1>1, <2>3
    <3>2. g = [f EXCEPT !.pc = "read"]
      <4> HIDE DEF a, b, marked, hit, put, p
      <4> QED
        BY <1>2, <1>5, <2>1, <2>3, <3>1
    <3> QED
      BY <3>1, <3>2 DEF LookedAt
  <2>4. CASE p # Null /\ ~hit
    <3>1. IsData(p)
      BY <1>1, <2>1, <2>4
    <3>2. g = IF put THEN [f EXCEPT !.pc = "split"] ELSE Finished(f, FALSE)
      <4> HIDE DEF a, b, marked, hit, put, p
      <4> QED
        BY <1>2, <1>5, <2>1, <2>4, <3>1
    <3>3. put => ~f.node.mark
      BY <2>1
    <3>4. OpOf(p).key # o.key
      BY <2>4, <3>1
    <3> QED
      BY <3>1, <3>2, <3>3, <3>4 DEF LookedAt
  <2> QED
    BY <2>2, <2>3, <2>4
<1> QED
  BY <1>3, <1>4, <1>5

LEMMA LookGood ==
  ASSUME TypeInv, NEW f, NEW o, NEW d, AtSlot(f, o, d),
         f.node.mark => Cell(f, o) = f.node \/ IsSpine(Cell(f, o).to),
         NEW g, g = Look(f, o)
  PROVE  /\ g \in Frame /\ FrameInv(g, d)
         /\ \A at \in Places :
              TrieInv(at) /\ SlotWay(f, o, at) /\ Cell(f, o) = f.node => OnWay(g, d, at)
<1>1. f \in Frame /\ f.opid \in 1..MaxOps /\ o.key \in Key /\ f.local \in DOMAIN spine
  BY DEF AtSlot, Runs, Operator
<1> DEFINE p == f.node.to
<1>2. CASE g = Finished(f, FALSE)
  BY <1>1, <1>2, FinishedFacts DEF FrameInv, OnWay, InOp
<1>3. CASE IsSpine(p) /\ p.spine \in 2..Len(spine) /\ p = Spine(p.spine) /\ g = Descend(f, o, p.spine)
  <2>1. PICK i \in 2..Len(spine) : i = p.spine
    BY <1>3
  <2>2. g = Descend(f, o, i) /\ p = Spine(i)
    BY <1>3, <2>1
  <2>3. /\ g \in Frame /\ FrameInv(g, d)
        /\ \A at \in Places :
             TrieInv(at) /\ SlotWay(f, o, at) /\ Cell(f, o).to = Spine(i) => OnWay(g, d, at)
    BY <2>2, DescendGood
  <2> QED
    BY <2>2, <2>3
<1>4. ASSUME NEW q \in {"expand", "place", "read", "split"}, g = [f EXCEPT !.pc = q]
      PROVE  /\ g \in Frame /\ g.pc = q /\ g.opid = f.opid /\ g.local = f.local
             /\ g.right = f.right /\ g.fails = f.fails /\ g.node = f.node /\ g.back = "return"
             /\ InOp(g) /\ ~HasOld(g) /\ ~HasCurr(g) /\ (HasNode(g) => q = "read")
  <2>1. /\ g \in Frame /\ g.pc = q /\ g.opid = f.opid /\ g.local = f.local
        /\ g.right = f.right /\ g.fails = f.fails /\ g.node = f.node /\ g.back = "return"
    BY <1>1, <1>4 DEF Frame, Labels, AtSlot
  <2>2. InOp(g) /\ ~HasOld(g) /\ ~HasCurr(g) /\ (HasNode(g) => q = "read")
    BY <2>1 DEF InOp, HasNode, HasOld, HasCurr
  <2> QED
    BY <2>1, <2>2
<1>5. ASSUME NEW q \in {"expand", "place", "read", "split"}, g = [f EXCEPT !.pc = q], OpInv(g, o)
      PROVE  g \in Frame /\ FrameInv(g, d)
  BY <1>4, <1>5 DEF FrameInv, AtSlot, Runs
<1>6. ASSUME NEW q \in {"expand", "place", "read", "split"}, g = [f EXCEPT !.pc = q],
             NEW at, WayInv(g, o, at)
      PROVE  OnWay(g, d, at)
  BY <1>4, <1>6 DEF OnWay, AtSlot, Runs
<1>7. CASE f.node.mark /\ g = [f EXCEPT !.pc = "expand"]
  <2>1. OpInv(g, o)
    BY <1>4, <1>7 DEF OpInv, AtSlot, Runs, Cell
  <2>2. ASSUME NEW at \in Places, TrieInv(at), Cell(f, o) = f.node PROVE FALSE
    <3>1. Digit(o.key, f.right) \in DOMAIN spine[f.local]
      BY <1>1, CellFacts DEF AtSlot, Runs
    <3> QED
      BY <1>1, <1>7, <2>2, <3>1 DEF TrieInv, Cell
  <2> QED
    BY <1>5, <1>7, <2>1, <2>2
<1>8. CASE p = Null /\ ~f.node.mark /\ g = [f EXCEPT !.pc = "place"]
  <2>1. f.node = NullSlot
    BY <1>1, <1>8, NullSlotIs
  <2>2. OpInv(g, o)
    BY <1>4, <1>8, <2>1 DEF OpInv, AtSlot, Runs, Cell
  <2>3. ASSUME NEW at \in Places, SlotWay(f, o, at), Cell(f, o) = f.node PROVE OnWay(g, d, at)
    <3>1. f.fails = 0
      BY <1>1, <1>8, <2>3 DEF SlotWay, Frame
    <3> QED
      BY <1>4, <1>6, <1>8, <2>3, <3>1 DEF WayInv, SlotWay, Cell
  <2> QED
    BY <1>5, <1>8, <2>2, <2>3
<1>9. CASE IsData(p) /\ g = [f EXCEPT !.pc = "read"]
  <2>1. OpInv(g, o)
    BY <1>4, <1>9 DEF OpInv, AtSlot, Runs, Cell
  <2>2. ASSUME NEW at \in Places, SlotWay(f, o, at) PROVE OnWay(g, d, at)
    BY <1>4, <1>6, <1>9, <2>2 DEF WayInv, SlotWay, Cell
  <2> QED
    BY <1>5, <1>9, <2>1, <2>2
<1>10. CASE IsData(p) /\ ~f.node.mark /\ OpOf(p).key # o.key /\ g = [f EXCEPT !.pc = "split"]
  <2>1. OpInv(g, o)
    BY <1>4, <1>10 DEF OpInv, AtSlot, Runs, Cell
  <2>2. ASSUME NEW at \in Places, TrieInv(at), SlotWay(f, o, at), Cell(f, o) = f.node
        PROVE  OnWay(g, d, at)
    <3>1. ~IsSpine(p)
      BY <1>10 DEF IsData, IsSpine
    <3>2. f.fails <= 1
      BY <1>1, <2>2, <3>1 DEF SlotWay, Frame
    <3>3. Digit(o.key, f.right) \in DOMAIN spine[f.local] /\ at[f.local].right = f.right
      BY <1>1, <2>2, CellFacts DEF AtSlot, Runs, SlotWay
    <3>4. /\ ComesTo(KeyOf(p), f.local, at)
          /\ Digit(KeyOf(p), f.right) = Digit(o.key, f.right)
      BY <1>1, <1>10, <2>2, <3>3 DEF TrieInv, Cell
    <3>5. Same(KeyOf(p), o.key, f.right)
      BY <2>2, <3>3, <3>4, SameFacts DEF SlotWay, ComesTo
    <3>6. f.right \in Rights
      BY <1>1 DEF Frame
    <3>7. Same(KeyOf(p), o.key, NextRight(f.right))
      BY <3>4, <3>5, <3>6, SameNext
    <3> QED
      BY <1>4, <1>6, <1>10, <2>2, <3>2, <3>7 DEF WayInv, SlotWay, Cell
  <2> QED
    BY <1>5, <1>10, <2>1, <2>2
<1>11. LookedAt(f, o, g)
  BY LookCases
<1> QED
  BY <1>2, <1>3, <1>7, <1>8, <1>9, <1>10, <1>11 DEF LookedAt

-----------------------------------------------------------------------------
(* The actions: the way down.                                              *)

LEMMA OpLoopStep ==
  ASSUME TypeInv, NEW t \in Thread, OpLoop(t) PROVE Kept(t)
<1>1. Busy(t) /\ Fr(t).pc = "loop" /\ UNCHANGED <<heap, txn, stack>>
  BY DEF OpLoop, At
<1>2. PICK d \in Desc : d = Top(t)
  BY <1>1, TopFacts DEF TypeInv
<1>3. PICK f \in Frame : f = Fr(t) /\ FrameInv(f, d)
  BY <1>1, <1>2, TopFacts DEF TypeInv, FramesInv
<1>4. f.back = "return" /\ ~InOp(f) /\ f.local = 1 /\ f.right = 0 /\ f.node = NullSlot /\ f.fails = 0
  BY <1>1, <1>3 DEF FrameInv, InOp, Frame
<1> DEFINE more == status[d] = "ACTIVE" /\ f.ret /\ f.opid <= Len(ops[d])
<1>5. PICK g : g = [f EXCEPT !.pc = IF more THEN "slot" ELSE "decide"]
  OBVIOUS
<1>6. /\ g \in Frame /\ g.pc = IF more THEN "slot" ELSE "decide"
      /\ g.back = "return" /\ g.local = 1 /\ g.right = 0 /\ g.node = NullSlot /\ g.fails = 0
      /\ g.opid = f.opid
  <2> HIDE DEF more
  <2> QED
    BY <1>4, <1>5 DEF Frame, Labels
<1>7. SetFrame(t, g)
  BY <1>2, <1>3, <1>5 DEF OpLoop, GoTo
<1>8. Good(f, g, d)
  <2>1. CASE ~more
    <3>1. g.pc = "decide"
      BY <1>6, <2>1
    <3>2. ~InOp(g)
      BY <1>6, <3>1 DEF InOp
    <3> QED
      BY <1>6, <3>2, LooseGood
  <2>2. CASE more
    <3>1. g.pc = "slot" /\ g.opid <= Len(ops[d]) /\ g.opid \in 1..(MaxOps + 1)
      BY <1>6, <2>2 DEF Frame
    <3>2. InOp(g) /\ ~HasNode(g) /\ ~HasOld(g) /\ ~HasCurr(g)
      BY <1>6, <3>1 DEF InOp, HasNode, HasOld, HasCurr
    <3>3. PICK o \in Operator : o = ops[d][g.opid]
      BY <3>1, OpFacts DEF TypeInv
    <3>4. 1 \in DOMAIN spine /\ g.node.to \in Pointer /\ ~IsData(g.node.to)
      BY <1>6, SpineFacts, SlotFacts, NullPointer DEF Pointer
    <3>5. OpInv(g, o)
      BY <1>6, <3>1, <3>2, <3>4 DEF OpInv
    <3>6. FrameInv(g, d)
      BY <1>6, <3>1, <3>3, <3>5 DEF FrameInv
    <3>7. ASSUME NEW at \in Places, TrieInv(at) PROVE OnWay(g, d, at)
      <4>1. at[1].right = 0
        BY <3>4, <3>7 DEF TrieInv
      <4>2. ComesTo(o.key, 1, at)
        BY <4>1, SameAtHead DEF ComesTo
      <4> QED
        BY <1>6, <3>1, <3>3, <4>1, <4>2 DEF OnWay, WayInv
    <3> QED
      BY <1>6, <3>6, <3>7 DEF Good
  <2> QED
    BY <2>1, <2>2
<1> QED
  BY <1>1, <1>2, <1>3, <1>7, <1>8, QuietKept

LEMMA ReadSlotStep ==
  ASSUME TypeInv, NEW t \in Thread, ReadSlot(t) PROVE Kept(t)
<1>1. /\ At(t, "slot") /\ "slot" \in OpLabels /\ UNCHANGED <<heap, txn, stack>>
  BY DEF ReadSlot, OpLabels, Labels
<1>2. PICK e, o, d : e = Fr(t) /\ o = Op(t) /\ d = Top(t)
  OBVIOUS
<1>3. /\ Busy(t) /\ e.pc = "slot" /\ e.back = "return" /\ Runs(e, o, d) /\ OpInv(e, o)
      /\ e \in Frame /\ o.key \in Key
  BY <1>1, <1>2, Running DEF Runs
<1>4. PICK s : s = Cell(e, o)
  OBVIOUS
<1>5. s \in Contents /\ (IsData(s.to) => Known(s.to))
  BY <1>3, <1>4, CellFacts DEF OpInv, Cell
<1>6. s \in [to : NodeDesc \union {Null} \union [spine : Nat], mark : BOOLEAN]
      /\ s.to \in Pointer /\ s.mark \in BOOLEAN
  <2>1. 2..Len(spine) \subseteq Nat
    BY SpineFacts
  <2> QED
    BY <1>5, <2>1 DEF Contents, Pointer
<1>7. PICK f : f = [e EXCEPT !.node = s]
  OBVIOUS
<1>8. /\ f \in Frame /\ f.node = s /\ f.pc = "slot" /\ f.back = "return" /\ f.opid = e.opid
      /\ f.local = e.local /\ f.right = e.right /\ f.fails = e.fails
  BY <1>3, <1>6, <1>7 DEF Frame
<1>9. AtSlot(f, o, d) /\ Cell(f, o) = s
  <2>1. InOp(f)
    BY <1>8 DEF InOp
  <2> QED
    BY <1>1, <1>3, <1>4, <1>5, <1>6, <1>8, <2>1 DEF AtSlot, Runs, Cell
<1>10. \A at : OnWay(e, d, at) => SlotWay(f, o, at)
  BY <1>3, <1>8 DEF OnWay, WayInv, SlotWay, Cell, Runs
<1>11. PICK g : g = IF f.fails >= MAX_CAS_FAILURE THEN [f EXCEPT !.pc = "mark"] ELSE Look(f, o)
  OBVIOUS
<1>12. SetFrame(t, g)
  BY <1>2, <1>4, <1>7, <1>11 DEF ReadSlot
<1>13. Good(e, g, d)
  <2>1. CASE f.fails >= MAX_CAS_FAILURE
    <3>1. /\ g \in Frame /\ g.pc = "mark" /\ g.node = s /\ g.back = "return" /\ g.opid = e.opid
          /\ g.local = e.local /\ g.right = e.right /\ g.fails = e.fails
      BY <1>8, <1>11, <2>1 DEF Frame, Labels
    <3>2. InOp(g) /\ ~HasNode(g) /\ ~HasOld(g) /\ ~HasCurr(g)
      BY <3>1 DEF InOp, HasNode, HasOld, HasCurr
    <3>3. OpInv(g, o)
      BY <1>3, <1>4, <1>5, <1>6, <3>1, <3>2 DEF OpInv, Cell
    <3>4. FrameInv(g, d)
      BY <1>3, <3>1, <3>2, <3>3 DEF FrameInv, Runs
    <3>5. ASSUME NEW at, Patient, OnWay(e, d, at) PROVE FALSE
      <4>1. f.fails <= 2 /\ f.fails \in Nat
        BY <1>8, <1>10, <3>5 DEF SlotWay, Frame
      <4> QED
        BY <2>1, <3>5, <4>1, Sizes DEF Patient
    <3> QED
      BY <3>1, <3>4, <3>5 DEF Good
  <2>2. CASE ~(f.fails >= MAX_CAS_FAILURE)
    <3>1. g = Look(f, o)
      BY <1>11, <2>2
    <3>2. f.node.mark => Cell(f, o) = f.node \/ IsSpine(Cell(f, o).to)
      BY <1>8, <1>9
    <3>3. /\ g \in Frame /\ FrameInv(g, d)
          /\ \A at \in Places :
               TrieInv(at) /\ SlotWay(f, o, at) /\ Cell(f, o) = f.node => OnWay(g, d, at)
      BY <1>9, <3>1, <3>2, LookGood
    <3> QED
      BY <1>8, <1>9, <1>10, <3>3 DEF Good
  <2> QED
    BY <2>1, <2>2
<1> QED
  BY <1>1, <1>2, <1>3, <1>12, <1>13, QuietKept

LEMMA MainRight ==
  ASSUME NEW right \in Rights, right # 0
  PROVE  MAIN_POW \in Rights /\ MAIN_POW # 0 /\ (right > MAIN_POW \/ right = MAIN_POW)
<1>1. PICK i \in 0..KEY_SIZE : right = Level(i)
  BY LevelsAre, RightsFacts
<1>2. i * SUB_POW \in Nat
  BY Sizes, Products
<1>3. right \in Nat /\ MAIN_POW <= right /\ right < KEY_SIZE
  BY <1>1, <1>2, Sizes, RightsFacts DEF Level
<1>4. MAIN_POW = Level(0) /\ 0 \in 0..KEY_SIZE
  BY Sizes DEF Level
<1>5. MAIN_POW \in Levels
  BY <1>4, LevelFacts
<1> QED
  BY <1>3, <1>5, Sizes DEF Rights

LEMMA RestartGood ==
  ASSUME TypeInv, NEW f, NEW o, NEW d, Runs(f, o, d), OpInv(f, o),
         f.pc \in {"update", "swap"}, f.back = "return", NEW g, g = Restart(f, o)
  PROVE  Good(f, g, d)
<1>1. f \in Frame /\ f.right \in Rights /\ f.fails \in Nat /\ f.right \in Nat
  BY RightsFacts DEF Runs, Frame
<1>2. PICK r : r = IF f.right = 0 \/ LastFind(f, o) THEN f.right ELSE MAIN_POW
  OBVIOUS
<1>3. PICK n : n = IF f.right = 0 THEN f.fails ELSE 0
  OBVIOUS
<1>4. r \in Rights /\ (r = 0 <=> f.right = 0)
  BY <1>1, <1>2, MainRight
<1>5. n \in Nat /\ (n = f.fails \/ n = 0)
  BY <1>1, <1>3
<1>6. g = [f EXCEPT !.pc = "slot", !.old = Null, !.curr = Null, !.val = 0, !.right = r, !.fails = n]
  BY <1>1, <1>2, <1>3 DEF Restart, Frame
<1>7. /\ g \in Frame /\ g.pc = "slot" /\ g.right = r /\ g.fails = n /\ g.back = "return"
      /\ g.opid = f.opid /\ g.local = f.local /\ g.node = f.node
  <2>1. PICK h : h = [f EXCEPT !.pc = "slot", !.old = Null, !.curr = Null, !.val = 0]
    OBVIOUS
  <2>2. /\ h \in Frame /\ h.pc = "slot" /\ h.back = f.back /\ h.opid = f.opid
        /\ h.local = f.local /\ h.node = f.node
    BY <1>1, <2>1 DEF Frame, Labels
  <2>3. g = [h EXCEPT !.right = r, !.fails = n]
    BY <1>1, <1>6, <2>1 DEF Frame
  <2> QED
    BY <1>4, <1>5, <2>2, <2>3 DEF Frame
<1>8. InOp(g) /\ ~HasNode(g) /\ ~HasOld(g) /\ ~HasCurr(g)
  BY <1>7 DEF InOp, HasNode, HasOld, HasCurr
<1>9. OpInv(g, o)
  BY <1>4, <1>7, <1>8 DEF OpInv
<1>10. FrameInv(g, d)
  BY <1>7, <1>8, <1>9 DEF FrameInv, Runs
<1>11. ASSUME ~Lost(f, g) PROVE r = f.right
  <2>1. CASE f.right = 0 \/ LastFind(f, o)
    BY <1>2, <2>1
  <2>2. CASE ~(f.right = 0 \/ LastFind(f, o))
    <3>1. r = MAIN_POW
      BY <1>2, <2>2
    <3>2. f.right > MAIN_POW \/ f.right = MAIN_POW
      BY <1>1, <2>2, MainRight
    <3>3. ~(f.right > MAIN_POW)
      BY <1>7, <1>11, <3>1 DEF Lost
    <3> QED
      BY <3>1, <3>2, <3>3
  <2> QED
    BY <2>1, <2>2
<1>12. ASSUME NEW at, OnWay(f, d, at), ~Lost(f, g) PROVE OnWay(g, d, at)
  <2>1. WayInv(f, o, at) /\ r = f.right
    BY <1>11, <1>12 DEF OnWay, Runs
  <2>2. WayInv(g, o, at)
    BY <1>5, <1>7, <2>1 DEF WayInv, Cell
  <2> QED
    BY <1>7, <2>2 DEF OnWay, Runs
<1> QED
  BY <1>7, <1>10, <1>12 DEF Good

-----------------------------------------------------------------------------
(* The actions: an operation at the node of its key.                       *)

NodeLabels == {"read", "help", "cycle", "exist", "curr", "active", "save", "keep",
               "update", "value", "swap", "result"}

\* A frame that has found the node of its key.
LEMMA AtNode ==
  ASSUME TypeInv, NEW t \in Thread, NEW p \in NodeLabels, At(t, p)
  PROVE  LET f == Fr(t)
         IN  /\ Busy(t) /\ Top(t) \in Desc /\ f.pc = p /\ f.back = "return" /\ f \in Frame
             /\ Runs(f, Op(t), Top(t)) /\ OpInv(f, Op(t)) /\ f.opid \in 1..MaxOps
             /\ Op(t) \in Operator
             /\ Mine(t) \in NodeDesc /\ Known(Mine(t))
             /\ IsData(f.node.to) /\ f.node.to \in NodeDesc /\ Known(f.node.to)
             /\ p # "read" => f.old # Null /\ f.old \in NodeDesc /\ Known(f.old)
             /\ HasCurr(f) => f.curr # Null /\ f.curr \in NodeDesc /\ Known(f.curr)
<1>1. p \in OpLabels
  BY DEF NodeLabels, OpLabels, Labels
<1>2. PICK f, o, d : f = Fr(t) /\ o = Op(t) /\ d = Top(t)
  OBVIOUS
<1>3. /\ Busy(t) /\ d \in Desc /\ f.pc = p /\ f.back = "return"
      /\ Runs(f, o, d) /\ OpInv(f, o) /\ Mine(t) \in NodeDesc /\ Known(Mine(t))
  BY <1>1, <1>2, Running
<1>4. f \in Frame /\ f.opid \in 1..MaxOps /\ o \in Operator
  BY <1>3 DEF Runs
<1>5. HasNode(f) /\ (p # "read" => HasOld(f))
  BY <1>3 DEF HasNode, HasOld, NodeLabels
<1>6. IsData(f.node.to) /\ Known(f.node.to) /\ f.node.to \in Pointer
  BY <1>3, <1>5 DEF OpInv
<1>7. f.node.to \in NodeDesc
  BY <1>6, SpineFacts, PointerCases DEF Pointer
<1>8. p # "read" => f.old # Null /\ f.old \in NodeDesc /\ Known(f.old)
  BY <1>3, <1>4, <1>5 DEF OpInv, Frame
<1>9. HasCurr(f) => f.curr # Null /\ f.curr \in NodeDesc /\ Known(f.curr)
  BY <1>3, <1>4 DEF OpInv, Frame
<1> QED
  BY <1>2, <1>3, <1>4, <1>6, <1>7, <1>8, <1>9

\* Its next label in the operation.
LEMMA OnGood ==
  ASSUME TypeInv, NEW f, NEW o, NEW d, Runs(f, o, d), OpInv(f, o), f.back = "return",
         f.pc \in NodeLabels, f.pc # "read", NEW p \in (NodeLabels \ {"read"}) \union {"answer"},
         p \in {"active", "save", "keep"} => HasCurr(f), NEW v \in Nat,
         NEW g, g = [f EXCEPT !.pc = p, !.val = v]
  PROVE  Good(f, g, d)
<1>1. /\ f \in Frame /\ HasNode(f) /\ HasOld(f)
  BY DEF HasNode, HasOld, NodeLabels, Runs
<1>2. /\ g \in Frame /\ g.pc = p /\ g.back = "return" /\ g.opid = f.opid
      /\ g.local = f.local /\ g.right = f.right /\ g.node = f.node /\ g.fails = f.fails
      /\ g.old = f.old /\ g.curr = f.curr
  BY <1>1 DEF Frame, Labels, NodeLabels
<1>3. /\ HasNode(g) => IsData(g.node.to)
      /\ HasOld(g) => g.old # Null /\ Known(g.old)
      /\ HasCurr(g) => g.curr # Null /\ Known(g.curr)
  BY <1>1, <1>2 DEF OpInv, HasCurr
<1>4. g.pc \in OpLabels \ {"mark", "expand", "place", "split"}
  BY <1>2 DEF OpLabels, Labels, NodeLabels
<1> QED
  BY <1>2, <1>3, <1>4, StayGood

LEMMA GoOnGood ==
  ASSUME TypeInv, NEW f, NEW o, NEW d, Runs(f, o, d), OpInv(f, o), f.back = "return",
         f.pc \in NodeLabels, f.pc # "read", NEW p \in (NodeLabels \ {"read"}) \union {"answer"},
         p \in {"active", "save", "keep"} => HasCurr(f),
         NEW g, g = [f EXCEPT !.pc = p]
  PROVE  Good(f, g, d)
<1>1. f.val \in Nat /\ g = [f EXCEPT !.pc = p, !.val = f.val]
  BY DEF Runs, Frame
<1> QED
  BY <1>1, OnGood

LEMMA ReadNodeDescStep ==
  ASSUME TypeInv, NEW t \in Thread, ReadNodeDesc(t) PROVE Kept(t)
<1>1. At(t, "read") /\ UNCHANGED <<heap, txn, stack>>
  BY DEF ReadNodeDesc
<1>2. PICK f, o, d : f = Fr(t) /\ o = Op(t) /\ d = Top(t)
  OBVIOUS
<1>3. /\ Busy(t) /\ f.pc = "read" /\ f.back = "return" /\ f \in Frame /\ Runs(f, o, d) /\ OpInv(f, o)
      /\ IsData(f.node.to) /\ f.node.to \in NodeDesc /\ Known(f.node.to)
  BY <1>1, <1>2, AtNode DEF NodeLabels
<1>4. PICK c \in NodeDesc : c = nd[f.node.to]
  BY <1>3 DEF TypeInv, TypeOK
<1>5. Known(c) /\ c # Null
  BY <1>3, <1>4, NodePointer DEF TypeInv, DescInv
<1>6. PICK p \in {"exist", "help"} : p = IF c.desc = d THEN "exist" ELSE "help"
  OBVIOUS
<1>7. PICK g : g = [f EXCEPT !.pc = p, !.old = c]
  OBVIOUS
<1>8. /\ g \in Frame /\ g.pc = p /\ g.old = c /\ g.back = "return" /\ g.opid = f.opid
      /\ g.local = f.local /\ g.right = f.right /\ g.node = f.node /\ g.fails = f.fails
  BY <1>3, <1>7 DEF Frame, Labels
<1>9. ~HasCurr(g) /\ g.pc \in OpLabels \ {"mark", "expand", "place", "split"}
  BY <1>8 DEF HasCurr, OpLabels, Labels
<1>10. Good(f, g, d)
  BY <1>3, <1>5, <1>8, <1>9, StayGood
<1>11. SetFrame(t, g)
  BY <1>2, <1>4, <1>6, <1>7 DEF ReadNodeDesc
<1> QED
  BY <1>1, <1>2, <1>3, <1>10, <1>11, QuietKept

LEMMA CheckKeyExistStep ==
  ASSUME TypeInv, NEW t \in Thread, CheckKeyExist(t) PROVE Kept(t)
<1>1. At(t, "exist") /\ UNCHANGED <<heap, txn, stack>>
  BY DEF CheckKeyExist
<1>2. PICK f, o, d : f = Fr(t) /\ o = Op(t) /\ d = Top(t)
  OBVIOUS
<1>3. /\ Busy(t) /\ f.pc = "exist" /\ f.back = "return" /\ Runs(f, o, d) /\ OpInv(f, o)
      /\ f.opid \in 1..MaxOps
  BY <1>1, <1>2, AtNode DEF NodeLabels
<1>4. PICK g : SetFrame(t, g)
               /\ \/ g = Finished(f, TRUE) \/ g = Finished(f, FALSE)
                  \/ g = [f EXCEPT !.pc = "answer", !.val = 1] \/ g = [f EXCEPT !.pc = "curr"]
  BY <1>2 DEF CheckKeyExist, DoneBefore
<1>5. Good(f, g, d)
  <2>1. "answer" \in (NodeLabels \ {"read"}) \union {"answer"} /\ f.pc \in NodeLabels
        /\ "curr" \in (NodeLabels \ {"read"}) \union {"answer"} /\ 1 \in Nat
    BY <1>3 DEF NodeLabels
  <2>2. g = [f EXCEPT !.pc = "answer", !.val = 1] => Good(f, g, d)
    BY <1>3, <2>1, OnGood
  <2>3. g = [f EXCEPT !.pc = "curr"] => Good(f, g, d)
    BY <1>3, <2>1, GoOnGood
  <2> QED
    BY <1>3, <1>4, <2>2, <2>3, FinishedGood
<1> QED
  BY <1>1, <1>2, <1>3, <1>4, <1>5, QuietKept

LEMMA ReadCurrDescStep ==
  ASSUME TypeInv, NEW t \in Thread, ReadCurrDesc(t) PROVE Kept(t)
<1>1. At(t, "curr") /\ UNCHANGED <<heap, txn, stack>>
  BY DEF ReadCurrDesc
<1>2. PICK f, o, d : f = Fr(t) /\ o = Op(t) /\ d = Top(t)
  OBVIOUS
<1>3. /\ Busy(t) /\ f.pc = "curr" /\ f.back = "return" /\ f \in Frame /\ Runs(f, o, d) /\ OpInv(f, o)
      /\ IsData(f.node.to) /\ f.node.to \in NodeDesc /\ Known(f.node.to)
      /\ f.old # Null /\ Known(f.old)
  BY <1>1, <1>2, AtNode DEF NodeLabels
<1>4. PICK c \in NodeDesc : c = nd[f.node.to]
  BY <1>3 DEF TypeInv, TypeOK
<1>5. Known(c) /\ c # Null
  BY <1>3, <1>4, NodePointer DEF TypeInv, DescInv
<1>6. PICK g : g = [f EXCEPT !.pc = "active", !.curr = c]
  OBVIOUS
<1>7. /\ g \in Frame /\ g.pc = "active" /\ g.old = f.old /\ g.curr = c /\ g.back = "return"
      /\ g.opid = f.opid /\ g.local = f.local /\ g.right = f.right /\ g.node = f.node
      /\ g.fails = f.fails
  BY <1>3, <1>6 DEF Frame, Labels
<1>8. g.pc \in OpLabels \ {"mark", "expand", "place", "split"}
  BY <1>7 DEF OpLabels, Labels
<1>9. Good(f, g, d)
  BY <1>3, <1>5, <1>7, <1>8, StayGood
<1>10. SetFrame(t, g)
  BY <1>2, <1>4, <1>6 DEF ReadCurrDesc
<1> QED
  BY <1>1, <1>2, <1>3, <1>9, <1>10, QuietKept

LEMMA CheckActiveStep ==
  ASSUME TypeInv, NEW t \in Thread, CheckActive(t) PROVE Kept(t)
<1>1. At(t, "active") /\ UNCHANGED <<heap, txn, stack>>
  BY DEF CheckActive
<1>2. PICK f, o, d : f = Fr(t) /\ o = Op(t) /\ d = Top(t)
  OBVIOUS
<1>3. /\ Busy(t) /\ f.pc = "active" /\ f.back = "return" /\ Runs(f, o, d) /\ OpInv(f, o)
      /\ f.opid \in 1..MaxOps
  BY <1>1, <1>2, AtNode DEF NodeLabels
<1>4. HasCurr(f) /\ f.pc \in NodeLabels
  BY <1>3 DEF HasCurr, NodeLabels
<1>5. PICK p \in {"save", "update"} : p = IF o.type \in {"UPDATE", "FIND"} THEN "save" ELSE "update"
  OBVIOUS
<1>8. PICK g : SetFrame(t, g) /\ (g = Finished(f, FALSE) \/ g = [f EXCEPT !.pc = p])
  BY <1>2, <1>5 DEF CheckActive
<1>6. p \in (NodeLabels \ {"read"}) \union {"answer"}
  BY DEF NodeLabels
<1>7. Good(f, g, d)
  <2>1. g = [f EXCEPT !.pc = p] => Good(f, g, d)
    BY <1>3, <1>4, <1>6, GoOnGood
  <2> QED
    BY <1>3, <1>8, <2>1, FinishedGood
<1> QED
  BY <1>1, <1>2, <1>3, <1>7, <1>8, QuietKept

LEMMA CheckUnsavedStep ==
  ASSUME TypeInv, NEW t \in Thread, CheckUnsaved(t) PROVE Kept(t)
<1>1. At(t, "save") /\ UNCHANGED <<heap, txn, stack>>
  BY DEF CheckUnsaved
<1>2. PICK f, o, d : f = Fr(t) /\ o = Op(t) /\ d = Top(t)
  OBVIOUS
<1>3. Busy(t) /\ f.pc = "save" /\ f.back = "return" /\ Runs(f, o, d) /\ OpInv(f, o)
  BY <1>1, <1>2, AtNode DEF NodeLabels
<1>4. HasCurr(f) /\ f.pc \in NodeLabels
  BY <1>3 DEF HasCurr, NodeLabels
<1>5. PICK p \in {"keep", "update"} :
        p = IF IsUnsavedUpdate(Fr(t).curr, value[Fr(t).node.to]) THEN "keep" ELSE "update"
  OBVIOUS
<1>6. PICK g : g = [f EXCEPT !.pc = p]
  OBVIOUS
<1>7. SetFrame(t, g)
  BY <1>2, <1>5, <1>6 DEF CheckUnsaved, GoTo
<1>8. Good(f, g, d)
  <2>1. p \in (NodeLabels \ {"read"}) \union {"answer"}
    BY DEF NodeLabels
  <2> QED
    BY <1>3, <1>4, <1>6, <2>1, GoOnGood
<1> QED
  BY <1>1, <1>2, <1>3, <1>7, <1>8, QuietKept

LEMMA SaveUpdateStep ==
  ASSUME TypeInv, NEW t \in Thread, SaveUpdate(t) PROVE Kept(t)
<1>1. At(t, "keep") /\ UNCHANGED <<spine, nd, txn, stack>>
  BY DEF SaveUpdate
<1>2. PICK f, o, d : f = Fr(t) /\ o = Op(t) /\ d = Top(t)
  OBVIOUS
<1>3. /\ Busy(t) /\ f.pc = "keep" /\ f.back = "return" /\ Runs(f, o, d) /\ OpInv(f, o)
      /\ f.node.to \in NodeDesc /\ (HasCurr(f) => f.curr \in NodeDesc /\ Known(f.curr))
  BY <1>1, <1>2, AtNode DEF NodeLabels
<1>4. HasCurr(f) /\ f.pc \in NodeLabels
  BY <1>3 DEF HasCurr, NodeLabels
<1>5. PICK v \in Nat : v = GetValue(f.curr)
  BY <1>3, <1>4, KnownFacts DEF GetValue, TypeInv
<1>6. value' \in [NodeDesc -> Nat]
  BY <1>2, <1>5 DEF SaveUpdate, TypeInv, TypeOK
<1>7. PICK g : g = [f EXCEPT !.pc = "update"]
  OBVIOUS
<1>8. SetFrame(t, g)
  BY <1>2, <1>7 DEF SaveUpdate, GoTo
<1>9. Good(f, g, d)
  <2>1. "update" \in (NodeLabels \ {"read"}) \union {"answer"}
    BY DEF NodeLabels
  <2> QED
    BY <1>3, <1>4, <1>7, <2>1, GoOnGood
<1> QED
  BY <1>1, <1>2, <1>3, <1>6, <1>8, <1>9, LocalKept

LEMMA TakenGood ==
  ASSUME TypeInv, NEW f, NEW o, NEW d, Runs(f, o, d), OpInv(f, o), f.back = "return",
         f.pc = "update", NEW g, g = Taken(f, o)
  PROVE  Good(f, g, d)
<1>1. o.type \in OpTypes /\ f.opid \in 1..MaxOps /\ f.pc \in NodeLabels
  BY DEF Runs, Operator, NodeLabels
<1>2. \/ g = Finished(f, TRUE) \/ g = [f EXCEPT !.pc = "value"] \/ g = [f EXCEPT !.pc = "result"]
  BY <1>1 DEF Taken, OpTypes
<1>3. "value" \in (NodeLabels \ {"read"}) \union {"answer"}
      /\ "result" \in (NodeLabels \ {"read"}) \union {"answer"}
  BY DEF NodeLabels
<1>4. g = [f EXCEPT !.pc = "value"] => Good(f, g, d)
  BY <1>1, <1>3, GoOnGood
<1>5. g = [f EXCEPT !.pc = "result"] => Good(f, g, d)
  BY <1>1, <1>3, GoOnGood
<1> QED
  BY <1>1, <1>2, <1>4, <1>5, FinishedGood

LEMMA UpdateDescStep ==
  ASSUME TypeInv, NEW t \in Thread, UpdateDesc(t) PROVE Kept(t)
<1>1. At(t, "update") /\ UNCHANGED <<spine, value, txn, stack>>
  BY DEF UpdateDesc
<1>2. PICK f, o, d : f = Fr(t) /\ o = Op(t) /\ d = Top(t)
  OBVIOUS
<1>3. /\ Busy(t) /\ f.pc = "update" /\ f.back = "return" /\ Runs(f, o, d) /\ OpInv(f, o)
      /\ f.node.to \in NodeDesc /\ Mine(t) \in NodeDesc /\ Known(Mine(t))
  BY <1>1, <1>2, AtNode DEF NodeLabels
<1>4. CASE nd' = [nd EXCEPT ![f.node.to] = Mine(t)] /\ SetFrame(t, Taken(f, o))
  <2>1. UNCHANGED <<spine, ops>> /\ UNCHANGED <<status, pstatus, stack, value>>
    BY <1>1 DEF txn
  <2>2. Grows
    BY <2>1, GrowsSame
  <2>3. PICK m \in NodeDesc : m = Mine(t) /\ Known(m)
    BY <1>3
  <2>4. DescInv' /\ nd' \in [NodeDesc -> NodeDesc] /\ PreInv'
    <3>1. DescInv'
      BY <1>4, <2>2, <2>3, DescTaken
    <3> QED
      BY <1>4, <2>1, <2>3, <3>1 DEF TypeInv, TypeOK, PreInv
  <2>5. Good(f, Taken(f, o), d)
    BY <1>3, TakenGood
  <2> QED
    BY <1>2, <1>3, <1>4, <2>1, <2>2, <2>4, <2>5, CallKept DEF TypeInv, TypeOK
<1>5. CASE UNCHANGED nd /\ SetFrame(t, Restart(f, o))
  <2>1. Good(f, Restart(f, o), d)
    BY <1>3, RestartGood
  <2> QED
    BY <1>1, <1>2, <1>3, <1>5, <2>1, QuietKept DEF heap
<1> QED
  BY <1>2, <1>4, <1>5 DEF UpdateDesc

LEMMA CompareValueStep ==
  ASSUME TypeInv, NEW t \in Thread, CompareValue(t) PROVE Kept(t)
<1>1. At(t, "value") /\ UNCHANGED <<heap, txn, stack>>
  BY DEF CompareValue
<1>2. PICK f, o, d : f = Fr(t) /\ o = Op(t) /\ d = Top(t)
  OBVIOUS
<1>3. /\ Busy(t) /\ f.pc = "value" /\ f.back = "return" /\ Runs(f, o, d) /\ OpInv(f, o)
      /\ f.opid \in 1..MaxOps /\ f.node.to \in NodeDesc
  BY <1>1, <1>2, AtNode DEF NodeLabels
<1>4. PICK v \in Nat : v = value[f.node.to]
  BY <1>3 DEF TypeInv, TypeOK
<1>5. PICK g : SetFrame(t, g)
               /\ (g = Finished(f, TRUE) \/ g = [f EXCEPT !.pc = "swap", !.val = v])
  BY <1>2, <1>4 DEF CompareValue
<1>6. Good(f, g, d)
  <2>1. "swap" \in (NodeLabels \ {"read"}) \union {"answer"} /\ f.pc \in NodeLabels
    BY <1>3 DEF NodeLabels
  <2>2. g = [f EXCEPT !.pc = "swap", !.val = v] => Good(f, g, d)
    BY <1>3, <2>1, OnGood
  <2> QED
    BY <1>3, <1>5, <2>2, FinishedGood
<1> QED
  BY <1>1, <1>2, <1>3, <1>5, <1>6, QuietKept

LEMMA SwapValueStep ==
  ASSUME TypeInv, NEW t \in Thread, SwapValue(t) PROVE Kept(t)
<1>1. At(t, "swap") /\ UNCHANGED <<spine, nd, txn, stack>>
  BY DEF SwapValue
<1>2. PICK f, o, d : f = Fr(t) /\ o = Op(t) /\ d = Top(t)
  OBVIOUS
<1>3. /\ Busy(t) /\ f.pc = "swap" /\ f.back = "return" /\ Runs(f, o, d) /\ OpInv(f, o)
      /\ f.opid \in 1..MaxOps /\ o.value \in Nat
  BY <1>1, <1>2, AtNode DEF NodeLabels, Operator
<1>4. PICK g : /\ SetFrame(t, g) /\ (g = Finished(f, TRUE) \/ g = Restart(f, o))
               /\ value' = [value EXCEPT ![f.node.to] = o.value] \/ UNCHANGED value
  BY <1>2 DEF SwapValue
<1>5. value' \in [NodeDesc -> Nat]
  BY <1>3, <1>4 DEF TypeInv, TypeOK
<1>6. Good(f, g, d)
  BY <1>3, <1>4, FinishedGood, RestartGood
<1> QED
  BY <1>1, <1>2, <1>3, <1>4, <1>5, <1>6, LocalKept

LEMMA FindResultStep ==
  ASSUME TypeInv, NEW t \in Thread, FindResult(t) PROVE Kept(t)
<1>1. At(t, "result") /\ UNCHANGED <<heap, txn, stack>>
  BY DEF FindResult
<1>2. PICK f, o, d : f = Fr(t) /\ o = Op(t) /\ d = Top(t)
  OBVIOUS
<1>3. /\ Busy(t) /\ f.pc = "result" /\ f.back = "return" /\ Runs(f, o, d) /\ OpInv(f, o)
      /\ f.opid \in 1..MaxOps /\ f.node.to \in NodeDesc /\ f.old \in NodeDesc /\ Known(f.old)
  BY <1>1, <1>2, AtNode DEF NodeLabels
<1>4. PICK v \in Nat : v = IF IsLiveUpdate(f.old) THEN GetValue(f.old) ELSE value[f.node.to]
  <2>1. GetValue(f.old) \in Nat
    BY <1>3, KnownFacts DEF GetValue, TypeInv
  <2>2. value[f.node.to] \in Nat
    BY <1>3 DEF TypeInv, TypeOK
  <2> QED
    BY <2>1, <2>2
<1>5. PICK g : SetFrame(t, g)
               /\ (g = Finished(f, FALSE) \/ g = [f EXCEPT !.pc = "answer", !.val = v])
  BY <1>2, <1>4 DEF FindResult
<1>6. Good(f, g, d)
  <2>1. "answer" \in (NodeLabels \ {"read"}) \union {"answer"} /\ f.pc \in NodeLabels
    BY <1>3 DEF NodeLabels
  <2>2. g = [f EXCEPT !.pc = "answer", !.val = v] => Good(f, g, d)
    BY <1>3, <2>1, OnGood
  <2> QED
    BY <1>3, <1>5, <2>2, FinishedGood
<1> QED
  BY <1>1, <1>2, <1>3, <1>5, <1>6, QuietKept

LEMMA StoreAnswerStep ==
  ASSUME TypeInv, NEW t \in Thread, StoreAnswer(t) PROVE Kept(t)
<1>1. At(t, "answer") /\ "answer" \in OpLabels /\ UNCHANGED <<heap, status, pstatus, stack>>
  BY DEF StoreAnswer, OpLabels, Labels
<1>2. PICK f, o, d : f = Fr(t) /\ o = Op(t) /\ d = Top(t)
  OBVIOUS
<1>3. /\ Busy(t) /\ d \in Desc /\ Runs(f, o, d) /\ f \in Frame /\ f.val \in Nat
      /\ f.opid \in 1..MaxOps /\ f.opid <= Len(ops[d]) /\ o \in Operator /\ o = ops[d][f.opid]
      /\ f.pc = "answer"
  BY <1>1, <1>2, Running DEF Runs, Frame
<1>4. /\ ops' = [ops EXCEPT ![d][f.opid].value = f.val] /\ SetFrame(t, Finished(f, TRUE))
  BY <1>2 DEF StoreAnswer
<1>5. PICK s \in Seq(Operator) : s = ops[d] /\ Len(s) \in Nat /\ Len(s) <= MaxOps
                                 /\ f.opid \in 1..Len(s)
  BY <1>3, LenProperties DEF TypeInv, TypeOK
<1>6. PICK q \in Operator : q = [o EXCEPT !.value = f.val] /\ q.key = o.key
  <2>1. [o EXCEPT !.value = f.val] \in Operator /\ [o EXCEPT !.value = f.val].key = o.key
    BY <1>3 DEF Operator
  <2> QED
    BY <2>1
<1>7. /\ ops' \in [Desc -> Seq(Operator)]
      /\ \A e \in Desc : e # d => ops'[e] = ops[e]
      /\ ops'[d] = [s EXCEPT ![f.opid] = q]
  <2>1. PICK i \in 1..Len(s) : i = f.opid
    BY <1>5
  <2>2. [s EXCEPT ![i] = q] \in Seq(Operator)
    BY ExceptSeq
  <2>3. ops' = [ops EXCEPT ![d] = [s EXCEPT ![i] = q]]
    BY <1>3, <1>4, <1>5, <1>6, <2>1 DEF TypeInv, TypeOK
  <2> QED
    BY <1>3, <2>1, <2>2, <2>3 DEF TypeInv, TypeOK
<1>8. Len(ops'[d]) = Len(s) /\ \A i \in 1..Len(s) : ops'[d][i].key = s[i].key
  <2>1. PICK i \in 1..Len(s) : i = f.opid
    BY <1>5
  <2>2. /\ Len([s EXCEPT ![i] = q]) = Len(s)
        /\ \A j \in 1..Len(s) : [s EXCEPT ![i] = q][j] = IF j = i THEN q ELSE s[j]
    BY ExceptSeq
  <2> QED
    BY <1>3, <1>5, <1>6, <1>7, <2>1, <2>2
<1>9. ASSUME NEW e \in Desc
      PROVE  /\ Len(ops[e]) \in Nat /\ Len(ops'[e]) = Len(ops[e]) /\ Len(ops[e]) <= MaxOps
             /\ \A i \in 1..Len(ops[e]) : ops'[e][i].key = ops[e][i].key
  <2>1. Len(ops[e]) \in Nat /\ Len(ops[e]) <= MaxOps
    BY LenProperties DEF TypeInv, TypeOK
  <2> QED
    BY <1>5, <1>7, <1>8, <2>1
<1>10. UNCHANGED spine /\ UNCHANGED <<nd, value, status, pstatus, stack>>
  BY <1>1 DEF heap
<1>11. Grows
  BY <1>9, <1>10, GrowsOps
<1>12. DescInv' /\ PreInv'
  BY <1>10, <1>11, DescStable DEF TypeInv, PreInv
<1>13. Good(f, Finished(f, TRUE), d)
  BY <1>3, FinishedGood
<1> QED
  BY <1>2, <1>3, <1>4, <1>7, <1>9, <1>10, <1>11, <1>12, <1>13, CallKept DEF TypeInv, TypeOK

-----------------------------------------------------------------------------
(* The actions: calls, and the end of HelpOps.                             *)

\* A step that changes frames of several calls, or none.
LEMMA FramesKept ==
  ASSUME TypeInv, NEW t \in Thread, UNCHANGED <<spine, nd>>, Grows, TypeOK', PreInv',
         \A u \in Thread, x \in Desc :
           fr'[u][x] = fr[u][x]
             \/ (Good(fr[u][x], fr'[u][x], x) /\ ~Lost(fr[u][x], fr'[u][x]))
  PROVE  Kept(t)
<1>1. ASSUME NEW u \in Thread, NEW x \in Desc, fr'[u][x] # fr[u][x]
      PROVE  FrameInv(fr[u][x], x)'
  <2>1. PICK g : g = fr'[u][x]
    OBVIOUS
  <2>2. g \in Frame /\ FrameInv(g, x)
    BY <1>1, <2>1 DEF Good
  <2>3. FrameInv(g, x)'
    BY <2>2, FrameInvStable
  <2> QED
    BY <2>1, <2>3
<1>2. TypeInv'
  <2>1. SpinesInv' /\ DescInv'
    BY SpinesStable, DescStable
  <2> QED
    BY <1>1, <2>1, TypeKept
<1>3. ASSUME Patient, RouteInv PROVE RouteInv'
  <2>1. Routes
    BY DEF Routes
  <2>2. PICK at \in Places : TrieInv(at) /\ WaysInv(at)
    BY <1>3 DEF RouteInv
  <2>3. ASSUME NEW u \in Thread, NEW x \in Desc, fr'[u][x] # fr[u][x]
        PROVE  OnWay(fr[u][x], x, at)'
    <3>1. PICK f, g : f = fr[u][x] /\ g = fr'[u][x]
      OBVIOUS
    <3>2. g \in Frame /\ FrameInv(g, x) /\ Good(f, g, x) /\ ~Lost(f, g)
      BY <2>3, <3>1 DEF Good
    <3>3. OnWay(f, x, at)
      BY <2>2, <3>1 DEF WaysInv, OnWay
    <3>4. OnWay(g, x, at)
      BY <1>3, <2>2, <3>2, <3>3 DEF Good
    <3>5. OnWay(g, x, at)'
      BY <2>1, <3>2, <3>4, OnWayStable
    <3> QED
      BY <3>1, <3>5
  <2>4. at \in Places' /\ TrieInv(at)'
    BY <2>2, TrieStable DEF Places
  <2> QED
    BY <2>1, <2>2, <2>3, <2>4, RouteKept
<1> QED
  BY <1>2, <1>3 DEF Kept

LEMMA ExecuteOpsStep ==
  ASSUME TypeInv, NEW t \in Thread, ExecuteOps(t) PROVE Kept(t)
<1>1. UNCHANGED <<spine, nd, value, status, pstatus, fr>>
  BY DEF ExecuteOps, heap
<1>2. PICK d \in Desc, o \in OpArrays :
        ops[d] = <<>> /\ ops' = [ops EXCEPT ![d] = o] /\ stack' = [stack EXCEPT ![t] = <<d>>]
  BY DEF ExecuteOps
<1>3. <<d>> \in Seq(Desc)
  OBVIOUS
<1>4. o \in Seq(Operator) /\ Len(o) \in Nat /\ Len(o) <= MaxOps
  BY ConstantsAssumption, LenProperties
<1>5. ops' \in [Desc -> Seq(Operator)] /\ \A e \in Desc : ops'[e] = IF e = d THEN o ELSE ops[e]
  BY <1>2, <1>4 DEF TypeInv, TypeOK
<1>6. \A e \in Desc : Len(ops[e]) \in Nat /\ Len(ops[e]) <= MaxOps
  BY LenProperties DEF TypeInv, TypeOK
<1>7. stack' \in [Thread -> Seq(Desc)]
  BY <1>2, <1>3 DEF TypeInv, TypeOK
<1>8. TypeOK'
  BY <1>1, <1>4, <1>5, <1>6, <1>7 DEF TypeInv, TypeOK
<1>9. ASSUME NEW e \in Desc
      PROVE  /\ Len(ops[e]) \in Nat /\ Len(ops'[e]) \in Nat /\ Len(ops[e]) <= Len(ops'[e])
             /\ \A i \in 1..Len(ops[e]) : ops'[e][i].key = ops[e][i].key
  <2>1. CASE e = d
    <3>1. Len(ops[d]) = 0 /\ 1..Len(ops[d]) = {}
      BY <1>2
    <3> QED
      BY <1>4, <1>5, <2>1, <3>1
  <2>2. CASE e # d
    BY <1>5, <1>6, <2>2
  <2> QED
    BY <2>1, <2>2
<1>10. Grows
  BY <1>1, <1>9, GrowsOps
<1>11. PreInv'
  BY <1>1 DEF TypeInv, PreInv
<1> QED
  BY <1>1, <1>8, <1>10, <1>11, FramesKept

\* A frame that persists the descriptor it has found at its node.
LEMMA PersistGood ==
  ASSUME TypeInv, NEW f, NEW o, NEW d, Runs(f, o, d), OpInv(f, o), HasOld(f), NEW g \in Frame,
         g.opid = f.opid /\ g.local = f.local /\ g.right = f.right,
         g.node = f.node /\ g.fails = f.fails /\ g.old = f.old,
         g.pc \in {"claim", "persisted"}, g.back = "exist"
  PROVE  Good(f, g, d)
<1>1. InOp(g) /\ ~HasCurr(g)
  BY DEF InOp, HasCurr
<1>2. IsData(g.node.to) /\ g.old # Null /\ Known(g.old)
  BY DEF OpInv, HasOld
<1>3. OpInv(g, o)
  BY <1>1, <1>2 DEF OpInv, Runs
<1>4. FrameInv(g, d)
  BY <1>1, <1>3 DEF FrameInv, Runs
<1>5. ASSUME NEW at, OnWay(f, d, at) PROVE OnWay(g, d, at)
  <2>1. WayInv(f, o, at)
    BY <1>5 DEF OnWay, Runs
  <2>2. WayInv(g, o, at)
    BY <2>1 DEF WayInv, Cell
  <2> QED
    BY <2>2 DEF OnWay, Runs
<1> QED
  BY <1>4, <1>5 DEF Good

LEMMA OldDesc ==
  ASSUME NEW c \in NodeDesc
  PROVE  c.desc \in AllDesc /\ (c.desc # PreDesc => c.desc \in Desc /\ c.opid \in 1..MaxOps)
BY DEF NodeDesc, AllDesc

LEMMA FinishPendingTxnStep ==
  ASSUME TypeInv, NEW t \in Thread, FinishPendingTxn(t) PROVE Kept(t)
<1>1. At(t, "help") /\ UNCHANGED <<heap, txn>>
  BY DEF FinishPendingTxn
<1>2. PICK f, o, d : f = Fr(t) /\ o = Op(t) /\ d = Top(t)
  OBVIOUS
<1>3. /\ Busy(t) /\ d \in Desc /\ f.pc = "help" /\ f.back = "return" /\ f \in Frame
      /\ Runs(f, o, d) /\ OpInv(f, o) /\ f.old \in NodeDesc
  BY <1>1, <1>2, AtNode DEF NodeLabels
<1>4. f.pc \in NodeLabels /\ "exist" \in (NodeLabels \ {"read"}) \union {"answer"}
      /\ "cycle" \in (NodeLabels \ {"read"}) \union {"answer"}
  BY <1>3 DEF NodeLabels
<1>5. PICK g : g = [f EXCEPT !.pc = "exist"]
  OBVIOUS
<1>6. Good(f, g, d)
  BY <1>3, <1>4, <1>5, GoOnGood
<1>7. Good(f, [f EXCEPT !.pc = "cycle"], d)
  BY <1>3, <1>4, GoOnGood
<1>8. CASE GoTo(t, "exist") /\ UNCHANGED stack
  <2>1. SetFrame(t, g)
    BY <1>2, <1>5, <1>8 DEF GoTo
  <2> QED
    BY <1>1, <1>2, <1>3, <1>6, <1>8, <2>1, QuietKept
<1>9. CASE GoTo(t, "cycle") /\ UNCHANGED stack
  <2>1. SetFrame(t, [f EXCEPT !.pc = "cycle"])
    BY <1>2, <1>9 DEF GoTo
  <2> QED
    BY <1>1, <1>2, <1>3, <1>7, <1>9, <2>1, QuietKept
<1>10. ASSUME NEW c, c = f.old, NEW e, e = c.desc, NeedsHelp(e),
              stack' = [stack EXCEPT ![t] = Append(@, e)],
              fr' = [fr EXCEPT ![t] = [@ EXCEPT ![d].pc = "exist", ![e] = NewFrame(c.opid + 1)]]
       PROVE  Kept(t)
  <2>1. e # PreDesc
    BY <1>10 DEF NeedsHelp, TypeInv, PreInv
  <2>2. e \in Desc /\ c.opid \in 1..MaxOps
    BY <1>3, <1>10, <2>1, OldDesc
  <2>3. PICK i \in 1..(MaxOps + 1) : i = c.opid + 1
    BY <2>2, Sizes
  <2>4. PICK h \in Frame : h = NewFrame(i) /\ h.pc = "loop"
    BY NewFrameFacts
  <2>5. f = fr[t][d] /\ fr \in [Thread -> [Desc -> Frame]]
    BY <1>2 DEF Fr, TypeInv, TypeOK
  <2>6. g \in Frame
    BY <1>6 DEF Good
  <2>7. fr' = [fr EXCEPT ![t] = [fr[t] EXCEPT ![d] = g, ![e] = h]]
    BY <1>3, <1>5, <1>10, <2>2, <2>3, <2>4, <2>5
  <2>8. /\ fr' \in [Thread -> [Desc -> Frame]] /\ fr'[t][e] = h
        /\ e # d => fr'[t][d] = g
        /\ \A u \in Thread, x \in Desc : u # t \/ (x # d /\ x # e) => fr'[u][x] = fr[u][x]
    BY <1>3, <2>2, <2>5, <2>6, <2>7
  <2>9. stack' \in [Thread -> Seq(Desc)]
    <3>1. stack[t] \in Seq(Desc)
      BY DEF TypeInv, TypeOK
    <3>2. Append(stack[t], e) \in Seq(Desc)
      BY <2>2, <3>1, AppendProperties
    <3> QED
      BY <1>10, <3>2 DEF TypeInv, TypeOK
  <2>10. UNCHANGED <<spine, ops>> /\ UNCHANGED <<nd, value, status, pstatus>>
    BY <1>1 DEF heap, txn
  <2>11. Grows
    BY <2>10, GrowsSame
  <2>12. TypeOK' /\ PreInv'
    BY <2>8, <2>9, <2>10 DEF TypeInv, TypeOK, PreInv
  <2>13. Good(fr[t][e], h, e) /\ ~Lost(fr[t][e], h)
    BY <2>4, NewFrameGood DEF Lost
  <2>14. Good(fr[t][d], g, d) /\ ~Lost(fr[t][d], g)
    BY <1>3, <1>6, <2>5 DEF Lost
  <2>15. \A u \in Thread, x \in Desc :
           fr'[u][x] = fr[u][x]
             \/ (Good(fr[u][x], fr'[u][x], x) /\ ~Lost(fr[u][x], fr'[u][x]))
    BY <2>8, <2>13, <2>14
  <2> QED
    BY <2>10, <2>11, <2>12, <2>15, FramesKept
<1> QED
  BY <1>2, <1>8, <1>9, <1>10 DEF FinishPendingTxn

LEMMA CycleAbortStep ==
  ASSUME TypeInv, NEW t \in Thread, CycleAbort(t) PROVE Kept(t)
<1>1. At(t, "cycle") /\ UNCHANGED <<heap, ops, pstatus, stack>>
  BY DEF CycleAbort
<1>2. PICK f, o, d : f = Fr(t) /\ o = Op(t) /\ d = Top(t)
  OBVIOUS
<1>3. /\ Busy(t) /\ f.pc = "cycle" /\ f.back = "return" /\ f \in Frame
      /\ Runs(f, o, d) /\ OpInv(f, o) /\ f.old \in NodeDesc
  BY <1>1, <1>2, AtNode DEF NodeLabels
<1>4. HasOld(f)
  BY <1>3 DEF HasOld, HasNode
<1>5. PICK g : g = [f EXCEPT !.pc = "claim", !.back = "exist"]
  OBVIOUS
<1>6. /\ g \in Frame /\ g.pc = "claim" /\ g.back = "exist" /\ g.opid = f.opid
      /\ g.local = f.local /\ g.right = f.right /\ g.node = f.node /\ g.fails = f.fails
      /\ g.old = f.old
  BY <1>3, <1>5 DEF Frame, Labels
<1>7. Good(f, g, d)
  BY <1>3, <1>4, <1>6, PersistGood
<1>8. SetFrame(t, g)
  BY <1>2, <1>5 DEF CycleAbort
<1>9. PICK e \in AllDesc : e = f.old.desc
  BY <1>3, OldDesc
<1>10. status' = [status EXCEPT ![e] = IF @ = "ACTIVE" THEN "ABORTED" ELSE @]
  BY <1>2, <1>9 DEF CycleAbort
<1>11. status' \in [AllDesc -> {"ACTIVE", "COMMITTED", "ABORTED"}] /\ PreInv'
  <2>1. PreDesc \in AllDesc
    BY DEF AllDesc
  <2> QED
    BY <1>1, <1>9, <1>10, <2>1 DEF TypeInv, TypeOK, PreInv
<1>12. UNCHANGED <<spine, ops>> /\ UNCHANGED <<nd, value, pstatus, stack>>
  BY <1>1 DEF heap
<1>13. Grows
  BY <1>12, GrowsSame
<1>14. DescInv'
  BY <1>12, <1>13, DescStable
<1> QED
  BY <1>2, <1>3, <1>7, <1>8, <1>11, <1>12, <1>13, <1>14, CallKept DEF TypeInv, TypeOK

\* The end of a call, with whatever has become of the descriptors.
LEMMA EndKept ==
  ASSUME TypeInv, NEW t \in Thread, Busy(t), Fr(t).pc \notin {"update", "swap"},
         NEW g, Good(Fr(t), g, Top(t)), SetFrame(t, g), UNCHANGED <<heap, ops>>,
         stack' \in [Thread -> Seq(Desc)],
         status' \in [AllDesc -> {"ACTIVE", "COMMITTED", "ABORTED"}],
         pstatus' \in [AllDesc -> {"MAYBE", "IN_PROGRESS", "PERSISTED"}],
         PreInv'
  PROVE  Kept(t)
<1>1. UNCHANGED <<spine, ops>> /\ UNCHANGED <<nd, value>>
  BY DEF heap
<1>2. Grows
  BY <1>1, GrowsSame
<1>3. DescInv'
  BY <1>1, <1>2, DescStable
<1> QED
  BY <1>1, <1>2, <1>3, CallKept DEF TypeInv, TypeOK

LEMMA FrontType ==
  ASSUME TypeInv, NEW t \in Thread, Busy(t), stack' = [stack EXCEPT ![t] = Front(@)]
  PROVE  stack' \in [Thread -> Seq(Desc)]
<1>1. PICK s \in Seq(Desc) : s = stack[t] /\ Len(s) \in Nat /\ Len(s) > 0
  BY TopFacts, EmptySeq DEF TypeInv
<1>2. PICK n \in Nat : n = Len(s) - 1
  <2>1. Len(s) - 1 \in Nat
    BY ONLY <1>1
  <2> QED
    BY <2>1
<1>3. \A i \in 1..n : s[i] \in Desc
  BY <1>1, <1>2
<1>4. SubSeq(s, 1, n) \in Seq(Desc)
  BY <1>3, SubSeqProperties
<1> QED
  BY <1>1, <1>2, <1>4 DEF Front, TypeInv, TypeOK

\* A frame at the end of its call: it runs no operation, or waits in one for the
\* descriptor of another.
LEMMA EndFrame ==
  ASSUME TypeInv, NEW t \in Thread, NEW p \in {"decide", "claim", "persisted"}, At(t, p)
  PROVE  /\ Busy(t) /\ Top(t) \in Desc /\ Fr(t) \in Frame /\ Fr(t).pc = p
         /\ \/ /\ Fr(t).back = "return" /\ ~InOp(Fr(t)) /\ Fr(t).local = 1 /\ Fr(t).right = 0
               /\ Fr(t).node = NullSlot /\ Fr(t).fails = 0
            \/ /\ Fr(t).back = "exist" /\ p # "decide" /\ Runs(Fr(t), Op(t), Top(t))
               /\ OpInv(Fr(t), Op(t)) /\ HasOld(Fr(t))
               /\ IsData(Fr(t).node.to) /\ Fr(t).old # Null /\ Known(Fr(t).old)
               /\ Fr(t).old \in NodeDesc
<1>1. /\ Busy(t) /\ Fr(t).pc = p /\ Top(t) \in Desc /\ Fr(t) \in Frame
      /\ FrameInv(Fr(t), Top(t))
  BY TopFacts DEF At, TypeInv, FramesInv
<1>2. PICK f \in Frame : f = Fr(t)
  BY <1>1
<1>3. f.back \in {"return", "exist"} /\ f.pc = p
  BY <1>1, <1>2 DEF Frame
<1>4. CASE f.back = "return"
  <2>1. ~InOp(f)
    BY <1>3, <1>4 DEF InOp
  <2> QED
    BY <1>1, <1>2, <1>4, <2>1 DEF FrameInv
<1>5. CASE f.back = "exist"
  <2>1. InOp(f) /\ HasNode(f) /\ HasOld(f) /\ p # "decide"
    BY <1>1, <1>2, <1>3, <1>5 DEF InOp, HasNode, HasOld, FrameInv
  <2>2. f.opid <= Len(ops[Top(t)]) /\ OpInv(f, Op(t)) /\ f.opid \in 1..(MaxOps + 1)
    BY <1>1, <1>2, <2>1 DEF FrameInv, Op, Frame
  <2>3. Op(t) \in Operator /\ f.opid \in 1..MaxOps
    BY <1>1, <1>2, <2>2, OpFacts DEF Op, TypeInv
  <2>4. Runs(f, Op(t), Top(t))
    BY <1>1, <1>2, <2>1, <2>2, <2>3 DEF Runs, Op, OpInv
  <2>5. IsData(f.node.to) /\ f.old # Null /\ Known(f.old) /\ f.old \in NodeDesc
    BY <2>1, <2>2 DEF OpInv, Frame
  <2> QED
    BY <1>1, <1>2, <1>5, <2>1, <2>2, <2>4, <2>5
<1> QED
  BY <1>3, <1>4, <1>5

LEMMA DecideTxnStep ==
  ASSUME TypeInv, NEW t \in Thread, DecideTxn(t) PROVE Kept(t)
<1>1. At(t, "decide") /\ UNCHANGED <<heap, ops>> /\ UNCHANGED pstatus
  BY DEF DecideTxn
<1>2. PICK f, d : f = Fr(t) /\ d = Top(t)
  OBVIOUS
<1>3. /\ Busy(t) /\ d \in Desc /\ f \in Frame /\ f.pc = "decide" /\ f.back = "return"
      /\ f.local = 1 /\ f.right = 0 /\ f.node = NullSlot /\ f.fails = 0
  BY <1>1, <1>2, EndFrame
<1>4. d \in AllDesc /\ d # PreDesc /\ PreDesc \in AllDesc
  BY <1>3, ConstantsAssumption DEF AllDesc
<1>5. CASE status' = [status EXCEPT ![d] = Verdict(f)] /\ GoTo(t, "claim") /\ UNCHANGED stack
  <2>1. PICK g : g = [f EXCEPT !.pc = "claim"]
    OBVIOUS
  <2>2. /\ g \in Frame /\ g.pc = "claim" /\ g.back = "return" /\ g.local = 1 /\ g.right = 0
        /\ g.node = NullSlot /\ g.fails = 0
    BY <1>3, <2>1 DEF Frame, Labels
  <2>3. ~InOp(g)
    BY <2>2 DEF InOp
  <2>4. Good(f, g, d)
    BY <2>2, <2>3, LooseGood
  <2>5. SetFrame(t, g)
    BY <1>2, <1>5, <2>1 DEF GoTo
  <2>6. Verdict(f) \in {"ACTIVE", "COMMITTED", "ABORTED"}
    BY DEF Verdict
  <2>7. status' \in [AllDesc -> {"ACTIVE", "COMMITTED", "ABORTED"}] /\ PreInv'
    BY <1>1, <1>4, <1>5, <2>6 DEF TypeInv, TypeOK, PreInv
  <2> QED
    BY <1>1, <1>2, <1>3, <1>5, <2>4, <2>5, <2>7, EndKept DEF TypeInv, TypeOK
<1>6. CASE Return(t) /\ UNCHANGED status
  <2>1. 1 \in 1..(MaxOps + 1)
    BY ConstantsAssumption
  <2>2. Good(f, NewFrame(1), d) /\ SetFrame(t, NewFrame(1))
    BY <1>6, <2>1, NewFrameGood DEF Return
  <2>3. stack' \in [Thread -> Seq(Desc)]
    BY <1>3, <1>6, FrontType DEF Return
  <2> QED
    BY <1>1, <1>2, <1>3, <1>6, <2>2, <2>3, EndKept DEF TypeInv, TypeOK, PreInv
<1> QED
  BY <1>2, <1>5, <1>6 DEF DecideTxn

LEMMA EndPersistKept ==
  ASSUME TypeInv, NEW t \in Thread, NEW p \in {"claim", "persisted"}, At(t, p), EndPersist(t),
         UNCHANGED <<heap, ops>>, UNCHANGED status,
         pstatus' \in [AllDesc -> {"MAYBE", "IN_PROGRESS", "PERSISTED"}], PreInv'
  PROVE  Kept(t)
<1>1. PICK f, o, d : f = Fr(t) /\ o = Op(t) /\ d = Top(t)
  OBVIOUS
<1>2. /\ Busy(t) /\ d \in Desc /\ f \in Frame /\ f.pc = p
      /\ \/ f.back = "return"
         \/ /\ f.back = "exist" /\ Runs(f, o, d) /\ OpInv(f, o) /\ HasOld(f)
            /\ IsData(f.node.to) /\ f.old # Null /\ Known(f.old)
  BY <1>1, EndFrame
<1>3. CASE f.back = "return"
  <2>1. Return(t) /\ 1 \in 1..(MaxOps + 1)
    BY <1>1, <1>3, ConstantsAssumption DEF EndPersist
  <2>2. Good(f, NewFrame(1), d) /\ SetFrame(t, NewFrame(1))
    BY <2>1, NewFrameGood DEF Return
  <2>3. stack' \in [Thread -> Seq(Desc)]
    BY <1>2, <2>1, FrontType DEF Return
  <2> QED
    BY <1>1, <1>2, <2>2, <2>3, EndKept DEF TypeInv, TypeOK
<1>4. CASE f.back = "exist"
  <2>1. PICK g : g = [f EXCEPT !.pc = "exist", !.back = "return"]
    OBVIOUS
  <2>2. SetFrame(t, g) /\ UNCHANGED stack
    BY <1>1, <1>4, <2>1 DEF EndPersist
  <2>3. /\ g \in Frame /\ g.pc = "exist" /\ g.back = "return" /\ g.opid = f.opid
        /\ g.local = f.local /\ g.right = f.right /\ g.node = f.node /\ g.fails = f.fails
        /\ g.old = f.old
    BY <1>2, <2>1 DEF Frame, Labels
  <2>4. g.pc \in OpLabels \ {"mark", "expand", "place", "split"} /\ ~HasCurr(g)
    BY <2>3 DEF OpLabels, Labels, HasCurr
  <2>5. Good(f, g, d)
    BY <1>2, <1>4, <2>3, <2>4, StayGood
  <2> QED
    BY <1>1, <1>2, <2>2, <2>5, EndKept DEF TypeInv, TypeOK
<1> QED
  BY <1>2, <1>3, <1>4

LEMMA TargetType ==
  ASSUME TypeInv, NEW t \in Thread, NEW p \in {"claim", "persisted"}, At(t, p)
  PROVE  PersistTarget(t) \in AllDesc
<1>1. PICK f \in Frame : f = Fr(t)
  BY EndFrame
<1>2. Top(t) \in AllDesc /\ (f.back = "exist" => f.old \in NodeDesc)
  BY <1>1, EndFrame DEF AllDesc
<1> QED
  BY <1>1, <1>2, OldDesc DEF PersistTarget

LEMMA PersistClaimStep ==
  ASSUME TypeInv, NEW t \in Thread, PersistClaim(t) PROVE Kept(t)
<1>1. At(t, "claim") /\ UNCHANGED <<heap, ops>> /\ UNCHANGED status
  BY DEF PersistClaim
<1>2. PICK e \in AllDesc : e = PersistTarget(t)
  BY <1>1, TargetType
<1>3. CASE pstatus[e] = "PERSISTED"
  <2>1. EndPersist(t) /\ UNCHANGED pstatus
    BY <1>2, <1>3 DEF PersistClaim
  <2> QED
    BY <1>1, <2>1, EndPersistKept DEF TypeInv, TypeOK, PreInv
<1>4. CASE pstatus[e] # "PERSISTED"
  <2>1. GoTo(t, "persisted") /\ pstatus' = [pstatus EXCEPT ![e] = "IN_PROGRESS"] /\ UNCHANGED stack
    BY <1>2, <1>4 DEF PersistClaim
  <2>2. PICK f, o, d : f = Fr(t) /\ o = Op(t) /\ d = Top(t)
    OBVIOUS
  <2>3. /\ Busy(t) /\ d \in Desc /\ f \in Frame /\ f.pc = "claim"
        /\ \/ /\ f.back = "return" /\ f.local = 1 /\ f.right = 0 /\ f.node = NullSlot /\ f.fails = 0
           \/ f.back = "exist" /\ Runs(f, o, d) /\ OpInv(f, o) /\ HasOld(f)
    BY <1>1, <2>2, EndFrame
  <2>4. PICK g : g = [f EXCEPT !.pc = "persisted"]
    OBVIOUS
  <2>5. /\ g \in Frame /\ g.pc = "persisted" /\ g.back = f.back /\ g.opid = f.opid
        /\ g.local = f.local /\ g.right = f.right /\ g.node = f.node /\ g.fails = f.fails
        /\ g.old = f.old
    BY <2>3, <2>4 DEF Frame, Labels
  <2>6. Good(f, g, d)
    <3>1. CASE f.back = "return"
      <4>1. ~InOp(g)
        BY <2>5, <3>1 DEF InOp
      <4> QED
        BY <2>3, <2>5, <3>1, <4>1, LooseGood
    <3>2. CASE f.back = "exist"
      BY <2>3, <2>5, <3>2, PersistGood
    <3> QED
      BY <2>3, <3>1, <3>2
  <2>7. SetFrame(t, g)
    BY <2>1, <2>2, <2>4 DEF GoTo
  <2>8. e # PreDesc
    BY <1>4 DEF TypeInv, PreInv
  <2>9. pstatus' \in [AllDesc -> {"MAYBE", "IN_PROGRESS", "PERSISTED"}] /\ PreInv'
    BY <1>1, <2>1, <2>8 DEF TypeInv, TypeOK, PreInv, AllDesc
  <2> QED
    BY <1>1, <2>1, <2>2, <2>3, <2>6, <2>7, <2>9, EndKept DEF TypeInv, TypeOK
<1> QED
  BY <1>3, <1>4

LEMMA PersistDoneStep ==
  ASSUME TypeInv, NEW t \in Thread, PersistDone(t) PROVE Kept(t)
<1>1. At(t, "persisted") /\ UNCHANGED <<heap, ops>> /\ UNCHANGED status /\ EndPersist(t)
  BY DEF PersistDone
<1>2. PICK e \in AllDesc : e = PersistTarget(t)
  BY <1>1, TargetType
<1>3. pstatus' = [pstatus EXCEPT ![e] = "PERSISTED"]
  BY <1>2 DEF PersistDone
<1>4. pstatus' \in [AllDesc -> {"MAYBE", "IN_PROGRESS", "PERSISTED"}] /\ PreInv'
  BY <1>1, <1>3 DEF TypeInv, TypeOK, PreInv, AllDesc
<1> QED
  BY <1>1, <1>4, EndPersistKept

-----------------------------------------------------------------------------
(* The actions: a slot gets new contents.                                  *)

\* What a slot may hold if there are m arrays.
Holds(m, s) ==
  /\ s \in [to : NodeDesc \union {Null} \union [spine : 2..m], mark : BOOLEAN]
  /\ IsData(s.to) => Known(s.to)

\* Slot j of array i gets s, and the arrays of more are new.
SlotSet(i, j, s, more) ==
  /\ i \in DOMAIN spine /\ j \in DOMAIN spine[i]
  /\ Len(more) \in Nat
  /\ Holds(Len(spine) + Len(more), s)
  /\ \A p \in 1..Len(more) : /\ DOMAIN more[p] = 0..(SUB_SIZE - 1)
                             /\ more[p] \in Array(2)
                             /\ \A q \in 0..(SUB_SIZE - 1) :
                                  Holds(Len(spine) + Len(more), more[p][q])
  /\ spine' \in Seq(Array(1) \union Array(2))
  /\ Len(spine') = Len(spine) + Len(more)
  /\ \A p \in DOMAIN spine :
       spine'[p] = IF p = i THEN [spine[i] EXCEPT ![j] = s] ELSE spine[p]
  /\ \A p \in 1..Len(more) : spine'[Len(spine) + p] = more[p]

LEMMA CellType ==
  ASSUME NEW m \in Nat, NEW s, Holds(m, s)
  PROVE  s \in [to : NodeDesc \union {Null} \union [spine : Nat], mark : BOOLEAN]
<1>1. 2..m \subseteq Nat
  BY SMT
<1> QED
  BY <1>1 DEF Holds

LEMMA ArrayTypes ==
  ASSUME TypeInv, NEW i \in DOMAIN spine
  PROVE  /\ spine[i] \in Array(i) /\ (Array(i) = Array(1) \/ Array(i) = Array(2))
         /\ spine \in Seq(Array(1) \union Array(2))
<1>1. spine[i] \in [0..(Size(i) - 1) -> Contents]
  BY DEF TypeInv, SpinesInv
<1>2. 2..Len(spine) \subseteq Nat
  BY SpineFacts
<1>3. Contents \subseteq [to : NodeDesc \union {Null} \union [spine : Nat], mark : BOOLEAN]
  BY <1>2 DEF Contents, Pointer
<1>4. spine[i] \in Array(i)
  BY <1>1, <1>3 DEF Array
<1>5. Size(i) = Size(1) \/ Size(i) = Size(2)
  BY DEF Size
<1> QED
  BY <1>4, <1>5 DEF Array, TypeInv, SpinesInv

\* A sequence with a new element i and more behind it.
LEMMA SequenceSet ==
  ASSUME NEW S, NEW r \in Seq(S), NEW i \in 1..Len(r), NEW a \in S, NEW more \in Seq(S),
         NEW n, n = [r EXCEPT ![i] = a] \o more
  PROVE  /\ n \in Seq(S) /\ Len(r) \in Nat /\ Len(more) \in Nat
         /\ Len(n) = Len(r) + Len(more)
         /\ \A p \in 1..Len(r) : n[p] = IF p = i THEN a ELSE r[p]
         /\ \A p \in 1..Len(more) : n[Len(r) + p] = more[p]
<1>1. Len(r) \in Nat /\ Len(more) \in Nat
  BY LenProperties
<1>2. PICK e : e = [r EXCEPT ![i] = a]
  OBVIOUS
<1>3. /\ e \in Seq(S) /\ Len(e) = Len(r)
      /\ \A p \in 1..Len(r) : e[p] = IF p = i THEN a ELSE r[p]
  BY <1>2, ExceptSeq
<1>4. n = e \o more
  BY <1>2
<1>5. n \in Seq(S) /\ Len(n) = Len(e) + Len(more)
  BY <1>3, <1>4, ConcatProperties
<1>6. \A p \in 1..(Len(e) + Len(more)) : n[p] = IF p <= Len(e) THEN e[p] ELSE more[p - Len(e)]
  BY <1>3, <1>4, ConcatProperties
<1>7. ASSUME NEW p \in 1..Len(r) PROVE n[p] = IF p = i THEN a ELSE r[p]
  <2>1. p \in 1..(Len(e) + Len(more)) /\ p <= Len(e)
    BY <1>1, <1>3
  <2> QED
    BY <1>3, <1>6, <2>1
<1>8. ASSUME NEW p \in 1..Len(more) PROVE n[Len(r) + p] = more[p]
  <2>1. /\ Len(e) + p \in 1..(Len(e) + Len(more)) /\ ~(Len(e) + p <= Len(e))
        /\ Len(e) + p - Len(e) = p
    BY <1>1, <1>3
  <2> QED
    BY <1>3, <1>6, <2>1
<1> QED
  BY <1>1, <1>3, <1>5, <1>7, <1>8

LEMMA SlotSetIs ==
  ASSUME TypeInv, NEW i \in DOMAIN spine, NEW j \in DOMAIN spine[i], NEW more \in Seq(Array(2)),
         NEW s, Holds(Len(spine) + Len(more), s),
         \A p \in 1..Len(more) : \A q \in 0..(SUB_SIZE - 1) :
           Holds(Len(spine) + Len(more), more[p][q]),
         spine' = [spine EXCEPT ![i][j] = s] \o more
  PROVE  SlotSet(i, j, s, more)
<1> DEFINE S == Array(1) \union Array(2)
<1>1. /\ spine \in Seq(S) /\ Len(spine) \in Nat /\ Len(more) \in Nat /\ i \in 1..Len(spine)
      /\ DOMAIN spine = 1..Len(spine)
  BY ArrayTypes, SpineFacts, LenProperties
<1>2. more \in Seq(S)
  BY SeqMonotonic
<1>3. PICK a : a = [spine[i] EXCEPT ![j] = s]
  OBVIOUS
<1>4. a \in S
  <2>1. spine[i] \in Array(i)
    BY ArrayTypes
  <2>2. s \in [to : NodeDesc \union {Null} \union [spine : Nat], mark : BOOLEAN]
    BY <1>1, CellType
  <2>3. a \in Array(i)
    BY <1>3, <2>1, <2>2 DEF Array
  <2> QED
    BY <2>3, ArrayTypes
<1>5. PICK n : n = spine'
  OBVIOUS
<1>6. n = [spine EXCEPT ![i] = a] \o more
  BY <1>1, <1>3, <1>5
<1>7. /\ n \in Seq(S) /\ Len(n) = Len(spine) + Len(more)
      /\ \A p \in 1..Len(spine) : n[p] = IF p = i THEN a ELSE spine[p]
      /\ \A p \in 1..Len(more) : n[Len(spine) + p] = more[p]
  <2> HIDE DEF S
  <2> QED
    BY <1>1, <1>2, <1>4, <1>6, SequenceSet
<1>8. \A p \in 1..Len(more) : more[p] \in Array(2) /\ DOMAIN more[p] = 0..(SUB_SIZE - 1)
  BY ElementOfSeq DEF Array, Size
<1> QED
  BY <1>1, <1>3, <1>5, <1>7, <1>8 DEF SlotSet

\* What is in the slots afterwards.
LEMMA SlotSetFacts ==
  ASSUME TypeInv, NEW i, NEW j, NEW s, NEW more, SlotSet(i, j, s, more)
  PROVE  /\ Len(spine) \in Nat \ {0} /\ Len(more) \in Nat /\ Len(spine') \in Nat
         /\ DOMAIN spine = 1..Len(spine)
         /\ DOMAIN spine' = 1..Len(spine') /\ Len(spine') = Len(spine) + Len(more)
         /\ \A p \in DOMAIN spine :
              /\ p \in DOMAIN spine' /\ DOMAIN spine'[p] = DOMAIN spine[p]
              /\ \A q \in DOMAIN spine[p] :
                   spine'[p][q] = IF p = i /\ q = j THEN s ELSE spine[p][q]
         /\ \A p \in DOMAIN spine' : p \notin DOMAIN spine =>
              \E x \in 1..Len(more) : p = Len(spine) + x /\ spine'[p] = more[x]
<1>1. /\ Len(spine) \in Nat \ {0} /\ Len(more) \in Nat /\ DOMAIN spine = 1..Len(spine)
      /\ Len(spine') = Len(spine) + Len(more) /\ spine' \in Seq(Array(1) \union Array(2))
  BY SpineFacts DEF SlotSet
<1>2. DOMAIN spine' = 1..Len(spine') /\ Len(spine') \in Nat
  BY <1>1, LenProperties
<1>3. ASSUME NEW p \in DOMAIN spine
      PROVE  /\ p \in DOMAIN spine' /\ DOMAIN spine'[p] = DOMAIN spine[p]
             /\ \A q \in DOMAIN spine[p] :
                  spine'[p][q] = IF p = i /\ q = j THEN s ELSE spine[p][q]
  <2>1. p \in DOMAIN spine'
    BY <1>1, <1>2
  <2>2. spine[p] \in [DOMAIN spine[p] -> Contents]
    BY SpineFacts DEF TypeInv, SpinesInv
  <2>3. spine'[p] = IF p = i THEN [spine[p] EXCEPT ![j] = s] ELSE spine[p]
    BY DEF SlotSet
  <2> QED
    BY <2>1, <2>2, <2>3
<1>4. ASSUME NEW p \in DOMAIN spine', p \notin DOMAIN spine
      PROVE  \E x \in 1..Len(more) : p = Len(spine) + x /\ spine'[p] = more[x]
  <2>1. p - Len(spine) \in 1..Len(more) /\ p = Len(spine) + (p - Len(spine))
    BY <1>1, <1>2, <1>4
  <2> QED
    BY <2>1 DEF SlotSet
<1> QED
  BY <1>1, <1>2, <1>3, <1>4

\* A step that gives a slot new contents.
LEMMA SlotSetGrows ==
  ASSUME TypeInv, UNCHANGED ops, NEW i, NEW j, NEW s, NEW more, SlotSet(i, j, s, more),
         IsSpine(spine[i][j].to) => IsSpine(s.to),
         spine[i][j].mark => s = spine[i][j] \/ IsSpine(s.to)
  PROVE  Grows
<1>1. \A d \in Desc : Len(ops[d]) \in Nat
  BY LenProperties DEF TypeInv, TypeOK
<1>2. \A p \in DOMAIN spine : \A q \in DOMAIN spine[p] :
        /\ IsSpine(spine[p][q].to) => IsSpine(spine'[p][q].to)
        /\ spine[p][q].mark => spine'[p][q] = spine[p][q] \/ IsSpine(spine'[p][q].to)
  BY SlotSetFacts
<1> QED
  BY <1>1, <1>2, SlotSetFacts DEF Grows

LEMMA SlotSetRoutes ==
  ASSUME TypeInv, NEW i, NEW j, NEW s, NEW more, SlotSet(i, j, s, more),
         s = spine[i][j] \/ (spine[i][j].to = Null /\ s.to # Null) \/ IsSpine(s.to)
  PROVE  Routes
BY SlotSetFacts DEF Routes

LEMMA SlotSetType ==
  ASSUME TypeInv, UNCHANGED ops, NEW i, NEW j, NEW s, NEW more, SlotSet(i, j, s, more)
  PROVE  /\ SpinesInv'
         /\ \A p \in DOMAIN spine' : \A q \in DOMAIN spine'[p] :
              spine'[p][q] \in [to : NodeDesc \union {Null} \union [spine : 2..Len(spine')],
                                mark : BOOLEAN]
<1>1. \A n : Known(n)' = Known(n)
  BY DEF Known
<1>2. ASSUME NEW p \in DOMAIN spine', NEW q \in DOMAIN spine'[p]
      PROVE  Holds(Len(spine'), spine'[p][q])
  <2>1. CASE p \in DOMAIN spine
    <3>1. q \in DOMAIN spine[p] /\ spine'[p][q] = IF p = i /\ q = j THEN s ELSE spine[p][q]
      BY <2>1, SlotSetFacts
    <3>2. q \in 0..(Size(p) - 1)
      BY <2>1, <3>1, SpineFacts
    <3>3. spine[p][q] \in Contents /\ (IsData(spine[p][q].to) => Known(spine[p][q].to))
      BY <2>1, <3>2, SpineFacts DEF TypeInv, SpinesInv
    <3>4. 2..Len(spine) \subseteq 2..Len(spine')
      BY SlotSetFacts
    <3>5. Holds(Len(spine'), spine[p][q])
      BY <3>3, <3>4 DEF Holds, Contents, Pointer
    <3>6. Holds(Len(spine'), s)
      BY SlotSetFacts DEF SlotSet
    <3> QED
      BY <3>1, <3>5, <3>6
  <2>2. CASE p \notin DOMAIN spine
    <3>1. PICK x \in 1..Len(more) : p = Len(spine) + x /\ spine'[p] = more[x]
      BY <2>2, SlotSetFacts
    <3>2. q \in 0..(SUB_SIZE - 1)
      BY <3>1 DEF SlotSet
    <3>3. Holds(Len(spine) + Len(more), more[x][q])
      BY <3>2 DEF SlotSet
    <3> QED
      BY <3>1, <3>3, SlotSetFacts
  <2> QED
    BY <2>1, <2>2
<1>3. ASSUME NEW p \in DOMAIN spine'
      PROVE  /\ DOMAIN spine'[p] = 0..(Size(p) - 1)
             /\ spine'[p] = [q \in DOMAIN spine'[p] |-> spine'[p][q]]
  <2>1. CASE p \in DOMAIN spine
    <3>1. DOMAIN spine'[p] = 0..(Size(p) - 1)
      BY <2>1, SlotSetFacts, SpineFacts
    <3>2. spine[p] \in [0..(Size(p) - 1) -> Contents]
      BY <2>1 DEF TypeInv, SpinesInv
    <3>3. spine'[p] = IF p = i THEN [spine[p] EXCEPT ![j] = s] ELSE spine[p]
      BY <2>1 DEF SlotSet
    <3> QED
      BY <3>1, <3>2, <3>3
  <2>2. CASE p \notin DOMAIN spine
    <3>1. PICK x \in 1..Len(more) : p = Len(spine) + x /\ spine'[p] = more[x]
      BY <2>2, SlotSetFacts
    <3>2. DOMAIN more[x] = 0..(SUB_SIZE - 1) /\ more[x] \in Array(2)
      BY DEF SlotSet
    <3>3. p # 1
      BY <2>2, SlotSetFacts
    <3> QED
      BY <3>1, <3>2, <3>3 DEF Size, Array
  <2> QED
    BY <2>1, <2>2
<1>4. \A p \in DOMAIN spine' : spine'[p] \in
        [0..(Size(p) - 1) -> [to : NodeDesc \union {Null} \union [spine : 2..Len(spine')],
                              mark : BOOLEAN]]
  BY <1>2, <1>3 DEF Holds
<1>5. \A p \in DOMAIN spine' : \A q \in 0..(Size(p) - 1) :
        IsData(spine'[p][q].to) => Known(spine'[p][q].to)
  BY <1>2, <1>3 DEF Holds
<1>6. spine' # <<>>
  BY SlotSetFacts, EmptySeq
<1>7. SpinesInv'
  BY <1>1, <1>4, <1>5, <1>6 DEF SpinesInv, Contents, Pointer, SlotSet, Size, Array
<1> QED
  BY <1>2, <1>7 DEF Holds

\* The types after such a step, if g is its frame.
LEMMA SlotSetKept ==
  ASSUME TypeInv, NEW t \in Thread, Busy(t), UNCHANGED <<txn, stack>>,
         NEW i, NEW j, NEW s, NEW more, SlotSet(i, j, s, more), Grows,
         nd' \in [NodeDesc -> NodeDesc], value' \in [NodeDesc -> Nat], DescInv',
         NEW g \in Frame, FrameInv(g, Top(t))', SetFrame(t, g)
  PROVE  TypeInv'
<1>1. UNCHANGED <<ops, status, pstatus, stack>>
  BY DEF txn
<1>2. PICK d \in Desc : d = Top(t)
  BY TopFacts DEF TypeInv
<1>3. d = Top(t)'
  BY <1>1, <1>2 DEF Top
<1>4. /\ fr' \in [Thread -> [Desc -> Frame]] /\ fr'[t][d] = g
      /\ \A u \in Thread, e \in Desc : u # t \/ e # d => fr'[u][e] = fr[u][e]
  BY <1>2, FrameSet
<1>5. FrameInv(g, d)'
  BY <1>3
<1>6. SpinesInv' /\ TypeOK'
  BY <1>1, <1>4, SlotSetType DEF TypeInv, TypeOK
<1>7. PreInv'
  BY <1>1 DEF TypeInv, PreInv
<1>8. \A u \in Thread, e \in Desc : fr'[u][e] = fr[u][e] \/ FrameInv(fr[u][e], e)'
  BY <1>4, <1>5
<1> QED
  BY <1>6, <1>7, <1>8, TypeKept

\* The slot that the frame of t is at.
LEMMA SlotOf ==
  ASSUME TypeInv, NEW t \in Thread, NEW p \in OpLabels, At(t, p)
  PROVE  LET f == Fr(t)
             o == Op(t)
             j == Digit(o.key, f.right)
         IN  /\ AtSlot(f, o, Top(t)) /\ Cell(f, o) \in Contents
             /\ IsData(Cell(f, o).to) => Known(Cell(f, o).to)
             /\ f.local \in DOMAIN spine /\ j \in DOMAIN spine[f.local]
             /\ Cell(f, o) = spine[f.local][j]
<1>1. PICK f, o, d : f = Fr(t) /\ o = Op(t) /\ d = Top(t)
  OBVIOUS
<1>2. f.pc = p /\ f.back = "return" /\ Runs(f, o, d) /\ OpInv(f, o) /\ o.key \in Key
  BY <1>1, Running
<1>3. f \in Frame /\ f.local \in DOMAIN spine /\ (f.right = 0 <=> f.local = 1)
  BY <1>2 DEF Runs
<1>4. /\ Digit(o.key, f.right) \in DOMAIN spine[f.local] /\ Cell(f, o) \in Contents
      /\ IsData(Cell(f, o).to) => Known(Cell(f, o).to)
  BY <1>2, <1>3, CellFacts DEF Cell
<1>5. AtSlot(f, o, d)
  BY <1>2, <1>3 DEF AtSlot, OpInv, Frame
<1> QED
  BY <1>1, <1>3, <1>4, <1>5 DEF Cell

\* The new contents of that slot.
LEMMA CellSet ==
  ASSUME TypeInv, NEW t \in Thread, NEW p \in OpLabels, At(t, p), NEW more \in Seq(Array(2)),
         NEW s, Holds(Len(spine) + Len(more), s),
         \A x \in 1..Len(more) : \A q \in 0..(SUB_SIZE - 1) :
           Holds(Len(spine) + Len(more), more[x][q]),
         spine' = SetCell(Fr(t), Op(t), s) \o more
  PROVE  SlotSet(Fr(t).local, Digit(Op(t).key, Fr(t).right), s, more)
<1>1. PICK i, j : i = Fr(t).local /\ j = Digit(Op(t).key, Fr(t).right)
  OBVIOUS
<1>2. i \in DOMAIN spine /\ j \in DOMAIN spine[i]
  BY <1>1, SlotOf
<1>3. spine' = [spine EXCEPT ![i][j] = s] \o more
  BY <1>1 DEF SetCell
<1>4. SlotSet(i, j, s, more)
  BY <1>2, <1>3, SlotSetIs
<1> QED
  BY <1>1, <1>4

\* A slot changes alone.
LEMMA CellSetAlone ==
  ASSUME TypeInv, NEW t \in Thread, NEW p \in OpLabels, At(t, p), NEW s, Holds(Len(spine), s),
         spine' = SetCell(Fr(t), Op(t), s)
  PROVE  SlotSet(Fr(t).local, Digit(Op(t).key, Fr(t).right), s, <<>>)
<1>1. PICK i, j : i = Fr(t).local /\ j = Digit(Op(t).key, Fr(t).right)
  OBVIOUS
<1>2. i \in DOMAIN spine /\ j \in DOMAIN spine[i] /\ i \in 1..Len(spine) /\ Len(spine) \in Nat
  BY <1>1, SlotOf, SpineFacts
<1>3. <<>> \in Seq(Array(2)) /\ Len(<<>>) = 0
  BY EmptySeq
<1>4. [spine[i] EXCEPT ![j] = s] \in Array(1) \union Array(2)
  <2>1. spine[i] \in Array(i) /\ (Array(i) = Array(1) \/ Array(i) = Array(2))
    BY <1>2, ArrayTypes
  <2>2. s \in [to : NodeDesc \union {Null} \union [spine : Nat], mark : BOOLEAN]
    BY <1>2, CellType
  <2>3. [spine[i] EXCEPT ![j] = s] \in Array(i)
    BY <2>1, <2>2 DEF Array
  <2> QED
    BY <2>1, <2>3
<1>5. PICK n : n = [spine EXCEPT ![i][j] = s]
  OBVIOUS
<1>6. n \in Seq(Array(1) \union Array(2))
  BY <1>2, <1>4, <1>5, ArrayTypes, ExceptSeq
<1>7. n \o <<>> = n
  BY <1>6, ConcatEmptySeq
<1>8. spine' = SetCell(Fr(t), Op(t), s) \o <<>>
  BY <1>1, <1>5, <1>7 DEF SetCell
<1>9. Holds(Len(spine) + Len(<<>>), s) /\ 1..Len(<<>>) = {}
  BY <1>2, <1>3
<1> QED
  BY <1>3, <1>8, <1>9, CellSet

\* No thread marks or expands a slot before an operation has lost its way.
LEMMA NoMarking ==
  ASSUME TypeInv, NEW t \in Thread, NEW p \in {"mark", "expand"}, At(t, p)
  PROVE  /\ \A at : ~OnWay(Fr(t), Top(t), at)
         /\ ~RouteInv
<1>1. p \in OpLabels
  BY DEF OpLabels, Labels
<1>2. PICK f, o, d : f = Fr(t) /\ o = Op(t) /\ d = Top(t)
  OBVIOUS
<1>3. f.pc = p /\ InOp(f) /\ d \in Desc /\ Busy(t)
  BY <1>1, <1>2, Running DEF Runs
<1>4. ASSUME NEW at PROVE ~OnWay(f, d, at)
  BY <1>3 DEF OnWay, WayInv
<1>5. f = fr[t][d]
  BY <1>2, <1>3, TopFacts DEF TypeInv
<1>6. ~RouteInv
  BY <1>3, <1>4, <1>5 DEF RouteInv, WaysInv, OnWay
<1> QED
  BY <1>2, <1>4, <1>6

LEMMA MarkSlotStep ==
  ASSUME TypeInv, NEW t \in Thread, MarkSlot(t) PROVE Kept(t)
<1>1. /\ At(t, "mark") /\ "mark" \in OpLabels /\ UNCHANGED <<nd, value, txn, stack>>
  BY DEF MarkSlot, OpLabels, Labels
<1>2. PICK f, o, d : f = Fr(t) /\ o = Op(t) /\ d = Top(t)
  OBVIOUS
<1>3. /\ Busy(t) /\ f.pc = "mark" /\ OpInv(f, o) /\ AtSlot(f, o, d) /\ d \in Desc
      /\ Cell(f, o) \in Contents /\ (IsData(Cell(f, o).to) => Known(Cell(f, o).to))
  BY <1>1, <1>2, Running, SlotOf
<1>4. PICK c : c = Cell(f, o)
  OBVIOUS
<1>5. PICK s : s = [c EXCEPT !.mark = TRUE]
  OBVIOUS
<1>6. s.to = c.to /\ (c.mark => s = c) /\ Holds(Len(spine), s)
  BY <1>3, <1>4, <1>5 DEF Contents, Pointer, Holds
<1>7. spine' = SetCell(f, o, s)
  BY <1>2, <1>4, <1>5 DEF MarkSlot
<1>8. PICK i, j : i = f.local /\ j = Digit(o.key, f.right)
  OBVIOUS
<1>9. SlotSet(i, j, s, <<>>) /\ c = spine[i][j]
  BY <1>1, <1>2, <1>4, <1>6, <1>7, <1>8, CellSetAlone, SlotOf
<1>10. UNCHANGED ops
  BY <1>1 DEF txn
<1>11. Grows
  BY <1>6, <1>9, <1>10, SlotSetGrows
<1>12. PICK g : g = Look(f, o)
  OBVIOUS
<1>13. g \in Frame /\ FrameInv(g, d)
  BY <1>3, <1>12, LookGood DEF OpInv
<1>14. FrameInv(g, d)'
  BY <1>3, <1>11, <1>13, FrameInvStable
<1>15. FrameInv(g, Top(t))'
  BY <1>1, <1>2, <1>14 DEF Top
<1>16. SetFrame(t, g)
  BY <1>2, <1>12 DEF MarkSlot
<1>17. DescInv' /\ nd' \in [NodeDesc -> NodeDesc] /\ value' \in [NodeDesc -> Nat]
  BY <1>1, <1>11, DescStable DEF TypeInv, TypeOK
<1>18. TypeInv'
  BY <1>1, <1>3, <1>9, <1>11, <1>13, <1>15, <1>16, <1>17, SlotSetKept
<1> QED
  BY <1>1, <1>18, NoMarking DEF Kept

\* The spine that an expansion makes for pointer p.
LEMMA HomeSpine ==
  ASSUME TypeInv, NEW p \in Pointer, IsData(p) => Known(p), NEW i,
         NEW a, a = [j \in 0..(SUB_SIZE - 1) |-> IF j = i THEN Slot(p) ELSE NullSlot]
  PROVE  /\ <<a>> \in Seq(Array(2)) /\ Len(<<a>>) = 1
         /\ \A x \in 1..Len(<<a>>) : \A q \in 0..(SUB_SIZE - 1) :
              Holds(Len(spine) + Len(<<a>>), <<a>>[x][q])
<1>1. Len(spine) \in Nat \ {0}
  BY SpineFacts
<1>2. 2..Len(spine) \subseteq 2..(Len(spine) + 1)
  BY <1>1
<1>3. Holds(Len(spine) + 1, Slot(p))
  BY <1>2 DEF Holds, Slot, Pointer
<1>4. Holds(Len(spine) + 1, NullSlot)
  BY NullPointer DEF Holds, NullSlot, Slot
<1>5. \A q \in 0..(SUB_SIZE - 1) : Holds(Len(spine) + 1, a[q])
  BY <1>3, <1>4
<1>6. a \in Array(2)
  <2>1. Len(spine) + 1 \in Nat
    BY <1>1
  <2>2. \A q \in 0..(SUB_SIZE - 1) :
          a[q] \in [to : NodeDesc \union {Null} \union [spine : Nat], mark : BOOLEAN]
    BY <1>5, <2>1, CellType
  <2> QED
    BY <2>2 DEF Array, Size
<1>7. <<a>> \in Seq(Array(2)) /\ Len(<<a>>) = 1 /\ <<a>>[1] = a
  BY <1>6
<1>8. \A x \in 1..Len(<<a>>) : x = 1
  BY <1>7
<1> QED
  BY <1>5, <1>7, <1>8

LEMMA ExpandedType ==
  ASSUME TypeInv, NEW t \in Thread, Expand(t), CanReplace(Fr(t), Op(t))
  PROVE  TypeInv'
<1>1. /\ At(t, "expand") /\ "expand" \in OpLabels /\ UNCHANGED <<nd, value, txn, stack>>
  BY DEF Expand, OpLabels, Labels
<1>2. PICK f, o, d : f = Fr(t) /\ o = Op(t) /\ d = Top(t)
  OBVIOUS
<1>3. /\ Busy(t) /\ f.pc = "expand" /\ f.back = "return" /\ OpInv(f, o) /\ d \in Desc
      /\ AtSlot(f, o, d) /\ Runs(f, o, d) /\ f \in Frame /\ o \in Operator /\ f.opid \in 1..MaxOps
      /\ f.node.to \in Pointer /\ (IsData(f.node.to) => Known(f.node.to))
  BY <1>1, <1>2, Running, SlotOf DEF OpInv, Runs
<1>4. PICK m \in Nat : m = Len(spine) /\ m > 0
  <2>1. Len(spine) \in Nat /\ Len(spine) > 0
    BY SpineFacts
  <2> QED
    BY <2>1
<1>5. PICK p, s : p = f.node.to /\ s = Slot(Spine(m + 1))
  OBVIOUS
<1>6. PICK h : /\ spine' = Append(SetCell(f, o, s),
                            [q \in 0..(SUB_SIZE - 1) |-> IF q = h THEN Slot(p) ELSE NullSlot])
               /\ SetFrame(t, Descend(f, o, m + 1))
  BY <1>2, <1>4, <1>5 DEF Expand
<1>7. PICK a : a = [q \in 0..(SUB_SIZE - 1) |-> IF q = h THEN Slot(p) ELSE NullSlot]
  OBVIOUS
<1>8. PICK w : /\ w = <<a>> /\ w \in Seq(Array(2)) /\ Len(w) = 1
               /\ \A x \in 1..Len(w) : \A q \in 0..(SUB_SIZE - 1) :
                    Holds(Len(spine) + Len(w), w[x][q])
  BY <1>3, <1>5, <1>7, HomeSpine
<1>9. IsSpine(s.to) /\ Holds(Len(spine) + Len(w), s)
  <2>1. IsSpine(Spine(m + 1)) /\ ~IsData(Spine(m + 1))
    BY SpinePointer
  <2>2. Spine(m + 1) \in [spine : 2..(m + 1)]
    BY <1>4 DEF Spine
  <2> QED
    BY <1>4, <1>5, <1>8, <2>1, <2>2 DEF Holds, Slot
<1>10. PICK i, j : i = f.local /\ j = Digit(o.key, f.right)
  OBVIOUS
<1>11. i \in DOMAIN spine /\ j \in DOMAIN spine[i] /\ Cell(f, o) = spine[i][j]
  BY <1>1, <1>2, <1>10, SlotOf
<1>12. spine' = SetCell(f, o, s) \o w
  <2>1. PICK n : n = SetCell(f, o, s)
    OBVIOUS
  <2>2. DOMAIN spine = 1..m /\ spine = [x \in 1..m |-> spine[x]]
    BY <1>4, ArrayTypes, LenProperties
  <2>3. n = [spine EXCEPT ![i] = [spine[i] EXCEPT ![j] = s]]
    BY <1>10, <2>1 DEF SetCell
  <2>4. PICK S : n \in Seq(S) /\ a \in S
    <3>1. n = [x \in 1..m |-> n[x]] /\ DOMAIN n = 1..m
      BY <2>2, <2>3
    <3>2. n \in Seq({n[x] : x \in 1..m} \union {a})
      BY <1>4, <3>1, SeqDef
    <3> QED
      BY <3>2
  <2>5. Append(n, a) = n \o <<a>>
    BY <2>4, AppendProperties
  <2> QED
    BY <1>6, <1>7, <1>8, <2>1, <2>5
<1>13. SlotSet(i, j, s, w)
  BY <1>1, <1>2, <1>8, <1>9, <1>10, <1>12, CellSet
<1>14. UNCHANGED ops
  BY <1>1 DEF txn
<1>15. Grows
  BY <1>9, <1>13, <1>14, SlotSetGrows
<1>16. PICK g : g = Descend(f, o, m + 1)
  OBVIOUS
<1>17. g \in Frame /\ g.back = "return" /\ m + 1 \in Nat \ {0}
  BY <1>3, <1>4, <1>16, DescendCases
<1>18. FrameInv(g, d)'
  <2>1. /\ m + 1 \in DOMAIN spine' /\ m + 1 # 1 /\ f.local \in DOMAIN spine'
        /\ f.node.to \in Pointer' /\ (IsData(f.node.to) => Known(f.node.to)')
    <3>1. IsData(f.node.to) => f.node.to \in NodeDesc
      BY <1>3, <1>4, PointerCases DEF Pointer
    <3>2. IsData(f.node.to) => Known(f.node.to)'
      BY <1>3, <1>15, <3>1, KnownStable
    <3>3. f.node.to \in Pointer'
      BY <1>3, <1>15, PointerStable
    <3>4. DOMAIN spine' = 1..Len(spine') /\ Len(spine') = m + 1 /\ i \in DOMAIN spine'
      <4>1. /\ DOMAIN spine' = 1..Len(spine') /\ Len(spine') = Len(spine) + Len(w)
            /\ \A x \in DOMAIN spine : x \in DOMAIN spine'
        BY <1>13, SlotSetFacts
      <4> QED
        BY <1>4, <1>8, <1>11, <4>1
    <3> QED
      BY <1>4, <1>10, <3>2, <3>3, <3>4
  <2>2. PICK q : q = ops'[d][f.opid] /\ f.opid <= Len(ops'[d])
    BY <1>3, <1>14 DEF Runs
  <2>3. CASE /\ g.pc = "slot" /\ g.local = m + 1 /\ g.right = NextRight(f.right) /\ g.right # 0
             /\ g.fails = 0 /\ g.opid = f.opid /\ g.node = f.node
    <3>1. InOp(g) /\ ~HasNode(g) /\ ~HasOld(g) /\ ~HasCurr(g)
      BY <1>17, <2>3 DEF InOp, HasNode, HasOld, HasCurr
    <3>2. OpInv(g, q)'
      BY <2>1, <2>3, <3>1 DEF OpInv
    <3> QED
      BY <1>17, <2>2, <2>3, <3>1, <3>2 DEF FrameInv
  <2>4. CASE ~InOp(g) /\ g.local = 1 /\ g.right = 0 /\ g.node = NullSlot /\ g.fails = 0
    BY <1>17, <2>4 DEF FrameInv, InOp
  <2>5. CASE /\ g.pc = "wild" /\ g.local = f.local /\ g.right = f.right
             /\ g.fails = f.fails /\ g.opid = f.opid /\ g.node = f.node
    <3>1. InOp(g) /\ ~HasNode(g) /\ ~HasOld(g) /\ ~HasCurr(g)
      BY <1>17, <2>5 DEF InOp, HasNode, HasOld, HasCurr
    <3>2. OpInv(g, q)'
      BY <1>3, <2>1, <2>5, <3>1 DEF OpInv
    <3> QED
      BY <1>17, <2>2, <2>5, <3>1, <3>2 DEF FrameInv
  <2> QED
    BY <1>3, <1>16, <1>17, <2>3, <2>4, <2>5, DescendCases
<1>19. FrameInv(g, Top(t))'
  BY <1>1, <1>2, <1>18 DEF Top
<1>20. DescInv' /\ nd' \in [NodeDesc -> NodeDesc] /\ value' \in [NodeDesc -> Nat]
  BY <1>1, <1>15, DescStable DEF TypeInv, TypeOK
<1> QED
  BY <1>1, <1>3, <1>6, <1>13, <1>15, <1>16, <1>17, <1>19, <1>20, SlotSetKept

LEMMA ExpandStep ==
  ASSUME TypeInv, NEW t \in Thread, Expand(t) PROVE Kept(t)
<1>1. /\ At(t, "expand") /\ "expand" \in OpLabels /\ UNCHANGED <<nd, value, txn, stack>>
  BY DEF Expand, OpLabels, Labels
<1>2. CASE CanReplace(Fr(t), Op(t))
  BY <1>1, <1>2, ExpandedType, NoMarking DEF Kept
<1>3. CASE ~CanReplace(Fr(t), Op(t))
  <2>1. PICK f, o, d : f = Fr(t) /\ o = Op(t) /\ d = Top(t)
    OBVIOUS
  <2>2. Busy(t) /\ f.pc = "expand" /\ OpInv(f, o) /\ AtSlot(f, o, d) /\ Cell(f, o) \in Contents
    BY <1>1, <2>1, Running, SlotOf
  <2>3. IsSpine(Cell(f, o).to)
    BY <1>3, <2>1, <2>2 DEF OpInv, CanReplace
  <2>4. PICK i \in 2..Len(spine) : i = Cell(f, o).to.spine
    BY <2>2, <2>3, SpineFacts, PointerCases DEF Contents, Pointer
  <2>5. SetFrame(t, Descend(f, o, i)) /\ UNCHANGED spine
    BY <1>3, <2>1, <2>4 DEF Expand
  <2>6. PICK g : g = Descend(f, o, i)
    OBVIOUS
  <2>7. g \in Frame /\ FrameInv(g, d)
    BY <2>2, <2>6, DescendGood
  <2>8. Good(f, g, d)
    BY <1>1, <2>1, <2>7, NoMarking DEF Good
  <2>9. UNCHANGED <<heap, txn, stack>>
    BY <1>1, <2>5 DEF heap
  <2> QED
    BY <2>1, <2>2, <2>5, <2>6, <2>8, <2>9, QuietKept
<1> QED
  BY <1>2, <1>3

\* The contents s belong into slot j of array i.
Fits(s, i, j, at) ==
  /\ ~s.mark
  /\ IsData(s.to) => ComesTo(KeyOf(s.to), i, at) /\ Digit(KeyOf(s.to), at[i].right) = j
  /\ IsSpine(s.to) =>
       /\ at[s.to.spine].right = NextRight(at[i].right)
       /\ ComesTo(at[s.to.spine].key, i, at)
       /\ Digit(at[s.to.spine].key, at[i].right) = j

LEMMA TrieFits ==
  ASSUME NEW at, TrieInv(at), NEW i \in DOMAIN spine, NEW j \in DOMAIN spine[i]
  PROVE  Fits(spine[i][j], i, j, at)
BY DEF TrieInv, Fits

\* The trie with new contents that fit, and with new arrays that have a place.
LEMMA TrieSet ==
  ASSUME TypeInv, UNCHANGED ops, NEW i, NEW j, NEW s, NEW more, SlotSet(i, j, s, more),
         ~IsSpine(spine[i][j].to), NEW at \in Places, TrieInv(at), NEW at2 \in Places',
         \A p \in DOMAIN spine : at2[p] = at[p],
         Fits(s, i, j, at2),
         \A x \in 1..Len(more) :
           /\ at2[Len(spine) + x].right # 0 /\ at2[Len(spine) + x].key \in Key
           /\ \E p \in DOMAIN spine' : \E q \in DOMAIN spine'[p] :
                spine'[p][q].to = Spine(Len(spine) + x)
           /\ \A q \in 0..(SUB_SIZE - 1) : Fits(more[x][q], Len(spine) + x, q, at2)
  PROVE  TrieInv(at2)'
<1>1. \A n : KeyOf(n)' = KeyOf(n)
  BY DEF KeyOf, OpOf
<1>2. ASSUME NEW p \in DOMAIN spine'
      PROVE  /\ at2[p].right = 0 <=> p = 1
             /\ p # 1 => at2[p].key \in Key
             /\ p # 1 => \E q \in DOMAIN spine' : \E y \in DOMAIN spine'[q] :
                           spine'[q][y].to = Spine(p)
  <2>1. CASE p \in DOMAIN spine
    <3>1. (at2[p].right = 0 <=> p = 1) /\ (p # 1 => at2[p].key \in Key)
      BY <2>1 DEF TrieInv
    <3>2. ASSUME p # 1
          PROVE  \E q \in DOMAIN spine' : \E y \in DOMAIN spine'[q] : spine'[q][y].to = Spine(p)
      <4>1. PICK q \in DOMAIN spine : \E y \in DOMAIN spine[q] : spine[q][y].to = Spine(p)
        BY <2>1, <3>2 DEF TrieInv
      <4>2. PICK y \in DOMAIN spine[q] : spine[q][y].to = Spine(p)
        BY <4>1
      <4>3. IsSpine(Spine(p))
        BY <2>1, SpineFacts, SpinePointer
      <4>4. ~(q = i /\ y = j)
        BY <4>2, <4>3
      <4>5. q \in DOMAIN spine' /\ y \in DOMAIN spine'[q] /\ spine'[q][y] = spine[q][y]
        BY <4>4, SlotSetFacts
      <4> QED
        BY <4>2, <4>5
    <3> QED
      BY <3>1, <3>2
  <2>2. CASE p \notin DOMAIN spine
    <3>1. PICK x \in 1..Len(more) : p = Len(spine) + x
      BY <2>2, SlotSetFacts
    <3>2. p # 1
      BY <2>2, SlotSetFacts
    <3> QED
      BY <3>1, <3>2
  <2> QED
    BY <2>1, <2>2
<1>3. ASSUME NEW p \in DOMAIN spine', NEW q \in DOMAIN spine'[p]
      PROVE  Fits(spine'[p][q], p, q, at2)
  <2>1. CASE p \in DOMAIN spine
    <3>1. q \in DOMAIN spine[p] /\ spine'[p][q] = IF p = i /\ q = j THEN s ELSE spine[p][q]
      BY <2>1, SlotSetFacts
    <3>2. Fits(spine[p][q], p, q, at2)
      <4>1. PICK c : c = spine[p][q]
        OBVIOUS
      <4>2. Fits(c, p, q, at)
        BY <2>1, <3>1, <4>1, TrieFits
      <4>3. IsSpine(c.to) => c.to.spine \in DOMAIN spine
        <5>1. q \in 0..(Size(p) - 1)
          BY <2>1, <3>1, SpineFacts
        <5>2. c \in Contents
          BY <2>1, <4>1, <5>1, SpineFacts
        <5> QED
          BY <5>2, SpineFacts, PointerCases DEF Contents, Pointer
      <4>4. Fits(c, p, q, at2)
        BY <2>1, <4>2, <4>3 DEF Fits, ComesTo
      <4> QED
        BY <4>1, <4>4
    <3> QED
      BY <3>1, <3>2
  <2>2. CASE p \notin DOMAIN spine
    <3>1. PICK x \in 1..Len(more) : p = Len(spine) + x /\ spine'[p] = more[x]
      BY <2>2, SlotSetFacts
    <3>2. q \in 0..(SUB_SIZE - 1)
      BY <3>1 DEF SlotSet
    <3> QED
      BY <3>1, <3>2
  <2> QED
    BY <2>1, <2>2
<1> QED
  BY <1>1, <1>2, <1>3 DEF TrieInv, Fits, ComesTo

\* The node of the operation enters the trie.
LEMMA EnterKept ==
  ASSUME TypeInv, NEW t \in Thread, NEW p \in {"place", "split"}, At(t, p), Enter(t),
         UNCHANGED <<txn, stack>>, NEW s, NEW more,
         SlotSet(Fr(t).local, Digit(Op(t).key, Fr(t).right), s, more),
         ~IsSpine(Cell(Fr(t), Op(t)).to), ~Cell(Fr(t), Op(t)).mark,
         (Cell(Fr(t), Op(t)).to = Null /\ s.to # Null) \/ IsSpine(s.to),
         \A at \in Places :
           TrieInv(at) /\ WayInv(Fr(t), Op(t), at) =>
             \E at2 \in Places' : TrieInv(at2)' /\ \A i \in DOMAIN spine : at2[i] = at[i]
  PROVE  Kept(t)
<1>1. p \in OpLabels
  BY DEF OpLabels, Labels
<1>2. PICK f, o, d, m : f = Fr(t) /\ o = Op(t) /\ d = Top(t) /\ m = Mine(t)
  OBVIOUS
<1>3. /\ Busy(t) /\ d \in Desc /\ f.pc = p /\ Runs(f, o, d) /\ m \in NodeDesc /\ Known(m)
      /\ f \in Frame /\ o \in Operator /\ f.opid \in 1..MaxOps /\ f = fr[t][d]
  BY <1>1, <1>2, Running, TopFacts DEF Runs, TypeInv
<1>4. PICK i, j : i = f.local /\ j = Digit(o.key, f.right)
  OBVIOUS
<1>5. Cell(f, o) = spine[i][j]
  BY <1>4 DEF Cell
<1>6. SlotSet(i, j, s, more) /\ UNCHANGED ops
  BY <1>2, <1>4 DEF txn
<1>7. Grows /\ Routes
  BY <1>2, <1>5, <1>6, SlotSetGrows, SlotSetRoutes
<1>8. PICK g : g = Finished(f, TRUE)
  OBVIOUS
<1>9. /\ g \in Frame /\ ~InOp(g) /\ g.local = 1 /\ g.right = 0 /\ g.node = NullSlot
      /\ g.fails = 0 /\ g.back = "return"
  BY <1>3, <1>8, FinishedFacts
<1>10. FrameInv(g, d)'
  BY <1>9 DEF FrameInv, InOp
<1>11. FrameInv(g, Top(t))'
  BY <1>2, <1>10 DEF Top
<1>12. SetFrame(t, g) /\ nd' = [nd EXCEPT ![m] = m] /\ value' = [value EXCEPT ![m] = o.value]
  BY <1>2, <1>8 DEF Enter
<1>13. DescInv' /\ nd' \in [NodeDesc -> NodeDesc] /\ value' \in [NodeDesc -> Nat]
  BY <1>3, <1>7, <1>12, DescTaken DEF TypeInv, TypeOK, Operator
<1>14. TypeInv'
  BY <1>3, <1>6, <1>7, <1>9, <1>11, <1>12, <1>13, SlotSetKept
<1>15. ASSUME RouteInv PROVE RouteInv'
  <2>1. PICK at \in Places : TrieInv(at) /\ WaysInv(at)
    BY <1>15 DEF RouteInv
  <2>2. WayInv(f, o, at)
    BY <1>3, <2>1 DEF WaysInv, Runs
  <2>3. PICK at2 \in Places' : TrieInv(at2)' /\ \A x \in DOMAIN spine : at2[x] = at[x]
    BY <1>2, <2>1, <2>2
  <2>4. OnWay(g, d, at2)'
    BY <1>9 DEF OnWay, InOp
  <2>5. \A u \in Thread, e \in Desc : fr'[u][e] = fr[u][e] \/ OnWay(fr[u][e], e, at2)'
    BY <1>2, <1>3, <1>9, <1>12, <2>4, FrameSet
  <2> QED
    BY <1>7, <2>1, <2>3, <2>5, RouteKept
<1> QED
  BY <1>14, <1>15 DEF Kept

\* Once more at the same slot, which has changed.
LEMMA RetryGood ==
  ASSUME TypeInv, NEW f, NEW o, NEW d, AtSlot(f, o, d), OpInv(f, o), f.pc \in {"place", "split"},
         \A at \in Places : TrieInv(at) /\ WayInv(f, o, at) =>
           /\ f.fails <= 1 /\ Cell(f, o).to # Null
           /\ f.fails = 1 => IsSpine(Cell(f, o).to),
         NEW g, g = Retry(f)
  PROVE  Good(f, g, d)
<1>1. f \in Frame /\ f.fails \in Nat
  BY DEF AtSlot, Runs, Frame
<1>2. /\ g \in Frame /\ g.pc = "slot" /\ g.opid = f.opid /\ g.local = f.local /\ g.right = f.right
      /\ g.node = f.node /\ g.fails = f.fails + 1 /\ g.back = "return"
  <2>1. PICK n \in Nat : n = f.fails + 1
    BY <1>1
  <2>2. g = [f EXCEPT !.pc = "slot", !.fails = n]
    BY <1>1, <2>1 DEF Retry, Frame
  <2> QED
    BY <1>1, <2>1, <2>2 DEF Frame, Labels, AtSlot
<1>3. InOp(g) /\ ~HasNode(g) /\ ~HasOld(g) /\ ~HasCurr(g)
  BY <1>2 DEF InOp, HasNode, HasOld, HasCurr
<1>4. OpInv(g, o)
  BY <1>2, <1>3 DEF OpInv
<1>5. FrameInv(g, d)
  BY <1>2, <1>3, <1>4 DEF FrameInv, AtSlot, Runs
<1>6. ASSUME NEW at \in Places, TrieInv(at), OnWay(f, d, at) PROVE OnWay(g, d, at)
  <2>1. WayInv(f, o, at)
    BY <1>6 DEF OnWay, AtSlot, Runs
  <2>2. f.fails <= 1 /\ Cell(f, o).to # Null /\ (f.fails = 1 => IsSpine(Cell(f, o).to))
    BY <1>6, <2>1
  <2>3. g.fails <= 2 /\ (g.fails >= 2 => f.fails = 1)
    BY <1>1, <1>2, <2>2
  <2>4. WayInv(g, o, at)
    BY <1>2, <2>1, <2>2, <2>3 DEF WayInv, Cell
  <2> QED
    BY <1>2, <2>4 DEF OnWay, AtSlot, Runs
<1> QED
  BY <1>2, <1>5, <1>6 DEF Good

LEMMA PlacedKept ==
  ASSUME TypeInv, NEW t \in Thread, Place(t), CanReplace(Fr(t), Op(t))
  PROVE  Kept(t)
<1>1. /\ At(t, "place") /\ "place" \in OpLabels /\ UNCHANGED <<txn, stack>>
  BY DEF Place, OpLabels, Labels
<1>2. PICK f, o, d, m : f = Fr(t) /\ o = Op(t) /\ d = Top(t) /\ m = Mine(t)
  OBVIOUS
<1>3. /\ f.pc = "place" /\ OpInv(f, o) /\ m \in NodeDesc /\ Known(m) /\ KeyOf(m) = o.key
      /\ f.node = NullSlot
  BY <1>1, <1>2, Running DEF OpInv
<1>4. PICK i, j : i = f.local /\ j = Digit(o.key, f.right)
  OBVIOUS
<1>5. i \in DOMAIN spine /\ j \in DOMAIN spine[i] /\ Cell(f, o) = spine[i][j]
  BY <1>1, <1>2, <1>4, SlotOf
<1>6. spine[i][j] = NullSlot
  BY <1>2, <1>3, <1>5 DEF CanReplace
<1>7. PICK s : s = Slot(m)
  OBVIOUS
<1>8. spine' = SetCell(f, o, s) /\ Enter(t)
  <2>1. CASE CanReplace(f, o) /\ spine' = SetCell(f, o, s) /\ Enter(t)
    BY <2>1
  <2>2. CASE ~CanReplace(f, o)
    BY <1>2, <2>2
  <2> QED
    BY <1>2, <1>7, <2>1, <2>2 DEF Place
<1>9. Holds(Len(spine), s) /\ s.to = m /\ s.to # Null /\ IsData(s.to) /\ ~IsSpine(s.to) /\ ~s.mark
  BY <1>3, <1>7, NodePointer DEF Holds, Slot
<1>10. PICK e : e = <<>> /\ Len(e) = 0
  BY EmptySeq
<1>11. SlotSet(i, j, s, e)
  BY <1>1, <1>2, <1>4, <1>8, <1>9, <1>10, CellSetAlone
<1>12. ASSUME NEW at \in Places, TrieInv(at), WayInv(f, o, at)
       PROVE  \E at2 \in Places' : TrieInv(at2)' /\ \A x \in DOMAIN spine : at2[x] = at[x]
  <2>1. at \in Places'
    <3>1. DOMAIN spine' = DOMAIN spine
      BY <1>10, <1>11, SlotSetFacts
    <3> QED
      BY <3>1 DEF Places
  <2>2. Fits(s, i, j, at)
    BY <1>3, <1>4, <1>9, <1>12 DEF Fits, WayInv
  <2>3. ~IsSpine(spine[i][j].to) /\ UNCHANGED ops
    BY <1>1, <1>6, NullPointer, SlotFacts DEF txn
  <2>4. 1..Len(e) = {}
    BY <1>10
  <2>5. TrieInv(at)'
    BY <1>11, <1>12, <2>1, <2>2, <2>3, <2>4, TrieSet
  <2> QED
    BY <2>1, <2>5
<1>13. /\ ~IsSpine(Cell(f, o).to) /\ ~Cell(f, o).mark
       /\ (Cell(f, o).to = Null /\ s.to # Null) \/ IsSpine(s.to)
  BY <1>5, <1>6, <1>9, NullPointer, SlotFacts
<1>14. "place" \in {"place", "split"}
  OBVIOUS
<1> QED
  BY <1>1, <1>2, <1>4, <1>8, <1>11, <1>12, <1>13, <1>14, EnterKept

LEMMA PlaceStep ==
  ASSUME TypeInv, NEW t \in Thread, Place(t) PROVE Kept(t)
<1>1. /\ At(t, "place") /\ "place" \in OpLabels /\ UNCHANGED <<txn, stack>>
  BY DEF Place, OpLabels, Labels
<1>2. CASE CanReplace(Fr(t), Op(t))
  BY <1>2, PlacedKept
<1>3. CASE ~CanReplace(Fr(t), Op(t))
  <2>1. PICK f, o, d, s : f = Fr(t) /\ o = Op(t) /\ d = Top(t) /\ s = Cell(f, o)
    OBVIOUS
  <2>2. /\ Busy(t) /\ f.pc = "place" /\ f.back = "return" /\ OpInv(f, o) /\ Runs(f, o, d)
        /\ f \in Frame /\ f.node = NullSlot
        /\ AtSlot(f, o, d) /\ s \in Contents /\ (IsData(s.to) => Known(s.to)) /\ s # NullSlot
    BY <1>1, <1>3, <2>1, Running, SlotOf DEF OpInv, Runs, CanReplace
  <2>3. PICK h : h = [f EXCEPT !.node = s]
    OBVIOUS
  <2>4. UNCHANGED heap /\ (SetFrame(t, Look(h, o)) \/ SetFrame(t, Retry(f)))
    BY <1>3, <2>1, <2>3 DEF Place
  <2>5. ASSUME NEW at \in Places, TrieInv(at), WayInv(f, o, at)
        PROVE  f.fails = 0 /\ s.to # Null
    <3>1. f.fails = 0 /\ f.local \in DOMAIN spine
      BY <2>2, <2>5 DEF WayInv, Runs
    <3>2. ~s.mark
      BY <1>1, <2>1, <2>5, SlotOf DEF TrieInv
    <3>3. s.to # Null
      BY <2>2, <3>2 DEF Contents, NullSlot, Slot
    <3> QED
      BY <3>1, <3>3
  <2>6. Good(f, Look(h, o), d)
    <3>1. s \in [to : NodeDesc \union {Null} \union [spine : Nat], mark : BOOLEAN]
      <4>1. 2..Len(spine) \subseteq Nat
        BY SpineFacts
      <4> QED
        BY <2>2, <4>1 DEF Contents, Pointer
    <3>2. /\ h \in Frame /\ h.node = s /\ h.pc = f.pc /\ h.back = f.back /\ h.opid = f.opid
          /\ h.local = f.local /\ h.right = f.right /\ h.fails = f.fails
      BY <2>2, <2>3, <3>1 DEF Frame
    <3>3. InOp(h)
      BY <2>2, <3>2 DEF InOp
    <3>4. AtSlot(h, o, d) /\ Cell(h, o) = s
      BY <2>1, <2>2, <3>2, <3>3 DEF AtSlot, Runs, Cell, Contents
    <3>5. PICK g : g = Look(h, o)
      OBVIOUS
    <3>6. /\ g \in Frame /\ FrameInv(g, d)
          /\ \A at \in Places :
               TrieInv(at) /\ SlotWay(h, o, at) /\ Cell(h, o) = h.node => OnWay(g, d, at)
      BY <3>2, <3>4, <3>5, LookGood
    <3>7. ASSUME NEW at \in Places, TrieInv(at), OnWay(f, d, at) PROVE OnWay(g, d, at)
      <4>1. WayInv(f, o, at)
        BY <2>2, <3>7 DEF OnWay, Runs
      <4>2. f.fails = 0
        BY <2>5, <3>7, <4>1
      <4>3. SlotWay(h, o, at)
        BY <3>2, <4>1, <4>2 DEF SlotWay, WayInv
      <4> QED
        BY <3>2, <3>4, <3>6, <3>7, <4>3
    <3> QED
      BY <3>5, <3>6, <3>7 DEF Good
  <2>7. Good(f, Retry(f), d)
    <3>1. \A at \in Places : TrieInv(at) /\ WayInv(f, o, at) =>
            /\ f.fails <= 1 /\ Cell(f, o).to # Null
            /\ f.fails = 1 => IsSpine(Cell(f, o).to)
      BY <2>1, <2>5
    <3> QED
      BY <2>2, <3>1, RetryGood
  <2>8. UNCHANGED <<heap, txn, stack>>
    BY <1>1, <2>4
  <2> QED
    BY <2>1, <2>2, <2>4, <2>6, <2>7, <2>8, QuietKept
<1> QED
  BY <1>2, <1>3

\* What is in their slots.
SpinesHold(S, n1, n2, h1, h2, first, depth, lv) ==
  /\ Len(S) = depth /\ DOMAIN S = 1..depth
  /\ \A x \in 1..depth :
       /\ DOMAIN S[x] = 0..(SUB_SIZE - 1)
       /\ S[x] = [q \in 0..(SUB_SIZE - 1) |-> S[x][q]]
       /\ \A q \in 0..(SUB_SIZE - 1) :
            \/ x < depth /\ q = Digit(h1, lv[x]) /\ S[x][q] = Slot(Spine(first + x))
            \/ x = depth /\ q = Digit(h1, lv[x]) /\ S[x][q] = Slot(n1)
            \/ x = depth /\ q = Digit(h2, lv[x]) /\ S[x][q] = Slot(n2)
            \/ S[x][q] = NullSlot
       /\ \A q \in 0..(SUB_SIZE - 1) :
            x < depth /\ q = Digit(h1, lv[x]) => S[x][q].to = Spine(first + x)

LEMMA SpinesSlots ==
  ASSUME NEW S, NEW n1, NEW n2, NEW h1, NEW h2, NEW first \in Nat,
         NEW depth \in Nat \ {0}, NEW lv \in [1..depth -> Rights],
         SpinesAre(S, n1, n2, h1, h2, first, depth, lv)
  PROVE  SpinesHold(S, n1, n2, h1, h2, first, depth, lv)
<1>1. S = [x \in 1..depth |-> [q \in 0..(SUB_SIZE - 1) |->
            IF q = Digit(h1, lv[x])
            THEN IF x < depth THEN Slot(Spine(first + x)) ELSE Slot(n1)
            ELSE IF x = depth /\ q = Digit(h2, lv[x]) THEN Slot(n2)
            ELSE NullSlot]]
  BY DEF SpinesAre
<1>2. Len(S) = depth /\ DOMAIN S = 1..depth
  BY <1>1
<1>3. ASSUME NEW x \in 1..depth
      PROVE  S[x] = [q \in 0..(SUB_SIZE - 1) |->
               IF q = Digit(h1, lv[x])
               THEN IF x < depth THEN Slot(Spine(first + x)) ELSE Slot(n1)
               ELSE IF x = depth /\ q = Digit(h2, lv[x]) THEN Slot(n2)
               ELSE NullSlot]
  BY <1>1
<1>4. ASSUME NEW x \in 1..depth
      PROVE  /\ DOMAIN S[x] = 0..(SUB_SIZE - 1)
             /\ S[x] = [q \in 0..(SUB_SIZE - 1) |-> S[x][q]]
             /\ \A q \in 0..(SUB_SIZE - 1) :
                  S[x][q] = IF q = Digit(h1, lv[x])
                            THEN IF x < depth THEN Slot(Spine(first + x)) ELSE Slot(n1)
                            ELSE IF x = depth /\ q = Digit(h2, lv[x]) THEN Slot(n2)
                            ELSE NullSlot
  BY <1>3
<1>5. \A p : Slot(p).to = p
  BY SlotFacts
<1> QED
  BY <1>2, <1>4, <1>5 DEF SpinesHold

\* Two nodes that share a slot, in the arrays that tell them apart.
LEMMA SplitSlots ==
  ASSUME TypeInv, NEW n1 \in NodeDesc, Known(n1), NEW n2 \in NodeDesc, Known(n2),
         NEW right \in Levels, right # 0, Shifted[KeyOf(n1)][right] # Shifted[KeyOf(n2)][right],
         NEW more, more = Spines(n1, n2, KeyOf(n1), KeyOf(n2), right, Len(spine) + 1)
  PROVE  \E depth \in Nat \ {0} : \E lv \in [1..depth -> Rights] :
           /\ LevelsDown(lv, depth, KeyOf(n1), KeyOf(n2), right)
           /\ SpinesAre(more, n1, n2, KeyOf(n1), KeyOf(n2), Len(spine) + 1, depth, lv)
           /\ more \in Seq(Array(2)) /\ Len(more) = depth
           /\ \A x \in 1..depth : \A q \in 0..(SUB_SIZE - 1) : Holds(Len(spine) + depth, more[x][q])
<1>1. PICK h1, h2 : h1 = KeyOf(n1) /\ h2 = KeyOf(n2)
  OBVIOUS
<1>2. h1 \in Key /\ h2 \in Key /\ Len(spine) \in Nat /\ Len(spine) > 0
  BY <1>1, KnownFacts, SpineFacts DEF TypeInv, KeyOf
<1>3. PICK first \in Nat : first = Len(spine) + 1
  BY <1>2
<1>4. PICK depth \in Nat \ {0} : \E lv \in [1..depth -> Rights] :
        LevelsDown(lv, depth, h1, h2, right) /\ SpinesAre(more, n1, n2, h1, h2, first, depth, lv)
  BY <1>1, <1>2, <1>3, SpinesFacts
<1>5. PICK lv \in [1..depth -> Rights] :
        LevelsDown(lv, depth, h1, h2, right) /\ SpinesAre(more, n1, n2, h1, h2, first, depth, lv)
  BY <1>4
<1>6. /\ Len(more) = depth /\ DOMAIN more = 1..depth
      /\ \A x \in 1..depth :
           /\ more[x] = [q \in 0..(SUB_SIZE - 1) |-> more[x][q]]
           /\ \A q \in 0..(SUB_SIZE - 1) :
                \/ x < depth /\ more[x][q] = Slot(Spine(first + x))
                \/ more[x][q] = Slot(n1)
                \/ more[x][q] = Slot(n2)
                \/ more[x][q] = NullSlot
  <2>1. SpinesHold(more, n1, n2, h1, h2, first, depth, lv)
    BY <1>5, SpinesSlots
  <2> QED
    BY <2>1 DEF SpinesHold
<1>7. PICK m \in Nat : m = Len(spine) + depth
  BY <1>2
<1>8. Holds(m, Slot(n1)) /\ Holds(m, Slot(n2)) /\ Holds(m, NullSlot)
  BY NullPointer DEF Holds, NullSlot, Slot
<1>9. ASSUME NEW x \in 1..depth, x < depth PROVE Holds(m, Slot(Spine(first + x)))
  <2>1. PICK y \in 2..m : y = first + x
    BY <1>2, <1>3, <1>7, <1>9
  <2>2. Spine(y) \in [spine : 2..m] /\ ~IsData(Spine(y))
    BY SpinePointer DEF Spine
  <2> QED
    BY <2>1, <2>2 DEF Holds, Slot
<1>10. ASSUME NEW x \in 1..depth, NEW q \in 0..(SUB_SIZE - 1) PROVE Holds(m, more[x][q])
  BY <1>6, <1>8, <1>9
<1>11. more \in Seq(Array(2))
  <2>1. ASSUME NEW x \in 1..depth PROVE more[x] \in Array(2)
    <3>1. \A q \in 0..(SUB_SIZE - 1) :
            more[x][q] \in [to : NodeDesc \union {Null} \union [spine : Nat], mark : BOOLEAN]
      BY <1>10, CellType
    <3>2. PICK a : a = more[x]
      OBVIOUS
    <3>3. a = [q \in 0..(SUB_SIZE - 1) |-> a[q]]
      BY <1>6, <3>2
    <3>4. a \in [0..(SUB_SIZE - 1) ->
                   [to : NodeDesc \union {Null} \union [spine : Nat], mark : BOOLEAN]]
      BY <3>1, <3>2, <3>3
    <3> QED
      BY <3>2, <3>4 DEF Array, Size
  <2>2. more = [x \in 1..depth |-> more[x]]
    <3>1. PICK g : more = [x \in 1..depth |-> g[x]]
      BY <1>5 DEF SpinesAre
    <3> QED
      BY <3>1
  <2> QED
    BY <2>1, <2>2, SeqDef
<1> QED
  BY <1>1, <1>3, <1>5, <1>6, <1>7, <1>10, <1>11

\* The keys of the two nodes agree up to the last array.
LEMMA LevelsSame ==
  ASSUME NEW h1, NEW h2, NEW right, NEW depth \in Nat \ {0}, NEW lv \in [1..depth -> Rights],
         LevelsDown(lv, depth, h1, h2, right), Same(h1, h2, right)
  PROVE  \A i \in 1..depth : Same(h1, h2, lv[i])
<1> DEFINE T == {i \in Nat : i + 1 \in 1..depth /\ Same(h1, h2, lv[i + 1])}
<1>1. lv[1] = right /\ 0 \in T
  BY DEF LevelsDown
<1>2. ASSUME NEW i \in 0..(depth - 1), i < depth - 1, i \in T PROVE i + 1 \in T
  <2>1. i + 1 \in 1..depth /\ i + 1 < depth /\ (i + 1) + 1 \in 1..depth
    BY <1>2
  <2>2. /\ lv[(i + 1) + 1] = NextRight(lv[i + 1]) /\ Digit(h1, lv[i + 1]) = Digit(h2, lv[i + 1])
        /\ lv[i + 1] \in Rights
    BY <2>1 DEF LevelsDown
  <2>3. Same(h1, h2, lv[(i + 1) + 1])
    BY <1>2, <2>2, SameNext
  <2> QED
    BY <2>1, <2>3
<1>3. depth - 1 \in Nat
  OBVIOUS
<1>4. \A i \in 0..(depth - 1) : i \in T
  <2> HIDE DEF T
  <2> QED
    BY <1>1, <1>2, <1>3, UpTo
<1>5. ASSUME NEW i \in 1..depth PROVE Same(h1, h2, lv[i])
  <2>1. i - 1 \in T /\ (i - 1) + 1 = i
    BY <1>4
  <2> QED
    BY <2>1
<1> QED
  BY <1>5

\* The places of the new arrays: behind the slot of both keys.
LEMMA SplitTrie ==
  ASSUME TypeInv, UNCHANGED ops, NEW i, NEW j, NEW s, NEW more, SlotSet(i, j, s, more),
         s = Slot(Spine(Len(spine) + 1)), ~IsSpine(spine[i][j].to),
         NEW n1 \in NodeDesc, NEW n2 \in NodeDesc, NEW h1 \in Key, NEW h2 \in Key,
         h1 = KeyOf(n1), h2 = KeyOf(n2), NEW at \in Places, TrieInv(at),
         ComesTo(h2, i, at), Digit(h2, at[i].right) = j, Same(h1, h2, NextRight(at[i].right)),
         NEW depth \in Nat \ {0}, NEW lv \in [1..depth -> Rights], Len(more) = depth,
         LevelsDown(lv, depth, h1, h2, NextRight(at[i].right)),
         SpinesAre(more, n1, n2, h1, h2, Len(spine) + 1, depth, lv)
  PROVE  \E at2 \in Places' : TrieInv(at2)' /\ \A x \in DOMAIN spine : at2[x] = at[x]
<1>1. PICK m \in Nat : m = Len(spine) /\ m > 0 /\ DOMAIN spine = 1..m
  <2>1. Len(spine) \in Nat /\ Len(spine) > 0 /\ DOMAIN spine = 1..Len(spine)
    BY SpineFacts
  <2> QED
    BY <2>1
<1>2. DOMAIN spine' = 1..(m + depth)
  BY <1>1, SlotSetFacts
<1> DEFINE place(p) == IF p <= m THEN at[p] ELSE [right |-> lv[p - m], key |-> h2]
<1>3. PICK at2 : at2 = [p \in 1..(m + depth) |-> place(p)]
  OBVIOUS
<1>4. \A p \in DOMAIN spine : at2[p] = at[p]
  BY <1>1, <1>3
<1>5. 1 \in 1..depth /\ \A x \in 1..depth : at2[m + x].right = lv[x] /\ at2[m + x].key = h2
  <2> SUFFICES ASSUME NEW x \in 1..depth PROVE at2[m + x].right = lv[x] /\ at2[m + x].key = h2
    OBVIOUS
  <2>1. m + x \in 1..(m + depth) /\ ~(m + x <= m) /\ (m + x) - m = x
    BY <1>1
  <2> QED
    BY <1>3, <2>1
<1>6. at2 \in Places'
  <2>1. ASSUME NEW p \in 1..(m + depth) PROVE place(p) \in [right : Rights, key : Nat]
    <3>1. CASE p <= m
      BY <1>1, <3>1 DEF Places
    <3>2. CASE ~(p <= m)
      <4>1. p - m \in 1..depth
        BY <1>1, <3>2
      <4> QED
        BY <3>2, <4>1, Sizes
    <3> QED
      BY <3>1, <3>2
  <2> HIDE DEF place
  <2> QED
    BY <1>2, <1>3, <2>1 DEF Places
<1>7. i \in DOMAIN spine /\ j \in DOMAIN spine[i] /\ at[i].right \in Rights /\ at2[i] = at[i]
  BY <1>4, PlaceFacts DEF SlotSet
<1>8. /\ lv[1] = NextRight(at[i].right)
      /\ \A x \in 1..depth : lv[x] \in Rights /\ lv[x] # 0
      /\ \A x \in 1..depth : x < depth =>
           lv[x + 1] = NextRight(lv[x]) /\ Digit(h1, lv[x]) = Digit(h2, lv[x])
  BY DEF LevelsDown
<1>9. \A x \in 1..depth : Same(h1, h2, lv[x])
  BY LevelsSame
<1>10. PICK first \in Nat : first = m + 1
  BY <1>1
<1>11. /\ \A x \in 1..depth :
            /\ DOMAIN more[x] = 0..(SUB_SIZE - 1)
            /\ \A q \in 0..(SUB_SIZE - 1) :
                 \/ x < depth /\ q = Digit(h1, lv[x]) /\ more[x][q] = Slot(Spine(first + x))
                 \/ x = depth /\ q = Digit(h1, lv[x]) /\ more[x][q] = Slot(n1)
                 \/ x = depth /\ q = Digit(h2, lv[x]) /\ more[x][q] = Slot(n2)
                 \/ more[x][q] = NullSlot
            /\ \A q \in 0..(SUB_SIZE - 1) :
                 x < depth /\ q = Digit(h1, lv[x]) => more[x][q].to = Spine(first + x)
  <2>1. SpinesHold(more, n1, n2, h1, h2, first, depth, lv)
    BY <1>1, <1>10, SpinesSlots
  <2> QED
    BY <2>1 DEF SpinesHold
<1>12. \A x \in 1..depth : Digit(h1, lv[x]) \in 0..(SUB_SIZE - 1)
  BY <1>8, DigitType, RightsFacts DEF Width
<1>13. Fits(s, i, j, at2)
  <2>1. ~s.mark /\ s.to = Spine(m + 1)
    BY <1>1, SlotFacts
  <2>2. IsSpine(s.to) /\ ~IsData(s.to) /\ s.to.spine = m + 1
    BY <1>1, <2>1, SpinePointer
  <2>3. at2[m + 1].right = lv[1] /\ at2[m + 1].key = h2
    BY <1>5
  <2> QED
    BY <1>7, <1>8, <2>1, <2>2, <2>3 DEF Fits, ComesTo
<1>14. ASSUME NEW x \in 1..depth
       PROVE  \E p \in DOMAIN spine' : \E q \in DOMAIN spine'[p] : spine'[p][q].to = Spine(m + x)
  <2>1. CASE x = 1
    <3>1. i \in DOMAIN spine' /\ j \in DOMAIN spine'[i] /\ spine'[i][j] = s
      BY <1>7, SlotSetFacts
    <3>2. s.to = Spine(m + x)
      BY <1>1, <2>1, SlotFacts
    <3> QED
      BY <3>1, <3>2
  <2>2. CASE x # 1
    <3>1. PICK y \in 1..depth : y = x - 1 /\ y < depth /\ first + y = m + x
      <4>1. x - 1 \in 1..depth /\ x - 1 < depth /\ first + (x - 1) = m + x
        BY <1>1, <1>10, <2>2
      <4> QED
        BY <4>1
    <3>2. PICK q \in 0..(SUB_SIZE - 1) : q = Digit(h1, lv[y])
      BY <1>12
    <3>3. more[y][q].to = Spine(m + x) /\ DOMAIN more[y] = 0..(SUB_SIZE - 1)
      BY <1>11, <3>1, <3>2
    <3>4. spine'[m + y] = more[y]
      BY <1>1 DEF SlotSet
    <3>5. m + y \in DOMAIN spine'
      BY <1>1, <1>2
    <3> QED
      BY <3>2, <3>3, <3>4, <3>5
  <2> QED
    BY <2>1, <2>2
<1>15. ASSUME NEW x \in 1..depth, NEW q \in 0..(SUB_SIZE - 1)
       PROVE  Fits(more[x][q], m + x, q, at2)
  <2>1. at2[m + x].right = lv[x] /\ at2[m + x].key = h2
    BY <1>5
  <2>2. CASE x < depth /\ q = Digit(h1, lv[x]) /\ more[x][q] = Slot(Spine(first + x))
    <3>1. x + 1 \in 1..depth /\ m + (x + 1) = first + x /\ first + x \in Nat
      BY <1>1, <1>10, <2>2
    <3>2. at2[first + x].right = lv[x + 1] /\ at2[first + x].key = h2
      BY <1>5, <3>1
    <3>3. PICK c : c = more[x][q] /\ c.to = Spine(first + x) /\ ~c.mark
      BY <2>2, SlotFacts
    <3>4. IsSpine(c.to) /\ ~IsData(c.to) /\ c.to.spine = first + x
      BY <3>1, <3>3, SpinePointer
    <3>5. lv[x + 1] = NextRight(lv[x]) /\ Digit(h2, lv[x]) = q
      BY <1>8, <2>2
    <3>6. Same(h2, h2, lv[x])
      BY SameFacts
    <3> QED
      BY <2>1, <3>2, <3>3, <3>4, <3>5, <3>6 DEF Fits, ComesTo
  <2>3. ASSUME NEW n \in NodeDesc, more[x][q] = Slot(n), Same(KeyOf(n), h2, lv[x]),
               Digit(KeyOf(n), lv[x]) = q
        PROVE  Fits(more[x][q], m + x, q, at2)
    <3>1. PICK c : c = more[x][q] /\ c.to = n /\ ~c.mark
      BY <2>3, SlotFacts
    <3>2. IsData(c.to) /\ ~IsSpine(c.to)
      BY <3>1, NodePointer
    <3> QED
      BY <2>1, <2>3, <3>1, <3>2 DEF Fits, ComesTo
  <2>4. CASE x = depth /\ q = Digit(h1, lv[x]) /\ more[x][q] = Slot(n1)
    BY <1>9, <2>3, <2>4
  <2>5. CASE x = depth /\ q = Digit(h2, lv[x]) /\ more[x][q] = Slot(n2)
    BY <2>3, <2>5, SameFacts
  <2>6. CASE more[x][q] = NullSlot
    <3>1. PICK c : c = more[x][q] /\ c.to = Null /\ ~c.mark
      BY <2>6, SlotFacts
    <3> QED
      BY <3>1, NullPointer DEF Fits
  <2> QED
    BY <1>11, <2>2, <2>4, <2>5, <2>6
<1>16. \A x \in 1..Len(more) :
         /\ at2[Len(spine) + x].right # 0 /\ at2[Len(spine) + x].key \in Key
         /\ \E p \in DOMAIN spine' : \E q \in DOMAIN spine'[p] :
              spine'[p][q].to = Spine(Len(spine) + x)
         /\ \A q \in 0..(SUB_SIZE - 1) : Fits(more[x][q], Len(spine) + x, q, at2)
  BY <1>1, <1>5, <1>8, <1>14, <1>15
<1>17. TrieInv(at2)'
  BY <1>4, <1>6, <1>13, <1>16, TrieSet
<1> QED
  BY <1>4, <1>6, <1>17

LEMMA DividedKept ==
  ASSUME TypeInv, NEW t \in Thread, Split(t), CanReplace(Fr(t), Op(t)), Enter(t)
  PROVE  Kept(t)
<1>1. /\ At(t, "split") /\ "split" \in OpLabels /\ UNCHANGED <<txn, stack>>
  BY DEF Split, OpLabels, Labels
<1>2. PICK f, o, d, m : f = Fr(t) /\ o = Op(t) /\ d = Top(t) /\ m = Mine(t)
  OBVIOUS
<1>3. /\ f.pc = "split" /\ OpInv(f, o) /\ Runs(f, o, d) /\ o.key \in Key
      /\ f \in Frame /\ m \in NodeDesc /\ Known(m) /\ KeyOf(m) = o.key
  BY <1>1, <1>2, Running DEF Runs
<1>4. PICK n : n = f.node.to
  OBVIOUS
<1>5. n \in NodeDesc /\ Known(n) /\ IsData(n) /\ ~IsSpine(n) /\ ~f.node.mark /\ KeyOf(n) \in Key
  <2>1. IsData(n) /\ Known(n) /\ n \in Pointer /\ ~f.node.mark
    BY <1>3, <1>4 DEF OpInv
  <2>2. n \in NodeDesc /\ ~IsSpine(n)
    BY <2>1, SpineFacts, PointerCases DEF Pointer
  <2> QED
    BY <2>1, <2>2, KnownFacts DEF KeyOf, TypeInv
<1>6. PICK i, j : i = f.local /\ j = Digit(o.key, f.right)
  OBVIOUS
<1>7. i \in DOMAIN spine /\ j \in DOMAIN spine[i] /\ Cell(f, o) = spine[i][j]
      /\ spine[i][j] = f.node
  BY <1>1, <1>2, <1>6, SlotOf DEF CanReplace
<1>8. PICK right \in Levels : right = NextRight(f.right) /\ right # 0
  <2>1. f.right \in Rights
    BY <1>3 DEF Frame
  <2>2. NextRight(f.right) \in Levels /\ NextRight(f.right) > f.right /\ f.right \in Nat
    BY <2>1, RightsFacts
  <2>3. NextRight(f.right) # 0
    BY <2>2
  <2> QED
    BY <2>2, <2>3
<1>9. PICK more : more = Spines(n, m, KeyOf(n), o.key, right, Len(spine) + 1)
  OBVIOUS
<1>10. PICK s : s = Slot(Spine(Len(spine) + 1))
  OBVIOUS
<1>11. Shifted[KeyOf(n)][right] # Shifted[o.key][right] /\ spine' = SetCell(f, o, s) \o more
  <2>1. \/ /\ Shifted[KeyOf(n)][right] # Shifted[o.key][right]
           /\ spine' = SetCell(f, o, s) \o more
        \/ /\ SetFrame(t, Retry(f)) /\ UNCHANGED heap
    BY <1>2, <1>4, <1>8, <1>9, <1>10 DEF Split, KeyOf
  <2>2. ~SetFrame(t, Retry(f))
    <3>1. Top(t) \in Desc /\ Busy(t) /\ f.opid \in 1..MaxOps /\ f.opid \in Nat
      BY <1>1, <1>2, Running DEF Runs
    <3>2. PICK g : g = Finished(f, TRUE)
      OBVIOUS
    <3>3. g \in Frame /\ ~InOp(g)
      BY <3>1, <3>2, FinishedFacts
    <3>4. SetFrame(t, g)
      BY <1>2, <3>2 DEF Enter
    <3>5. fr'[t][Top(t)] = g
      BY <3>1, <3>3, <3>4, FrameSet
    <3>6. InOp(Retry(f))
      BY <1>3 DEF Retry, InOp, Frame
    <3>7. SetFrame(t, Retry(f)) => fr'[t][Top(t)] = Retry(f)
      BY <3>1 DEF SetFrame, TypeInv, TypeOK
    <3> QED
      BY <3>3, <3>5, <3>6, <3>7
  <2> QED
    BY <2>1, <2>2
<1>12. PICK depth \in Nat \ {0} : \E lv \in [1..depth -> Rights] :
         /\ LevelsDown(lv, depth, KeyOf(n), o.key, right)
         /\ SpinesAre(more, n, m, KeyOf(n), o.key, Len(spine) + 1, depth, lv)
         /\ more \in Seq(Array(2)) /\ Len(more) = depth
         /\ \A x \in 1..depth : \A q \in 0..(SUB_SIZE - 1) : Holds(Len(spine) + depth, more[x][q])
  <2>1. /\ Shifted[KeyOf(n)][right] # Shifted[KeyOf(m)][right]
        /\ more = Spines(n, m, KeyOf(n), KeyOf(m), right, Len(spine) + 1)
    BY <1>3, <1>9, <1>11
  <2>2. \E depth \in Nat \ {0} : \E lv \in [1..depth -> Rights] :
           /\ LevelsDown(lv, depth, KeyOf(n), KeyOf(m), right)
           /\ SpinesAre(more, n, m, KeyOf(n), KeyOf(m), Len(spine) + 1, depth, lv)
           /\ more \in Seq(Array(2)) /\ Len(more) = depth
           /\ \A x \in 1..depth : \A q \in 0..(SUB_SIZE - 1) : Holds(Len(spine) + depth, more[x][q])
    BY <1>3, <1>5, <1>8, <2>1, SplitSlots
  <2> QED
    BY <1>3, <2>2
<1>13. PICK lv \in [1..depth -> Rights] :
         /\ LevelsDown(lv, depth, KeyOf(n), o.key, right)
         /\ SpinesAre(more, n, m, KeyOf(n), o.key, Len(spine) + 1, depth, lv)
         /\ more \in Seq(Array(2)) /\ Len(more) = depth
         /\ \A x \in 1..depth : \A q \in 0..(SUB_SIZE - 1) : Holds(Len(spine) + depth, more[x][q])
  BY <1>12
<1>14. Holds(Len(spine) + Len(more), s) /\ IsSpine(s.to)
  <2>1. PICK y \in Nat : y = Len(spine) + 1 /\ y \in 2..(Len(spine) + Len(more))
    <3>1. Len(spine) \in Nat /\ Len(spine) > 0
      BY SpineFacts
    <3> QED
      BY <1>13, <3>1
  <2>2. IsSpine(Spine(y)) /\ ~IsData(Spine(y)) /\ Spine(y) \in [spine : 2..(Len(spine) + Len(more))]
    BY <2>1, SpinePointer DEF Spine
  <2> QED
    BY <1>10, <2>1, <2>2 DEF Holds, Slot
<1>15. SlotSet(i, j, s, more)
  BY <1>1, <1>2, <1>6, <1>11, <1>13, <1>14, CellSet
<1>16. ~IsSpine(spine[i][j].to) /\ UNCHANGED ops
  BY <1>1, <1>4, <1>5, <1>7 DEF txn
<1>17. ASSUME NEW at \in Places, TrieInv(at), WayInv(f, o, at)
       PROVE  \E at2 \in Places' : TrieInv(at2)' /\ \A x \in DOMAIN spine : at2[x] = at[x]
  <2>1. /\ at[i].right = f.right /\ ComesTo(o.key, i, at)
        /\ Same(KeyOf(n), o.key, NextRight(at[i].right))
    BY <1>3, <1>4, <1>6, <1>17 DEF WayInv
  <2>2. Digit(o.key, at[i].right) = j /\ right = NextRight(at[i].right)
    BY <1>6, <1>8, <2>1
  <2>3. /\ LevelsDown(lv, depth, KeyOf(n), o.key, NextRight(at[i].right))
        /\ SpinesAre(more, n, m, KeyOf(n), o.key, Len(spine) + 1, depth, lv)
    BY <1>13, <2>2
  <2> QED
    BY <1>3, <1>5, <1>10, <1>13, <1>15, <1>16, <1>17, <2>1, <2>2, <2>3, SplitTrie
<1>18. /\ ~IsSpine(Cell(f, o).to) /\ ~Cell(f, o).mark
       /\ (Cell(f, o).to = Null /\ s.to # Null) \/ IsSpine(s.to)
  BY <1>5, <1>7, <1>14, <1>16
<1>19. "split" \in {"place", "split"}
  OBVIOUS
<1> QED
  BY <1>1, <1>2, <1>6, <1>15, <1>17, <1>18, <1>19, EnterKept

LEMMA SplitStep ==
  ASSUME TypeInv, NEW t \in Thread, Split(t) PROVE Kept(t)
<1>1. /\ At(t, "split") /\ "split" \in OpLabels /\ UNCHANGED <<txn, stack>>
  BY DEF Split, OpLabels, Labels
<1>2. PICK f, o, d : f = Fr(t) /\ o = Op(t) /\ d = Top(t)
  OBVIOUS
<1>3. /\ Busy(t) /\ f.pc = "split" /\ OpInv(f, o) /\ AtSlot(f, o, d) /\ o.key \in Key
      /\ f \in Frame
  BY <1>1, <1>2, Running, SlotOf DEF Runs
<1>4. PICK n, right : n = f.node.to /\ right = NextRight(f.right)
  OBVIOUS
<1>5. CASE CanReplace(f, o) /\ Enter(t)
  BY <1>2, <1>5, DividedKept
<1>6. CASE /\ ~(CanReplace(f, o) /\ Shifted[KeyOf(n)][right] # Shifted[o.key][right])
           /\ SetFrame(t, Retry(f)) /\ UNCHANGED heap
  <2>1. ASSUME NEW at \in Places, TrieInv(at), WayInv(f, o, at)
        PROVE  f.fails <= 1 /\ IsSpine(Cell(f, o).to)
    <3>1. /\ f.fails <= 1 /\ (Cell(f, o) = f.node \/ IsSpine(Cell(f, o).to))
          /\ Same(KeyOf(n), o.key, right)
      BY <1>3, <1>4, <2>1 DEF WayInv
    <3>2. IsData(n) /\ Known(n) /\ KeyOf(n) # o.key /\ n \in Pointer
      BY <1>3, <1>4 DEF OpInv, KeyOf
    <3>3. n \in NodeDesc
      BY <3>2, SpineFacts, PointerCases DEF Pointer
    <3>4. KeyOf(n) \in Key /\ right \in Levels
      BY <1>3, <1>4, <3>2, <3>3, KnownFacts, RightsFacts DEF KeyOf, TypeInv, Frame
    <3>5. Shifted[KeyOf(n)][right] # Shifted[o.key][right]
      BY <1>3, <3>1, <3>2, <3>4, KeysDiffer
    <3> QED
      BY <1>6, <3>1, <3>5 DEF CanReplace
  <2>2. \A at \in Places : TrieInv(at) /\ WayInv(f, o, at) =>
          /\ f.fails <= 1 /\ Cell(f, o).to # Null
          /\ f.fails = 1 => IsSpine(Cell(f, o).to)
    BY <2>1, NullPointer
  <2>3. Good(f, Retry(f), d)
    BY <1>3, <2>2, RetryGood
  <2>4. UNCHANGED <<heap, txn, stack>>
    BY <1>1, <1>6
  <2> QED
    BY <1>2, <1>3, <1>6, <2>3, <2>4, QuietKept
<1> QED
  BY <1>2, <1>4, <1>5, <1>6 DEF Split, KeyOf

-----------------------------------------------------------------------------
(* Every step keeps the invariant.                                         *)

LEMMA StepKept ==
  ASSUME TypeInv, NEW t \in Thread, ExecuteOps(t) \/ Step(t)
  PROVE  Kept(t)
<1>1. CASE ExecuteOps(t)
  BY <1>1, ExecuteOpsStep
<1>2. CASE OpLoop(t) \/ ReadSlot(t) \/ MarkSlot(t) \/ Place(t) \/ Split(t) \/ Expand(t)
  BY <1>2, OpLoopStep, ReadSlotStep, MarkSlotStep, PlaceStep, SplitStep, ExpandStep
<1>3. CASE ReadNodeDesc(t) \/ FinishPendingTxn(t) \/ CycleAbort(t)
  BY <1>3, ReadNodeDescStep, FinishPendingTxnStep, CycleAbortStep
<1>4. CASE CheckKeyExist(t) \/ ReadCurrDesc(t) \/ CheckActive(t)
  BY <1>4, CheckKeyExistStep, ReadCurrDescStep, CheckActiveStep
<1>5. CASE CheckUnsaved(t) \/ SaveUpdate(t) \/ UpdateDesc(t)
  BY <1>5, CheckUnsavedStep, SaveUpdateStep, UpdateDescStep
<1>6. CASE CompareValue(t) \/ SwapValue(t) \/ FindResult(t) \/ StoreAnswer(t)
  BY <1>6, CompareValueStep, SwapValueStep, FindResultStep, StoreAnswerStep
<1>7. CASE DecideTxn(t) \/ PersistClaim(t) \/ PersistDone(t)
  BY <1>7, DecideTxnStep, PersistClaimStep, PersistDoneStep
<1> QED
  BY <1>1, <1>2, <1>3, <1>4, <1>5, <1>6, <1>7 DEF Step

LEMMA StutterKept ==
  ASSUME TypeInv, UNCHANGED vars
  PROVE  TypeInv' /\ (RouteInv => RouteInv')
<1>1. UNCHANGED <<spine, nd, value, ops>> /\ UNCHANGED <<status, pstatus, stack, fr>>
  BY DEF vars
<1>2. Grows /\ Routes
  BY <1>1, GrowsSame
<1>3. TypeOK' /\ PreInv'
  BY <1>1 DEF TypeInv, TypeOK, PreInv
<1>4. DescInv' /\ SpinesInv'
  BY <1>1, <1>2, DescStable, SpinesStable
<1>5. \A u \in Thread, e \in Desc : fr'[u][e] = fr[u][e]
  BY <1>1
<1>6. TypeInv'
  BY <1>2, <1>3, <1>4, <1>5, TypeKept
<1>7. ASSUME RouteInv PROVE RouteInv'
  <2>1. PICK at \in Places : TrieInv(at) /\ WaysInv(at)
    BY <1>7 DEF RouteInv
  <2>2. at \in Places' /\ TrieInv(at)'
    BY <1>1, <1>2, <2>1, TrieStable DEF Places
  <2> QED
    BY <1>2, <1>5, <2>1, <2>2, RouteKept
<1> QED
  BY <1>6, <1>7

LEMMA TypeStep == TypeInv /\ [Next]_vars => TypeInv'
<1> SUFFICES ASSUME TypeInv, [Next]_vars PROVE TypeInv'
  OBVIOUS
<1>1. CASE UNCHANGED vars
  BY <1>1, StutterKept
<1>2. ASSUME NEW t \in Thread, ExecuteOps(t) \/ Step(t) PROVE TypeInv'
  BY <1>2, StepKept DEF Kept
<1>3. CASE Terminated
  BY <1>3, StutterKept DEF Terminated
<1> QED
  BY <1>1, <1>2, <1>3 DEF Next

LEMMA InvStep == Patient /\ IInv /\ [HNext]_<<vars, flaws>> => IInv'
<1> SUFFICES ASSUME Patient, IInv, [HNext]_<<vars, flaws>> PROVE IInv'
  OBVIOUS
<1>1. TypeInv
  BY DEF IInv
<1>2. CASE UNCHANGED <<vars, flaws>>
  <2>1. UNCHANGED vars /\ UNCHANGED flaws
    BY <1>2
  <2> QED
    BY <1>1, <2>1, StutterKept DEF IInv
<1>3. CASE HNext
  <2>1. TypeInv'
    BY <1>1, <1>3, TypeStep DEF HNext
  <2>2. ASSUME "way" \notin flaws' PROVE RouteInv'
    <3>1. "way" \notin flaws /\ \A t \in Thread : ~LosesItsWay(t)
      BY <1>3, <2>2 DEF HNext
    <3>2. RouteInv
      BY <3>1 DEF IInv
    <3>3. CASE Terminated
      BY <1>1, <3>2, <3>3, StutterKept DEF Terminated
    <3>4. ASSUME NEW t \in Thread, ExecuteOps(t) \/ Step(t) PROVE RouteInv'
      BY <1>1, <3>1, <3>2, <3>4, StepKept DEF Kept
    <3> QED
      BY <1>3, <3>3, <3>4 DEF HNext, Next
  <2> QED
    BY <2>1, <2>2 DEF IInv
<1> QED
  BY <1>2, <1>3

-----------------------------------------------------------------------------
(* The first state: the trie that holds the keys of S.                     *)

\* Every crowd has an index in order, and only one.
Lists(order, n, S) ==
  /\ n \in Nat /\ order \in [1..n -> Crowds(S)]
  /\ \A x, y \in 1..n : order[x] = order[y] => x = y
  /\ \A c \in Crowds(S) : \E x \in 1..n : order[x] = c

LEMMA OrderFacts ==
  ASSUME NEW S, IsFiniteSet(S)
  PROVE  \E n \in Nat : Lists(SetToSeq(Crowds(S)), n, S)
<1>1. IsFiniteSet(Crowds(S))
  <2>1. IsFiniteSet(Rights \ {0})
    <3>1. IsFiniteSet(0..KEY_SIZE)
      BY Sizes, FS_Interval
    <3>2. Rights \ {0} \in SUBSET (0..KEY_SIZE)
      BY RightsFacts, Sizes
    <3> QED
      BY <3>1, <3>2, FS_Subset
  <2>2. IsFiniteSet((Rights \ {0}) \X SUBSET S)
    BY <2>1, FS_SUBSET, FS_Product
  <2>3. Crowds(S) \in SUBSET ((Rights \ {0}) \X SUBSET S)
    BY DEF Crowds
  <2> QED
    BY <2>2, <2>3, FS_Subset
<1>2. PICK C : C = Crowds(S)
  OBVIOUS
<1>3. PICK n \in Nat : n = Cardinality(C) /\ ExistsBijection(1..n, C)
  BY <1>1, <1>2, FS_CardinalityType
<1>4. \E f \in [1..n -> C] : IsInjective(f)
  BY <1>3 DEF ExistsBijection, Bijection, Injection
<1>5. PICK order : order = SetToSeq(C)
  OBVIOUS
<1>6. order \in [1..n -> C] /\ IsInjective(order)
  BY <1>3, <1>4, <1>5 DEF SetToSeq
<1>7. order \in Injection(1..n, C)
  BY <1>6 DEF Injection
<1>8. Cardinality(1..n) = Cardinality(C)
  BY <1>3, FS_Interval
<1>9. order \in Surjection(1..n, C)
  BY <1>1, <1>2, <1>7, <1>8, FS_Injection
<1> QED
  BY <1>2, <1>5, <1>6, <1>9 DEF Lists, IsInjective, Surjection

\* The bits used before array i of the trie, and the keys below it.
Crowd(order, S, i) == IF i = 1 THEN <<0, S>> ELSE order[i - 1]

CrowdIs(c, S, i) ==
  /\ c = <<c[1], c[2]>> /\ c[1] \in Rights /\ c[2] \subseteq S
  /\ c[1] = 0 <=> i = 1
  /\ i # 1 => c \in Crowds(S) /\ Crowded(c[2])
  /\ \A k \in c[2] : c[2] = {l \in S : Same(k, l, c[1])}

LEMMA CrowdFacts ==
  ASSUME NEW S, S \subseteq Key, NEW order, NEW n, Lists(order, n, S), NEW i \in 1..(n + 1)
  PROVE  CrowdIs(Crowd(order, S, i), S, i)
<1>1. PICK c : c = Crowd(order, S, i)
  OBVIOUS
<1>2. CASE i = 1
  <2>1. c = <<0, S>>
    BY <1>1, <1>2 DEF Crowd
  <2> QED
    BY <1>1, <1>2, <2>1, RightsFacts, SameAtHead DEF CrowdIs
<1>3. CASE i # 1
  <2>1. c \in Crowds(S)
    <3>1. i - 1 \in 1..n
      BY <1>3 DEF Lists
    <3> QED
      BY <1>1, <1>3, <3>1 DEF Crowd, Lists
  <2>2. /\ c = <<c[1], c[2]>> /\ c[1] \in Rights /\ c[1] # 0 /\ c[2] \subseteq S /\ Crowded(c[2])
    BY <2>1 DEF Crowds
  <2>3. PICK k \in c[2] : c[2] = {l \in S : Same(k, l, c[1])}
    BY <2>1 DEF Crowds
  <2>4. ASSUME NEW h \in c[2] PROVE c[2] = {l \in S : Same(h, l, c[1])}
    <3>1. Same(k, h, c[1]) /\ Same(h, k, c[1])
      BY <2>3, SameFacts
    <3>2. \A l : Same(k, l, c[1]) <=> Same(h, l, c[1])
      BY <3>1, SameFacts
    <3> QED
      BY <2>3, <3>2
  <2> QED
    BY <1>1, <1>3, <2>1, <2>2, <2>4 DEF CrowdIs
<1> QED
  BY <1>2, <1>3

\* G are the keys that come to slot j of the array of the keys H.
Below(S, right, H, j, G) ==
  /\ S \subseteq Key /\ right \in Rights /\ H \subseteq S
  /\ \A k \in H : H = {l \in S : Same(k, l, right)}
  /\ G = {k \in H : Digit(k, right) = j}

\* If they are a crowd, there is an array for them.
LEMMA BelowFacts ==
  ASSUME NEW S, NEW right, NEW H, NEW j, NEW G, Below(S, right, H, j, G), Crowded(G)
  PROVE  <<NextRight(right), G>> \in Crowds(S)
<1>0. /\ S \subseteq Key /\ right \in Rights /\ H \subseteq S
      /\ \A k \in H : H = {l \in S : Same(k, l, right)}
      /\ G = {k \in H : Digit(k, right) = j}
  BY DEF Below
<1>1. PICK next \in Levels : next = NextRight(right) /\ next > right /\ right \in Nat /\ next \in Nat
  BY <1>0, RightsFacts
<1>2. PICK k, l \in G : k # l
  BY DEF Crowded
<1>3. k \in H /\ l \in H /\ k \in S /\ k \in Key /\ l \in Key
  BY <1>0, <1>2
<1>4. H = {x \in S : Same(k, x, right)}
  BY <1>0, <1>3
<1>5. G = {x \in S : Same(k, x, next)}
  <2>1. Digit(k, right) = j
    BY <1>0, <1>2
  <2>2. \A x : Same(k, x, next) <=> Same(k, x, right) /\ Digit(k, right) = Digit(x, right)
    BY <1>0, <1>1, SameNext
  <2> QED
    BY <1>0, <1>4, <2>1, <2>2
<1>6. Same(k, l, next)
  BY <1>2, <1>5
<1>7. Shifted[k][next] # Shifted[l][next]
  BY <1>2, <1>3, <1>6, KeysDiffer
<1>8. next < KEY_SIZE
  <2>1. next >= KEY_SIZE => Shifted[k][next] = 0 /\ Shifted[l][next] = 0
    BY <1>3, KeyAssumption
  <2> QED
    BY <1>1, <1>7, <2>1, Sizes
<1>9. next \in Rights \ {0} /\ G \in SUBSET S
  BY <1>0, <1>1, <1>8 DEF Rights
<1> QED
  BY <1>1, <1>2, <1>5, <1>9 DEF Crowds

PreNode(k) == [by |-> Main, desc |-> PreDesc, opid |-> k]

LEMMA PreNodeFacts ==
  ASSUME NEW k \in Key
  PROVE  PreNode(k) \in NodeDesc /\ Known(PreNode(k)) /\ KeyOf(PreNode(k)) = k
BY DEF PreNode, NodeDesc, Known, KeyOf, OpOf

\* What slot s holds, if the keys of G are below it and next are the bits used there.
FillsFor(s, G, next, order, n, S) ==
  /\ ~s.mark /\ s.mark \in BOOLEAN /\ s = [to |-> s.to, mark |-> s.mark]
  /\ \/ s.to = Null
     \/ \E k \in G : s.to = PreNode(k)
     \/ \E x \in 2..(n + 1) : s.to = Spine(x) /\ Crowd(order, S, x) = <<next, G>>
  /\ Crowded(G) => \E x \in 2..(n + 1) : s.to = Spine(x) /\ Crowd(order, S, x) = <<next, G>>

LEMMA FillFacts ==
  ASSUME NEW S, S \subseteq Key, NEW order, NEW n, Lists(order, n, S), NEW i \in 1..(n + 1),
         NEW c, c = Crowd(order, S, i), NEW j, NEW G, G = {k \in c[2] : Digit(k, c[1]) = j},
         NEW next, next = NextRight(c[1]), NEW s, s = FilledSlot(G, next, order)
  PROVE  FillsFor(s, G, next, order, n, S)
<1>1. CASE G = {}
  <2>1. s = NullSlot /\ ~Crowded(G)
    BY <1>1 DEF FilledSlot, Crowded
  <2> QED
    <3>1. s = [to |-> Null, mark |-> FALSE]
      BY <2>1 DEF NullSlot, Slot
    <3>2. s.to = Null /\ s.mark = FALSE
      BY <3>1
    <3> QED
      BY <2>1, <3>1, <3>2 DEF FillsFor
<1>2. CASE G # {} /\ ~Crowded(G)
  <2>1. PICK k : k = CHOOSE l \in G : TRUE
    OBVIOUS
  <2>2. k \in G
    BY <1>2, <2>1
  <2>3. s = Slot(PreNode(k))
    BY <1>2, <2>1 DEF FilledSlot, PreNode
  <2> QED
    <3>1. PICK p : p = PreNode(k)
      OBVIOUS
    <3>2. s = [to |-> p, mark |-> FALSE]
      BY <2>3, <3>1 DEF Slot
    <3>3. s.to = p /\ s.mark = FALSE
      BY <3>2
    <3> QED
      BY <1>2, <2>2, <3>1, <3>2, <3>3 DEF FillsFor
<1>3. CASE Crowded(G)
  <2>1. G # {}
    BY <1>3 DEF Crowded
  <2>2. <<next, G>> \in Crowds(S)
    <3>1. /\ c[1] \in Rights /\ c[2] \subseteq S
          /\ \A k \in c[2] : c[2] = {l \in S : Same(k, l, c[1])}
      <4>1. CrowdIs(c, S, i)
        BY CrowdFacts
      <4> QED
        BY <4>1 DEF CrowdIs
    <3>2. PICK right \in Rights : right = c[1]
      BY <3>1
    <3>3. PICK H : H = c[2]
      OBVIOUS
    <3>4. G = {k \in H : Digit(k, right) = j} /\ H \subseteq S
          /\ \A k \in H : H = {l \in S : Same(k, l, right)}
      BY <3>1, <3>2, <3>3
    <3>5. next = NextRight(right)
      BY <3>2
    <3>6. <<NextRight(right), G>> \in Crowds(S)
      <4>1. Below(S, right, H, j, G)
        BY <3>1, <3>2, <3>4 DEF Below
      <4> QED
        BY <1>3, <4>1, BelowFacts
    <3> QED
      BY <3>5, <3>6
  <2>3. DOMAIN order = 1..n /\ \E x \in 1..n : order[x] = <<next, G>>
    BY <2>2 DEF Lists
  <2>4. PICK y : y = CHOOSE x \in DOMAIN order : order[x] = <<next, G>>
    OBVIOUS
  <2>5. y \in 1..n /\ order[y] = <<next, G>>
    BY <2>3, <2>4
  <2>6. s = Slot(Spine(1 + y))
    BY <1>3, <2>1, <2>4 DEF FilledSlot
  <2>7. n \in Nat /\ y \in Nat
    BY <2>5 DEF Lists
  <2>8. 1 + y \in 2..(n + 1) /\ 1 + y # 1 /\ (1 + y) - 1 = y
    BY <2>5, <2>7
  <2>9. Crowd(order, S, 1 + y) = <<next, G>>
    BY <2>5, <2>8 DEF Crowd
  <2> QED
    <3>1. PICK p : p = Spine(1 + y)
      OBVIOUS
    <3>2. s = [to |-> p, mark |-> FALSE]
      BY <2>6, <3>1 DEF Slot
    <3>3. s.to = p /\ s.mark = FALSE
      BY <3>2
    <3>4. \E x \in 2..(n + 1) : s.to = Spine(x) /\ Crowd(order, S, x) = <<next, G>>
      BY <2>8, <2>9, <3>1, <3>3
    <3> QED
      BY <3>2, <3>3, <3>4 DEF FillsFor
<1> QED
  BY <1>1, <1>2, <1>3

\* The arrays of the first trie.
Fills(F, order, n, S) ==
  /\ Len(F) = n + 1 /\ DOMAIN F = 1..(n + 1)
  /\ F \in Seq(Array(1) \union Array(2))
  /\ \A i \in 1..(n + 1) :
       /\ F[i] \in [0..(Size(i) - 1) ->
                      [to : NodeDesc \union {Null} \union [spine : 2..(n + 1)], mark : BOOLEAN]]
       /\ DOMAIN F[i] = 0..(Size(i) - 1)
       /\ \A j \in 0..(Size(i) - 1) :
            FillsFor(F[i][j],
                     {k \in Crowd(order, S, i)[2] : Digit(k, Crowd(order, S, i)[1]) = j},
                     NextRight(Crowd(order, S, i)[1]), order, n, S)

LEMMA FilledFacts ==
  ASSUME NEW S, S \subseteq Key, NEW n \in Nat, NEW order, order = SetToSeq(Crowds(S)),
         Lists(order, n, S), NEW F, F = Filled(S)
  PROVE  Fills(F, order, n, S)
<1> DEFINE Cells == [to : NodeDesc \union {Null} \union [spine : 2..(n + 1)], mark : BOOLEAN]
           crowd(i) == Crowd(order, S, i)
           array(i) == FilledArray(crowd(i)[2], crowd(i)[1], Size(i), order)
           below(i, j) == {k \in crowd(i)[2] : Digit(k, crowd(i)[1]) = j}
           ok(s, i, j) == FillsFor(s, below(i, j), NextRight(crowd(i)[1]), order, n, S)
<1>1. ASSUME NEW i \in 1..(n + 1), NEW j
      PROVE  ok(FilledSlot(below(i, j), NextRight(crowd(i)[1]), order), i, j)
  BY FillFacts
<1>2. ASSUME NEW i \in 1..(n + 1), NEW j, NEW s, ok(s, i, j) PROVE s \in Cells
  <2>1. below(i, j) \subseteq Key
    <3>1. CrowdIs(crowd(i), S, i)
      BY CrowdFacts
    <3> QED
      BY <3>1 DEF CrowdIs
  <2>2. s.to = Null \/ (\E k \in Key : s.to = PreNode(k)) \/ (\E x \in 2..(n + 1) : s.to = Spine(x))
    BY <1>2, <2>1 DEF FillsFor
  <2>3. s.to \in NodeDesc \union {Null} \union [spine : 2..(n + 1)]
    <3>1. \A k \in Key : PreNode(k) \in NodeDesc
      BY PreNodeFacts
    <3>2. \A x \in 2..(n + 1) : Spine(x) \in [spine : 2..(n + 1)]
      BY DEF Spine
    <3> QED
      BY <2>2, <3>1, <3>2
  <2>4. s.mark \in BOOLEAN /\ s = [to |-> s.to, mark |-> s.mark]
    BY <1>2 DEF FillsFor
  <2> QED
    BY <2>3, <2>4
<1>3. ASSUME NEW i \in 1..(n + 1)
      PROVE  array(i) = [j \in 0..(Size(i) - 1) |->
                           FilledSlot(below(i, j), NextRight(crowd(i)[1]), order)]
  BY DEF FilledArray
<1>4. ASSUME NEW i \in 1..(n + 1)
      PROVE  /\ array(i) \in [0..(Size(i) - 1) -> Cells]
             /\ \A j \in 0..(Size(i) - 1) : ok(array(i)[j], i, j)
  <2> HIDE DEF Cells, crowd, array, below, ok
  <2> QED
    BY <1>1, <1>2, <1>3
<1>5. ASSUME NEW i \in 1..(n + 1) PROVE array(i) \in Array(1) \union Array(2)
  <2>1. 2..(n + 1) \subseteq Nat
    OBVIOUS
  <2>2. Cells \subseteq [to : NodeDesc \union {Null} \union [spine : Nat], mark : BOOLEAN]
    BY <2>1
  <2>3. Size(i) = Size(1) \/ Size(i) = Size(2)
    BY DEF Size
  <2> HIDE DEF Cells, array
  <2> QED
    BY <1>4, <2>2, <2>3 DEF Array
<1>6. F = <<array(1)>> \o [x \in 1..n |-> array(x + 1)]
  <2>1. DOMAIN order = 1..n
    BY DEF Lists
  <2>2. array(1) = FilledArray(S, 0, MAIN_SIZE, order)
    BY DEF Crowd, Size
  <2>3. ASSUME NEW x \in 1..n
        PROVE  array(x + 1) = FilledArray(order[x][2], order[x][1], SUB_SIZE, order)
    <3>1. x + 1 # 1 /\ (x + 1) - 1 = x
      OBVIOUS
    <3> QED
      BY <3>1 DEF Crowd, Size
  <2>4. F = <<FilledArray(S, 0, MAIN_SIZE, order)>>
              \o [x \in 1..n |-> FilledArray(order[x][2], order[x][1], SUB_SIZE, order)]
    BY <2>1 DEF Filled
  <2> HIDE DEF array
  <2>5. [x \in 1..n |-> FilledArray(order[x][2], order[x][1], SUB_SIZE, order)]
          = [x \in 1..n |-> array(x + 1)]
    BY <2>3
  <2> QED
    BY <2>2, <2>4, <2>5
<1>7. /\ F \in Seq(Array(1) \union Array(2)) /\ Len(F) = n + 1
      /\ \A i \in 1..(n + 1) : F[i] = array(i)
  <2> HIDE DEF array
  <2>1. PICK head, rest, T : /\ head = <<array(1)>> /\ rest = [x \in 1..n |-> array(x + 1)]
                             /\ T = Array(1) \union Array(2)
    OBVIOUS
  <2>2. head \in Seq(T) /\ Len(head) = 1 /\ head[1] = array(1)
    BY <1>5, <2>1
  <2>3. rest \in Seq(T) /\ Len(rest) = n /\ \A x \in 1..n : rest[x] = array(x + 1)
    <3>1. \A x \in 1..n : array(x + 1) \in T
      BY <1>5, <2>1
    <3>2. rest \in [1..n -> T]
      BY <2>1, <3>1
    <3> QED
      BY <2>1, <3>2, SeqDef
  <2>4. /\ F \in Seq(T) /\ Len(F) = 1 + n
        /\ \A i \in 1..(Len(head) + Len(rest)) :
             F[i] = IF i <= Len(head) THEN head[i] ELSE rest[i - Len(head)]
    BY <1>6, <2>1, <2>2, <2>3, ConcatProperties
  <2>5. ASSUME NEW i \in 1..(n + 1) PROVE F[i] = array(i)
    <3>1. F[i] = IF i <= 1 THEN head[i] ELSE rest[i - 1]
      BY <2>2, <2>3, <2>4
    <3>2. CASE i = 1
      BY <2>2, <3>1, <3>2
    <3>3. CASE i # 1
      <4>1. i - 1 \in 1..n /\ ~(i <= 1) /\ (i - 1) + 1 = i
        BY <3>3
      <4> QED
        BY <2>3, <3>1, <4>1
    <3> QED
      BY <3>2, <3>3
  <2> QED
    BY <2>1, <2>4, <2>5
<1>8. DOMAIN F = 1..(n + 1)
  BY <1>7, LenProperties
<1> HIDE DEF array
<1> QED
  BY <1>4, <1>7, <1>8 DEF Fills

-----------------------------------------------------------------------------
(* The first state satisfies the invariant.                                *)

LEMMA PrefillFacts ==
  ASSUME Init
  PROVE  \E S : \E n \in Nat :
           LET order == SetToSeq(Crowds(S))
           IN  S \subseteq Key /\ Lists(order, n, S) /\ Fills(spine, order, n, S)
<1>1. PICK S \in Prefills : spine = Filled(S)
  BY DEF Init
<1>2. S \subseteq Key /\ IsFiniteSet(S)
  BY <1>1, ConstantsAssumption
<1>3. PICK order : order = SetToSeq(Crowds(S))
  OBVIOUS
<1>4. PICK n \in Nat : Lists(order, n, S)
  BY <1>2, <1>3, OrderFacts
<1>5. Fills(spine, order, n, S)
  BY <1>1, <1>2, <1>3, <1>4, FilledFacts
<1> QED
  BY <1>2, <1>3, <1>4, <1>5

LEMMA InitTypeOK == Init => TypeOK
<1> SUFFICES ASSUME Init PROVE TypeOK
  OBVIOUS
<1>1. \A i \in DOMAIN spine : \A j \in DOMAIN spine[i] :
        spine[i][j] \in [to : NodeDesc \union {Null} \union [spine : 2..Len(spine)],
                         mark : BOOLEAN]
  <2>1. PICK S, n : n \in Nat /\ Fills(spine, SetToSeq(Crowds(S)), n, S)
    BY PrefillFacts
  <2> QED
    BY <2>1 DEF Fills
<1>2. nd \in [NodeDesc -> NodeDesc]
  BY DEF Init
<1>3. value \in [NodeDesc -> Nat]
  <2>1. value = [n \in NodeDesc |-> IF n.desc = PreDesc THEN PrefillValue ELSE 0]
    BY DEF Init
  <2>2. PrefillValue \in Nat /\ 0 \in Nat
    BY ConstantsAssumption
  <2> QED
    BY <2>1, <2>2
<1>4. ops \in [Desc -> Seq(Operator)] /\ \A d \in Desc : Len(ops[d]) <= MaxOps
  <2>1. <<>> \in Seq(Operator) /\ Len(<<>>) = 0
    BY EmptySeq
  <2>2. \A d \in Desc : ops[d] = <<>>
    BY DEF Init
  <2>3. ops = [d \in Desc |-> <<>>]
    BY DEF Init
  <2> QED
    BY <2>1, <2>2, <2>3, Sizes
<1>5. /\ status \in [AllDesc -> {"ACTIVE", "COMMITTED", "ABORTED"}]
      /\ pstatus \in [AllDesc -> {"MAYBE", "IN_PROGRESS", "PERSISTED"}]
  BY DEF Init
<1>6. stack \in [Thread -> Seq(Desc)]
  <2>1. <<>> \in Seq(Desc)
    BY EmptySeq
  <2> QED
    BY <2>1 DEF Init
<1>7. fr \in [Thread -> [Desc -> Frame]]
  <2>1. NewFrame(1) \in Frame
    BY NewFrameFacts, Sizes
  <2> QED
    BY <2>1 DEF Init
<1> QED
  BY <1>1, <1>2, <1>3, <1>4, <1>5, <1>6, <1>7 DEF TypeOK

LEMMA InitType == Init => TypeInv
<1> SUFFICES ASSUME Init PROVE TypeInv
  OBVIOUS
<1>1. SpinesInv
  <2>1. PICK S, n, order : /\ n \in Nat /\ S \subseteq Key /\ Lists(order, n, S)
                           /\ Fills(spine, order, n, S)
    BY PrefillFacts
  <2>2. Len(spine) = n + 1 /\ DOMAIN spine = 1..(n + 1)
    BY <2>1 DEF Fills
  <2>3. spine \in Seq(Array(1) \union Array(2)) /\ spine # <<>>
    <3>1. spine \in Seq(Array(1) \union Array(2))
      BY <2>1 DEF Fills
    <3>2. Len(<<>>) = 0
      BY EmptySeq
    <3> QED
      BY <2>1, <2>2, <3>1, <3>2
  <2>4. ASSUME NEW i \in 1..(n + 1)
        PROVE  /\ spine[i] \in [0..(Size(i) - 1) -> Contents]
               /\ \A j \in 0..(Size(i) - 1) : IsData(spine[i][j].to) => Known(spine[i][j].to)
    <3>1. spine[i] \in [0..(Size(i) - 1) -> Contents]
      BY <2>1, <2>2 DEF Fills, Contents, Pointer
    <3>2. ASSUME NEW j \in 0..(Size(i) - 1), IsData(spine[i][j].to)
          PROVE  Known(spine[i][j].to)
      <4>1. PICK G, next : FillsFor(spine[i][j], G, next, order, n, S) /\ G \subseteq Key
        <5>1. Crowd(order, S, i)[2] \subseteq Key
          BY <2>1, CrowdFacts DEF CrowdIs
        <5> QED
          <6>1. FillsFor(spine[i][j],
                         {k \in Crowd(order, S, i)[2] : Digit(k, Crowd(order, S, i)[1]) = j},
                         NextRight(Crowd(order, S, i)[1]), order, n, S)
            BY <2>1 DEF Fills
          <6>2. {k \in Crowd(order, S, i)[2] : Digit(k, Crowd(order, S, i)[1]) = j} \subseteq Key
            BY <5>1
          <6> QED
            BY <6>1, <6>2
      <4>2. PICK p : p = spine[i][j].to
        OBVIOUS
      <4>3. p = Null \/ (\E k \in Key : p = PreNode(k)) \/ (\E x \in 2..(n + 1) : p = Spine(x))
        BY <4>1, <4>2 DEF FillsFor
      <4>4. \A x \in 2..(n + 1) : ~IsData(Spine(x))
        BY <2>1, SpinePointer
      <4> QED
        BY <3>2, <4>2, <4>3, <4>4, NullPointer, PreNodeFacts
    <3> QED
      BY <3>1, <3>2
  <2> QED
    BY <2>2, <2>3, <2>4 DEF SpinesInv
<1>2. DescInv
  BY DEF DescInv, Init
<1>3. PreInv
  BY DEF PreInv, Init, AllDesc
<1>4. FramesInv
  <2>1. ASSUME NEW t \in Thread, NEW d \in Desc PROVE FrameInv(fr[t][d], d)
    <3>1. PICK f : f = NewFrame(1)
      OBVIOUS
    <3>2. fr[t][d] = f
      BY <3>1 DEF Init
    <3>3. /\ f.pc = "loop" /\ f.back = "return" /\ f.local = 1 /\ f.right = 0
          /\ f.node = NullSlot /\ f.fails = 0
      BY <3>1 DEF NewFrame
    <3> QED
      BY <3>2, <3>3 DEF FrameInv, InOp
  <2> QED
    BY <2>1 DEF FramesInv
<1> QED
  BY <1>1, <1>2, <1>3, <1>4, InitTypeOK DEF TypeInv

\* The place of array i of the first trie.
FirstPlace(order, S, i) ==
  [right |-> Crowd(order, S, i)[1],
   key   |-> IF i = 1 THEN 0 ELSE CHOOSE k \in Crowd(order, S, i)[2] : TRUE]

PlaceOf(a, c, i) ==
  /\ a \in [right : Rights, key : Nat] /\ a.right = c[1]
  /\ a.right = 0 <=> i = 1
  /\ i # 1 => a.key \in c[2] /\ a.key \in Key
  /\ \A k \in c[2] : k \in Key /\ Same(k, a.key, a.right)

LEMMA FirstPlaceFacts ==
  ASSUME NEW S, S \subseteq Key, NEW order, NEW n \in Nat, Lists(order, n, S),
         NEW i \in 1..(n + 1), NEW a, a = FirstPlace(order, S, i),
         NEW c, c = Crowd(order, S, i)
  PROVE  PlaceOf(a, c, i)
<1>1. /\ c[1] \in Rights /\ c[2] \subseteq S /\ (c[1] = 0 <=> i = 1)
      /\ i # 1 => Crowded(c[2])
      /\ \A k \in c[2] : c[2] = {l \in S : Same(k, l, c[1])}
  <2>1. CrowdIs(c, S, i)
    BY CrowdFacts
  <2> QED
    BY <2>1 DEF CrowdIs
<1>2. PICK q : q = IF i = 1 THEN 0 ELSE CHOOSE k \in c[2] : TRUE
  OBVIOUS
<1>3. a = [right |-> c[1], key |-> q]
  BY <1>2 DEF FirstPlace
<1>4. i # 1 => q \in c[2]
  BY <1>1, <1>2 DEF Crowded
<1>5. q \in Nat
  BY <1>1, <1>2, <1>4, Sizes
<1>6. ASSUME NEW k \in c[2] PROVE k \in Key /\ Same(k, q, c[1])
  <2>1. CASE i = 1
    BY <1>1, <2>1, SameAtHead
  <2>2. CASE i # 1
    BY <1>1, <1>4, <2>2
  <2> QED
    BY <1>1, <2>1, <2>2
<1> QED
  BY <1>1, <1>3, <1>4, <1>5, <1>6 DEF PlaceOf

\* The keys of an array share a slot of the array before it.
Shares(b, c, j, p) ==
  /\ j \in 0..(Size(p) - 1)
  /\ NextRight(b[1]) = c[1] /\ c[2] = {k \in b[2] : Digit(k, b[1]) = j}

LEMMA ParentFacts ==
  ASSUME NEW S, S \subseteq Key, NEW order, NEW n \in Nat, Lists(order, n, S),
         NEW i \in 2..(n + 1), NEW c, c = Crowd(order, S, i)
  PROVE  \E p \in 1..(n + 1) : \E j : Shares(Crowd(order, S, p), c, j, p)
<1>1. /\ c = <<c[1], c[2]>> /\ c[1] \in Rights /\ c[2] \subseteq S /\ c[1] # 0 /\ Crowded(c[2])
      /\ \A k \in c[2] : c[2] = {l \in S : Same(k, l, c[1])}
  <2>1. i \in 1..(n + 1) /\ i # 1
    OBVIOUS
  <2>2. CrowdIs(c, S, i)
    BY <2>1, CrowdFacts
  <2> QED
    BY <2>1, <2>2 DEF CrowdIs
<1>2. PICK r, G : r = c[1] /\ G = c[2]
  OBVIOUS
<1>3. /\ r \in Rights /\ r \in Levels /\ r \in Nat /\ r < KEY_SIZE /\ r # 0
      /\ G \subseteq S /\ Crowded(G) /\ \A k \in G : G = {l \in S : Same(k, l, r)}
  BY <1>1, <1>2, RightsFacts
<1>4. PICK q \in Levels : q < r /\ NextRight(q) = r
  BY <1>3, LevelBefore
<1>5. q \in Rights /\ q \in Nat
  BY <1>3, <1>4, RightsFacts, Sizes DEF Rights
<1>6. PICK k \in G : TRUE
  BY <1>3 DEF Crowded
<1>7. PICK H : H = {l \in S : Same(k, l, q)}
  OBVIOUS
<1>8. PICK j : j = Digit(k, q)
  OBVIOUS
<1>9. G = {l \in H : Digit(l, q) = j} /\ H \subseteq S /\ k \in S /\ k \in Key
  <2>1. G = {l \in S : Same(k, l, r)}
    BY <1>3, <1>6
  <2>2. \A l : Same(k, l, r) <=> Same(k, l, q) /\ Digit(k, q) = Digit(l, q)
    BY <1>4, <1>5, SameNext
  <2> QED
    BY <1>3, <1>6, <1>7, <1>8, <2>1, <2>2
<1>10. \E p \in 1..(n + 1) : Crowd(order, S, p) = <<q, H>>
  <2>1. CASE q = 0
    <3>1. H = S
      BY <1>7, <2>1, SameAtHead
    <3>2. 1 \in 1..(n + 1) /\ Crowd(order, S, 1) = <<0, S>>
      BY DEF Crowd
    <3> QED
      BY <2>1, <3>1, <3>2
  <2>2. CASE q # 0
    <3>1. <<q, H>> \in Crowds(S)
      <4>1. Crowded(H)
        BY <1>3, <1>9 DEF Crowded
      <4>2. k \in H
        BY <1>6, <1>9
      <4>3. q \in Rights \ {0} /\ H \in SUBSET S
        BY <1>5, <1>9, <2>2
      <4> QED
        BY <1>7, <4>1, <4>2, <4>3 DEF Crowds
    <3>2. PICK x \in 1..n : order[x] = <<q, H>>
      BY <3>1 DEF Lists
    <3>3. x + 1 \in 1..(n + 1) /\ x + 1 # 1 /\ (x + 1) - 1 = x
      OBVIOUS
    <3>4. Crowd(order, S, x + 1) = <<q, H>>
      BY <3>2, <3>3 DEF Crowd
    <3> QED
      BY <3>3, <3>4
  <2> QED
    BY <2>1, <2>2
<1>11. PICK p \in 1..(n + 1) : Crowd(order, S, p) = <<q, H>>
  BY <1>10
<1>12. PICK b : b = <<q, H>>
  OBVIOUS
<1>13. b = Crowd(order, S, p) /\ b[1] = q /\ b[2] = H
  BY <1>11, <1>12
<1>14. j \in 0..(Size(p) - 1)
  <2>1. b[1] = 0 <=> p = 1
    <3>1. CrowdIs(b, S, p)
      BY <1>13, CrowdFacts
    <3> QED
      BY <3>1 DEF CrowdIs
  <2>2. Width(q) = Size(p)
    BY <1>13, <2>1 DEF Width, Size
  <2> QED
    BY <1>8, <1>9, <2>2, DigitType
<1> QED
  <2>1. Shares(b, c, j, p)
    BY <1>2, <1>4, <1>9, <1>13, <1>14 DEF Shares
  <2> QED
    BY <1>13, <2>1

LEMMA InitTrie ==
  ASSUME Init, NEW S, NEW order, NEW n \in Nat, S \subseteq Key, Lists(order, n, S),
         Fills(spine, order, n, S),
         NEW at, at = [i \in DOMAIN spine |-> FirstPlace(order, S, i)]
  PROVE  at \in Places /\ TrieInv(at)
<1>1. Len(spine) = n + 1 /\ DOMAIN spine = 1..(n + 1)
  BY DEF Fills
<1>2. ASSUME NEW i \in 1..(n + 1)
      PROVE  LET c == Crowd(order, S, i)
             IN  /\ at[i] \in [right : Rights, key : Nat] /\ at[i].right = c[1]
                 /\ at[i].right = 0 <=> i = 1
                 /\ i # 1 => at[i].key \in c[2] /\ at[i].key \in Key
                 /\ \A k \in c[2] : k \in Key /\ Same(k, at[i].key, at[i].right)
                 /\ DOMAIN spine[i] = 0..(Size(i) - 1)
  <2>1. at[i] = FirstPlace(order, S, i)
    BY <1>1
  <2>2. DOMAIN spine[i] = 0..(Size(i) - 1)
    BY DEF Fills
  <2>3. PICK a, c : a = at[i] /\ c = Crowd(order, S, i)
    OBVIOUS
  <2>4. /\ a \in [right : Rights, key : Nat] /\ a.right = c[1]
        /\ a.right = 0 <=> i = 1
        /\ i # 1 => a.key \in c[2] /\ a.key \in Key
        /\ \A k \in c[2] : k \in Key /\ Same(k, a.key, a.right)
    <3>1. PlaceOf(a, c, i)
      BY <2>1, <2>3, FirstPlaceFacts
    <3> QED
      BY <3>1 DEF PlaceOf
  <2> QED
    BY <2>2, <2>3, <2>4
<1>3. at \in Places
  BY <1>1, <1>2 DEF Places
<1>4. ASSUME NEW i \in 1..(n + 1), NEW j \in 0..(Size(i) - 1)
      PROVE  \E G : /\ FillsFor(spine[i][j], G, NextRight(at[i].right), order, n, S)
                    /\ G = {k \in Crowd(order, S, i)[2] : Digit(k, at[i].right) = j}
  <2>1. FillsFor(spine[i][j],
                 {k \in Crowd(order, S, i)[2] : Digit(k, Crowd(order, S, i)[1]) = j},
                 NextRight(Crowd(order, S, i)[1]), order, n, S)
    BY DEF Fills
  <2>2. at[i].right = Crowd(order, S, i)[1]
    BY <1>2
  <2> QED
    BY <2>1, <2>2
<1>5. ASSUME NEW i \in 1..(n + 1), i # 1
      PROVE  \E p \in DOMAIN spine : \E j \in DOMAIN spine[p] : spine[p][j].to = Spine(i)
  <2>1. PICK c : c = Crowd(order, S, i)
    OBVIOUS
  <2>2. PICK p \in 1..(n + 1) : \E j : Shares(Crowd(order, S, p), c, j, p)
    <3>1. i \in 2..(n + 1)
      BY <1>5
    <3> QED
      BY <2>1, <3>1, ParentFacts
  <2>3. PICK b, j : /\ b = Crowd(order, S, p) /\ j \in 0..(Size(p) - 1)
                    /\ NextRight(b[1]) = c[1] /\ c[2] = {k \in b[2] : Digit(k, b[1]) = j}
    BY <2>2 DEF Shares
  <2>4. /\ c = <<c[1], c[2]>> /\ Crowded(c[2])
    <3>1. CrowdIs(c, S, i)
      BY <2>1, CrowdFacts
    <3> QED
      BY <1>5, <3>1 DEF CrowdIs
  <2>5. FillsFor(spine[p][j], c[2], c[1], order, n, S)
    <3>1. FillsFor(spine[p][j], {k \in b[2] : Digit(k, b[1]) = j}, NextRight(b[1]), order, n, S)
      BY <2>3 DEF Fills
    <3> QED
      BY <2>3, <3>1
  <2>6. PICK x \in 2..(n + 1) : spine[p][j].to = Spine(x) /\ Crowd(order, S, x) = c
    BY <2>4, <2>5 DEF FillsFor
  <2>7. x = i
    <3>1. x - 1 \in 1..n /\ i - 1 \in 1..n /\ x # 1
      BY <1>5
    <3>2. order[x - 1] = order[i - 1]
      BY <1>5, <2>1, <2>6, <3>1 DEF Crowd
    <3>3. x - 1 = i - 1
      BY <3>1, <3>2 DEF Lists
    <3> QED
      BY <3>3
  <2> QED
    BY <1>1, <1>2, <2>3, <2>6, <2>7
<1>6. ASSUME NEW i \in 1..(n + 1), NEW j \in 0..(Size(i) - 1), NEW s, s = spine[i][j]
      PROVE  /\ ~s.mark
             /\ IsData(s.to) => /\ ComesTo(KeyOf(s.to), i, at)
                                /\ Digit(KeyOf(s.to), at[i].right) = j
             /\ IsSpine(s.to) =>
                  /\ at[s.to.spine].right = NextRight(at[i].right)
                  /\ ComesTo(at[s.to.spine].key, i, at)
                  /\ Digit(at[s.to.spine].key, at[i].right) = j
  <2>1. PICK G : /\ FillsFor(spine[i][j], G, NextRight(at[i].right), order, n, S)
                 /\ G = {k \in Crowd(order, S, i)[2] : Digit(k, at[i].right) = j}
    BY <1>4
  <2>2. ~s.mark
    BY <1>6, <2>1 DEF FillsFor
  <2>3. ASSUME NEW k \in G
        PROVE  k \in Key /\ ComesTo(k, i, at) /\ Digit(k, at[i].right) = j
    BY <1>2, <2>1, <2>3 DEF ComesTo
  <2>4. CASE s.to = Null
    BY <2>2, <2>4, NullPointer
  <2>5. CASE \E k \in G : s.to = PreNode(k)
    <3>1. PICK k \in G : s.to = PreNode(k)
      BY <2>5
    <3>2. PICK p : p = PreNode(k)
      OBVIOUS
    <3>3. p \in NodeDesc /\ KeyOf(p) = k
      BY <2>3, <3>2, PreNodeFacts
    <3>4. ~IsSpine(p)
      BY <3>3, NodePointer
    <3> QED
      BY <2>2, <2>3, <3>1, <3>2, <3>3, <3>4
  <2>6. CASE \E x \in 2..(n + 1) :
               s.to = Spine(x) /\ Crowd(order, S, x) = <<NextRight(at[i].right), G>>
    <3>1. PICK x \in 2..(n + 1) :
               s.to = Spine(x) /\ Crowd(order, S, x) = <<NextRight(at[i].right), G>>
      BY <2>6
    <3>2. PICK p : p = Spine(x)
      OBVIOUS
    <3>3. ~IsData(p) /\ p.spine = x
      BY <3>2, SpinePointer
    <3>4. x \in 1..(n + 1) /\ x # 1
      OBVIOUS
    <3>5. PICK c : c = Crowd(order, S, x)
      OBVIOUS
    <3>6. c[1] = NextRight(at[i].right) /\ c[2] = G
      BY <3>1, <3>5
    <3>7. at[x].right = NextRight(at[i].right) /\ at[x].key \in G
      BY <1>2, <3>4, <3>5, <3>6
    <3> QED
      BY <2>2, <2>3, <3>1, <3>2, <3>3, <3>7
  <2> QED
    BY <1>6, <2>1, <2>4, <2>5, <2>6 DEF FillsFor
<1> QED
  BY <1>1, <1>2, <1>3, <1>5, <1>6 DEF TrieInv

LEMMA InitRoute == Init => RouteInv
<1> SUFFICES ASSUME Init PROVE RouteInv
  OBVIOUS
<1>1. PICK S, n, order : /\ n \in Nat /\ S \subseteq Key /\ Lists(order, n, S)
                         /\ Fills(spine, order, n, S)
  BY PrefillFacts
<1>2. PICK at : at = [i \in DOMAIN spine |-> FirstPlace(order, S, i)]
  OBVIOUS
<1>3. at \in Places /\ TrieInv(at)
  BY <1>1, <1>2, InitTrie
<1>4. ASSUME NEW t \in Thread, NEW d \in Desc PROVE ~InOp(fr[t][d])
  <2>1. fr[t][d] = NewFrame(1)
    BY DEF Init
  <2> QED
    BY <2>1, Sizes, NewFrameFacts
<1>5. WaysInv(at)
  BY <1>4 DEF WaysInv
<1> QED
  BY <1>3, <1>5 DEF RouteInv

-----------------------------------------------------------------------------

\* The types: every slot points at a node or at a spine that is there.
THEOREM MapTypes == Spec => []TypeOK
<1>1. TypeInv => TypeOK
  BY DEF TypeInv
<1> QED
  BY <1>1, InitType, TypeStep, PTL DEF Spec

\* Where every key belongs in the trie, and what each operation knows of the slot it
\* works on, as long as no operation has started again with the wrong bits: IInv of
\* TransMapInv.
THEOREM MapInvariance == Patient => (HSpec => []IInv)
<1> SUFFICES ASSUME Patient PROVE HSpec => []IInv
  OBVIOUS
<1>1. HInit => IInv
  BY InitType, InitRoute DEF HInit, IInv
<1>2. IInv /\ [HNext]_<<vars, flaws>> => IInv'
  BY InvStep
<1> QED
  BY <1>1, <1>2, PTL DEF HSpec

\* The way down leads to every node of the map, whatever spines have been put into it,
\* no key has two nodes, and no slot is ever marked for expansion - unless an operation
\* has started again with the wrong bits.
THEOREM MapRouted == Patient => (HSpec => []RoutedUnlessLost)
<1> SUFFICES ASSUME Patient PROVE HSpec => []RoutedUnlessLost
  OBVIOUS
<1>1. IInv => RoutedUnlessLost
  BY RouteWell, RouteUnmarked DEF IInv, TypeInv, RoutedUnlessLost
<1>2. HSpec => []IInv
  BY MapInvariance
<1> QED
  BY <1>1, <1>2, PTL
=============================================================================
