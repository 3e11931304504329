--------------------------- MODULE CallTextProofs ---------------------------
(***************************************************************************)
(* The texts of a call, for every value and whatever bytes are drawn: a    *)
(* message id holds all of its bytes, and a parameter is escaped once and  *)
(* read back as it was.  What a step of MessageId and of CommandText keeps *)
(* is proved here, and used in ApiCallsProofs.                             *)
(***************************************************************************)
EXTENDS CommandText, MessageId, FiniteSetTheorems, SequenceTheorems,
        WellFoundedInduction, TLAPS

(***************************************************************************)
(* Places.                                                                 *)
(***************************************************************************)
\* Of some places there is a first one.
LEMMA MinIsFirst ==
  ASSUME NEW S \in SUBSET Nat, S # {}
  PROVE  Min(S) \in S /\ \A j \in S : Min(S) <= j
<1>1. \E i \in S : \A j \in S : ~(<<j, i>> \in OpToRel(<, Nat))
  BY NatLessThanWellFounded, WFMin
<1>2. PICK i \in S : \A j \in S : ~(<<j, i>> \in OpToRel(<, Nat))
  BY <1>1
<1>3. \A j \in S : ~(j < i)
  BY <1>2 DEF OpToRel
<1>4. \E x \in S : \A y \in S : x =< y
  BY <1>3
<1> QED
  BY <1>4 DEF Min

\* From place to place.
LEMMA PlaceInduction ==
  ASSUME NEW n \in Nat, NEW S, 0 \in S, \A i \in 0 .. n - 1 : i \in S => i + 1 \in S
  PROVE  0 .. n \subseteq S
<1> DEFINE Left == (0 .. n) \ S
<1>1. SUFFICES ASSUME Left # {} PROVE FALSE
  OBVIOUS
<1>2. Left \in SUBSET Nat
  OBVIOUS
<1>3. Min(Left) \in Left /\ \A j \in Left : Min(Left) <= j
  BY <1>1, <1>2, MinIsFirst
<1>4. PICK m \in Left : \A j \in Left : m <= j
  BY <1>3
<1>5. m # 0 /\ m - 1 \in 0 .. n - 1 /\ m - 1 \notin Left
  BY <1>4
<1> QED
  BY <1>4, <1>5

\* The places up to one are finitely many.
LEMMA PlacesUpTo ==
  ASSUME NEW S, \A p \in S : p \in Nat \ {0}, NEW j \in Nat
  PROVE  IsFiniteSet({i \in S : i <= j}) /\ Rank(S, j) \in Nat /\ Rank(S, j) <= j
<1>1. {i \in S : i <= j} \subseteq 1 .. j
  OBVIOUS
<1>2. IsFiniteSet(1 .. j) /\ Cardinality(1 .. j) = j
  BY FS_Interval
<1> QED
  BY <1>1, <1>2, FS_Subset, FS_CardinalityType DEF Rank

\* No place is counted before the first,
LEMMA RankZero ==
  ASSUME NEW S, \A p \in S : p \in Nat \ {0}
  PROVE  Rank(S, 0) = 0
<1>1. {i \in S : i <= 0} = {}
  OBVIOUS
<1> QED
  BY <1>1, FS_EmptySet DEF Rank

\* none where there is none,
LEMMA RankSame ==
  ASSUME NEW S, \A p \in S : p \in Nat \ {0}, NEW i \in Nat, NEW j \in Nat, i <= j,
         \A k \in S : ~(i < k /\ k <= j)
  PROVE  Rank(S, j) = Rank(S, i)
<1>1. {k \in S : k <= i} = {k \in S : k <= j}
  OBVIOUS
<1> QED
  BY <1>1 DEF Rank

\* and one where there is one.
LEMMA RankNext ==
  ASSUME NEW S, \A p \in S : p \in Nat \ {0}, NEW j \in S
  PROVE  Rank(S, j) = Rank(S, j - 1) + 1
<1> DEFINE Before == {k \in S : k <= j - 1}
<1>1. {k \in S : k <= j} = Before \cup {j} /\ j \notin Before
  OBVIOUS
<1>2. IsFiniteSet(Before)
  BY PlacesUpTo, j - 1 \in Nat
<1> QED
  BY <1>1, <1>2, FS_AddElement DEF Rank

\* The rank grows with the place, and at every place of the set.
LEMMA RankGrows ==
  ASSUME NEW S, \A p \in S : p \in Nat \ {0}, NEW i \in Nat, NEW j \in Nat, i <= j
  PROVE  /\ Rank(S, i) <= Rank(S, j)
         /\ i < j /\ j \in S => Rank(S, i) < Rank(S, j)
<1>1. ASSUME NEW k \in Nat, i <= k PROVE Rank(S, i) <= Rank(S, k)
  <2>1. {l \in S : l <= i} \subseteq {l \in S : l <= k}
    BY <1>1
  <2> QED
    BY <2>1, PlacesUpTo, FS_Subset DEF Rank
<1>2. ASSUME i < j, j \in S PROVE Rank(S, i) < Rank(S, j)
  <2>1. Rank(S, j) = Rank(S, j - 1) + 1
    BY <1>2, RankNext
  <2>2. Rank(S, i) <= Rank(S, j - 1)
    BY <1>1, <1>2
  <2>3. j - 1 \in Nat
    BY <1>2
  <2>4. Rank(S, i) \in Nat /\ Rank(S, j - 1) \in Nat
    BY <2>3, PlacesUpTo
  <2> QED
    BY <2>1, <2>2, <2>4
<1> QED
  BY <1>1, <1>2

(***************************************************************************)
(* Message ids.                                                            *)
(***************************************************************************)
\* Division with a remainder.
LEMMA DivMod ==
  ASSUME NEW x \in Nat, NEW m \in Nat \ {0}
  PROVE  x = m * (x \div m) + (x % m) /\ x % m \in 0 .. m - 1 /\ x \div m \in Nat
  OBVIOUS

\* The buffer overflows above its last twelve bits.
LEMMA ModOfMod ==
  ASSUME NEW x \in Nat
  PROVE  (x % BufferModulus) % 4096 = x % 4096
<1>1. PICK q \in Nat : BufferModulus = 4096 * q
  BY IdAssumption
<1> DEFINE d == x \div BufferModulus
           v == x % BufferModulus
<1>2. d \in Nat /\ v \in Nat /\ x = BufferModulus * d + v
  BY IdAssumption, DivMod
<1>3. q * d \in Nat /\ x = 4096 * (q * d) + v
  BY <1>1, <1>2
<1> HIDE DEF d, v
<1>4. ASSUME NEW e \in Nat, x = 4096 * e + v PROVE x % 4096 = v % 4096
  BY <1>2, <1>4
<1>5. x % 4096 = v % 4096
  BY <1>3, <1>4
<1> QED
  BY <1>5 DEF v

\* What the buffer ends with, and what is written of it, once a byte is shifted in.
LEMMA Shifted ==
  ASSUME NEW b \in 0 .. 255, buffer \in 0 .. BufferModulus - 1
  PROVE  LET v == ShiftIn(b)
         IN  /\ v \in 0 .. BufferModulus - 1
             /\ v % 4 = b % 4 /\ v % 16 = b % 16 /\ v % 64 = b % 64
             /\ (v \div 4) % 64 = b \div 4
             /\ (v \div 16) % 64 = 16 * (buffer % 4) + b \div 16
             /\ (v \div 64) % 64 = 4 * (buffer % 16) + b \div 64
<1> DEFINE x == buffer * 256 + b
           v == ShiftIn(b)
<1>1. x \in Nat /\ v = x % BufferModulus /\ v % 4096 = x % 4096
  BY IdAssumption, ModOfMod DEF ShiftIn
<1>2. v \in 0 .. BufferModulus - 1
  <2> HIDE DEF x, v
  <2>1. x \in Nat /\ BufferModulus \in Nat \ {0}
    BY <1>1, IdAssumption
  <2>2. x % BufferModulus \in 0 .. BufferModulus - 1
    BY ONLY <2>1, DivMod
  <2> QED
    BY <1>1, <2>2
<1>3. PICK c \in Nat : v % 4096 = 256 * (c % 16) + b /\ c = buffer
  BY <1>1, IdAssumption
<1> HIDE DEF v
<1>4. PICK y \in Nat, z \in Nat : v = 4096 * y + z /\ z = 256 * (buffer % 16) + b
  BY <1>2, <1>3, IdAssumption
<1>5. PICK w \in Nat, r \in 0 .. 15 : buffer = 16 * w + r /\ r = buffer % 16
  BY IdAssumption
<1>6. v = 4096 * y + 256 * r + b
  BY <1>4, <1>5
<1>7. buffer % 4 = r % 4 /\ buffer % 16 = r
  BY <1>5
<1>8. v % 4 = b % 4 /\ v % 16 = b % 16 /\ v % 64 = b % 64
  BY <1>6
<1>9. (v \div 4) % 64 = b \div 4
  BY <1>6
<1>10. (v \div 16) % 64 = 16 * (r % 4) + b \div 16
  BY <1>6
<1>11. (v \div 64) % 64 = 4 * r + b \div 64
  BY <1>6
<1> QED
  BY <1>2, <1>7, <1>8, <1>9, <1>10, <1>11 DEF v

\* A byte is made of its bits.
BitsAddUp(b) ==
  /\ b \div 4 = 32 * ByteBit(b, 0) + 16 * ByteBit(b, 1) + 8 * ByteBit(b, 2)
                 + 4 * ByteBit(b, 3) + 2 * ByteBit(b, 4) + ByteBit(b, 5)
  /\ b % 64 = 32 * ByteBit(b, 2) + 16 * ByteBit(b, 3) + 8 * ByteBit(b, 4)
              + 4 * ByteBit(b, 5) + 2 * ByteBit(b, 6) + ByteBit(b, 7)
  /\ b \div 16 = 8 * ByteBit(b, 0) + 4 * ByteBit(b, 1) + 2 * ByteBit(b, 2) + ByteBit(b, 3)
  /\ b \div 64 = 2 * ByteBit(b, 0) + ByteBit(b, 1)
  /\ b % 4 = 2 * ByteBit(b, 6) + ByteBit(b, 7)
  /\ b % 16 = 8 * ByteBit(b, 4) + 4 * ByteBit(b, 5) + 2 * ByteBit(b, 6) + ByteBit(b, 7)

\* Every byte is.
LEMMA BitsOfByte ==
  ASSUME NEW b \in 0 .. 255
  PROVE  BitsAddUp(b) /\ \A j \in 0 .. 7 : ByteBit(b, j) \in Int
<1> DEFINE b0 == ByteBit(b, 0)
           b1 == ByteBit(b, 1)
           b2 == ByteBit(b, 2)
           b3 == ByteBit(b, 3)
           b4 == ByteBit(b, 4)
           b5 == ByteBit(b, 5)
           b6 == ByteBit(b, 6)
           b7 == ByteBit(b, 7)
           h1 == b \div 2
           h2 == b \div 4
           h3 == b \div 8
           h4 == b \div 16
           h5 == b \div 32
           h6 == b \div 64
           h7 == b \div 128
<1>1. /\ 2 ^ (7 - 0) = 128 /\ 2 ^ (7 - 1) = 64 /\ 2 ^ (7 - 2) = 32 /\ 2 ^ (7 - 3) = 16
      /\ 2 ^ (7 - 4) = 8 /\ 2 ^ (7 - 5) = 4 /\ 2 ^ (7 - 6) = 2 /\ 2 ^ (7 - 7) = 1
  OBVIOUS
<1>2. b0 = h7 % 2 /\ b1 = h6 % 2 /\ b2 = h5 % 2 /\ b3 = h4 % 2 /\ b4 = h3 % 2 /\ b5 = h2 % 2
      /\ b6 = h1 % 2 /\ b7 = b % 2
  BY <1>1 DEF ByteBit
<1>3. h7 = h7 % 2 /\ h6 = 2 * h7 + (h6 % 2) /\ h5 = 2 * h6 + (h5 % 2) /\ h4 = 2 * h5 + (h4 % 2)
      /\ h3 = 2 * h4 + (h3 % 2) /\ h2 = 2 * h3 + (h2 % 2) /\ h1 = 2 * h2 + (h1 % 2)
      /\ b = 2 * h1 + (b % 2)
  OBVIOUS
<1>4. b % 64 = b - 64 * h6 /\ b % 16 = b - 16 * h4 /\ b % 4 = b - 4 * h2
  OBVIOUS
<1>5. h1 \in Nat /\ h2 \in Nat /\ h3 \in Nat /\ h4 \in Nat /\ h5 \in Nat /\ h6 \in Nat /\ h7 \in Nat
  OBVIOUS
<1> HIDE DEF h1, h2, h3, h4, h5, h6, h7, b0, b1, b2, b3, b4, b5, b6, b7
<1>6. b0 \in Int /\ b1 \in Int /\ b2 \in Int /\ b3 \in Int /\ b4 \in Int /\ b5 \in Int /\ b6 \in Int
      /\ b7 \in Int
  BY <1>2, <1>5
<1>7. h7 = b0 /\ h6 = 2 * h7 + b1 /\ h5 = 2 * h6 + b2 /\ h4 = 2 * h5 + b3
      /\ h3 = 2 * h4 + b4 /\ h2 = 2 * h3 + b5 /\ h1 = 2 * h2 + b6 /\ b = 2 * h1 + b7
  BY <1>2, <1>3, Zenon
<1>8. /\ h2 = 32 * b0 + 16 * b1 + 8 * b2 + 4 * b3 + 2 * b4 + b5
      /\ b - 64 * h6 = 32 * b2 + 16 * b3 + 8 * b4 + 4 * b5 + 2 * b6 + b7
      /\ h4 = 8 * b0 + 4 * b1 + 2 * b2 + b3
      /\ h6 = 2 * b0 + b1
      /\ b - 4 * h2 = 2 * b6 + b7
      /\ b - 16 * h4 = 8 * b4 + 4 * b5 + 2 * b6 + b7
  BY <1>5, <1>6, <1>7
<1>9. BitsAddUp(b)
  BY <1>4, <1>8, Zenon DEF BitsAddUp, h2, h4, h6, b0, b1, b2, b3, b4, b5, b6, b7
<1>10. ASSUME NEW j \in 0 .. 7 PROVE ByteBit(b, j) \in Int
  <2>1. j = 0 \/ j = 1 \/ j = 2 \/ j = 3 \/ j = 4 \/ j = 5 \/ j = 6 \/ j = 7
    OBVIOUS
  <2> QED
    BY <1>6, <2>1, Zenon DEF b0, b1, b2, b3, b4, b5, b6, b7
<1> QED
  BY <1>9, <1>10

\* Where they are among the bits of the bytes.
LEMMA BitsOfBytes ==
  ASSUME NEW s \in Seq(0 .. 255), NEW n \in Nat, NEW j \in 0 .. 7
  PROVE  BitAt(s, 8 * n + j) = IF n < Len(s) THEN ByteBit(s[n + 1], j) ELSE 0
<1> DEFINE i == 8 * n + j
<1>1. i \div 8 = n /\ i % 8 = j
  OBVIOUS
<1>2. n < Len(s) <=> i < 8 * Len(s)
  OBVIOUS
<1> HIDE DEF i
<1>3. BitAt(s, i) = IF n < Len(s) THEN ByteBit(s[n + 1], j) ELSE 0
  BY <1>1, <1>2, Zenon DEF BitAt
<1> QED
  BY <1>3 DEF i

\* The letters by the place of their first bit in a byte.
LEMMA SixBitsOfBytes ==
  ASSUME NEW s \in Seq(0 .. 255), NEW k \in Nat, NEW n \in 0 .. Len(s) - 1
  PROVE  LET x == s[n + 1]
         IN  /\ 6 * k = 8 * n => SixBits(s, k) = x \div 4
             /\ 6 * k = 8 * n + 2 => SixBits(s, k) = x % 64
             /\ 6 * k = 8 * n + 4 => SixBits(s, k) =
                  4 * (x % 16) + (IF n + 1 < Len(s) THEN s[n + 2] \div 64 ELSE 0)
             /\ 6 * k = 8 * n + 6 => SixBits(s, k) =
                  16 * (x % 4) + (IF n + 1 < Len(s) THEN s[n + 2] \div 16 ELSE 0)
<1> DEFINE x == s[n + 1]
           y == s[n + 2]
           Bit(j) == BitAt(s, 8 * n + j)
<1>1. /\ x \in 0 .. 255 /\ BitsAddUp(x) /\ \A j \in 0 .. 7 : ByteBit(x, j) \in Int
      /\ n + 1 < Len(s) =>
           y \in 0 .. 255 /\ BitsAddUp(y) /\ \A j \in 0 .. 7 : ByteBit(y, j) \in Int
  <2>1. n + 1 \in 1 .. Len(s) /\ (n + 1 < Len(s) => n + 2 \in 1 .. Len(s))
    OBVIOUS
  <2>2. x \in 0 .. 255 /\ (n + 1 < Len(s) => y \in 0 .. 255)
    BY <2>1, ElementOfSeq
  <2> QED
    BY <2>2, BitsOfByte
<1>2. \A j \in 0 .. 7 : Bit(j) = ByteBit(x, j)
  <2>1. n \in Nat /\ n < Len(s)
    OBVIOUS
  <2> QED
    BY <2>1, BitsOfBytes, Zenon
<1>3. \A j \in 0 .. 7 : Bit(8 + j) = IF n + 1 < Len(s) THEN ByteBit(y, j) ELSE 0
  <2> SUFFICES ASSUME NEW j \in 0 .. 7
               PROVE  BitAt(s, 8 * n + (8 + j)) = IF n + 1 < Len(s) THEN ByteBit(y, j) ELSE 0
    OBVIOUS
  <2>1. 8 * n + (8 + j) = 8 * (n + 1) + j /\ n + 1 \in Nat /\ (n + 1) + 1 = n + 2
    OBVIOUS
  <2>2. BitAt(s, 8 * (n + 1) + j) = IF n + 1 < Len(s) THEN ByteBit(s[(n + 1) + 1], j) ELSE 0
    BY <2>1, BitsOfBytes
  <2> QED
    BY <2>1, <2>2, Zenon
<1>4. ASSUME NEW p \in {0, 2, 4, 6}, 6 * k = 8 * n + p
      PROVE  SixBits(s, k) = 32 * Bit(p) + 16 * Bit(p + 1) + 8 * Bit(p + 2) + 4 * Bit(p + 3)
                               + 2 * Bit(p + 4) + Bit(p + 5)
  <2>1. /\ 6 * k = 8 * n + p /\ 6 * k + 1 = 8 * n + (p + 1) /\ 6 * k + 2 = 8 * n + (p + 2)
        /\ 6 * k + 3 = 8 * n + (p + 3) /\ 6 * k + 4 = 8 * n + (p + 4)
        /\ 6 * k + 5 = 8 * n + (p + 5)
    BY <1>4
  <2> QED
    BY <2>1, Zenon DEF SixBits
<1> HIDE DEF Bit, x, y
<1>5. 6 * k = 8 * n => SixBits(s, k) = x \div 4
  BY <1>1, <1>2, <1>4, 8 * n = 8 * n + 0 DEF BitsAddUp
<1>6. 6 * k = 8 * n + 2 => SixBits(s, k) = x % 64
  BY <1>1, <1>2, <1>4 DEF BitsAddUp
<1>7. ASSUME 6 * k = 8 * n + 4
      PROVE  SixBits(s, k) = 4 * (x % 16) + IF n + 1 < Len(s) THEN y \div 64 ELSE 0
  <2> DEFINE w == x % 16
             z == IF n + 1 < Len(s) THEN y \div 64 ELSE 0
  <2>1. SixBits(s, k) = 32 * Bit(4) + 16 * Bit(5) + 8 * Bit(6) + 4 * Bit(7)
                          + 2 * Bit(8 + 0) + Bit(8 + 1)
    BY <1>4, <1>7
  <2>2. w = 8 * Bit(4) + 4 * Bit(5) + 2 * Bit(6) + Bit(7)
        /\ Bit(4) \in Int /\ Bit(5) \in Int /\ Bit(6) \in Int /\ Bit(7) \in Int
    BY <1>1, <1>2 DEF BitsAddUp
  <2>3. \A j \in 0 .. 7 : Bit(8 + j) \in Int
    BY <1>1, <1>3
  <2>4. z = 2 * Bit(8 + 0) + Bit(8 + 1)
    <3>1. CASE n + 1 < Len(s)
      BY <1>1, <1>3, <3>1 DEF BitsAddUp
    <3>2. CASE ~(n + 1 < Len(s))
      BY <1>3, <3>2
    <3> QED
      BY <3>1, <3>2
  <2> HIDE DEF w, z
  <2> DEFINE c4 == Bit(4)
             c5 == Bit(5)
             c6 == Bit(6)
             c7 == Bit(7)
             d0 == Bit(8 + 0)
             d1 == Bit(8 + 1)
  <2>5. c4 \in Int /\ c5 \in Int /\ c6 \in Int /\ c7 \in Int /\ d0 \in Int /\ d1 \in Int
    BY <2>2, <2>3
  <2>6. SixBits(s, k) = 32 * c4 + 16 * c5 + 8 * c6 + 4 * c7 + 2 * d0 + d1
        /\ w = 8 * c4 + 4 * c5 + 2 * c6 + c7 /\ z = 2 * d0 + d1
    BY <2>1, <2>2, <2>4, Zenon
  <2> HIDE DEF c4, c5, c6, c7, d0, d1
  <2>7. SixBits(s, k) = 4 * w + z
    BY <2>5, <2>6
  <2> QED
    BY <2>7 DEF w, z
<1>8. ASSUME 6 * k = 8 * n + 6
      PROVE  SixBits(s, k) = 16 * (x % 4) + IF n + 1 < Len(s) THEN y \div 16 ELSE 0
  <2> DEFINE w == x % 4
             z == IF n + 1 < Len(s) THEN y \div 16 ELSE 0
  <2>1. SixBits(s, k) = 32 * Bit(6) + 16 * Bit(7) + 8 * Bit(8 + 0)
                          + 4 * Bit(8 + 1) + 2 * Bit(8 + 2) + Bit(8 + 3)
    BY <1>4, <1>8
  <2>2. w = 2 * Bit(6) + Bit(7) /\ Bit(6) \in Int /\ Bit(7) \in Int
    BY <1>1, <1>2 DEF BitsAddUp
  <2>3. \A j \in 0 .. 7 : Bit(8 + j) \in Int
    BY <1>1, <1>3
  <2>4. z = 8 * Bit(8 + 0) + 4 * Bit(8 + 1) + 2 * Bit(8 + 2) + Bit(8 + 3)
    <3>1. CASE n + 1 < Len(s)
      BY <1>1, <1>3, <3>1 DEF BitsAddUp
    <3>2. CASE ~(n + 1 < Len(s))
      BY <1>3, <3>2
    <3> QED
      BY <3>1, <3>2
  <2> HIDE DEF w, z
  <2> DEFINE c6 == Bit(6)
             c7 == Bit(7)
             d0 == Bit(8 + 0)
             d1 == Bit(8 + 1)
             d2 == Bit(8 + 2)
             d3 == Bit(8 + 3)
  <2>5. c6 \in Int /\ c7 \in Int /\ d0 \in Int /\ d1 \in Int /\ d2 \in Int /\ d3 \in Int
    BY <2>2, <2>3
  <2>6. SixBits(s, k) = 32 * c6 + 16 * c7 + 8 * d0 + 4 * d1 + 2 * d2 + d3
        /\ w = 2 * c6 + c7 /\ z = 8 * d0 + 4 * d1 + 2 * d2 + d3
    BY <2>1, <2>2, <2>4, Zenon
  <2> HIDE DEF c6, c7, d0, d1, d2, d3
  <2>7. SixBits(s, k) = 16 * w + z
    BY <2>5, <2>6
  <2> QED
    BY <2>7 DEF w, z
<1> QED
  BY <1>5, <1>6, <1>7, <1>8 DEF x, y

\* A byte more leaves the letters before it as they are.
LEMMA SixBitsKept ==
  ASSUME NEW s \in Seq(0 .. 255), NEW b \in 0 .. 255, NEW k \in Nat, 6 * k + 6 <= 8 * Len(s)
  PROVE  SixBits(Append(s, b), k) = SixBits(s, k)
<1>1. Append(s, b) \in Seq(0 .. 255) /\ Len(Append(s, b)) = Len(s) + 1
  BY AppendProperties
<1>2. ASSUME NEW i \in Nat, i < 8 * Len(s) PROVE BitAt(Append(s, b), i) = BitAt(s, i)
  <2>1. i \div 8 + 1 \in 1 .. Len(s) /\ i < 8 * Len(Append(s, b))
    BY <1>1, <1>2
  <2>2. Append(s, b)[i \div 8 + 1] = s[i \div 8 + 1]
    BY <2>1, AppendProperties
  <2> QED
    BY <1>2, <2>1, <2>2, Zenon DEF BitAt
<1>3. /\ 6 * k \in Nat /\ 6 * k + 1 \in Nat /\ 6 * k + 2 \in Nat /\ 6 * k + 3 \in Nat
      /\ 6 * k + 4 \in Nat /\ 6 * k + 5 \in Nat
      /\ 6 * k < 8 * Len(s) /\ 6 * k + 1 < 8 * Len(s) /\ 6 * k + 2 < 8 * Len(s)
      /\ 6 * k + 3 < 8 * Len(s) /\ 6 * k + 4 < 8 * Len(s) /\ 6 * k + 5 < 8 * Len(s)
  OBVIOUS
<1> QED
  BY <1>2, <1>3, Zenon DEF SixBits

\* What is written of a buffer.
LEMMA LettersOfBuffer ==
  ASSUME NEW v \in Nat
  PROVE  /\ Letters(v, 8) = <<(v \div 4) % 64>>
         /\ Letters(v, 10) = <<(v \div 16) % 64>>
         /\ Letters(v, 12) = <<(v \div 64) % 64, v % 64>>
<1>1. 8 \div 6 = 1 /\ 10 \div 6 = 1 /\ 12 \div 6 = 2
  OBVIOUS
<1>2. 2 ^ (8 - 6 * 1) = 4 /\ 2 ^ (10 - 6 * 1) = 16 /\ 2 ^ (12 - 6 * 1) = 64 /\ 2 ^ (12 - 6 * 2) = 1
  OBVIOUS
<1>3. v \div 1 = v
  OBVIOUS
<1>4. Letters(v, 8) = <<(v \div 4) % 64>>
  BY <1>1, <1>2 DEF Letters
<1>5. Letters(v, 10) = <<(v \div 16) % 64>>
  BY <1>1, <1>2 DEF Letters
<1>6. Letters(v, 12) = <<(v \div 64) % 64, v % 64>>
  BY <1>1, <1>2, <1>3 DEF Letters
<1> QED
  BY <1>4, <1>5, <1>6

\* The stamp is of a byte.
LEMMA StampIsByte ==
  ASSUME NEW i, NEW b \in Byte
  PROVE  Stamp(i, b) \in 0 .. 255
<1>1. b \in 0 .. 255
  BY IdAssumption
<1>2. (b % 16) + 64 \in 0 .. 255 /\ (b % 64) + 128 \in 0 .. 255
  BY <1>1
<1> QED
  BY <1>1, <1>2 DEF Stamp

\* While the bytes are encoded, the buffer ends with the bits that are yet to be written.
Held ==
  /\ 6 * Len(out) + bits = 8 * Len(bytes)
  /\ bits = 2 => buffer % 4 = bytes[Len(bytes)] % 4
  /\ bits = 4 => buffer % 16 = bytes[Len(bytes)] % 16

IdInv == IdTypeOK /\ MessageIdFaithful /\ Held

\* How the bits that are written and those that are held count.
LEMMA HeldBits ==
  ASSUME NEW n \in Nat, NEW l \in Nat
  PROVE  /\ 6 * l + 2 = 8 * n => n >= 1 /\ 6 * l = 8 * (n - 1) + 6 /\ 6 * (l + 1) + 4 = 8 * (n + 1)
         /\ 6 * l + 4 = 8 * n => /\ n >= 1 /\ 6 * l = 8 * (n - 1) + 4
                                 /\ 6 * (l + 1) = 8 * n + 2 /\ 6 * (l + 2) = 8 * (n + 1)
  OBVIOUS

\* Every byte keeps the letters faithful, wherever the bits of the last one ended.
LEMMA EncodeByteKeeps ==
  ASSUME IdInv, NEW r \in Byte, EncodeByte(r)
  PROVE  IdInv'
<1> DEFINE b == Stamp(Len(bytes) + 1, r)
           v == ShiftIn(b)
           n == Len(bytes)
           w == Letters(v, bits + 8)
<1>1. b \in 0 .. 255 /\ bytes \in Seq(0 .. 255) /\ out \in Seq(0 .. 63) /\ bits \in {0, 2, 4}
      /\ buffer \in 0 .. BufferModulus - 1 /\ n \in Nat /\ Len(out) \in Nat
  BY StampIsByte DEF IdInv, IdTypeOK
<1>2. bytes' = Append(bytes, b) /\ buffer' = v /\ bits' = (bits + 8) % 6 /\ out' = out \o w
  BY DEF EncodeByte
<1>3. bytes' \in Seq(0 .. 255) /\ Len(bytes') = n + 1 /\ bytes'[n + 1] = b
      /\ \A i \in 1 .. n : bytes'[i] = bytes[i]
  BY <1>1, <1>2, AppendProperties
<1>4. v \in 0 .. BufferModulus - 1 /\ v \in Nat
  <2>1. v \in 0 .. BufferModulus - 1
    BY <1>1, Shifted
  <2> HIDE DEF v
  <2> QED
    BY <2>1, IdAssumption
<1> HIDE DEF b, v
<1>5. 6 * Len(out) + bits = 8 * n
  BY DEF IdInv, Held
<1>6. ASSUME NEW k \in 1 .. Len(out) PROVE out[k] = SixBits(bytes', k - 1)
  <2>1. k - 1 \in Nat /\ 6 * (k - 1) + 6 <= 8 * n
    BY <1>1, <1>5
  <2>2. out[k] = SixBits(bytes, k - 1)
    BY <1>1 DEF IdInv, MessageIdFaithful
  <2> QED
    BY <1>1, <1>2, <2>1, <2>2, SixBitsKept
<1>7. ASSUME w \in Seq(0 .. 63), bits' \in {0, 2, 4},
             6 * (Len(out) + Len(w)) + bits' = 8 * (n + 1),
             \A k \in 1 .. Len(w) : w[k] = SixBits(bytes', Len(out) + k - 1),
             bits' = 2 => v % 4 = b % 4, bits' = 4 => v % 16 = b % 16
      PROVE  IdInv'
  <2>1. out' \in Seq(0 .. 63) /\ Len(out') = Len(out) + Len(w)
        /\ \A i \in 1 .. Len(out) + Len(w) :
              out'[i] = IF i <= Len(out) THEN out[i] ELSE w[i - Len(out)]
    BY <1>1, <1>2, <1>7, ConcatProperties
  <2>2. IdTypeOK'
    BY <1>2, <1>3, <1>4, <1>7, <2>1 DEF IdTypeOK
  <2>3. Held'
    BY <1>2, <1>3, <1>7, <2>1 DEF Held
  <2>4. ASSUME NEW k \in DOMAIN out' PROVE out'[k] = SixBits(bytes', k - 1)
    <3>1. k \in 1 .. Len(out) + Len(w)
      BY <2>1, <2>4
    <3>2. CASE k <= Len(out)
      BY <1>6, <2>1, <3>1, <3>2
    <3>3. CASE k > Len(out)
      <4> DEFINE j == k - Len(out)
      <4>1. j \in 1 .. Len(w) /\ Len(out) + j - 1 = k - 1
        BY <1>1, <1>7, <3>1, <3>3
      <4>2. out'[k] = w[j]
        BY <1>1, <2>1, <3>1, <3>3
      <4> HIDE DEF j
      <4> QED
        BY <1>7, <4>1, <4>2
    <3> QED
      BY <1>1, <3>1, <3>2, <3>3
  <2>5. 6 * Len(out') + bits' \in 8 * Len(bytes') .. 8 * Len(bytes') + 5
    BY <1>1, <1>3, <1>7, <2>1
  <2> QED
    BY <2>2, <2>3, <2>4, <2>5 DEF IdInv, MessageIdFaithful
<1>8. /\ v % 4 = b % 4 /\ v % 16 = b % 16 /\ v % 64 = b % 64
      /\ (v \div 4) % 64 = b \div 4
      /\ (v \div 16) % 64 = 16 * (buffer % 4) + b \div 16
      /\ (v \div 64) % 64 = 4 * (buffer % 16) + b \div 64
  BY <1>1, Shifted DEF v
<1>9. CASE bits = 0
  <2>1. w = <<(v \div 4) % 64>> /\ bits' = 2
    BY <1>2, <1>4, <1>9, LettersOfBuffer
  <2>2. SixBits(bytes', Len(out)) = b \div 4
    <3>1. 6 * Len(out) = 8 * n /\ n \in 0 .. Len(bytes') - 1
      BY <1>1, <1>3, <1>5, <1>9
    <3> QED
      BY <1>1, <1>3, <3>1, SixBitsOfBytes
  <2>3. (v \div 4) % 64 \in 0 .. 63
    BY <1>4
  <2> HIDE DEF w
  <2>4. w \in Seq(0 .. 63) /\ Len(w) = 1 /\ w[1] = b \div 4
    BY <1>8, <2>1, <2>3
  <2>5. \A k \in 1 .. Len(w) : w[k] = SixBits(bytes', Len(out) + k - 1)
    BY <1>1, <2>2, <2>4
  <2> QED
    BY <1>1, <1>5, <1>7, <1>8, <1>9, <2>1, <2>4, <2>5
<1>10. CASE bits = 2
  <2>1. w = <<(v \div 16) % 64>> /\ bits' = 4
    BY <1>2, <1>4, <1>10, LettersOfBuffer
  <2>2. SixBits(bytes', Len(out)) = 16 * (buffer % 4) + b \div 16
    <3>1. 6 * Len(out) = 8 * (n - 1) + 6 /\ n - 1 \in 0 .. Len(bytes') - 1 /\ n \in 1 .. n
          /\ (n - 1) + 1 = n /\ (n - 1) + 2 = n + 1 /\ n < Len(bytes')
      <4>1. n >= 1 /\ 6 * Len(out) = 8 * (n - 1) + 6
        BY <1>1, <1>5, <1>10, HeldBits, Zenon
      <4> HIDE DEF n
      <4> QED
        BY <1>1, <1>3, <4>1
    <3>2. SixBits(bytes', Len(out)) = 16 * (bytes'[n] % 4) + bytes'[n + 1] \div 16
      BY <1>1, <1>3, <3>1, SixBitsOfBytes
    <3>3. buffer % 4 = bytes[n] % 4
      BY <1>10 DEF IdInv, Held
    <3> QED
      BY <1>3, <3>1, <3>2, <3>3
  <2>3. (v \div 16) % 64 \in 0 .. 63
    BY <1>4
  <2> HIDE DEF w
  <2>4. w \in Seq(0 .. 63) /\ Len(w) = 1 /\ w[1] = 16 * (buffer % 4) + b \div 16
    BY <1>8, <2>1, <2>3
  <2>5. \A k \in 1 .. Len(w) : w[k] = SixBits(bytes', Len(out) + k - 1)
    BY <1>1, <2>2, <2>4
  <2> QED
    <3>1. 6 * (Len(out) + Len(w)) + bits' = 8 * (n + 1)
      BY <1>1, <1>5, <1>10, <2>1, <2>4, HeldBits, Zenon
    <3>2. w \in Seq(0 .. 63)
      BY <2>4
    <3>3. bits' = 4 /\ v % 16 = b % 16
      BY <1>8, <2>1
    <3> QED
      BY <1>7, <2>5, <3>1, <3>2, <3>3
<1>11. CASE bits = 4
  <2>1. w = <<(v \div 64) % 64, v % 64>> /\ bits' = 0
    BY <1>2, <1>4, <1>11, LettersOfBuffer
  <2>2. SixBits(bytes', Len(out)) = 4 * (buffer % 16) + b \div 64
    <3>1. 6 * Len(out) = 8 * (n - 1) + 4 /\ n - 1 \in 0 .. Len(bytes') - 1 /\ n \in 1 .. n
          /\ (n - 1) + 1 = n /\ (n - 1) + 2 = n + 1 /\ n < Len(bytes')
      <4>1. n >= 1 /\ 6 * Len(out) = 8 * (n - 1) + 4
        BY <1>1, <1>5, <1>11, HeldBits, Zenon
      <4> HIDE DEF n
      <4> QED
        BY <1>1, <1>3, <4>1
    <3>2. SixBits(bytes', Len(out)) = 4 * (bytes'[n] % 16) + bytes'[n + 1] \div 64
      BY <1>1, <1>3, <3>1, SixBitsOfBytes
    <3>3. buffer % 16 = bytes[n] % 16
      BY <1>11 DEF IdInv, Held
    <3> QED
      BY <1>3, <3>1, <3>2, <3>3
  <2>3. SixBits(bytes', Len(out) + 1) = b % 64
    <3>1. 6 * (Len(out) + 1) = 8 * n + 2
      BY <1>1, <1>5, <1>11, HeldBits, Zenon
    <3>2. n \in 0 .. Len(bytes') - 1 /\ Len(out) + 1 \in Nat
      <4> HIDE DEF n
      <4> QED
        BY <1>1, <1>3
    <3> QED
      BY <1>1, <1>3, <3>1, <3>2, SixBitsOfBytes
  <2>4. (v \div 64) % 64 \in 0 .. 63 /\ v % 64 \in 0 .. 63
    BY <1>4
  <2> HIDE DEF w
  <2>5. w \in Seq(0 .. 63) /\ Len(w) = 2 /\ w[1] = 4 * (buffer % 16) + b \div 64 /\ w[2] = b % 64
    BY <1>8, <2>1, <2>4
  <2>6. \A k \in 1 .. Len(w) : w[k] = SixBits(bytes', Len(out) + k - 1)
    <3>1. \A k \in 1 .. Len(w) : k = 1 \/ k = 2
      BY <2>5
    <3>2. Len(out) + 1 - 1 = Len(out) /\ Len(out) + 2 - 1 = Len(out) + 1
      BY <1>1
    <3> QED
      BY <2>2, <2>3, <2>5, <3>1, <3>2
  <2> QED
    <3>1. 6 * (Len(out) + Len(w)) + bits' = 8 * (n + 1)
      <4>1. 6 * (Len(out) + 2) = 8 * (n + 1)
        BY <1>1, <1>5, <1>11, HeldBits, Zenon
      <4> HIDE DEF n
      <4> QED
        BY <1>1, <2>1, <2>5, <4>1
    <3>2. w \in Seq(0 .. 63)
      BY <2>5
    <3> QED
      BY <1>7, <2>1, <2>6, <3>1, <3>2
<1> QED
  BY <1>1, <1>9, <1>10, <1>11

\* The last letter holds the bits that were left.
LEMMA EncodeRestKeeps ==
  ASSUME IdInv, EncodeRest
  PROVE  IdTypeOK' /\ MessageIdFaithful'
<1> DEFINE n == Len(bytes)
<1>1. bytes \in Seq(0 .. 255) /\ out \in Seq(0 .. 63) /\ bits \in {0, 2, 4}
      /\ buffer \in 0 .. BufferModulus - 1 /\ n \in Nat /\ Len(out) \in Nat /\ buffer \in Nat
  BY IdAssumption DEF IdInv, IdTypeOK
<1>2. 6 * Len(out) + bits = 8 * n /\ \A k \in 1 .. Len(out) : out[k] = SixBits(bytes, k - 1)
  BY <1>1 DEF IdInv, Held, MessageIdFaithful
<1> HIDE DEF n
<1>3. CASE bits = 0
  BY <1>1, <1>2, <1>3 DEF EncodeRest, IdInv, IdTypeOK, MessageIdFaithful, n
<1>4. ASSUME NEW c \in 0 .. 63, bits \in {2, 4}, out' = Append(out, c), c = SixBits(bytes, Len(out))
      PROVE  IdTypeOK' /\ MessageIdFaithful'
  <2>1. bits' = 0 /\ bytes' = bytes /\ buffer' = buffer
    BY DEF EncodeRest
  <2>2. out' \in Seq(0 .. 63) /\ Len(out') = Len(out) + 1 /\ out'[Len(out) + 1] = c
        /\ \A k \in 1 .. Len(out) : out'[k] = out[k]
    BY <1>1, <1>4, AppendProperties
  <2>3. \A k \in DOMAIN out' : out'[k] = SixBits(bytes', k - 1)
    <3> SUFFICES ASSUME NEW k \in 1 .. Len(out) + 1 PROVE out'[k] = SixBits(bytes, k - 1)
      BY <2>1, <2>2
    <3>1. CASE k \in 1 .. Len(out)
      BY <1>2, <2>2, <3>1
    <3>2. CASE k = Len(out) + 1
      BY <1>1, <1>4, <2>2, <3>2
    <3> QED
      BY <1>1, <3>1, <3>2
  <2> QED
    <3>1. 6 * Len(out') + bits' \in 8 * Len(bytes') .. 8 * Len(bytes') + 5
      <4>1. 6 * (Len(out) + 1) + 0 \in 8 * n .. 8 * n + 5
        BY <1>1, <1>2, <1>4
      <4> QED
        BY <2>1, <2>2, <4>1 DEF n
    <3> QED
      BY <1>1, <2>1, <2>2, <2>3, <3>1 DEF IdTypeOK, MessageIdFaithful
<1>5. CASE bits = 2
  <2>1. out' = Append(out, (buffer * 2 ^ (6 - 2)) % 64) /\ 2 ^ (6 - 2) = 16
    BY <1>5 DEF EncodeRest
  <2>2. (buffer * 16) % 64 = 16 * (buffer % 4) /\ (buffer * 16) % 64 \in 0 .. 63
    <3>1. buffer \in Nat
      BY <1>1
    <3> QED
      BY ONLY <3>1
  <2>3. 6 * Len(out) = 8 * (n - 1) + 6 /\ n - 1 \in 0 .. n - 1 /\ (n - 1) + 1 = n /\ ~(n < n)
    <3>1. n >= 1 /\ 6 * Len(out) = 8 * (n - 1) + 6
      BY <1>1, <1>2, <1>5, HeldBits, Zenon
    <3> QED
      BY <1>1, <3>1
  <2>4. SixBits(bytes, Len(out)) = 16 * (bytes[n] % 4) + 0
    BY <1>1, <2>3, SixBitsOfBytes DEF n
  <2>5. buffer % 4 = bytes[n] % 4 /\ buffer % 4 \in Nat
    BY <1>1, <1>5 DEF IdInv, Held, n
  <2> QED
    <3>1. out' = Append(out, 16 * (buffer % 4)) /\ 16 * (buffer % 4) \in 0 .. 63
      BY <2>1, <2>2, Zenon
    <3>2. 16 * (buffer % 4) = SixBits(bytes, Len(out))
      BY <2>4, <2>5
    <3> QED
      BY <1>4, <1>5, <3>1, <3>2
<1>6. CASE bits = 4
  <2>1. out' = Append(out, (buffer * 2 ^ (6 - 4)) % 64) /\ 2 ^ (6 - 4) = 4
    BY <1>6 DEF EncodeRest
  <2>2. (buffer * 4) % 64 = 4 * (buffer % 16) /\ (buffer * 4) % 64 \in 0 .. 63
    <3>1. buffer \in Nat
      BY <1>1
    <3> QED
      BY ONLY <3>1
  <2>3. 6 * Len(out) = 8 * (n - 1) + 4 /\ n - 1 \in 0 .. n - 1 /\ (n - 1) + 1 = n /\ ~(n < n)
    <3>1. n >= 1 /\ 6 * Len(out) = 8 * (n - 1) + 4
      BY <1>1, <1>2, <1>6, HeldBits, Zenon
    <3> QED
      BY <1>1, <3>1
  <2>4. SixBits(bytes, Len(out)) = 4 * (bytes[n] % 16) + 0
    BY <1>1, <2>3, SixBitsOfBytes DEF n
  <2>5. buffer % 16 = bytes[n] % 16 /\ buffer % 16 \in Nat
    BY <1>1, <1>6 DEF IdInv, Held, n
  <2> QED
    <3>1. out' = Append(out, 4 * (buffer % 16)) /\ 4 * (buffer % 16) \in 0 .. 63
      BY <2>1, <2>2, Zenon
    <3>2. 4 * (buffer % 16) = SixBits(bytes, Len(out))
      BY <2>4, <2>5
    <3> QED
      BY <1>4, <1>6, <3>1, <3>2
<1> QED
  BY <1>1, <1>3, <1>5, <1>6

(***************************************************************************)
(* The text of a command.                                                  *)
(***************************************************************************)
\* What is before the place of an insertion stays, and the rest moves on by one.
LEMMA Inserted ==
  ASSUME NEW S, NEW s \in Seq(S), NEW i \in 1 .. Len(s), NEW e \in S
  PROVE  /\ InsertAt(s, i, e) \in Seq(S) /\ Len(InsertAt(s, i, e)) = Len(s) + 1
         /\ \A j \in 1 .. i - 1 : InsertAt(s, i, e)[j] = s[j]
         /\ InsertAt(s, i, e)[i] = e
         /\ \A j \in i .. Len(s) : InsertAt(s, i, e)[j + 1] = s[j]
<1> DEFINE a == SubSeq(s, 1, i - 1)
           b == SubSeq(s, i, Len(s))
           c == a \o <<e>>
<1>1. /\ a \in Seq(S) /\ Len(a) = i - 1 /\ \A j \in 1 .. i - 1 : a[j] = s[j]
      /\ b \in Seq(S) /\ Len(b) = Len(s) - i + 1 /\ \A j \in 1 .. Len(b) : b[j] = s[i + j - 1]
  BY SubSeqProperties
<1> HIDE DEF a, b
<1>2. /\ c \in Seq(S) /\ Len(c) = i
      /\ c[i] = e /\ \A j \in 1 .. i - 1 : c[j] = a[j]
  BY <1>1
<1> HIDE DEF c
<1>3. /\ c \o b \in Seq(S) /\ Len(c \o b) = Len(s) + 1
      /\ \A j \in 1 .. Len(s) + 1 : (c \o b)[j] = IF j <= i THEN c[j] ELSE b[j - i]
  <2>1. i + Len(b) = Len(s) + 1
    BY <1>1, LenProperties
  <2>2. /\ c \o b \in Seq(S) /\ Len(c \o b) = Len(c) + Len(b)
        /\ \A j \in 1 .. Len(c) + Len(b) : (c \o b)[j] = IF j <= Len(c) THEN c[j] ELSE b[j - Len(c)]
    BY <1>1, <1>2, ConcatProperties
  <2> QED
    BY <1>2, <2>1, <2>2
<1>4. InsertAt(s, i, e) = c \o b
  BY DEF InsertAt, a, b, c
<1>5. \A j \in i .. Len(s) : (c \o b)[j + 1] = s[j]
  <2> SUFFICES ASSUME NEW j \in i .. Len(s) PROVE (c \o b)[j + 1] = s[j]
    OBVIOUS
  <2>1. (c \o b)[j + 1] = b[j + 1 - i] /\ j + 1 - i \in 1 .. Len(b) /\ i + (j + 1 - i) - 1 = j
    BY <1>1, <1>3
  <2> QED
    BY <1>1, <2>1
<1> QED
  BY <1>1, <1>2, <1>3, <1>4, <1>5

\* The quotes are places, and their ranks are counts.
LEMMA QuotePlaces ==
  ASSUME value \in Seq(Symbol)
  PROVE  /\ \A p \in Quotes : p \in Nat \ {0}
         /\ Rank(Quotes, 0) = 0 /\ Place(0) = 0
         /\ \A i \in Nat : Rank(Quotes, i) \in Nat /\ Place(i) \in Nat
<1>1. \A p \in Quotes : p \in Nat \ {0}
  BY DEF Quotes
<1>2. Rank(Quotes, 0) = 0 /\ \A i \in Nat : Rank(Quotes, i) \in Nat
  BY <1>1, RankZero, PlacesUpTo
<1> QED
  BY <1>1, <1>2 DEF Place

\* The values of CommandText's variables.
TextTypeOK == value \in Seq(Symbol) /\ escaped_value \in Seq(Symbol) /\ pos \in Nat

TextInv == TextTypeOK /\ EscapedSoFar

\* Before the loop nothing is escaped.
LEMMA Unescaped ==
  ASSUME value \in Seq(Symbol), escaped_value = value, pos = 1
  PROVE  TextInv
<1>1. EscapedUpTo(0)
  <2>1. /\ Len(value) = Len(value) + 0
        /\ \A i \in 1 .. 0 : FALSE
        /\ \A i \in 0 + 1 .. Len(value) : i + 0 = i
    BY LenProperties
  <2>2. Rank(Quotes, 0) = 0
    BY QuotePlaces
  <2> QED
    BY <2>1, <2>2, Zenon DEF EscapedUpTo
<1>2. 0 \in 0 .. Len(value) /\ pos = Place(0) + 1
  <2>1. Place(0) = 0
    BY QuotePlaces
  <2> QED
    BY <2>1, LenProperties
<1> QED
  BY <1>1, <1>2 DEF TextInv, TextTypeOK, EscapedSoFar

\* A turn of the loop escapes the next quote of the value, and no other.
LEMMA EscapeNextKeeps ==
  ASSUME TextInv, EscapeNext
  PROVE  TextInv'
<1>1. value \in Seq(Symbol) /\ escaped_value \in Seq(Symbol) /\ pos \in Nat
      /\ value' = value /\ Quotes' = Quotes /\ Len(value) \in Nat
  BY DEF TextInv, TextTypeOK, EscapeNext, Quotes
<1> DEFINE N == Len(value)
           e == escaped_value
           r(k) == Rank(Quotes, k)
<1>2. PICK n \in 0 .. N : pos = Place(n) + 1 /\ EscapedUpTo(n)
  BY DEF TextInv, EscapedSoFar
<1>3. PICK i \in QuotesLeft :
        /\ \A j \in QuotesLeft : i <= j
        /\ escaped_value' = InsertAt(escaped_value, i, "backslash")
        /\ pos' = i + 2
  BY DEF EscapeNext, StepOver
<1>4. /\ \A p \in Quotes : p \in Nat \ {0}
      /\ \A k \in Nat : r(k) \in Nat
  BY <1>1, QuotePlaces
<1>5. Len(e) = N + r(n) /\ \A k \in n + 1 .. N : e[k + r(n)] = value[k]
  BY <1>2 DEF EscapedUpTo
<1>6. i \in Nat /\ i >= pos /\ i <= Len(e) /\ e[i] = "quote" /\ pos = n + r(n) + 1
      /\ \A k \in pos .. i - 1 : e[k] # "quote"
  <2>1. i \in pos .. Len(e) /\ e[i] = "quote"
    BY <1>3 DEF QuotesLeft
  <2>2. \A k \in pos .. i - 1 : k \in pos .. Len(e) /\ ~(i <= k)
    BY <1>1, <2>1
  <2> QED
    BY <1>1, <1>2, <1>3, <2>1, <2>2 DEF QuotesLeft, Place
<1> HIDE DEF r, N
<1>7. PICK q \in n + 1 .. N :
        q + r(n) = i /\ n \in Nat /\ N \in Nat /\ r(n) \in Nat /\ q \in Nat
  <2>1. n \in Nat /\ N \in Nat
    BY <1>1, <1>2 DEF N
  <2>2. r(n) \in Nat
    BY <1>4, <2>1
  <2> DEFINE p == i - r(n)
  <2>3. p \in n + 1 .. N /\ p + r(n) = i /\ p \in Nat
    BY <1>5, <1>6, <2>1, <2>2
  <2> HIDE DEF p
  <2> QED
    BY <2>1, <2>2, <2>3
<1>8. q \in Quotes
  BY <1>5, <1>6, <1>7 DEF Quotes, N
<1>9. \A k \in n + 1 .. q - 1 : k \notin Quotes
  <2> SUFFICES ASSUME NEW k \in n + 1 .. q - 1 PROVE k \notin Quotes
    OBVIOUS
  <2>1. k \in n + 1 .. N /\ k + r(n) \in pos .. i - 1
    BY <1>6, <1>7
  <2> QED
    BY <1>5, <1>6, <2>1 DEF Quotes
<1>10. \A k \in n .. q - 1 : r(k) = r(n)
  BY <1>4, <1>7, <1>9, RankSame DEF r
<1>11. r(q) = r(n) + 1
  <2>1. q - 1 \in n .. q - 1
    BY <1>7
  <2>2. r(q) = r(q - 1) + 1
    BY <1>4, <1>8, RankNext DEF r
  <2> QED
    BY <1>10, <2>1, <2>2
<1>12. /\ e' \in Seq(Symbol) /\ Len(e') = Len(e) + 1 /\ e'[i] = "backslash"
       /\ \A j \in 1 .. i - 1 : e'[j] = e[j]
       /\ \A j \in i .. Len(e) : e'[j + 1] = e[j]
  <2>1. i \in 1 .. Len(e) /\ "backslash" \in Symbol
    BY <1>6, <1>7 DEF Symbol
  <2> QED
    <3>1. /\ InsertAt(e, i, "backslash") \in Seq(Symbol)
          /\ Len(InsertAt(e, i, "backslash")) = Len(e) + 1
          /\ \A j \in 1 .. i - 1 : InsertAt(e, i, "backslash")[j] = e[j]
          /\ InsertAt(e, i, "backslash")[i] = "backslash"
          /\ \A j \in i .. Len(e) : InsertAt(e, i, "backslash")[j + 1] = e[j]
      BY <1>1, <2>1, Inserted
    <3> QED
      BY <1>3, <3>1, Zenon
<1>13. Len(e') = N + r(q) /\ pos' = Place(q) + 1 /\ pos' \in Nat
  <2>1. Len(e') = N + r(q) /\ pos' = q + r(q) + 1
    BY <1>3, <1>5, <1>7, <1>11, <1>12
  <2> QED
    <3>1. r(q) \in Nat /\ q + r(q) + 1 \in Nat
      <4>1. r(q) \in Nat
        BY <1>4, <1>7
      <4> HIDE DEF r
      <4> QED
        BY <1>7, <4>1
    <3> QED
      BY <2>1, <3>1 DEF Place, r
<1>14. ASSUME NEW j \in 1 .. q
       PROVE  e'[Place(j)] = value[j] /\ (j \in Quotes => e'[Place(j) - 1] = "backslash")
  <2>1. CASE j \in 1 .. n
    <3>1. r(j) \in Nat /\ r(j) <= r(n) /\ (j \in Quotes => r(j) >= 1)
      <4>1. r(j) \in Nat /\ r(j) <= r(n)
        BY <1>4, <1>7, <2>1, RankGrows DEF r
      <4>2. r(0) = 0
        BY <1>1, QuotePlaces DEF r
      <4>3. j \in Quotes => r(0) < r(j)
        <5>1. 0 \in Nat /\ j \in Nat /\ 0 <= j /\ 0 < j
          BY <1>7, <2>1
        <5> QED
          BY <1>4, <5>1, RankGrows DEF r
      <4> QED
        BY <4>1, <4>2, <4>3
    <3>2. Place(j) \in 1 .. i - 1 /\ (j \in Quotes => Place(j) - 1 \in 1 .. i - 1)
      <4>1. j + r(j) \in 1 .. i - 1 /\ (r(j) >= 1 => j + r(j) - 1 \in 1 .. i - 1)
        BY <1>6, <1>7, <2>1, <3>1
      <4> QED
        BY <3>1, <4>1 DEF Place, r
    <3>3. e[Place(j)] = value[j] /\ (j \in Quotes => e[Place(j) - 1] = "backslash")
      BY <1>2, <2>1 DEF EscapedUpTo
    <3> QED
      BY <1>12, <3>2, <3>3
  <2>2. CASE j \in n + 1 .. q - 1
    <3>1. Place(j) = j + r(n) /\ j \notin Quotes
      BY <1>7, <1>9, <1>10, <2>2 DEF Place, r
    <3>2. j \in n + 1 .. N /\ j + r(n) \in 1 .. i - 1
      BY <1>7, <2>2
    <3> QED
      BY <1>5, <1>12, <3>1, <3>2
  <2>3. CASE j = q
    <3>1. Place(q) = i + 1 /\ (i + 1) - 1 = i
      <4>1. q + r(q) = i + 1
        BY <1>7, <1>11
      <4> QED
        BY <1>6, <4>1 DEF Place, r
    <3>2. e[i] = value[q]
      BY <1>5, <1>7
    <3>3. i \in i .. Len(e)
      BY <1>6
    <3> QED
      BY <1>12, <2>3, <3>1, <3>2, <3>3
  <2> QED
    BY <1>7, <2>1, <2>2, <2>3
<1>15. ASSUME NEW j \in q + 1 .. N PROVE e'[j + r(q)] = value[j]
  <2>1. j \in n + 1 .. N /\ j + r(n) \in i .. N + r(n) /\ (j + r(n)) + 1 = j + r(q)
    BY <1>7, <1>11
  <2> QED
    BY <1>5, <1>12, <2>1
<1>16. EscapedUpTo(q)'
  <2>1. Rank(Quotes, q)' = Rank(Quotes, q) /\ \A j \in 1 .. q : Place(j)' = Place(j)
    BY <1>1 DEF Place
  <2> QED
    BY <1>1, <1>13, <1>14, <1>15, <2>1 DEF EscapedUpTo, r, N
<1>17. q \in (0 .. Len(value))' /\ (pos = Place(q) + 1)'
  <2>1. Place(q)' = Place(q)
    BY <1>1 DEF Place
  <2>2. q \in 0 .. N
    BY <1>7
  <2> QED
    BY <1>1, <1>13, <2>1, <2>2 DEF N
<1> QED
  BY <1>1, <1>12, <1>13, <1>16, <1>17 DEF TextInv, TextTypeOK, EscapedSoFar

\* A reading is the reading of one symbol after the other.
LEMMA ReadingStep ==
  ASSUME NEW S, NEW t \in Seq(S)
  PROVE  /\ Reading(t)[0] = [ok |-> TRUE, escape |-> FALSE, text |-> <<>>]
         /\ \A i \in 1 .. Len(t) : Reading(t)[i] = ReadSymbol(Reading(t)[i - 1], t[i])
<1> DEFINE L == Len(t)
           start == [ok |-> TRUE, escape |-> FALSE, text |-> <<>>]
           IsReading(f, m) ==
             f = [i \in 0 .. m |-> IF i = 0 THEN start ELSE ReadSymbol(f[i - 1], t[i])]
           S0 == {m \in 0 .. L : \E f : IsReading(f, m)}
           R == CHOOSE f : f = [i \in 0 .. Len(t) |->
                                  IF i = 0 THEN start ELSE ReadSymbol(f[i - 1], t[i])]
<1>1. L \in Nat
  BY LenProperties
<1> HIDE DEF L, start
<1>2. 0 \in S0
  <2> DEFINE f == [i \in 0 .. 0 |-> start]
  <2>1. IsReading(f, 0)
    OBVIOUS
  <2> HIDE DEF f, IsReading
  <2>2. 0 \in 0 .. L
    BY <1>1
  <2> QED
    BY <2>1, <2>2
<1>3. ASSUME NEW m \in 0 .. L - 1, m \in S0 PROVE m + 1 \in S0
  <2>1. PICK f : IsReading(f, m)
    BY <1>3
  <2> DEFINE g == [i \in 0 .. m + 1 |-> IF i = m + 1 THEN ReadSymbol(f[m], t[m + 1]) ELSE f[i]]
  <2>2. \A i \in 0 .. m : g[i] = f[i]
    BY <1>1
  <2>3. \A i \in 0 .. m : f[i] = IF i = 0 THEN start ELSE ReadSymbol(f[i - 1], t[i])
    <3> HIDE DEF start
    <3> QED
      BY <2>1, Zenon
  <2>4. \A i \in 0 .. m + 1 : g[i] = IF i = 0 THEN start ELSE ReadSymbol(g[i - 1], t[i])
    <3> SUFFICES ASSUME NEW i \in 0 .. m + 1
                 PROVE  g[i] = IF i = 0 THEN start ELSE ReadSymbol(g[i - 1], t[i])
      OBVIOUS
    <3>1. g[i] = IF i = m + 1 THEN ReadSymbol(f[m], t[m + 1]) ELSE f[i]
      OBVIOUS
    <3> HIDE DEF g
    <3>2. CASE i = m + 1
      <4>1. i # 0 /\ i - 1 = m /\ m \in 0 .. m
        BY <1>1, <3>2
      <4> QED
        BY <2>2, <3>1, <3>2, <4>1
    <3>3. CASE i \in 0 .. m
      <4>1. i # m + 1 /\ (i # 0 => i - 1 \in 0 .. m)
        BY <1>1, <3>3
      <4> QED
        BY <2>2, <2>3, <3>1, <3>3, <4>1
    <3> QED
      BY <1>1, <3>2, <3>3
  <2>5. g = [i \in 0 .. m + 1 |-> g[i]]
    OBVIOUS
  <2> HIDE DEF g
  <2>6. IsReading(g, m + 1)
    BY <2>4, <2>5
  <2>7. m + 1 \in 0 .. L
    BY <1>1
  <2> HIDE DEF IsReading
  <2> QED
    BY <2>6, <2>7
<1>4. L \in S0
  <2> HIDE DEF S0
  <2>1. 0 .. L \subseteq S0
    BY <1>1, <1>2, <1>3, PlaceInduction, Zenon
  <2> QED
    BY <1>1, <2>1
<1>5. \E f : f = [i \in 0 .. Len(t) |-> IF i = 0 THEN start ELSE ReadSymbol(f[i - 1], t[i])]
  BY <1>4 DEF L
<1>6. R = [i \in 0 .. Len(t) |-> IF i = 0 THEN start ELSE ReadSymbol(R[i - 1], t[i])]
  BY <1>5, Zenon
<1>7. Reading(t) = R
  BY Zenon DEF Reading, start
<1>8. \A i \in 0 .. L : Reading(t)[i] = IF i = 0 THEN start ELSE ReadSymbol(Reading(t)[i - 1], t[i])
  <2> HIDE DEF R
  <2> QED
    BY <1>6, <1>7, Zenon DEF L
<1>9. 0 \in 0 .. L /\ \A i \in 1 .. L : i \in 0 .. L /\ i # 0
  BY <1>1
<1> QED
  BY <1>8, <1>9, Zenon DEF L, start

\* What a reader has made of text that is not JSON.
Spoilt(r) == \E e, v : r = [ok |-> FALSE, escape |-> e, text |-> v]

\* What a reader makes of a value's symbols, behind a backslash where it needs one.
LEMMA SymbolsRead ==
  ASSUME NEW w,
         NEW c \in Symbol, c # "backslash"
  PROVE  LET r(e, v) == [ok |-> TRUE, escape |-> e, text |-> v]
         IN  /\ ReadSymbol(r(FALSE, w), "backslash") = r(TRUE, w)
             /\ ReadSymbol(r(TRUE, w), "quote") = r(FALSE, Append(w, "quote"))
             /\ c \notin {"quote", "control"} =>
                  ReadSymbol(r(FALSE, w), c) = r(FALSE, Append(w, c))
             /\ Spoilt(ReadSymbol(r(FALSE, w), "control"))
<1> DEFINE r(e, v) == [ok |-> TRUE, escape |-> e, text |-> v]
<1>1. ReadSymbol(r(FALSE, w), "backslash") = r(TRUE, w)
  BY DEF ReadSymbol
<1>2. ReadSymbol(r(TRUE, w), "quote") = r(FALSE, Append(w, "quote"))
  BY DEF ReadSymbol
<1>3. c \notin {"quote", "control"} => ReadSymbol(r(FALSE, w), c) = r(FALSE, Append(w, c))
  BY DEF ReadSymbol, Symbol
<1>4. ReadSymbol(r(FALSE, w), "control") = [ok |-> FALSE, escape |-> FALSE, text |-> w]
  BY DEF ReadSymbol
<1>5. Spoilt(ReadSymbol(r(FALSE, w), "control"))
  BY <1>4, Zenon DEF Spoilt
<1> QED
  BY <1>1, <1>2, <1>3, <1>5

\* What follows does not make JSON of it.
LEMMA SpoiltStays ==
  ASSUME NEW r, NEW c, Spoilt(r)
  PROVE  Spoilt(ReadSymbol(r, c))
<1>1. PICK e, v : r = [ok |-> FALSE, escape |-> e, text |-> v]
  BY DEF Spoilt
<1>2. \/ ReadSymbol(r, c) = [ok |-> FALSE, escape |-> FALSE, text |-> Append(v, "newline")]
      \/ ReadSymbol(r, c) = [ok |-> FALSE, escape |-> FALSE, text |-> Append(v, c)]
      \/ ReadSymbol(r, c) = [ok |-> FALSE, escape |-> TRUE, text |-> v]
      \/ ReadSymbol(r, c) = [ok |-> FALSE, escape |-> e, text |-> Append(v, c)]
      \/ ReadSymbol(r, c) = [ok |-> FALSE, escape |-> e, text |-> v]
  BY <1>1 DEF ReadSymbol
<1> QED
  BY <1>2, Zenon DEF Spoilt

\* An escaped value without a backslash is JSON unless there is a control character in
\* it, and then it is read back, symbol by symbol.
LEMMA EscapedIsRead ==
  ASSUME TextInv, Escaped, \A i \in DOMAIN value : value[i] # "backslash"
  PROVE  IF \A i \in DOMAIN value : value[i] # "control"
           THEN BodyIsJson /\ ReadString(escaped_value).text = value
           ELSE ~BodyIsJson
<1> DEFINE N == Len(value)
           e == escaped_value
           rank(k) == Rank(Quotes, k)
           R == Reading(e)
           Read(esc, v) == [ok |-> TRUE, escape |-> esc, text |-> v]
           Calm(i) == \A k \in 1 .. i : value[k] # "control"
           Good(i) == IF Calm(i) THEN R[Place(i)] = Read(FALSE, SubSeq(value, 1, i))
                                 ELSE Spoilt(R[Place(i)])
           S0 == {i \in 0 .. N : Good(i)}
<1>1. value \in Seq(Symbol) /\ e \in Seq(Symbol) /\ pos \in Nat /\ N \in Nat
  BY LenProperties DEF TextInv, TextTypeOK
<1>2. PICK n \in 0 .. N : pos = Place(n) + 1 /\ EscapedUpTo(n)
  BY DEF TextInv, EscapedSoFar
<1>3. /\ \A p \in Quotes : p \in Nat \ {0}
      /\ \A k \in Nat : rank(k) \in Nat /\ Place(k) \in Nat
      /\ Place(0) = 0
  BY <1>1, QuotePlaces
<1>4. Len(e) = N + rank(n) /\ \A k \in n + 1 .. N : e[k + rank(n)] = value[k]
  BY <1>2 DEF EscapedUpTo
<1>5. rank(n) \in Nat /\ n \in Nat /\ pos = n + rank(n) + 1
  BY <1>1, <1>2, <1>3 DEF Place
<1> HIDE DEF N, rank
<1>6. \A k \in n + 1 .. N : k \notin Quotes
  <2> SUFFICES ASSUME NEW k \in n + 1 .. N PROVE k \notin Quotes
    OBVIOUS
  <2>1. k + rank(n) \in pos .. N + rank(n)
    BY <1>1, <1>5
  <2>2. e[k + rank(n)] # "quote"
    BY <1>4, <2>1 DEF Escaped, QuotesLeft
  <2> QED
    BY <1>4, <2>2 DEF Quotes
<1>7. \A k \in n .. N : rank(k) = rank(n)
  <2> SUFFICES ASSUME NEW k \in n .. N PROVE rank(k) = rank(n)
    OBVIOUS
  <2>1. k \in Nat /\ n <= k
    BY <1>1, <1>5
  <2>2. \A l \in Quotes : ~(n < l /\ l <= k)
    <3> SUFFICES ASSUME NEW l \in Quotes, n < l, l <= k PROVE FALSE
      OBVIOUS
    <3>1. l \in Nat
      BY <1>3
    <3>2. l \in n + 1 .. N
      BY <1>1, <1>5, <2>1, <3>1
    <3> QED
      BY <1>6, <3>2
  <2> QED
    BY <1>3, <1>5, <2>1, <2>2, RankSame DEF rank
<1>8. ASSUME NEW i \in 1 .. N
      PROVE  e[Place(i)] = value[i] /\ (i \in Quotes => e[Place(i) - 1] = "backslash")
  <2>1. CASE i \in 1 .. n
    BY <1>2, <2>1 DEF EscapedUpTo
  <2>2. CASE i \in n + 1 .. N
    <3>1. i \in n .. N /\ i \notin Quotes
      BY <1>5, <1>6, <2>2
    <3>2. Place(i) = i + rank(n)
      BY <1>7, <3>1 DEF Place, rank
    <3> QED
      BY <1>4, <2>2, <3>1, <3>2
  <2> QED
    BY <1>1, <1>5, <2>1, <2>2
<1>9. Place(N) = Len(e) /\ Place(N) \in Nat
  <2>1. N \in n .. N
    BY <1>1, <1>2, <1>5 DEF N
  <2>2. rank(N) = rank(n)
    BY <1>7, <2>1
  <2>3. Place(N) = N + rank(N)
    BY DEF Place, rank
  <2> QED
    BY <1>1, <1>3, <1>4, <2>2, <2>3
<1>10. ASSUME NEW i \in 0 .. N - 1
       PROVE  /\ i + 1 \in 1 .. N /\ Place(i) \in Nat /\ Place(i + 1) \in 1 .. Len(e)
              /\ i + 1 \in Quotes => Place(i + 1) = Place(i) + 2
              /\ i + 1 \notin Quotes => Place(i + 1) = Place(i) + 1
  <2>1. i \in Nat /\ i + 1 \in Nat /\ i + 1 \in 1 .. N /\ (i + 1) - 1 = i /\ i <= i + 1 /\ i + 1 <= N
    BY <1>1
  <2>2. rank(i) \in Nat /\ rank(i + 1) \in Nat /\ rank(N) \in Nat
    BY <1>1, <1>3, <2>1
  <2>3. rank(i + 1) <= rank(N)
    BY <1>1, <1>3, <2>1, RankGrows DEF rank
  <2>4. i + 1 \in Quotes => rank(i + 1) = rank(i) + 1
    BY <1>3, <2>1, RankNext DEF rank
  <2>5. i + 1 \notin Quotes => rank(i + 1) = rank(i)
    <3> SUFFICES ASSUME i + 1 \notin Quotes PROVE rank(i + 1) = rank(i)
      OBVIOUS
    <3>1. \A k \in Quotes : ~(i < k /\ k <= i + 1)
      BY <1>3, <2>1
    <3> QED
      BY <1>3, <2>1, <3>1, RankSame DEF rank
  <2>6. Place(i) = i + rank(i) /\ Place(i + 1) = (i + 1) + rank(i + 1) /\ Place(N) = N + rank(N)
    BY DEF Place, rank
  <2>7. (i + 1) + rank(i + 1) \in 1 .. N + rank(N)
    BY <1>1, <2>1, <2>2, <2>3
  <2> QED
    BY <1>9, <2>1, <2>2, <2>4, <2>5, <2>6, <2>7
<1>11. /\ R[0] = Read(FALSE, <<>>)
       /\ \A i \in 1 .. Len(e) : R[i] = ReadSymbol(R[i - 1], e[i])
  BY <1>1, ReadingStep
<1> HIDE DEF R
<1>12. 0 \in S0
  <2>1. SubSeq(value, 1, 0) = <<>>
    BY <1>1, SubSeqEmpty
  <2> HIDE DEF Read
  <2>2. R[Place(0)] = Read(FALSE, SubSeq(value, 1, 0))
    BY <1>3, <1>11, <2>1, Zenon
  <2>3. 0 \in 0 .. N /\ Calm(0)
    BY <1>1
  <2> QED
    BY <2>2, <2>3
<1>13. ASSUME NEW i \in 0 .. N - 1, i \in S0 PROVE i + 1 \in S0
  <2> DEFINE w == SubSeq(value, 1, i)
             c == value[i + 1]
  <2>1. Good(i) /\ i + 1 \in 1 .. N /\ i + 1 \in 0 .. N
    BY <1>1, <1>10, <1>13
  <2>2. c \in Symbol /\ c # "backslash" /\ e[Place(i + 1)] = c
    <3>1. c \in Symbol
      BY <1>1, <2>1, ElementOfSeq DEF N
    <3>2. c # "backslash"
      BY <1>1, <2>1 DEF N
    <3> QED
      BY <1>8, <2>1, <3>1, <3>2
  <2>3. SubSeq(value, 1, i + 1) = Append(w, c)
    <3>1. 1 \in 1 .. Len(value) + 1 /\ i + 1 \in 1 .. Len(value) /\ (i + 1) - 1 = i
      BY <1>1, <2>1 DEF N
    <3> QED
      BY <1>1, <3>1, SubSeqProperties, AppendProperties
  <2>4. Calm(i + 1) <=> Calm(i) /\ c # "control"
    <3>1. 1 .. i + 1 = (1 .. i) \cup {i + 1}
      BY <1>1
    <3> QED
      BY <3>1
  <2>5. ASSUME i + 1 \in Quotes
        PROVE  /\ R[Place(i) + 1] = ReadSymbol(R[Place(i)], "backslash")
               /\ R[Place(i + 1)] = ReadSymbol(R[Place(i) + 1], "quote") /\ c = "quote"
    <3>1. Place(i + 1) - 1 = Place(i) + 1 /\ Place(i + 1) - 1 \in 1 .. Len(e)
          /\ (Place(i) + 1) - 1 = Place(i)
      BY <1>9, <1>10, <2>5
    <3>2. c = "quote" /\ e[Place(i) + 1] = "backslash"
      BY <1>8, <2>1, <2>5, <3>1 DEF Quotes
    <3>3. R[Place(i) + 1] = ReadSymbol(R[Place(i)], "backslash")
      BY <1>11, <3>1, <3>2
    <3>4. R[Place(i + 1)] = ReadSymbol(R[Place(i) + 1], "quote")
      BY <1>10, <1>11, <2>2, <3>1, <3>2
    <3> QED
      BY <3>2, <3>3, <3>4
  <2>6. ASSUME i + 1 \notin Quotes
        PROVE  R[Place(i + 1)] = ReadSymbol(R[Place(i)], c) /\ c # "quote"
    <3>1. c # "quote"
      BY <2>1, <2>6 DEF Quotes, N
    <3>2. Place(i + 1) - 1 = Place(i) /\ Place(i + 1) \in 1 .. Len(e)
      BY <1>10, <2>6
    <3> QED
      BY <1>11, <2>2, <3>1, <3>2
  <2> HIDE DEF w, c
  <2>7. /\ ReadSymbol(Read(FALSE, w), "backslash") = Read(TRUE, w)
        /\ ReadSymbol(Read(TRUE, w), "quote") = Read(FALSE, Append(w, "quote"))
        /\ c \notin {"quote", "control"} => ReadSymbol(Read(FALSE, w), c) = Read(FALSE, Append(w, c))
        /\ Spoilt(ReadSymbol(Read(FALSE, w), "control"))
    BY <2>2, SymbolsRead
  <2> HIDE DEF Read, Calm
  <2>8. CASE ~Calm(i)
    <3>1. Spoilt(R[Place(i)])
      BY <2>1, <2>8
    <3>2. Spoilt(R[Place(i + 1)])
      BY <2>5, <2>6, <3>1, SpoiltStays
    <3> QED
      BY <2>1, <2>4, <2>8, <3>2
  <2>9. CASE Calm(i)
    <3>1. R[Place(i)] = Read(FALSE, w)
      BY <2>1, <2>9 DEF w
    <3>2. CASE i + 1 \in Quotes
      <4>1. R[Place(i + 1)] = Read(FALSE, Append(w, c)) /\ c # "control"
        BY <2>5, <2>7, <3>1, <3>2
      <4> QED
        BY <2>1, <2>3, <2>4, <2>9, <4>1
    <3>3. CASE i + 1 \notin Quotes /\ c # "control"
      <4>1. R[Place(i + 1)] = Read(FALSE, Append(w, c))
        BY <2>6, <2>7, <3>1, <3>3
      <4> QED
        BY <2>1, <2>3, <2>4, <2>9, <3>3, <4>1
    <3>4. CASE i + 1 \notin Quotes /\ c = "control"
      <4>1. Spoilt(R[Place(i + 1)])
        BY <2>6, <2>7, <3>1, <3>4
      <4> QED
        BY <2>1, <2>4, <3>4, <4>1
    <3> QED
      BY <3>2, <3>3, <3>4
  <2> QED
    BY <2>8, <2>9
<1>14. N \in S0
  <2> HIDE DEF S0
  <2>1. 0 .. N \subseteq S0
    BY <1>1, <1>12, <1>13, PlaceInduction, Zenon
  <2> QED
    BY <1>1, <2>1
<1>15. SubSeq(value, 1, N) = value /\ DOMAIN value = 1 .. N
  BY <1>1, SubSeqFull DEF N
<1>16. ReadString(e) = R[Place(N)] /\ Good(N)
  BY <1>9, <1>14 DEF ReadString, R
<1>17. CASE Calm(N)
  <2>1. ReadString(e) = Read(FALSE, value)
    BY <1>15, <1>16, <1>17
  <2> QED
    BY <1>15, <1>17, <2>1 DEF BodyIsJson
<1>18. CASE ~Calm(N)
  <2>1. Spoilt(ReadString(e))
    BY <1>16, <1>18
  <2>2. \A r : Spoilt(r) => ~r.ok
    BY DEF Spoilt
  <2> QED
    BY <1>15, <1>18, <2>1, <2>2 DEF BodyIsJson
<1> QED
  BY <1>17, <1>18
=============================================================================
