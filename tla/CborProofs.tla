----------------------------- MODULE CborProofs -----------------------------
(***************************************************************************)
(* For every timestamp: the artifact that encoding.rs writes is read back  *)
(* by its decoder, no other spelling of it is accepted, and the documented *)
(* sizes hold.                                                             *)
(***************************************************************************)
EXTENDS Cbor, NaturalsInduction, WellFoundedInduction, SequenceTheorems, TLAPS

\* The values of a u64 or an i64, the lengths that U64 takes, and the pieces of
\* a byte string.
Word == [1..8 -> 0..255]
Short == {n \in Nat : n \div 256 <= 255}
Names == {"signer", "hash", "signature", "Signature1",
          "application/vnd.lys.attestation.v2+cbor"}
Piece == [byte : Nat, size : {1}] \cup [name : Names, size : Nat \ {0}]

-----------------------------------------------------------------------------
\* Sums.  Every set of naturals has a least element; induction is done with
\* this fact, on the set of the counterexamples.

LEMMA LeastNumber ==
  ASSUME NEW T, T \subseteq Nat, T # {}
  PROVE  \E x \in T : \A y \in T : x <= y
<1> DEFINE R == {ss \in Nat \X Nat : ss[1] < ss[2]}
<1>1. IsWellFoundedOn(R, Nat)
  BY NatLessThanWellFounded, Zenon DEF OpToRel
<1>2. \A x, y \in Nat : x < y => <<x, y>> \in R
  OBVIOUS
<1> HIDE DEF R
<1>3. PICK x \in T : \A y \in T : ~(<<y, x>> \in R)
  BY <1>1, WFMin
<1>4. ASSUME NEW y \in T, y < x PROVE FALSE
  <2>1. x \in Nat /\ y \in Nat
    OBVIOUS
  <2> QED BY <1>2, <1>3, <1>4, <2>1
<1>5. \A y \in T : x <= y
  BY <1>4
<1> QED BY <1>5

LEMMA LeastUpTo ==
  ASSUME NEW n \in Nat, NEW T, T \subseteq 0..n, T # {}
  PROVE  \E x \in T : \A y \in T : x <= y
<1>1. T \subseteq Nat
  OBVIOUS
<1> QED BY <1>1, LeastNumber

\* Functions that start and grow alike are alike at the end.
LEMMA GrowAlike ==
  ASSUME NEW n \in Nat, NEW f, NEW g,
         \A i \in 0..n : f[i] \in Nat /\ g[i] \in Nat,
         f[0] = g[0],
         \A i \in 1..n : f[i] = f[i - 1] + g[i] - g[i - 1]
  PROVE  f[n] = g[n]
<1> DEFINE Bad == {i \in 0..n : f[i] # g[i]}
<1>1. SUFFICES ASSUME Bad # {} PROVE FALSE
  OBVIOUS
<1>2. PICK i \in Bad : \A j \in Bad : i <= j
  BY <1>1, LeastUpTo
<1>3. i \in 1..n
  OBVIOUS
<1>4. i - 1 \in 0..n /\ i - 1 \notin Bad
  BY <1>2, <1>3
<1>5. f[i - 1] = g[i - 1]
  BY <1>4
<1> QED BY <1>3, <1>4, <1>5

\* u[i] is the size of the first i pieces of s.
Sums(s, u) ==
  /\ \A i \in 0..Len(s) : u[i] \in Nat
  /\ u[0] = 0
  /\ \A i \in 1..Len(s) : u[i] = u[i - 1] + s[i].size

LEMMA PieceSize == \A p \in Piece : p.size \in Nat \ {0}
BY DEF Piece

\* The recursive function in Size exists, and is what it should be.
LEMMA SizeIs ==
  ASSUME NEW s \in Seq(Piece)
  PROVE  \E u : Sums(s, u) /\ Size(s) = u[Len(s)]
<1> DEFINE Value(u, i) == IF i = 0 THEN 0 ELSE u[i - 1] + s[i].size
           Part(u, n) == u = [i \in 0..n |-> Value(u, i)]
           Bad == {n \in 0..Len(s) : ~ \E u : Part(u, n)}
<1>1. Len(s) \in Nat /\ \A i \in 1..Len(s) : s[i].size \in Nat \ {0}
  BY PieceSize, ElementOfSeq, LenProperties
<1>2. Bad = {}
  <2>1. SUFFICES ASSUME Bad # {} PROVE FALSE
    OBVIOUS
  <2>2. PICK n \in Bad : \A m \in Bad : n <= m
    BY <1>1, <2>1, LeastUpTo
  <2>3. n # 0
    <3>1. Part([i \in 0..0 |-> 0], 0)
      OBVIOUS
    <3> HIDE DEF Part
    <3>2. 0 \notin Bad
      BY <3>1
    <3> QED BY <3>2
  <2>4. PICK u : Part(u, n - 1)
    <3> HIDE DEF Part
    <3>1. n - 1 \in 0..Len(s) /\ ~(n <= n - 1)
      BY <1>1, <2>3
    <3>2. n - 1 \notin Bad
      BY <2>2, <3>1
    <3> QED BY <3>1, <3>2
  <2> DEFINE v == [i \in 0..n |-> Value(u, i)]
  <2>5. n \in Nat /\ \A i \in 0..(n - 1) : v[i] = u[i]
    BY <1>1, <2>3, <2>4
  <2>6. \A i \in 0..n : Value(v, i) = Value(u, i)
    <3> HIDE DEF v
    <3> QED BY <2>5
  <2>7. Part(v, n)
    BY <2>6
  <2> HIDE DEF Part, v
  <2> QED BY <2>7
<1> DEFINE U == CHOOSE u : Part(u, Len(s))
<1>3. Part(U, Len(s))
  <2> HIDE DEF Part
  <2>1. Len(s) \notin Bad
    BY <1>2
  <2> QED BY <1>1, <2>1
<1>4. Size(s) = U[Len(s)]
  BY DEF Size
<1> HIDE DEF U
<1>5. U[0] = 0 /\ \A i \in 1..Len(s) : U[i] = U[i - 1] + s[i].size
  BY <1>1, <1>3
<1>6. \A i \in 0..Len(s) : U[i] \in Nat
  <2> DEFINE Odd == {i \in 0..Len(s) : U[i] \notin Nat}
  <2>1. SUFFICES ASSUME Odd # {} PROVE FALSE
    OBVIOUS
  <2>2. PICK i \in Odd : \A j \in Odd : i <= j
    BY <1>1, <2>1, LeastUpTo
  <2>3. i \in 1..Len(s)
    BY <1>1, <1>5
  <2>4. i - 1 \in 0..Len(s) /\ i - 1 \notin Odd
    BY <1>1, <2>2, <2>3
  <2>5. U[i - 1] \in Nat
    BY <2>4
  <2> QED BY <1>1, <1>5, <2>3, <2>5
<1> QED BY <1>4, <1>5, <1>6 DEF Sums

-----------------------------------------------------------------------------
\* The size of a byte string.

LEMMA SizeNat ==
  ASSUME NEW s \in Seq(Piece)
  PROVE  Size(s) \in Nat /\ (s # << >> => Size(s) > 0)
<1>1. PICK u : Sums(s, u) /\ Size(s) = u[Len(s)]
  BY SizeIs
<1>2. Len(s) \in Nat /\ (s # << >> => Len(s) \in 1..Len(s))
  BY EmptySeq, LenProperties
<1>3. Size(s) \in Nat
  BY <1>1, <1>2 DEF Sums
<1>4. ASSUME s # << >> PROVE Size(s) > 0
  <2>1. s[Len(s)].size \in Nat \ {0}
    BY <1>2, <1>4, PieceSize, ElementOfSeq
  <2>2. u[Len(s)] = u[Len(s) - 1] + s[Len(s)].size /\ u[Len(s) - 1] \in Nat
    BY <1>1, <1>2, <1>4 DEF Sums
  <2> QED BY <1>1, <2>1, <2>2
<1> QED BY <1>3, <1>4

LEMMA SizeConcat ==
  ASSUME NEW s \in Seq(Piece), NEW t \in Seq(Piece)
  PROVE  s \o t \in Seq(Piece) /\ Size(s \o t) = Size(s) + Size(t)
<1>1. PICK u : Sums(s, u) /\ Size(s) = u[Len(s)]
  BY SizeIs
<1>2. PICK v : Sums(t, v) /\ Size(t) = v[Len(t)]
  BY SizeIs
<1>3. s \o t \in Seq(Piece)
  BY ConcatProperties
<1>4. PICK w : Sums(s \o t, w) /\ Size(s \o t) = w[Len(s \o t)]
  BY <1>3, SizeIs
<1>5. /\ Len(s) \in Nat /\ Len(t) \in Nat /\ Len(s \o t) = Len(s) + Len(t)
      /\ \A i \in 1..Len(s) : (s \o t)[i] = s[i]
      /\ \A i \in 1..Len(t) : (s \o t)[Len(s) + i] = t[i]
  <2>1. Len(s) \in Nat /\ Len(t) \in Nat /\ Len(s \o t) = Len(s) + Len(t)
    BY LenProperties, ConcatProperties
  <2>2. \A i \in 1..Len(s \o t) : (s \o t)[i] = IF i <= Len(s) THEN s[i] ELSE t[i - Len(s)]
    BY ConcatProperties
  <2>3. ASSUME NEW i \in 1..Len(t) PROVE (s \o t)[Len(s) + i] = t[i]
    <3>1. Len(s) + i \in 1..Len(s \o t) /\ ~(Len(s) + i <= Len(s)) /\ Len(s) + i - Len(s) = i
      BY <2>1
    <3> QED BY <2>2, <3>1
  <2>4. \A i \in 1..Len(s) : (s \o t)[i] = s[i]
    BY <2>1, <2>2
  <2> QED BY <2>1, <2>3, <2>4
<1> DEFINE n == Len(s)
           m == Len(t)
<1>6. w[n] = u[n]
  <2>1. \A i \in 0..n : w[i] \in Nat /\ u[i] \in Nat
    BY <1>1, <1>4, <1>5 DEF Sums
  <2>2. ASSUME NEW i \in 1..n PROVE w[i] = w[i - 1] + u[i] - u[i - 1]
    <3>1. u[i] = u[i - 1] + s[i].size
      BY <1>1 DEF Sums
    <3>2. w[i] = w[i - 1] + s[i].size
      <4>1. i \in 1..Len(s \o t) /\ (s \o t)[i] = s[i]
        BY <1>5
      <4>2. w[i] = w[i - 1] + (s \o t)[i].size
        BY <1>4, <4>1 DEF Sums
      <4> QED BY <4>1, <4>2, Zenon
    <3>3. PICK x \in Nat : x = s[i].size
      BY PieceSize, ElementOfSeq
    <3>4. i - 1 \in 0..n /\ i \in 0..n
      BY <1>5
    <3>5. w[i - 1] \in Nat /\ u[i - 1] \in Nat
      BY <2>1, <3>4
    <3>6. PICK a \in Nat, b \in Nat : a = w[i - 1] /\ b = u[i - 1]
      BY <3>5
    <3>7. w[i] = a + x /\ u[i] = b + x
      BY <3>1, <3>2, <3>3, <3>6
    <3>8. a + x = a + (b + x) - b
      OBVIOUS
    <3> QED BY <3>6, <3>7, <3>8
  <2>3. w[0] = u[0]
    BY <1>1, <1>4 DEF Sums
  <2> HIDE DEF n
  <2>4. n \in Nat
    BY <1>5 DEF n
  <2> QED BY <2>1, <2>2, <2>3, <2>4, GrowAlike
<1> DEFINE f == [i \in 0..m |-> w[n + i]]
           g == [i \in 0..m |-> u[n] + v[i]]
<1>7. f[m] = g[m]
  <2>1. /\ n \in Nat /\ m \in Nat /\ u[n] \in Nat
        /\ \A i \in 0..m : w[n + i] \in Nat /\ v[i] \in Nat
    BY <1>1, <1>2, <1>4, <1>5 DEF Sums
  <2>2. \A i \in 0..m : f[i] \in Nat /\ g[i] \in Nat
    BY <2>1
  <2>3. f[0] = g[0]
    BY <1>2, <1>6, <2>1 DEF Sums
  <2>4. ASSUME NEW i \in 1..m PROVE f[i] = f[i - 1] + g[i] - g[i - 1]
    <3>1. i - 1 \in 0..m /\ i \in 0..m /\ n + i \in 1..Len(s \o t) /\ n + i - 1 = n + (i - 1)
      BY <1>5, <2>1
    <3>2. v[i] = v[i - 1] + t[i].size
      BY <1>2 DEF Sums
    <3>3. w[n + i] = w[n + (i - 1)] + t[i].size
      BY <1>4, <1>5, <3>1 DEF Sums
    <3>4. t[i].size \in Nat
      BY PieceSize, ElementOfSeq
    <3>5. f[i] = w[n + i] /\ f[i - 1] = w[n + (i - 1)] /\ g[i] = u[n] + v[i] /\ g[i - 1] = u[n] + v[i - 1]
      BY <3>1
    <3>6. w[n + (i - 1)] \in Nat /\ v[i - 1] \in Nat /\ u[n] \in Nat
      BY <2>1, <3>1
    <3> HIDE DEF f, g, n, m
    <3> QED BY <3>2, <3>3, <3>4, <3>5, <3>6
  <2> HIDE DEF f, g, m
  <2> QED BY <2>1, <2>2, <2>3, <2>4, GrowAlike
<1>8. f[m] = w[n + m] /\ g[m] = u[n] + v[m]
  BY <1>5
<1> QED BY <1>1, <1>2, <1>3, <1>4, <1>5, <1>7, <1>8

\* A string of single bytes.
LEMMA SizeOfBytes ==
  ASSUME NEW s \in Seq(Piece), \A i \in 1..Len(s) : s[i].size = 1
  PROVE  Size(s) = Len(s)
<1>1. PICK u : Sums(s, u) /\ Size(s) = u[Len(s)]
  BY SizeIs
<1> DEFINE g == [i \in 0..Len(s) |-> i]
<1>2. Len(s) \in Nat
  BY LenProperties
<1>3. \A i \in 0..Len(s) : u[i] \in Nat /\ g[i] = i
  BY <1>1 DEF Sums
<1>4. u[0] = g[0]
  BY <1>1, <1>2 DEF Sums
<1>5. \A i \in 1..Len(s) : u[i] = u[i - 1] + g[i] - g[i - 1]
  <2>1. TAKE i \in 1..Len(s)
  <2>2. u[i] = u[i - 1] + 1 /\ i - 1 \in 0..Len(s)
    BY <1>1, <1>2 DEF Sums
  <2> QED BY <1>2, <1>3, <2>2
<1>6. u[Len(s)] = g[Len(s)]
  <2> HIDE DEF g
  <2> QED BY <1>2, <1>3, <1>4, <1>5, GrowAlike
<1> QED BY <1>1, <1>2, <1>3, <1>6

LEMMA SizeOne ==
  ASSUME NEW p \in Piece
  PROVE  <<p>> \in Seq(Piece) /\ Size(<<p>>) = p.size
<1>1. <<p>> \in Seq(Piece) /\ Len(<<p>>) = 1 /\ <<p>>[1] = p
  OBVIOUS
<1>2. PICK u : Sums(<<p>>, u) /\ Size(<<p>>) = u[Len(<<p>>)]
  BY <1>1, SizeIs
<1>3. u[1] = u[0] + p.size /\ u[0] = 0
  BY <1>1, <1>2 DEF Sums
<1>4. p.size \in Nat
  BY PieceSize
<1> QED BY <1>1, <1>2, <1>3, <1>4

-----------------------------------------------------------------------------
\* Words and heads.

LEMMA DivMod ==
  ASSUME NEW n \in Nat
  PROVE  n \div 256 \in Nat /\ n % 256 \in 0..255 /\ n = 256 * (n \div 256) + (n % 256)
<1>1. n \div 256 \in Nat /\ n % 256 \in 0..255
  OBVIOUS
<1>2. n = 256 * (n \div 256) + (n % 256)
  OBVIOUS
<1> QED BY <1>1, <1>2

LEMMA WordOfTwo ==
  ASSUME NEW a \in 0..255, NEW b \in 0..255
  PROVE  <<0, 0, 0, 0, 0, 0, a, b>> \in [1..8 -> 0..255]
OBVIOUS

LEMMA HighByte ==
  ASSUME NEW n \in Short
  PROVE  n \div 256 \in 0..255 /\ n % 256 \in 0..255
<1>1. n \in Nat /\ n \div 256 <= 255
  BY DEF Short
<1> QED BY <1>1, DivMod

LEMMA U64Bytes ==
  ASSUME NEW n \in Short
  PROVE  /\ U64(n) \in Word
         /\ \A i \in 1..6 : U64(n)[i] = 0
         /\ U64(n)[7] = n \div 256 /\ U64(n)[8] = n % 256
<1>1. n \div 256 \in 0..255 /\ n % 256 \in 0..255
  BY HighByte, Zenon
<1>2. PICK a \in 0..255, b \in 0..255 : a = n \div 256 /\ b = n % 256
  BY <1>1, Zenon
<1> DEFINE t == <<0, 0, 0, 0, 0, 0, a, b>>
<1>3. U64(n) = t
  BY <1>2 DEF U64
<1>4. t \in Word
  BY WordOfTwo, Zenon DEF Word
<1>5. (\A i \in 1..6 : t[i] = 0) /\ t[7] = a /\ t[8] = b
  OBVIOUS
<1> HIDE DEF t
<1> QED BY <1>2, <1>3, <1>4, <1>5, Zenon

LEMMA SmallIsShort == \A n \in 0..255 : n \in Short
<1>1. TAKE n \in 0..255
<1>2. n \div 256 = 0
  BY SMT
<1> QED BY <1>2 DEF Short

LEMMA U64Small ==
  ASSUME NEW n \in 0..255
  PROVE  U64(n) \in Word /\ U64(n)[8] = n /\ \A i \in 1..7 : U64(n)[i] = 0
<1>1. n \in Short
  BY SmallIsShort
<1>2. n \div 256 = 0 /\ n % 256 = n
  BY SMT
<1>3. U64(n) \in Word /\ (\A i \in 1..6 : U64(n)[i] = 0) /\ U64(n)[7] = 0 /\ U64(n)[8] = n
  <2>1. /\ U64(n) \in Word
        /\ \A i \in 1..6 : U64(n)[i] = 0
        /\ U64(n)[7] = n \div 256 /\ U64(n)[8] = n % 256
    BY <1>1, U64Bytes
  <2> QED BY <1>2, <2>1
<1>4. \A i \in 1..7 : i \in 1..6 \/ i = 7
  OBVIOUS
<1> QED BY <1>3, <1>4, Zenon

LEMMA U64Injective ==
  ASSUME NEW m \in Nat, NEW n \in Nat, U64(m) = U64(n)
  PROVE  m = n
<1> DEFINE a == m \div 256  b == m % 256  c == n \div 256  d == n % 256
<1>1. <<0, 0, 0, 0, 0, 0, a, b>> = <<0, 0, 0, 0, 0, 0, c, d>>
  BY DEF U64
<1>2. m = 256 * a + b /\ n = 256 * c + d
  BY DivMod
<1> HIDE DEF a, b, c, d
<1>3. a = c /\ b = d
  BY <1>1
<1> QED BY <1>2, <1>3

\* The width that write_head chooses.
Width(v) == CHOOSE w \in Widths : Fits(v, w) /\ \A x \in Widths : Fits(v, x) => w <= x

LEMMA WidthFits ==
  ASSUME NEW v \in Word
  PROVE  /\ Width(v) \in Widths /\ Fits(v, Width(v))
         /\ \A x \in Widths : Fits(v, x) => Width(v) <= x
<1> DEFINE W == {w \in Widths : Fits(v, w)}
<1>1. 8 \in W
  BY DEF Widths, Fits
<1>2. W \subseteq 0..8
  BY DEF Widths
<1>3. \E w \in W : \A x \in W : w <= x
  BY <1>1, <1>2, LeastUpTo
<1>4. \E w \in Widths : Fits(v, w) /\ \A x \in Widths : Fits(v, x) => w <= x
  BY <1>3
<1> QED BY <1>4 DEF Width

\* One byte for arguments below 24, and two up to 255.
LEMMA WidthOfSmall ==
  ASSUME NEW n \in 0..255
  PROVE  Width(U64(n)) = IF n < 24 THEN 0 ELSE 1
<1> DEFINE v == U64(n)
<1>1. v \in Word /\ v[8] = n /\ \A i \in 1..7 : v[i] = 0
  BY U64Small
<1> HIDE DEF v
<1>2. Fits(v, 0) <=> n < 24
  BY <1>1 DEF Fits
<1>3. Fits(v, 1)
  BY <1>1 DEF Fits
<1>4. /\ Width(v) \in Widths /\ Fits(v, Width(v))
      /\ \A x \in Widths : Fits(v, x) => Width(v) <= x
  BY <1>1, WidthFits
<1>5. ASSUME n < 24 PROVE Width(v) = 0
  <2>1. Width(v) <= 0
    BY <1>2, <1>4, <1>5 DEF Widths
  <2> QED BY <1>4, <2>1 DEF Widths
<1>6. ASSUME ~(n < 24) PROVE Width(v) = 1
  <2>1. Width(v) <= 1
    BY <1>3, <1>4 DEF Widths
  <2>2. Width(v) # 0
    BY <1>2, <1>4, <1>6
  <2> QED BY <1>4, <2>1, <2>2 DEF Widths
<1> QED BY <1>5, <1>6 DEF v

\* What a head announces.
Info(v, width) == IF width = 0 THEN v[8] ELSE InfoOf(width)

LEMMA InfoTellsWidth ==
  ASSUME NEW v \in Word, NEW w \in Widths, Fits(v, w)
  PROVE  /\ Info(v, w) \in 0..27
         /\ w = 0 <=> Info(v, w) < 24
         /\ \A x \in Widths \ {0} : Info(v, w) = InfoOf(x) <=> x = w
<1>1. InfoOf(1) = 24 /\ InfoOf(2) = 25 /\ InfoOf(4) = 26 /\ InfoOf(8) = 27
  BY DEF InfoOf
<1>2. v[8] \in 0..255
  BY DEF Word
<1>3. w = 0 => v[8] < 24
  BY DEF Fits
<1> QED BY <1>1, <1>2, <1>3 DEF Widths, Info

LEMMA BytePiece ==
  ASSUME NEW b \in Nat
  PROVE  Byte(b) \in Piece /\ Byte(b).byte = b /\ Byte(b).size = 1
BY DEF Byte, Piece

LEMMA HeadParts ==
  ASSUME NEW major \in 0..6, NEW v \in Word, NEW w \in Widths, Fits(v, w)
  PROVE  LET h == HeadOfWidth(major, v, w) IN
         /\ h \in Seq(Piece) /\ Len(h) = w + 1 /\ Size(h) = w + 1
         /\ h[1] = Byte(32 * major + Info(v, w))
         /\ \A i \in 1..w : h[i + 1] = Byte(v[8 - w + i])
<1> DEFINE b == Byte(32 * major + Info(v, w))
           t == [i \in 1..w |-> Byte(v[8 - w + i])]
           h == <<b>> \o t
<1>1. HeadOfWidth(major, v, w) = h
  BY DEF HeadOfWidth, Info
<1>2. b \in Piece
  <2>1. 32 * major + Info(v, w) \in Nat
    BY InfoTellsWidth
  <2> QED BY <2>1, BytePiece
<1>3. w \in 0..8 /\ \A i \in 1..w : 8 - w + i \in 1..8
  BY DEF Widths
<1>4. \A i \in 1..w : v[8 - w + i] \in Nat
  <2>1. \A j \in 1..8 : v[j] \in 0..255
    BY DEF Word
  <2>2. 0..255 \subseteq Nat
    OBVIOUS
  <2> QED BY <1>3, <2>1, <2>2, Zenon
<1>5. t \in [1..w -> Piece]
  BY <1>4, BytePiece
<1>6. t \in Seq(Piece) /\ Len(t) = w
  <2> HIDE DEF t
  <2> QED BY <1>3, <1>5
<1>7. <<b>> \in Seq(Piece) /\ Len(<<b>>) = 1 /\ <<b>>[1] = b
  <2> HIDE DEF b
  <2> QED BY <1>2
<1>8. \A i \in 1..w : t[i] = Byte(v[8 - w + i])
  OBVIOUS
<1> HIDE DEF b, t
<1>9. h \in Seq(Piece) /\ Len(h) = w + 1 /\ h[1] = b /\ \A i \in 1..w : h[i + 1] = t[i]
  <2>1. h \in Seq(Piece) /\ Len(h) = w + 1
    BY <1>3, <1>6, <1>7, ConcatProperties
  <2>2. \A i \in 1..(w + 1) : h[i] = IF i <= 1 THEN <<b>>[i] ELSE t[i - 1]
    BY <1>3, <1>6, <1>7, <2>1, ConcatProperties
  <2>3. h[1] = b
    BY <1>3, <1>7, <2>2
  <2>4. ASSUME NEW i \in 1..w PROVE h[i + 1] = t[i]
    <3>1. i + 1 \in 1..(w + 1) /\ ~(i + 1 <= 1) /\ i + 1 - 1 = i
      BY <1>3
    <3> HIDE DEF h
    <3> QED BY <2>2, <3>1
  <2> QED BY <2>1, <2>3, <2>4
<1>10. Size(h) = w + 1
  <2>1. b.size = 1
    <3>1. 32 * major + Info(v, w) \in Nat
      BY InfoTellsWidth
    <3> QED BY <3>1, BytePiece DEF b
  <2>2. Size(<<b>>) = 1
    BY <1>2, <2>1, SizeOne
  <2>3. Size(t) = w
    <3>1. \A i \in 1..Len(t) : t[i].size = 1
      BY <1>4, <1>6, <1>8, BytePiece
    <3> QED BY <1>6, <3>1, SizeOfBytes
  <2>4. Size(<<b>> \o t) = Size(<<b>>) + Size(t)
    BY <1>6, <1>7, SizeConcat
  <2> QED BY <1>3, <2>2, <2>3, <2>4
<1> HIDE DEF h
<1> QED BY <1>1, <1>8, <1>9, <1>10 DEF b

\* The byte of a major type and what follows it.
LEMMA InitialByte ==
  ASSUME NEW major \in 0..6, NEW info \in 0..27
  PROVE  /\ 32 * major + info \in Nat
         /\ (32 * major + info) \div 32 = major /\ (32 * major + info) % 32 = info
<1>1. 32 * major + info \in Nat
  OBVIOUS
<1>2. (32 * major + info) \div 32 = major /\ (32 * major + info) % 32 = info
  OBVIOUS
<1> QED BY <1>1, <1>2

\* The beginning and the end of a concatenation.
LEMMA Parts ==
  ASSUME NEW s \in Seq(Piece), NEW t \in Seq(Piece)
  PROVE  /\ s \o t \in Seq(Piece) /\ Len(s \o t) = Len(s) + Len(t)
         /\ \A i \in 1..Len(s) : (s \o t)[i] = s[i]
         /\ \A i \in 1..Len(t) : (s \o t)[Len(s) + i] = t[i]
         /\ SubSeq(s \o t, 1, Len(s)) = s
         /\ SubSeq(s \o t, Len(s) + 1, Len(s \o t)) = t
<1>1. s \o t \in Seq(Piece) /\ Len(s) \in Nat /\ Len(t) \in Nat /\ Len(s \o t) = Len(s) + Len(t)
  BY LenProperties, ConcatProperties
<1>2. \A i \in 1..Len(s \o t) : (s \o t)[i] = IF i <= Len(s) THEN s[i] ELSE t[i - Len(s)]
  BY ConcatProperties
<1>3. \A i \in 1..Len(s) : (s \o t)[i] = s[i]
  BY <1>1, <1>2
<1>4. ASSUME NEW i \in 1..Len(t) PROVE (s \o t)[Len(s) + i] = t[i]
  <2>1. Len(s) + i \in 1..Len(s \o t) /\ ~(Len(s) + i <= Len(s)) /\ Len(s) + i - Len(s) = i
    BY <1>1
  <2> QED BY <1>2, <2>1
<1> DEFINE z == s \o t
<1>5. z \in Seq(Piece) /\ Len(z) = Len(s) + Len(t)
  BY <1>1
<1>6. /\ \A i \in 1..Len(s) : z[i] = s[i]
      /\ \A i \in 1..Len(t) : z[Len(s) + i] = t[i]
  BY <1>3, <1>4
<1> HIDE DEF z
<1>7. SubSeq(z, 1, Len(s)) = s
  <2> DEFINE a == SubSeq(z, 1, Len(s))
  <2>1. a \in Seq(Piece) /\ Len(a) = Len(s) /\ \A i \in 1..Len(s) : a[i] = z[i]
    BY <1>1, <1>5
  <2> HIDE DEF a
  <2>2. a = s
    BY <1>1, <1>6, <2>1, SeqEqual
  <2> QED BY <2>2 DEF a
<1>8. SubSeq(z, Len(s) + 1, Len(z)) = t
  <2> DEFINE a == SubSeq(z, Len(s) + 1, Len(z))
  <2>1. a \in Seq(Piece) /\ Len(a) = Len(t) /\ \A i \in 1..Len(t) : a[i] = z[Len(s) + i]
    BY <1>1, <1>5
  <2> HIDE DEF a
  <2>2. a = t
    BY <1>1, <1>6, <2>1, SeqEqual
  <2> QED BY <2>2 DEF a
<1> QED BY <1>1, <1>3, <1>4, <1>7, <1>8 DEF z

LEMMA Associative ==
  ASSUME NEW s \in Seq(Piece), NEW t \in Seq(Piece), NEW u \in Seq(Piece)
  PROVE  (s \o t) \o u = s \o (t \o u)
BY ConcatAssociative

\* ReadHead reads a head of any width, and leaves what follows it.
LEMMA ReadHeadWritten ==
  ASSUME NEW major \in 0..6, NEW v \in Word, NEW w \in Widths, Fits(v, w),
         NEW rest \in Seq(Piece)
  PROVE  ReadHead(HeadOfWidth(major, v, w) \o rest)
           = {[major |-> major, arg |-> v, rest |-> rest]}
<1> DEFINE h == HeadOfWidth(major, v, w)
           s == h \o rest
           info == Info(v, w)
<1>1. /\ h \in Seq(Piece) /\ Len(h) = w + 1
      /\ h[1] = Byte(32 * major + info)
      /\ \A i \in 1..w : h[i + 1] = Byte(v[8 - w + i])
  BY HeadParts
<1>2. /\ info \in 0..27 /\ (w = 0 <=> info < 24)
      /\ \A x \in Widths \ {0} : info = InfoOf(x) <=> x = w
  BY InfoTellsWidth
<1>3. w \in 0..8 /\ Len(rest) \in Nat /\ Widths \subseteq 0..8
  BY LenProperties DEF Widths
<1> HIDE DEF h, info
<1>4. /\ s \in Seq(Piece) /\ Len(s) = w + 1 + Len(rest)
      /\ \A i \in 1..(w + 1) : s[i] = h[i]
      /\ SubSeq(s, w + 2, Len(s)) = rest
  <2>1. w + 1 + 1 = w + 2
    BY <1>3
  <2>2. /\ s \in Seq(Piece) /\ Len(s) = Len(h) + Len(rest)
        /\ \A i \in 1..Len(h) : s[i] = h[i]
        /\ SubSeq(s, Len(h) + 1, Len(s)) = rest
    BY <1>1, Parts, Zenon
  <2> HIDE DEF s
  <2> QED BY <1>1, <2>1, <2>2
<1> HIDE DEF s
<1>5. s[1].byte \div 32 = major /\ s[1].byte % 32 = info /\ s[1].size = 1
  <2>1. s[1] = Byte(32 * major + info)
    BY <1>1, <1>3, <1>4
  <2> DEFINE b == 32 * major + info
  <2>2. b \in Nat /\ b \div 32 = major /\ b % 32 = info
    BY <1>2, InitialByte
  <2>3. s[1].byte = b /\ s[1].size = 1
    BY <2>1, <2>2, BytePiece, Zenon
  <2> QED BY <2>2, <2>3, Zenon
<1>6. ASSUME NEW i \in 1..w PROVE s[i + 1] = Byte(v[8 - w + i])
  <2>1. i + 1 \in 1..(w + 1)
    BY <1>3
  <2> QED BY <1>1, <1>4, <2>1, Zenon
<1>7. \A j \in 1..8 : v[j] \in Nat
  <2>1. \A j \in 1..8 : v[j] \in 0..255
    BY DEF Word
  <2>2. 0..255 \subseteq Nat
    OBVIOUS
  <2> QED BY <2>1, <2>2, Zenon
<1>8. ASSUME NEW i \in 1..(w + 1) PROVE s[i].size = 1
  <2>1. CASE i = 1
    BY <1>5, <2>1
  <2>2. CASE i # 1
    <3>1. i - 1 \in 1..w /\ i - 1 + 1 = i /\ 8 - w + (i - 1) \in 1..8
      BY <1>3, <2>2
    <3>2. PICK j \in 1..8 : j = 8 - w + (i - 1)
      BY <3>1
    <3>3. s[i] = Byte(v[j])
      BY <1>6, <3>1, <3>2
    <3>4. v[j] \in Nat
      BY <1>7
    <3> QED BY <3>3, <3>4, BytePiece, Zenon
  <2> QED BY <2>1, <2>2
<1> DEFINE Announced(x) == IF x = 0 THEN s[1].byte % 32 < 24 ELSE s[1].byte % 32 = InfoOf(x)
           W == {x \in Widths : /\ Len(s) > x /\ \A i \in 1..(x + 1) : s[i].size = 1
                                /\ Announced(x)}
           Arg(x) == [i \in 1..8 |-> IF x = 0
                                     THEN IF i = 8 THEN s[1].byte % 32 ELSE 0
                                     ELSE IF i <= 8 - x THEN 0 ELSE s[i + x - 7].byte]
           Result(x) == [major |-> s[1].byte \div 32, arg |-> Arg(x),
                         rest |-> SubSeq(s, x + 2, Len(s))]
<1>9. ReadHead(s) = {Result(x) : x \in W}
  BY DEF ReadHead
<1>10. W = {w}
  <2>1. \A x \in Widths : Announced(x) <=> x = w
    BY <1>2, <1>5
  <2>2. Len(s) > w
    BY <1>3, <1>4
  <2> HIDE DEF Announced
  <2> QED BY <1>8, <2>1, <2>2
<1>11. Arg(w) = v
  <2>1. ASSUME NEW i \in 1..8 PROVE Arg(w)[i] = v[i]
    <3>1. CASE w = 0
      <4>1. info = v[8] /\ \A j \in 1..7 : v[j] = 0
        BY <3>1 DEF info, Info, Fits
      <4> QED BY <1>5, <3>1, <4>1
    <3>2. CASE w # 0 /\ i <= 8 - w
      <4>1. v[i] = 0
        BY <1>3, <3>2 DEF Fits
      <4> QED BY <3>2, <4>1
    <3>3. CASE w # 0 /\ ~(i <= 8 - w)
      <4>1. i + w - 8 \in 1..w /\ i + w - 8 + 1 = i + w - 7 /\ 8 - w + (i + w - 8) = i
        BY <1>3, <3>3
      <4>2. s[i + w - 7] = Byte(v[i])
        BY <1>6, <4>1
      <4>3. s[i + w - 7].byte = v[i]
        BY <1>7, <4>2, BytePiece, Zenon
      <4> QED BY <3>3, <4>3
    <3> QED BY <3>1, <3>2, <3>3
  <2> DEFINE a == Arg(w)
  <2>2. DOMAIN a = 1..8 /\ a = [i \in 1..8 |-> a[i]]
    OBVIOUS
  <2>3. \A i \in 1..8 : a[i] = v[i]
    BY <2>1
  <2>4. v = [i \in 1..8 |-> v[i]]
    BY DEF Word
  <2> HIDE DEF a
  <2>5. a = v
    BY <2>2, <2>3, <2>4
  <2> QED BY <2>5 DEF a
<1> HIDE DEF W, Arg
<1>12. Result(w) = [major |-> major, arg |-> v, rest |-> rest]
  BY <1>4, <1>5, <1>11
<1>13. {Result(x) : x \in W} = {Result(w)}
  <2> HIDE DEF Result
  <2> QED BY <1>10
<1> HIDE DEF Result
<1> QED BY <1>9, <1>12, <1>13 DEF s, h

-----------------------------------------------------------------------------
\* What is read of a written head, string and integer.

LEMMA WriteHeadIs ==
  ASSUME NEW major \in 0..6, NEW v \in Word
  PROVE  /\ WriteHead(major, v) = HeadOfWidth(major, v, Width(v))
         /\ WriteHead(major, v) \in Seq(Piece)
         /\ Size(WriteHead(major, v)) = Width(v) + 1
<1>1. WriteHead(major, v) = HeadOfWidth(major, v, Width(v))
  BY DEF WriteHead, Width
<1>2. Width(v) \in Widths /\ Fits(v, Width(v))
  BY WidthFits
<1>3. HeadOfWidth(major, v, Width(v)) \in Seq(Piece)
      /\ Size(HeadOfWidth(major, v, Width(v))) = Width(v) + 1
  BY <1>2, HeadParts
<1> QED BY <1>1, <1>3

LEMMA ExpectHead ==
  ASSUME NEW major \in 0..6, NEW v \in Word, NEW w \in Widths, Fits(v, w),
         NEW rest \in Seq(Piece)
  PROVE  Expect(HeadOfWidth(major, v, w) \o rest, major, v) = {rest}
<1> DEFINE s == HeadOfWidth(major, v, w) \o rest
           r == [major |-> major, arg |-> v, rest |-> rest]
<1>1. ReadHead(s) = {r}
  BY ReadHeadWritten
<1>2. r.major = major /\ r.arg = v /\ r.rest = rest
  OBVIOUS
<1> HIDE DEF s, r
<1>3. { h \in {r} : h.major = major /\ h.arg = v } = {r}
  BY <1>2
<1>4. { h.rest : h \in {r} } = {rest}
  BY <1>2
<1>5. Expect(s, major, v) = {rest}
  BY <1>1, <1>3, <1>4 DEF Expect
<1> QED BY <1>5 DEF s

LEMMA ExpectWritten ==
  ASSUME NEW major \in 0..6, NEW v \in Word, NEW rest \in Seq(Piece)
  PROVE  Expect(WriteHead(major, v) \o rest, major, v) = {rest}
<1>1. WriteHead(major, v) = HeadOfWidth(major, v, Width(v))
  BY WriteHeadIs
<1>2. Width(v) \in Widths /\ Fits(v, Width(v))
  BY WidthFits
<1> QED BY <1>1, <1>2, ExpectHead

\* A longer beginning is larger.
LEMMA PrefixSize ==
  ASSUME NEW z \in Seq(Piece), NEW k \in 0..Len(z), NEW j \in 0..Len(z), j < k
  PROVE  Size(SubSeq(z, 1, j)) < Size(SubSeq(z, 1, k))
<1> DEFINE a == SubSeq(z, 1, j)
           b == SubSeq(z, j + 1, k)
           c == SubSeq(z, 1, k)
<1>1. Len(z) \in Nat
  BY LenProperties
<1>2. a \in Seq(Piece) /\ Len(a) = j /\ \A i \in 1..j : a[i] = z[i]
  BY <1>1
<1>3. b \in Seq(Piece) /\ Len(b) = k - j /\ \A i \in 1..(k - j) : b[i] = z[j + i]
  BY <1>1
<1>4. c \in Seq(Piece) /\ Len(c) = k /\ \A i \in 1..k : c[i] = z[i]
  BY <1>1
<1> HIDE DEF a, b, c
<1>5. c = a \o b
  <2>1. a \o b \in Seq(Piece) /\ Len(a \o b) = k
    <3>1. a \o b \in Seq(Piece) /\ Len(a \o b) = Len(a) + Len(b)
      BY <1>2, <1>3, ConcatProperties, Zenon
    <3>2. j + (k - j) = k
      BY <1>1
    <3> QED BY <1>2, <1>3, <3>1, <3>2, Zenon
  <2>2. /\ \A i \in 1..j : (a \o b)[i] = a[i]
        /\ \A i \in 1..(k - j) : (a \o b)[j + i] = b[i]
    BY <1>2, <1>3, Parts
  <2>3. ASSUME NEW i \in 1..k PROVE (a \o b)[i] = z[i]
    <3>1. CASE i <= j
      BY <1>1, <1>2, <2>2, <3>1
    <3>2. CASE ~(i <= j)
      <4>1. i - j \in 1..(k - j) /\ j + (i - j) = i
        BY <1>1, <3>2
      <4> QED BY <1>3, <2>2, <4>1
    <3> QED BY <3>1, <3>2
  <2>4. \A i \in 1..Len(c) : c[i] = (a \o b)[i]
    BY <1>4, <2>3
  <2> QED BY <1>4, <2>1, <2>4, SeqEqual
<1>6. b # << >>
  <2>1. Len(b) > 0
    BY <1>1, <1>3
  <2> QED BY <2>1
<1>7. Size(a) \in Nat /\ Size(b) \in Nat /\ Size(b) > 0
  BY <1>2, <1>3, <1>6, SizeNat
<1>8. Size(a \o b) = Size(a) + Size(b)
  BY <1>2, <1>3, SizeConcat
<1>9. Size(a) < Size(c)
  BY <1>5, <1>7, <1>8
<1> QED BY <1>9 DEF a, c

\* ReadString reads a written string: no other length has the size of the head.
LEMMA ReadStringWritten ==
  ASSUME NEW major \in 0..6, NEW s \in Seq(Piece), Size(s) \in Short, NEW rest \in Seq(Piece)
  PROVE  ReadString(WriteString(major, s) \o rest, major) = {[value |-> s, rest |-> rest]}
<1> DEFINE z == s \o rest
           head == WriteHead(major, U64(Size(s)))
           x == [major |-> major, arg |-> U64(Size(s)), rest |-> z]
           all == WriteString(major, s) \o rest
<1>1. U64(Size(s)) \in Word
  BY U64Bytes
<1>2. head \in Seq(Piece) /\ head = HeadOfWidth(major, U64(Size(s)), Width(U64(Size(s))))
  BY <1>1, WriteHeadIs
<1>3. /\ z \in Seq(Piece) /\ Len(z) = Len(s) + Len(rest)
      /\ SubSeq(z, 1, Len(s)) = s /\ SubSeq(z, Len(s) + 1, Len(z)) = rest
  BY Parts
<1>4. all = head \o z
  <2>1. all = (head \o s) \o rest
    BY DEF WriteString
  <2> HIDE DEF head
  <2>2. (head \o s) \o rest = head \o (s \o rest)
    BY <1>2, Associative
  <2> QED BY <2>1, <2>2, Zenon
<1>5. ReadHead(all) = {x}
  <2>1. Width(U64(Size(s))) \in Widths /\ Fits(U64(Size(s)), Width(U64(Size(s))))
    BY <1>1, WidthFits
  <2> HIDE DEF z
  <2> QED BY <1>1, <1>2, <1>3, <1>4, <2>1, ReadHeadWritten
<1>6. x.major = major /\ x.arg = U64(Size(s)) /\ x.rest = z
  OBVIOUS
<1> HIDE DEF z, head, x, all
<1>7. Len(s) \in 0..Len(z)
  BY <1>3, LenProperties
<1> DEFINE Ends(h) == {k \in 0..Len(h.rest) : U64(Size(SubSeq(h.rest, 1, k))) = h.arg}
           Cut(h, k) == [value |-> SubSeq(h.rest, 1, k), rest |-> SubSeq(h.rest, k + 1, Len(h.rest))]
<1>8. Ends(x) = {Len(s)}
  <2>1. ASSUME NEW k \in 0..Len(z), U64(Size(SubSeq(z, 1, k))) = U64(Size(s)) PROVE k = Len(s)
    <3>1. SubSeq(z, 1, k) \in Seq(Piece)
      BY <1>3
    <3>2. Size(SubSeq(z, 1, k)) \in Nat /\ Size(s) \in Nat
      BY <3>1, SizeNat
    <3>3. Size(SubSeq(z, 1, k)) = Size(s)
      BY <2>1, <3>2, U64Injective
    <3>4. ~(Size(s) < Size(SubSeq(z, 1, k))) /\ ~(Size(SubSeq(z, 1, k)) < Size(s))
      BY <3>2, <3>3
    <3>5. ~(k < Len(s)) /\ ~(Len(s) < k)
      BY <1>3, <1>7, <3>4, PrefixSize
    <3> QED BY <1>7, <3>5
  <2> QED BY <1>3, <1>6, <1>7, <2>1
<1>9. Cut(x, Len(s)) = [value |-> s, rest |-> rest]
  BY <1>3, <1>6
<1>10. {h \in {x} : h.major = major} = {x}
  BY <1>6
<1> HIDE DEF Ends, Cut
<1>11. ReadString(all, major) = UNION {{Cut(h, k) : k \in Ends(h)} : h \in {x}}
  BY <1>5, <1>10 DEF ReadString, Then, Ends, Cut
<1>12. {Cut(x, k) : k \in Ends(x)} = {Cut(x, Len(s))}
  BY <1>8
<1>13. ReadString(all, major) = {Cut(x, Len(s))}
  BY <1>11, <1>12
<1> QED BY <1>9, <1>13 DEF all

-----------------------------------------------------------------------------
\* Two's complement.

LEMMA WordBytes ==
  ASSUME NEW v \in Word
  PROVE  v = [i \in 1..8 |-> v[i]] /\ \A i \in 1..8 : v[i] \in 0..255
BY DEF Word

LEMMA WordEqual ==
  ASSUME NEW v \in Word, NEW u \in Word, \A i \in 1..8 : v[i] = u[i]
  PROVE  v = u
BY DEF Word

LEMMA ComplementTwice ==
  ASSUME NEW v \in Word
  PROVE  /\ Complement(v) \in Word /\ Complement(Complement(v)) = v
         /\ IsNegative(Complement(v)) <=> ~IsNegative(v)
<1>1. \A i \in 1..8 : v[i] \in 0..255
  BY WordBytes
<1> DEFINE c == Complement(v)
<1>2. c = [i \in 1..8 |-> 255 - v[i]]
  BY DEF Complement
<1> HIDE DEF c
<1>3. \A i \in 1..8 : c[i] = 255 - v[i] /\ c[i] \in 0..255 /\ 255 - c[i] = v[i]
  <2>1. TAKE i \in 1..8
  <2>2. v[i] \in 0..255 /\ c[i] = 255 - v[i]
    BY <1>1, <1>2
  <2> QED BY <2>2
<1>4. c \in Word
  <2>1. c = [i \in 1..8 |-> c[i]]
    BY <1>2
  <2> QED BY <1>3, <2>1 DEF Word
<1> DEFINE d == Complement(c)
<1>5. d = [i \in 1..8 |-> 255 - c[i]]
  BY DEF Complement
<1> HIDE DEF d
<1>6. \A i \in 1..8 : d[i] = v[i]
  BY <1>3, <1>5
<1>7. d = [i \in 1..8 |-> d[i]]
  BY <1>5
<1>8. d = v
  BY <1>6, <1>7, WordBytes
<1>9. IsNegative(c) <=> ~IsNegative(v)
  <2>1. v[1] \in 0..255 /\ c[1] = 255 - v[1]
    BY <1>1, <1>3
  <2>2. (c[1] >= 128) <=> ~(v[1] >= 128)
    BY <2>1
  <2> QED BY <2>2, Zenon DEF IsNegative
<1> QED BY <1>4, <1>8, <1>9 DEF c, d

LEMMA ByteSteps ==
  ASSUME NEW b \in 0..255
  PROVE  /\ (b + 1) % 256 = IF b = 255 THEN 0 ELSE b + 1
         /\ (((b + 1) % 256) + 255) % 256 = b
<1>1. CASE b = 255
  BY <1>1, SMT
<1>2. CASE b # 255
  <2>1. (b + 1) % 256 = b + 1
    BY <1>2, SMT
  <2>2. (b + 256) % 256 = b
    BY SMT
  <2>3. b + 1 + 255 = b + 256
    BY SMT
  <2> QED BY <1>2, <2>1, <2>2, <2>3
<1> QED BY <1>1, <1>2

\* The carry of Plus1 goes as far as the borrow of Minus1.
LEMMA MinusPlus ==
  ASSUME NEW u \in Word
  PROVE  Plus1(u) \in Word /\ Minus1(Plus1(u)) = u
<1> DEFINE Carry(i) == \A j \in (i + 1)..8 : u[j] = 255
           p == Plus1(u)
           Borrow(i) == \A j \in (i + 1)..8 : p[j] = 0
<1>1. \A i \in 1..8 : u[i] \in 0..255
  BY WordBytes
<1>2. p = [i \in 1..8 |-> IF Carry(i) THEN (u[i] + 1) % 256 ELSE u[i]]
  BY DEF Plus1
<1>3. \A i \in 1..8 : p[i] = IF Carry(i) THEN (u[i] + 1) % 256 ELSE u[i]
  BY <1>2
<1> HIDE DEF p
<1>4. \A i \in 1..8 : p[i] \in 0..255
  <2> HIDE DEF Carry
  <2>1. TAKE i \in 1..8
  <2>2. u[i] \in 0..255
    BY <1>1
  <2>3. (u[i] + 1) % 256 = IF u[i] = 255 THEN 0 ELSE u[i] + 1
    BY <2>2, ByteSteps
  <2>4. (u[i] + 1) % 256 \in 0..255
    BY <2>2, <2>3
  <2> QED BY <1>3, <2>2, <2>4
<1>5. p \in Word
  <2> HIDE DEF Carry
  <2>1. p = [i \in 1..8 |-> p[i]]
    BY <1>2
  <2> QED BY <1>4, <2>1 DEF Word
<1>6. ASSUME NEW i \in 1..8 PROVE Borrow(i) <=> Carry(i)
  <2>1. ASSUME Carry(i) PROVE Borrow(i)
    <3>1. TAKE j \in (i + 1)..8
    <3>2. j \in 1..8 /\ u[j] = 255 /\ Carry(j)
      BY <2>1
    <3>3. p[j] = (255 + 1) % 256
      BY <1>3, <3>2
    <3>4. (255 + 1) % 256 = 0
      BY SMT
    <3> QED BY <3>3, <3>4
  <2>2. ASSUME Borrow(i), ~Carry(i) PROVE FALSE
    <3> DEFINE Low == {n \in 0..7 : 8 - n \in (i + 1)..8 /\ u[8 - n] # 255}
    <3>1. Low # {}
      <4>1. PICK j \in (i + 1)..8 : u[j] # 255
        BY <2>2
      <4>2. 8 - j \in 0..7 /\ 8 - (8 - j) = j
        OBVIOUS
      <4>3. 8 - (8 - j) \in (i + 1)..8 /\ u[8 - (8 - j)] # 255
        BY <4>1, <4>2
      <4>4. 8 - j \in Low
        BY <4>2, <4>3
      <4> HIDE DEF Low
      <4> QED BY <4>4
    <3>2. PICK n \in Low : \A m \in Low : n <= m
      <4>1. Low \subseteq 0..7 /\ 7 \in Nat
        OBVIOUS
      <4> HIDE DEF Low
      <4> QED BY <3>1, <4>1, LeastUpTo
    <3>3. PICK j \in (i + 1)..8 : j = 8 - n
      OBVIOUS
    <3>4. j \in 1..8 /\ u[j] # 255
      BY <3>3
    <3>5. ASSUME NEW k \in (j + 1)..8 PROVE u[k] = 255
      <4>1. 8 - k \in 0..7 /\ 8 - (8 - k) = k /\ k \in (i + 1)..8 /\ ~(n <= 8 - k)
        BY <3>3, <3>4
      <4>2. 8 - k \notin Low
        BY <3>2, <4>1
      <4> QED BY <4>1, <4>2
    <3>6. p[j] = (u[j] + 1) % 256 /\ u[j] \in 0..255
      BY <1>1, <1>3, <3>4, <3>5
    <3>7. p[j] = u[j] + 1
      BY <3>4, <3>6, ByteSteps
    <3>8. p[j] = 0
      BY <2>2
    <3> QED BY <3>6, <3>7, <3>8
  <2> QED BY <2>1, <2>2
<1> DEFINE m == Minus1(p)
<1>7. m = [i \in 1..8 |-> IF Borrow(i) THEN (p[i] + 255) % 256 ELSE p[i]]
  BY DEF Minus1
<1>8. ASSUME NEW i \in 1..8 PROVE m[i] = u[i]
  <2> HIDE DEF Borrow, Carry, m
  <2>1. m[i] = IF Borrow(i) THEN (p[i] + 255) % 256 ELSE p[i]
    BY <1>7
  <2>2. u[i] \in 0..255
    BY <1>1
  <2>3. PICK q : q = (u[i] + 1) % 256 /\ (q + 255) % 256 = u[i]
    BY <2>2, ByteSteps
  <2>4. CASE Carry(i)
    <3>1. p[i] = q
      BY <1>3, <2>3, <2>4
    <3>2. m[i] = (p[i] + 255) % 256
      BY <1>6, <2>1, <2>4
    <3> QED BY <2>3, <3>1, <3>2
  <2>5. CASE ~Carry(i)
    <3>1. p[i] = u[i]
      BY <1>3, <2>5
    <3>2. m[i] = p[i]
      BY <1>6, <2>1, <2>5
    <3> QED BY <3>1, <3>2
  <2> QED BY <2>4, <2>5
<1>9. m = [i \in 1..8 |-> m[i]]
  <2> HIDE DEF Borrow
  <2> QED BY <1>7
<1> HIDE DEF m
<1>10. m = u
  BY <1>8, <1>9, WordBytes
<1> QED BY <1>5, <1>10 DEF m, p

\* What an i64 is written as: a sign, and what follows it.
Sign(v) == IF IsNegative(v) THEN Major.negative ELSE Major.unsigned
Magnitude(v) == IF IsNegative(v) THEN Complement(v) ELSE v

LEMMA Majors ==
  /\ Major.unsigned = 0 /\ Major.negative = 1 /\ Major.bytes = 2 /\ Major.text = 3
  /\ Major.array = 4 /\ Major.map = 5 /\ Major.tag = 6
BY DEF Major

LEMMA SignMagnitude ==
  ASSUME NEW v \in Word
  PROVE  /\ Sign(v) \in 0..6 /\ Sign(v) \in {Major.unsigned, Major.negative}
         /\ Magnitude(v) \in Word /\ ~IsNegative(Magnitude(v))
         /\ WriteI64(v) = WriteHead(Sign(v), Magnitude(v))
         /\ v = IF Sign(v) = Major.negative THEN Complement(Magnitude(v)) ELSE Magnitude(v)
<1>1. /\ Complement(v) \in Word /\ Complement(Complement(v)) = v
      /\ IsNegative(Complement(v)) <=> ~IsNegative(v)
  BY ComplementTwice
<1>2. Minus1(Plus1(Complement(v))) = Complement(v)
  BY <1>1, MinusPlus
<1>3. CASE IsNegative(v)
  <2>1. Sign(v) = Major.negative /\ Magnitude(v) = Complement(v)
    BY <1>3, Zenon DEF Sign, Magnitude
  <2>2. WriteI64(v) = WriteHead(Major.negative, Complement(v))
    BY <1>2, <1>3, Zenon DEF WriteI64, UnsignedAbs
  <2>3. Major.negative \in 0..6
    BY Majors
  <2> QED BY <1>1, <1>3, <2>1, <2>2, <2>3, Zenon
<1>4. CASE ~IsNegative(v)
  <2>1. Sign(v) = Major.unsigned /\ Magnitude(v) = v
    BY <1>4, Zenon DEF Sign, Magnitude
  <2>2. WriteI64(v) = WriteHead(Major.unsigned, v)
    BY <1>4, Zenon DEF WriteI64, UnsignedAbs
  <2>3. Major.unsigned \in 0..6 /\ Major.unsigned # Major.negative
    BY Majors
  <2> QED BY <1>4, <2>1, <2>2, <2>3, Zenon
<1> QED BY <1>3, <1>4, Zenon

LEMMA ReadI64Head ==
  ASSUME NEW v \in Word, NEW w \in Widths, Fits(Magnitude(v), w)
  PROVE  /\ HeadOfWidth(Sign(v), Magnitude(v), w) \in Seq(Piece)
         /\ ReadI64(HeadOfWidth(Sign(v), Magnitude(v), w)) = {v}
<1> DEFINE s == HeadOfWidth(Sign(v), Magnitude(v), w)
           r == [major |-> Sign(v), arg |-> Magnitude(v), rest |-> << >>]
<1>1. /\ Sign(v) \in 0..6 /\ Sign(v) \in {Major.unsigned, Major.negative}
      /\ Magnitude(v) \in Word /\ ~IsNegative(Magnitude(v))
      /\ v = IF Sign(v) = Major.negative THEN Complement(Magnitude(v)) ELSE Magnitude(v)
  BY SignMagnitude, Zenon
<1>2. s \in Seq(Piece)
  BY <1>1, HeadParts
<1>3. << >> \in Seq(Piece) /\ s \o << >> = s
  BY <1>2, ConcatEmptySeq
<1>4. ReadHead(s) = {r}
  <2>1. ReadHead(s \o << >>) = {r}
    BY <1>1, <1>3, ReadHeadWritten
  <2> HIDE DEF s
  <2> QED BY <1>3, <2>1
<1>5. r.major = Sign(v) /\ r.arg = Magnitude(v)
  OBVIOUS
<1> DEFINE Value(h) == IF h.major = Major.negative THEN Complement(h.arg) ELSE h.arg
           Good(h) == h.major \in {Major.unsigned, Major.negative} /\ ~IsNegative(h.arg)
<1>6. Value(r) = v /\ Good(r)
  <2> HIDE DEF r
  <2> QED BY <1>1, <1>5, Zenon
<1>7. ReadI64(s) = {Value(h) : h \in {h \in ReadHead(s) : Good(h)}}
  BY DEF ReadI64
<1> HIDE DEF s, r, Value, Good
<1>8. {h \in {r} : Good(h)} = {r}
  BY <1>6
<1>9. {Value(h) : h \in {r}} = {v}
  BY <1>6
<1>10. ReadI64(s) = {v}
  BY <1>4, <1>7, <1>8, <1>9, Zenon
<1> QED BY <1>2, <1>10 DEF s

LEMMA WriteMinus8 ==
  /\ U64(7) \in Word
  /\ WriteI64(Minus8) = WriteHead(Major.negative, U64(7))
<1>1. U64(7) \in Word /\ U64(7)[1] = 0
  BY U64Small
<1>2. ~IsNegative(U64(7))
  BY <1>1 DEF IsNegative
<1>3. Minus8 \in Word /\ IsNegative(Minus8) /\ Complement(Minus8) = U64(7)
  BY <1>1, <1>2, ComplementTwice DEF Minus8
<1>4. Sign(Minus8) = Major.negative /\ Magnitude(Minus8) = U64(7)
  BY <1>3 DEF Sign, Magnitude
<1> QED BY <1>1, <1>3, <1>4, SignMagnitude

-----------------------------------------------------------------------------
\* The parts of an artifact and their sizes.

LEMMA HeadSize ==
  ASSUME NEW major \in 0..6, NEW n \in 0..255
  PROVE  /\ U64(n) \in Word /\ WriteHead(major, U64(n)) \in Seq(Piece)
         /\ Size(WriteHead(major, U64(n))) = IF n < 24 THEN 1 ELSE 2
<1>1. U64(n) \in Word
  BY U64Small
<1>2. Width(U64(n)) = IF n < 24 THEN 0 ELSE 1
  BY WidthOfSmall
<1>3. WriteHead(major, U64(n)) \in Seq(Piece) /\ Size(WriteHead(major, U64(n))) = Width(U64(n)) + 1
  BY <1>1, WriteHeadIs, Zenon
<1> QED BY <1>1, <1>2, <1>3

LEMMA StringSize ==
  ASSUME NEW major \in 0..6, NEW s \in Seq(Piece), Size(s) \in 0..255
  PROVE  /\ WriteString(major, s) \in Seq(Piece)
         /\ Size(WriteString(major, s)) = Size(s) + IF Size(s) < 24 THEN 1 ELSE 2
<1> DEFINE h == WriteHead(major, U64(Size(s)))
<1>1. h \in Seq(Piece) /\ Size(h) = IF Size(s) < 24 THEN 1 ELSE 2
  BY HeadSize, Zenon
<1>2. WriteString(major, s) = h \o s
  BY DEF WriteString
<1> HIDE DEF h
<1>3. h \o s \in Seq(Piece) /\ Size(h \o s) = Size(h) + Size(s)
  BY <1>1, SizeConcat
<1>4. Size(h) + Size(s) = Size(s) + IF Size(s) < 24 THEN 1 ELSE 2
  <2>1. PICK n \in 0..255 : n = Size(s)
    OBVIOUS
  <2>2. PICK m \in Nat : m = Size(h) /\ m = IF n < 24 THEN 1 ELSE 2
    BY <1>1, <2>1
  <2>3. m + n = n + m
    OBVIOUS
  <2> QED BY <2>1, <2>2, <2>3, Zenon
<1> QED BY <1>2, <1>3, <1>4, Zenon

LEMMA OpaqueSize ==
  ASSUME NEW name \in Names, NEW n \in Nat \ {0}
  PROVE  <<Opaque(name, n)>> \in Seq(Piece) /\ Size(<<Opaque(name, n)>>) = n
<1> DEFINE p == Opaque(name, n)
<1>1. p \in Piece /\ p.size = n
  BY DEF Opaque, Piece
<1> HIDE DEF p
<1>2. <<p>> \in Seq(Piece) /\ Size(<<p>>) = n
  BY <1>1, SizeOne
<1> QED BY <1>2 DEF p

LEMMA FieldSizes ==
  /\ Signer \in Seq(Piece) /\ Size(Signer) = 32
  /\ Hash \in Seq(Piece) /\ Size(Hash) = 32
  /\ Signature \in Seq(Piece) /\ Size(Signature) = 64
  /\ ContentType \in Seq(Piece) /\ Size(ContentType) = 39
<1>1. Signer \in Seq(Piece) /\ Size(Signer) = 32
  <2>1. "signer" \in Names
    BY DEF Names
  <2>2. 32 \in Nat \ {0}
    OBVIOUS
  <2> QED BY <2>1, <2>2, OpaqueSize, Zenon DEF Signer
<1>2. Hash \in Seq(Piece) /\ Size(Hash) = 32
  <2>1. "hash" \in Names
    BY DEF Names
  <2>2. 32 \in Nat \ {0}
    OBVIOUS
  <2> QED BY <2>1, <2>2, OpaqueSize, Zenon DEF Hash
<1>3. Signature \in Seq(Piece) /\ Size(Signature) = 64
  <2>1. "signature" \in Names
    BY DEF Names
  <2>2. 64 \in Nat \ {0}
    OBVIOUS
  <2> QED BY <2>1, <2>2, OpaqueSize, Zenon DEF Signature
<1>4. ContentType \in Seq(Piece) /\ Size(ContentType) = 39
  <2>1. "application/vnd.lys.attestation.v2+cbor" \in Names
    BY DEF Names
  <2>2. 39 \in Nat \ {0}
    OBVIOUS
  <2> QED BY <2>1, <2>2, OpaqueSize, Zenon DEF ContentType
<1> QED BY <1>1, <1>2, <1>3, <1>4

\* The same without what the provers know of sequences.
ByteStrings == Seq(Piece)
Cat(s, t) == s \o t

LEMMA CatAssociative ==
  ASSUME NEW s \in ByteStrings, NEW t \in ByteStrings, NEW u \in ByteStrings
  PROVE  Cat(s, t) \in ByteStrings /\ Cat(Cat(s, t), u) = Cat(s, Cat(t, u))
<1>1. s \o t \in Seq(Piece)
  BY ConcatProperties DEF ByteStrings
<1>2. (s \o t) \o u = s \o (t \o u)
  BY Associative DEF ByteStrings
<1> QED BY <1>1, <1>2, Zenon DEF Cat, ByteStrings

LEMMA CatIn ==
  ASSUME NEW s \in ByteStrings, NEW t \in ByteStrings
  PROVE  Cat(s, t) \in ByteStrings /\ Size(Cat(s, t)) = Size(s) + Size(t)
BY SizeConcat DEF ByteStrings, Cat

\* The heads of the protected header, the claims and the array.
LEMMA Heads ==
  /\ WriteHead(Major.map, U64(3)) \in ByteStrings /\ Size(WriteHead(Major.map, U64(3))) = 1
  /\ WriteHead(Major.map, U64(2)) \in ByteStrings /\ Size(WriteHead(Major.map, U64(2))) = 1
  /\ WriteHead(Major.map, U64(0)) \in ByteStrings /\ Size(WriteHead(Major.map, U64(0))) = 1
  /\ WriteHead(Major.bytes, U64(0)) \in ByteStrings /\ Size(WriteHead(Major.bytes, U64(0))) = 1
  /\ WriteHead(Major.array, U64(4)) \in ByteStrings /\ Size(WriteHead(Major.array, U64(4))) = 1
  /\ WriteHead(Major.tag, U64(18)) \in ByteStrings /\ Size(WriteHead(Major.tag, U64(18))) = 1
  /\ WriteHead(Major.negative, U64(7)) \in ByteStrings /\ Size(WriteHead(Major.negative, U64(7))) = 1
  /\ \A n \in 0..4 : WriteUnsigned(n) \in ByteStrings /\ Size(WriteUnsigned(n)) = 1
<1>1. ASSUME NEW major \in 0..6, NEW n \in 0..23
      PROVE  WriteHead(major, U64(n)) \in ByteStrings /\ Size(WriteHead(major, U64(n))) = 1
  <2>1. n \in 0..255 /\ n < 24
    OBVIOUS
  <2> QED BY <2>1, HeadSize, Zenon DEF ByteStrings
<1>2. /\ Major.map \in 0..6 /\ Major.bytes \in 0..6 /\ Major.array \in 0..6 /\ Major.tag \in 0..6
      /\ Major.negative \in 0..6 /\ Major.unsigned \in 0..6
  BY Majors
<1>3. /\ 0 \in 0..23 /\ 2 \in 0..23 /\ 3 \in 0..23 /\ 4 \in 0..23 /\ 7 \in 0..23 /\ 18 \in 0..23
      /\ \A n \in 0..4 : n \in 0..23
  OBVIOUS
<1>4. \A n \in 0..4 : WriteUnsigned(n) \in ByteStrings /\ Size(WriteUnsigned(n)) = 1
  BY <1>1, <1>2, <1>3, Zenon DEF WriteUnsigned
<1> QED BY <1>1, <1>2, <1>3, <1>4, Zenon

LEMMA FieldStrings ==
  /\ WriteString(Major.text, ContentType) \in ByteStrings
  /\ Size(WriteString(Major.text, ContentType)) = 41
  /\ WriteString(Major.bytes, Signer) \in ByteStrings /\ Size(WriteString(Major.bytes, Signer)) = 34
  /\ WriteString(Major.bytes, Hash) \in ByteStrings /\ Size(WriteString(Major.bytes, Hash)) = 34
  /\ WriteString(Major.bytes, Signature) \in ByteStrings
  /\ Size(WriteString(Major.bytes, Signature)) = 66
<1>1. Major.text \in 0..6 /\ Major.bytes \in 0..6
  BY Majors
<1>2. ASSUME NEW major \in 0..6, NEW s \in Seq(Piece), NEW n \in 24..255, Size(s) = n
      PROVE  WriteString(major, s) \in ByteStrings /\ Size(WriteString(major, s)) = n + 2
  <2>1. n \in 0..255 /\ ~(n < 24)
    OBVIOUS
  <2>2. Size(s) \in 0..255
    BY <1>2, <2>1
  <2> QED BY <1>2, <2>1, <2>2, StringSize, Zenon DEF ByteStrings
<1>4. /\ WriteString(Major.text, ContentType) \in ByteStrings
      /\ Size(WriteString(Major.text, ContentType)) = 39 + 2
  <2>1. ContentType \in Seq(Piece) /\ Size(ContentType) = 39
    BY FieldSizes
  <2>2. 39 \in 24..255 /\ Major.text \in 0..6
    BY <1>1
  <2> QED BY <2>1, <2>2, <1>2
<1>5. /\ WriteString(Major.bytes, Signer) \in ByteStrings
      /\ Size(WriteString(Major.bytes, Signer)) = 32 + 2
  <2>1. Signer \in Seq(Piece) /\ Size(Signer) = 32
    BY FieldSizes
  <2>2. 32 \in 24..255 /\ Major.bytes \in 0..6
    BY <1>1
  <2> QED BY <2>1, <2>2, <1>2
<1>6. /\ WriteString(Major.bytes, Hash) \in ByteStrings
      /\ Size(WriteString(Major.bytes, Hash)) = 32 + 2
  <2>1. Hash \in Seq(Piece) /\ Size(Hash) = 32
    BY FieldSizes
  <2>2. 32 \in 24..255 /\ Major.bytes \in 0..6
    BY <1>1
  <2> QED BY <2>1, <2>2, <1>2
<1>7. /\ WriteString(Major.bytes, Signature) \in ByteStrings
      /\ Size(WriteString(Major.bytes, Signature)) = 64 + 2
  <2>1. Signature \in Seq(Piece) /\ Size(Signature) = 64
    BY FieldSizes
  <2>2. 64 \in 24..255 /\ Major.bytes \in 0..6
    BY <1>1
  <2> QED BY <2>1, <2>2, <1>2
<1> QED BY <1>4, <1>5, <1>6, <1>7

\* The protected header, whose parts are concatenated from the left, from the
\* right, as it is read.
FromKid == Cat(WriteUnsigned(4), WriteString(Major.bytes, Signer))
FromContentType == Cat(WriteString(Major.text, ContentType), FromKid)
FromThree == Cat(WriteUnsigned(3), FromContentType)
FromAlgorithm == Cat(WriteHead(Major.negative, U64(7)), FromThree)
FromOne == Cat(WriteUnsigned(1), FromAlgorithm)

LEMMA ProtectedParts ==
  /\ ProtectedBytes = Cat(WriteHead(Major.map, U64(3)), FromOne)
  /\ ProtectedBytes \in ByteStrings /\ Size(ProtectedBytes) = 80
  /\ FromOne \in ByteStrings /\ FromAlgorithm \in ByteStrings /\ FromThree \in ByteStrings
  /\ FromContentType \in ByteStrings /\ FromKid \in ByteStrings
<1> DEFINE m == WriteHead(Major.map, U64(3))
           alg == WriteHead(Major.negative, U64(7))
           ct == WriteString(Major.text, ContentType)
           kid == WriteString(Major.bytes, Signer)
           one == WriteUnsigned(1)
           three == WriteUnsigned(3)
           four == WriteUnsigned(4)
<1>m. m \in ByteStrings /\ Size(m) = 1
  BY Heads
<1>a. alg \in ByteStrings /\ Size(alg) = 1
  BY Heads
<1>c. ct \in ByteStrings /\ Size(ct) = 41
  BY FieldStrings
<1>k. kid \in ByteStrings /\ Size(kid) = 34
  BY FieldStrings
<1>o. one \in ByteStrings /\ Size(one) = 1
  BY Heads
<1>t. three \in ByteStrings /\ Size(three) = 1
  BY Heads
<1>f. four \in ByteStrings /\ Size(four) = 1
  BY Heads
<1> DEFINE upTo1 == Cat(m, one)
           upTo2 == Cat(upTo1, alg)
           upTo3 == Cat(upTo2, three)
           upTo4 == Cat(upTo3, ct)
<1>1. ProtectedBytes = Cat(Cat(upTo4, four), kid)
  BY WriteMinus8, Zenon DEF ProtectedBytes, Cat
<1>2. /\ FromKid = Cat(four, kid) /\ FromContentType = Cat(ct, FromKid)
      /\ FromThree = Cat(three, FromContentType) /\ FromAlgorithm = Cat(alg, FromThree)
      /\ FromOne = Cat(one, FromAlgorithm)
  BY Zenon DEF FromKid, FromContentType, FromThree, FromAlgorithm, FromOne
<1> HIDE DEF m, alg, ct, kid, one, three, four
<1>3. FromKid \in ByteStrings /\ Size(FromKid) = 35
  BY <1>2, <1>f, <1>k, CatIn
<1>4. FromContentType \in ByteStrings /\ Size(FromContentType) = 76
  BY <1>2, <1>c, <1>3, CatIn
<1>5. FromThree \in ByteStrings /\ Size(FromThree) = 77
  BY <1>2, <1>t, <1>4, CatIn
<1>6. FromAlgorithm \in ByteStrings /\ Size(FromAlgorithm) = 78
  BY <1>2, <1>a, <1>5, CatIn
<1>7. FromOne \in ByteStrings /\ Size(FromOne) = 79
  BY <1>2, <1>o, <1>6, CatIn
<1>8. Cat(m, FromOne) \in ByteStrings /\ Size(Cat(m, FromOne)) = 80
  BY <1>m, <1>7, CatIn
<1>9. upTo1 \in ByteStrings
  BY <1>m, <1>o, CatIn
<1>10. upTo1 \in ByteStrings => upTo2 \in ByteStrings
  BY <1>a, CatIn
<1>11. upTo2 \in ByteStrings => upTo3 \in ByteStrings
  BY <1>t, CatIn
<1>12. upTo3 \in ByteStrings => upTo4 \in ByteStrings
  BY <1>c, CatIn
<1>13. Cat(upTo1, FromAlgorithm) = Cat(m, FromOne)
  BY <1>2, <1>m, <1>o, <1>6, CatAssociative
<1>14. Cat(Cat(upTo1, alg), FromThree) = Cat(upTo1, FromAlgorithm)
  <2> HIDE DEF upTo1
  <2> QED BY <1>2, <1>a, <1>5, <1>9, CatAssociative
<1>15. Cat(Cat(upTo2, three), FromContentType) = Cat(upTo2, FromThree)
  <2> HIDE DEF upTo2
  <2> QED BY <1>2, <1>t, <1>4, <1>9, <1>10, CatAssociative
<1>16. Cat(Cat(upTo3, ct), FromKid) = Cat(upTo3, FromContentType)
  <2> HIDE DEF upTo3
  <2> QED BY <1>2, <1>c, <1>3, <1>9, <1>10, <1>11, CatAssociative
<1>17. Cat(Cat(upTo4, four), kid) = Cat(upTo4, FromKid)
  <2> HIDE DEF upTo4
  <2> QED BY <1>2, <1>f, <1>k, <1>9, <1>10, <1>11, <1>12, CatAssociative
<1>18. ProtectedBytes = Cat(m, FromOne)
  BY <1>1, <1>13, <1>14, <1>15, <1>16, <1>17, Zenon
<1> QED BY <1>3, <1>4, <1>5, <1>6, <1>7, <1>8, <1>18 DEF m

-----------------------------------------------------------------------------
\* The decoder on the parts.

LEMMA ExpectCat ==
  ASSUME NEW major \in 0..6, NEW n \in 0..23, NEW rest \in ByteStrings
  PROVE  Expect(Cat(WriteHead(major, U64(n)), rest), major, U64(n)) = {rest}
<1>1. n \in 0..255
  OBVIOUS
<1>2. U64(n) \in Word
  BY <1>1, U64Small
<1>3. rest \in Seq(Piece)
  BY DEF ByteStrings
<1>4. Expect(WriteHead(major, U64(n)) \o rest, major, U64(n)) = {rest}
  BY <1>2, <1>3, ExpectWritten
<1> QED BY <1>4, Zenon DEF Cat

LEMMA ReadStringCat ==
  ASSUME NEW major \in 0..6, NEW s \in ByteStrings, Size(s) \in 0..255, NEW rest \in ByteStrings
  PROVE  ReadString(Cat(WriteString(major, s), rest), major) = {[value |-> s, rest |-> rest]}
<1>1. Size(s) \in Short
  BY SmallIsShort
<1>2. s \in Seq(Piece) /\ rest \in Seq(Piece)
  BY DEF ByteStrings
<1>3. ReadString(WriteString(major, s) \o rest, major) = {[value |-> s, rest |-> rest]}
  BY <1>1, <1>2, ReadStringWritten
<1> QED BY <1>3, Zenon DEF Cat

LEMMA ReadStringLast ==
  ASSUME NEW major \in 0..6, NEW s \in ByteStrings, Size(s) \in 0..255
  PROVE  ReadString(WriteString(major, s), major) = {[value |-> s, rest |-> << >>]}
<1>1. << >> \in Seq(Piece) /\ << >> \in ByteStrings /\ s \in Seq(Piece)
  BY DEF ByteStrings
<1>2. WriteString(major, s) \in Seq(Piece)
  BY <1>1, StringSize
<1>3. Cat(WriteString(major, s), << >>) = WriteString(major, s)
  BY <1>2, ConcatEmptySeq DEF Cat
<1>4. ReadString(Cat(WriteString(major, s), << >>), major) = {[value |-> s, rest |-> << >>]}
  BY <1>1, ReadStringCat
<1> QED BY <1>3, <1>4, Zenon

LEMMA DecodeProtectedBytes == DecodeProtected(ProtectedBytes) = {Signer}
<1> DEFINE Kids(s) == {kid.value : kid \in FixedBytes(s, 32)}
           AfterType(r) == UNION {Kids(s) : s \in Expect(r.rest, Major.unsigned, U64(4))}
           Types(s) == {r \in ReadString(s, Major.text) : r.value = ContentType}
           AfterThree(s) == UNION {AfterType(r) : r \in Types(s)}
           AfterAlgorithm(s) == UNION {AfterThree(t) : t \in Expect(s, Major.unsigned, U64(3))}
           AfterOne(s) == UNION {AfterAlgorithm(t) : t \in Expect(s, Major.negative, U64(7))}
           AfterMap(s) == UNION {AfterOne(t) : t \in Expect(s, Major.unsigned, U64(1))}
           signer == WriteString(Major.bytes, Signer)
<1>1. DecodeProtected(ProtectedBytes)
        = UNION {AfterMap(t) : t \in Expect(ProtectedBytes, Major.map, U64(3))}
  BY DEF DecodeProtected, Then
<1>2. /\ Major.unsigned \in 0..6 /\ Major.negative \in 0..6 /\ Major.bytes \in 0..6
      /\ Major.text \in 0..6 /\ Major.map \in 0..6
  BY Majors
<1>3. 1 \in 0..23 /\ 3 \in 0..23 /\ 4 \in 0..23 /\ 7 \in 0..23
  OBVIOUS
<1>4. /\ Signer \in ByteStrings /\ Size(Signer) \in 0..255 /\ Size(Signer) = 32
      /\ ContentType \in ByteStrings /\ Size(ContentType) \in 0..255
      /\ signer \in ByteStrings
  BY FieldSizes, FieldStrings DEF ByteStrings
<1>5. Kids(signer) = {Signer}
  <2> DEFINE r == [value |-> Signer, rest |-> << >>]
  <2>1. ReadString(signer, Major.bytes) = {r}
    BY <1>2, <1>4, ReadStringLast
  <2>2. r.value = Signer
    OBVIOUS
  <2> HIDE DEF r, signer
  <2>3. FixedBytes(signer, 32) = {r}
    BY <1>4, <2>1, <2>2 DEF FixedBytes
  <2> QED BY <2>2, <2>3
<1>6. /\ Expect(ProtectedBytes, Major.map, U64(3)) = {FromOne}
      /\ Expect(FromOne, Major.unsigned, U64(1)) = {FromAlgorithm}
      /\ Expect(FromAlgorithm, Major.negative, U64(7)) = {FromThree}
      /\ Expect(FromThree, Major.unsigned, U64(3)) = {FromContentType}
      /\ Expect(FromKid, Major.unsigned, U64(4)) = {signer}
  <2>1. Expect(ProtectedBytes, Major.map, U64(3)) = {FromOne}
    BY <1>2, <1>3, ProtectedParts, ExpectCat
  <2>2. Expect(FromOne, Major.unsigned, U64(1)) = {FromAlgorithm}
    BY <1>2, <1>3, ProtectedParts, ExpectCat DEF FromOne, WriteUnsigned
  <2>3. Expect(FromAlgorithm, Major.negative, U64(7)) = {FromThree}
    BY <1>2, <1>3, ProtectedParts, ExpectCat DEF FromAlgorithm
  <2>4. Expect(FromThree, Major.unsigned, U64(3)) = {FromContentType}
    BY <1>2, <1>3, ProtectedParts, ExpectCat DEF FromThree, WriteUnsigned
  <2>5. Expect(FromKid, Major.unsigned, U64(4)) = {signer}
    BY <1>2, <1>3, <1>4, ExpectCat DEF FromKid, WriteUnsigned
  <2> QED BY <2>1, <2>2, <2>3, <2>4, <2>5
<1> DEFINE typed == [value |-> ContentType, rest |-> FromKid]
<1>7. typed.value = ContentType /\ typed.rest = FromKid
  OBVIOUS
<1>8. ReadString(FromContentType, Major.text) = {typed}
  BY <1>2, <1>4, ProtectedParts, ReadStringCat DEF FromContentType
<1> HIDE DEF typed, Kids, signer
<1>9. Types(FromContentType) = {typed}
  BY <1>7, <1>8
<1>10. AfterType(typed) = {Signer}
  BY <1>5, <1>6, <1>7
<1> HIDE DEF AfterType, Types
<1>11. AfterThree(FromContentType) = {Signer}
  BY <1>9, <1>10
<1> HIDE DEF AfterThree
<1>12. AfterAlgorithm(FromThree) = {Signer}
  BY <1>6, <1>11
<1> HIDE DEF AfterAlgorithm
<1>13. AfterOne(FromAlgorithm) = {Signer}
  BY <1>6, <1>12
<1> HIDE DEF AfterOne
<1>14. AfterMap(FromOne) = {Signer}
  BY <1>6, <1>13
<1> HIDE DEF AfterMap
<1> QED BY <1>1, <1>6, <1>14

\* The claims, with any head for the timestamp that is read as it.
FromTwo(head) == Cat(WriteUnsigned(2), head)
FromHash(head) == Cat(WriteString(Major.bytes, Hash), FromTwo(head))
FromHashKey(head) == Cat(WriteUnsigned(1), FromHash(head))

LEMMA ClaimsParts ==
  ASSUME NEW head \in ByteStrings, Size(head) \in 1..9
  PROVE  /\ ClaimsUpToTimestamp \o head = Cat(WriteHead(Major.map, U64(2)), FromHashKey(head))
         /\ ClaimsUpToTimestamp \o head \in ByteStrings
         /\ Size(ClaimsUpToTimestamp \o head) = 37 + Size(head)
         /\ FromHashKey(head) \in ByteStrings /\ FromHash(head) \in ByteStrings
         /\ FromTwo(head) \in ByteStrings
<1> DEFINE m == WriteHead(Major.map, U64(2))
           one == WriteUnsigned(1)
           two == WriteUnsigned(2)
           hash == WriteString(Major.bytes, Hash)
<1>m. m \in ByteStrings /\ Size(m) = 1
  BY Heads
<1>o. one \in ByteStrings /\ Size(one) = 1
  BY Heads
<1>t. two \in ByteStrings /\ Size(two) = 1
  BY Heads
<1>h. hash \in ByteStrings /\ Size(hash) = 34
  BY FieldStrings
<1> DEFINE upTo1 == Cat(m, one)
           upTo2 == Cat(upTo1, hash)
<1>1. ClaimsUpToTimestamp \o head = Cat(Cat(upTo2, two), head)
  BY Zenon DEF ClaimsUpToTimestamp, Cat
<1> DEFINE r2 == FromTwo(head)
           r1 == FromHash(head)
           r0 == FromHashKey(head)
<1>2. r2 = Cat(two, head) /\ r1 = Cat(hash, r2) /\ r0 = Cat(one, r1)
  BY Zenon DEF FromTwo, FromHash, FromHashKey
<1> HIDE DEF m, one, two, hash, r0, r1, r2
<1>3. r2 \in ByteStrings /\ Size(r2) = 1 + Size(head)
  BY <1>2, <1>t, CatIn
<1>4. r1 \in ByteStrings /\ Size(r1) = 35 + Size(head)
  BY <1>2, <1>3, <1>h, CatIn
<1>5. r0 \in ByteStrings /\ Size(r0) = 36 + Size(head)
  BY <1>2, <1>4, <1>o, CatIn
<1>6. Cat(m, r0) \in ByteStrings /\ Size(Cat(m, r0)) = 37 + Size(head)
  BY <1>5, <1>m, CatIn
<1>7. upTo1 \in ByteStrings
  BY <1>m, <1>o, CatIn
<1>8. upTo1 \in ByteStrings => upTo2 \in ByteStrings
  BY <1>h, CatIn
<1>9. Cat(upTo1, r1) = Cat(m, r0)
  BY <1>2, <1>4, <1>m, <1>o, CatAssociative
<1>10. Cat(Cat(upTo1, hash), r2) = Cat(upTo1, r1)
  <2> HIDE DEF upTo1
  <2> QED BY <1>2, <1>3, <1>7, <1>h, CatAssociative
<1>11. Cat(Cat(upTo2, two), head) = Cat(upTo2, r2)
  <2> HIDE DEF upTo2
  <2> QED BY <1>2, <1>7, <1>8, <1>t, CatAssociative
<1>12. ClaimsUpToTimestamp \o head = Cat(m, r0)
  BY <1>1, <1>9, <1>10, <1>11, Zenon
<1> QED BY <1>3, <1>4, <1>5, <1>6, <1>12 DEF m, r0, r1, r2

LEMMA DecodeClaimsBytes ==
  ASSUME NEW head \in ByteStrings, Size(head) \in 1..9, NEW ts, ReadI64(head) = {ts}
  PROVE  DecodeClaims(ClaimsUpToTimestamp \o head) = {<<Hash, ts>>}
<1> DEFINE AfterHash(r) == UNION {{<<r.value, x>> : x \in ReadI64(t)} :
                                  t \in Expect(r.rest, Major.unsigned, U64(2))}
           AfterOne(s) == UNION {AfterHash(r) : r \in FixedBytes(s, 32)}
           AfterMap(s) == UNION {AfterOne(t) : t \in Expect(s, Major.unsigned, U64(1))}
           claims == ClaimsUpToTimestamp \o head
           r0 == FromHashKey(head)
           r1 == FromHash(head)
           r2 == FromTwo(head)
<1>1. DecodeClaims(claims) = UNION {AfterMap(t) : t \in Expect(claims, Major.map, U64(2))}
  BY DEF DecodeClaims, Then
<1>2. Major.unsigned \in 0..6 /\ Major.bytes \in 0..6 /\ Major.map \in 0..6
  BY Majors
<1>3. 1 \in 0..23 /\ 2 \in 0..23
  OBVIOUS
<1>4. Hash \in ByteStrings /\ Size(Hash) \in 0..255 /\ Size(Hash) = 32
  BY FieldSizes DEF ByteStrings
<1>5. claims = Cat(WriteHead(Major.map, U64(2)), r0)
      /\ r0 \in ByteStrings /\ r1 \in ByteStrings /\ r2 \in ByteStrings
  BY ClaimsParts
<1>6. Expect(r0, Major.unsigned, U64(1)) = {r1}
  BY <1>2, <1>3, <1>5, ExpectCat DEF FromHashKey, WriteUnsigned
<1>7. Expect(r2, Major.unsigned, U64(2)) = {head}
  BY <1>2, <1>3, ExpectCat DEF FromTwo, WriteUnsigned
<1> DEFINE r == [value |-> Hash, rest |-> r2]
<1>8. r.value = Hash /\ r.rest = r2
  OBVIOUS
<1>9. ReadString(r1, Major.bytes) = {r}
  BY <1>2, <1>4, <1>5, ReadStringCat DEF FromHash
<1> HIDE DEF claims, r0, r1, r2, r
<1>10. Expect(claims, Major.map, U64(2)) = {r0}
  BY <1>2, <1>3, <1>5, ExpectCat
<1>11. FixedBytes(r1, 32) = {r}
  BY <1>4, <1>8, <1>9 DEF FixedBytes
<1>12. AfterHash(r) = {<<Hash, ts>>}
  <2>1. {<<Hash, x>> : x \in {ts}} = {<<Hash, ts>>}
    OBVIOUS
  <2>2. {<<r.value, x>> : x \in ReadI64(head)} = {<<Hash, ts>>}
    BY <1>8, <2>1, Zenon
  <2> DEFINE F(t) == {<<r.value, x>> : x \in ReadI64(t)}
  <2>3. F(head) = {<<Hash, ts>>}
    BY <2>2
  <2>4. AfterHash(r) = UNION {F(t) : t \in {head}}
    BY <1>7, <1>8
  <2> HIDE DEF F
  <2> QED BY <2>3, <2>4
<1> HIDE DEF AfterHash
<1>13. AfterOne(r1) = {<<Hash, ts>>}
  BY <1>11, <1>12
<1> HIDE DEF AfterOne
<1>14. AfterMap(r0) = {<<Hash, ts>>}
  BY <1>6, <1>13
<1> HIDE DEF AfterMap
<1>15. DecodeClaims(claims) = {<<Hash, ts>>}
  BY <1>1, <1>10, <1>14
<1> QED BY <1>15 DEF claims

\* The array of four from the right, with bytes after it.
FromSignature(after) == Cat(WriteString(Major.bytes, Signature), after)
FromClaims(claims, after) == Cat(WriteString(Major.bytes, claims), FromSignature(after))
FromHeaders(claims, after) == Cat(WriteHead(Major.map, U64(0)), FromClaims(claims, after))
FromProtected(claims, after) ==
  Cat(WriteString(Major.bytes, ProtectedBytes), FromHeaders(claims, after))

LEMMA LongStrings ==
  ASSUME NEW s \in ByteStrings, NEW n \in 24..255, Size(s) = n
  PROVE  /\ WriteString(Major.bytes, s) \in ByteStrings
         /\ Size(WriteString(Major.bytes, s)) = n + 2
<1>1. Major.bytes \in 0..6 /\ s \in Seq(Piece)
  BY Majors DEF ByteStrings
<1>2. Size(s) \in 0..255 /\ ~(Size(s) < 24)
  OBVIOUS
<1>3. /\ WriteString(Major.bytes, s) \in Seq(Piece)
      /\ Size(WriteString(Major.bytes, s)) = Size(s) + IF Size(s) < 24 THEN 1 ELSE 2
  BY <1>1, <1>2, StringSize
<1> QED BY <1>2, <1>3 DEF ByteStrings

\* The parts of the array.
LEMMA CoseElements ==
  ASSUME NEW claims \in ByteStrings, NEW n \in 38..46, Size(claims) = n
  PROVE  /\ WriteHead(Major.array, U64(4)) \in ByteStrings
         /\ Size(WriteHead(Major.array, U64(4))) = 1
         /\ WriteString(Major.bytes, ProtectedBytes) \in ByteStrings
         /\ Size(WriteString(Major.bytes, ProtectedBytes)) = 82
         /\ WriteHead(Major.map, U64(0)) \in ByteStrings
         /\ Size(WriteHead(Major.map, U64(0))) = 1
         /\ WriteString(Major.bytes, claims) \in ByteStrings
         /\ Size(WriteString(Major.bytes, claims)) = n + 2
         /\ WriteString(Major.bytes, Signature) \in ByteStrings
         /\ Size(WriteString(Major.bytes, Signature)) = 66
<1>1. /\ WriteString(Major.bytes, ProtectedBytes) \in ByteStrings
      /\ Size(WriteString(Major.bytes, ProtectedBytes)) = 82
  <2>1. 80 \in 24..255 /\ 80 + 2 = 82
    OBVIOUS
  <2>2. ProtectedBytes \in ByteStrings /\ Size(ProtectedBytes) = 80
    BY ProtectedParts
  <2> QED BY <2>1, <2>2, LongStrings
<1>2. /\ WriteString(Major.bytes, claims) \in ByteStrings
      /\ Size(WriteString(Major.bytes, claims)) = n + 2
  <2>1. n \in 24..255
    OBVIOUS
  <2> QED BY <2>1, LongStrings
<1> QED BY <1>1, <1>2, Heads, FieldStrings

LEMMA CoseSize ==
  ASSUME NEW claims \in ByteStrings, NEW n \in 38..46, Size(claims) = n
  PROVE  CoseSign1(claims) \in ByteStrings /\ Size(CoseSign1(claims)) = n + 152
<1> DEFINE a == WriteHead(Major.array, U64(4))
           p == WriteString(Major.bytes, ProtectedBytes)
           m == WriteHead(Major.map, U64(0))
           c == WriteString(Major.bytes, claims)
           s == WriteString(Major.bytes, Signature)
<1>1. a \in ByteStrings /\ Size(a) = 1 /\ p \in ByteStrings /\ Size(p) = 82
  BY CoseElements
<1>2. m \in ByteStrings /\ Size(m) = 1
  BY CoseElements
<1>3. c \in ByteStrings /\ Size(c) = n + 2
  BY CoseElements
<1>4. s \in ByteStrings /\ Size(s) = 66
  BY CoseElements
<1> DEFINE upTo1 == Cat(a, p)
           upTo2 == Cat(upTo1, m)
           upTo3 == Cat(upTo2, c)
           upTo4 == Cat(upTo3, s)
<1>5. CoseSign1(claims) = upTo4
  BY Zenon DEF CoseSign1, Cat
<1> HIDE DEF a, p, m, c, s
<1>6. upTo1 \in ByteStrings /\ Size(upTo1) = 83
  BY <1>1, CatIn
<1>7. upTo2 \in ByteStrings /\ Size(upTo2) = 84
  <2> HIDE DEF upTo1
  <2> QED BY <1>6, <1>2, CatIn
<1>8. upTo3 \in ByteStrings /\ Size(upTo3) = n + 86
  <2> HIDE DEF upTo2
  <2> QED BY <1>7, <1>3, CatIn
<1>9. upTo4 \in ByteStrings /\ Size(upTo4) = n + 152
  <2> HIDE DEF upTo3
  <2> QED BY <1>8, <1>4, CatIn
<1> HIDE DEF upTo4
<1> QED BY <1>5, <1>9

LEMMA CoseParts ==
  ASSUME NEW claims \in ByteStrings, NEW n \in 38..46, Size(claims) = n,
         NEW after \in ByteStrings, NEW k \in 0..1, Size(after) = k
  PROVE  /\ Cat(CoseSign1(claims), after)
              = Cat(WriteHead(Major.array, U64(4)), FromProtected(claims, after))
         /\ FromProtected(claims, after) \in ByteStrings
         /\ FromHeaders(claims, after) \in ByteStrings
         /\ FromClaims(claims, after) \in ByteStrings /\ FromSignature(after) \in ByteStrings
         /\ Size(Cat(CoseSign1(claims), after)) = n + k + 152
<1> DEFINE a == WriteHead(Major.array, U64(4))
           p == WriteString(Major.bytes, ProtectedBytes)
           m == WriteHead(Major.map, U64(0))
           c == WriteString(Major.bytes, claims)
           s == WriteString(Major.bytes, Signature)
<1>a. a \in ByteStrings
  BY CoseElements
<1>p. p \in ByteStrings
  BY CoseElements
<1>m. m \in ByteStrings
  BY CoseElements
<1>c. c \in ByteStrings
  BY CoseElements
<1>s. s \in ByteStrings
  BY CoseElements
<1> DEFINE upTo1 == Cat(a, p)
           upTo2 == Cat(upTo1, m)
           upTo3 == Cat(upTo2, c)
           upTo4 == Cat(upTo3, s)
<1>1. CoseSign1(claims) = upTo4
  BY Zenon DEF CoseSign1, Cat
<1> DEFINE r3 == FromSignature(after)
           r2 == FromClaims(claims, after)
           r1 == FromHeaders(claims, after)
           r0 == FromProtected(claims, after)
<1>2. r3 = Cat(s, after) /\ r2 = Cat(c, r3) /\ r1 = Cat(m, r2) /\ r0 = Cat(p, r1)
  BY Zenon DEF FromSignature, FromClaims, FromHeaders, FromProtected
<1> HIDE DEF a, p, m, c, s, r0, r1, r2, r3
<1>3. r3 \in ByteStrings
  BY <1>2, <1>s, CatIn
<1>4. r2 \in ByteStrings
  BY <1>2, <1>3, <1>c, CatIn
<1>5. r1 \in ByteStrings
  BY <1>2, <1>4, <1>m, CatIn
<1>6. r0 \in ByteStrings
  BY <1>2, <1>5, <1>p, CatIn
<1>7. upTo1 \in ByteStrings
  BY <1>a, <1>p, CatIn
<1>8. upTo2 \in ByteStrings
  <2> HIDE DEF upTo1
  <2> QED BY <1>7, <1>m, CatIn
<1>9. upTo3 \in ByteStrings
  <2> HIDE DEF upTo2
  <2> QED BY <1>8, <1>c, CatIn
<1>10. Cat(upTo1, r1) = Cat(a, r0)
  BY <1>2, <1>5, <1>a, <1>p, CatAssociative
<1>11. Cat(Cat(upTo1, m), r2) = Cat(upTo1, r1)
  <2> HIDE DEF upTo1
  <2> QED BY <1>2, <1>4, <1>7, <1>m, CatAssociative
<1>12. Cat(Cat(upTo2, c), r3) = Cat(upTo2, r2)
  <2> HIDE DEF upTo2
  <2> QED BY <1>2, <1>3, <1>8, <1>c, CatAssociative
<1>13. Cat(Cat(upTo3, s), after) = Cat(upTo3, r3)
  <2> HIDE DEF upTo3
  <2> QED BY <1>2, <1>9, <1>s, CatAssociative
<1>14. Cat(upTo4, after) = Cat(a, r0)
  BY <1>10, <1>11, <1>12, <1>13, Zenon
<1>15. Size(Cat(CoseSign1(claims), after)) = n + k + 152
  <2>1. CoseSign1(claims) \in ByteStrings /\ Size(CoseSign1(claims)) = n + 152
    BY CoseSize
  <2> QED BY <2>1, CatIn
<1> HIDE DEF upTo4
<1> QED BY <1>1, <1>3, <1>4, <1>5, <1>6, <1>14, <1>15 DEF a, r0, r1, r2, r3

\* The decoder takes any head for the tag, and bytes after the array.
LEMMA DecodeArtifact ==
  ASSUME NEW w \in Widths, Fits(U64(18), w),
         NEW claims \in ByteStrings, NEW n \in 38..46, Size(claims) = n,
         NEW after \in ByteStrings, NEW k \in 0..1, Size(after) = k,
         NEW ts, DecodeClaims(claims) = {<<Hash, ts>>}
  PROVE  DecodeFields(Cat(HeadOfWidth(Major.tag, U64(18), w), Cat(CoseSign1(claims), after)))
           = {Fields(ts)}
<1> DEFINE rec(kid, c, sig) == [signer |-> kid, hash |-> c[1], ts |-> c[2], sig |-> sig.value]
           Records(p, c, sig) == {rec(kid, x, sig) : kid \in DecodeProtected(p.value),
                                                     x \in DecodeClaims(c.value)}
           AfterClaims(p, c) == UNION {Records(p, c, sig) : sig \in FixedBytes(c.rest, 64)}
           AfterHeaders(p, s) == UNION {AfterClaims(p, c) : c \in ReadString(s, Major.bytes)}
           AfterProtected(p) == UNION {AfterHeaders(p, s) : s \in Expect(p.rest, Major.map, U64(0))}
           AfterArray(s) == UNION {AfterProtected(p) : p \in ReadString(s, Major.bytes)}
           AfterTag(s) == UNION {AfterArray(t) : t \in Expect(s, Major.array, U64(4))}
           tag == HeadOfWidth(Major.tag, U64(18), w)
           array == Cat(CoseSign1(claims), after)
           b == Cat(tag, array)
           r3 == FromSignature(after)
           r2 == FromClaims(claims, after)
           r1 == FromHeaders(claims, after)
           r0 == FromProtected(claims, after)
<1>1. DecodeFields(b)
        = UNION {AfterTag(t) : t \in IF Size(b) <= MaxArtifactLen
                                     THEN Expect(b, Major.tag, U64(18)) ELSE {}}
  BY DEF DecodeFields, Then
<1>2. /\ Major.bytes \in 0..6 /\ Major.map \in 0..6 /\ Major.array \in 0..6 /\ Major.tag \in 0..6
      /\ 0 \in 0..23 /\ 4 \in 0..23 /\ 18 \in 0..255
  BY Majors
<1>3. U64(18) \in Word
  BY <1>2, U64Small
<1>4. tag \in ByteStrings /\ Size(tag) = w + 1 /\ w \in 0..8
  <2>1. w \in 0..8
    BY DEF Widths
  <2>2. tag \in Seq(Piece) /\ Size(tag) = w + 1
    BY <1>2, <1>3, HeadParts
  <2> QED BY <2>1, <2>2 DEF ByteStrings
<1>5. /\ array = Cat(WriteHead(Major.array, U64(4)), r0)
      /\ r0 \in ByteStrings /\ r1 \in ByteStrings /\ r2 \in ByteStrings /\ r3 \in ByteStrings
      /\ Size(array) = n + k + 152
  BY CoseParts
<1>6. array \in ByteStrings
  <2>1. CoseSign1(claims) \in ByteStrings
    BY CoseSize
  <2> QED BY <2>1, CatIn
<1>7. Expect(b, Major.tag, U64(18)) = {array}
  <2>1. array \in Seq(Piece)
    BY <1>6 DEF ByteStrings
  <2> HIDE DEF array
  <2>2. Expect(tag \o array, Major.tag, U64(18)) = {array}
    BY <1>2, <1>3, <2>1, ExpectHead
  <2> QED BY <2>2 DEF Cat
<1>8. Expect(array, Major.array, U64(4)) = {r0}
  <2> HIDE DEF array, r0
  <2> QED BY <1>2, <1>5, ExpectCat
<1>9. Expect(r1, Major.map, U64(0)) = {r2}
  BY <1>2, <1>5, ExpectCat DEF FromHeaders
<1> DEFINE p == [value |-> ProtectedBytes, rest |-> r1]
           c == [value |-> claims, rest |-> r3]
           sig == [value |-> Signature, rest |-> after]
<1>10. ReadString(r0, Major.bytes) = {p}
  <2>1. ProtectedBytes \in ByteStrings /\ Size(ProtectedBytes) \in 0..255
    BY ProtectedParts
  <2> QED BY <1>2, <1>5, <2>1, ReadStringCat DEF FromProtected
<1>11. ReadString(r2, Major.bytes) = {c}
  <2>1. Size(claims) \in 0..255
    OBVIOUS
  <2> QED BY <1>2, <1>5, <2>1, ReadStringCat DEF FromClaims
<1>12. Signature \in ByteStrings /\ Size(Signature) \in 0..255 /\ Size(Signature) = 64
  BY FieldSizes DEF ByteStrings
<1>13. ReadString(r3, Major.bytes) = {sig}
  BY <1>2, <1>12, ReadStringCat DEF FromSignature
<1>14. /\ p.value = ProtectedBytes /\ p.rest = r1 /\ c.value = claims /\ c.rest = r3
       /\ sig.value = Signature
  OBVIOUS
<1>15. rec(Signer, <<Hash, ts>>, sig) = Fields(ts)
  BY <1>14 DEF Fields
<1> HIDE DEF b, tag, array, r0, r1, r2, r3, p, c, sig, rec
<1>16. FixedBytes(r3, 64) = {sig}
  BY <1>12, <1>13, <1>14 DEF FixedBytes
<1>17. Records(p, c, sig) = {Fields(ts)}
  <2>1. PICK z : z = <<Hash, ts>>
    OBVIOUS
  <2>2. DecodeProtected(p.value) = {Signer} /\ DecodeClaims(c.value) = {z}
    BY <1>14, <2>1, DecodeProtectedBytes, Zenon
  <2>3. {rec(kid, x, sig) : kid \in {Signer}, x \in {z}} = {rec(Signer, z, sig)}
    OBVIOUS
  <2>4. Records(p, c, sig) = {rec(Signer, z, sig)}
    BY <2>2, <2>3
  <2> HIDE DEF Records
  <2> QED BY <1>15, <2>1, <2>4, Zenon
<1> HIDE DEF Records
<1>18. AfterClaims(p, c) = {Fields(ts)}
  BY <1>14, <1>16, <1>17
<1> HIDE DEF AfterClaims
<1>19. AfterHeaders(p, r2) = {Fields(ts)}
  BY <1>11, <1>18
<1> HIDE DEF AfterHeaders
<1>20. AfterProtected(p) = {Fields(ts)}
  BY <1>9, <1>14, <1>19
<1> HIDE DEF AfterProtected
<1>21. AfterArray(r0) = {Fields(ts)}
  BY <1>10, <1>20
<1> HIDE DEF AfterArray
<1>22. AfterTag(array) = {Fields(ts)}
  BY <1>8, <1>21
<1> HIDE DEF AfterTag
<1>23. Size(b) <= MaxArtifactLen
  <2>1. Size(b) = Size(tag) + Size(array)
    BY <1>4, <1>6, CatIn DEF b
  <2>2. Size(b) <= 300
    BY <1>4, <1>5, <2>1
  <2>3. Size(b) \in Int
    BY <1>4, <1>5, <2>1
  <2> QED BY <2>2, <2>3, SMT DEF MaxArtifactLen
<1>24. DecodeFields(b) = {Fields(ts)}
  BY <1>1, <1>7, <1>22, <1>23
<1> QED BY <1>24 DEF b, tag, array

-----------------------------------------------------------------------------
\* Artifacts.

LEMMA TimestampHead ==
  ASSUME NEW ts \in Word, NEW w \in Widths, Fits(Magnitude(ts), w)
  PROVE  LET head == HeadOfWidth(Sign(ts), Magnitude(ts), w)
             claims == ClaimsUpToTimestamp \o head
         IN  /\ head \in ByteStrings /\ Size(head) \in 1..9
             /\ claims \in ByteStrings /\ Size(claims) \in 38..46
             /\ DecodeClaims(claims) = {<<Hash, ts>>}
<1> DEFINE head == HeadOfWidth(Sign(ts), Magnitude(ts), w)
           claims == ClaimsUpToTimestamp \o head
<1>1. Sign(ts) \in 0..6 /\ Magnitude(ts) \in Word
  BY SignMagnitude
<1>2. head \in Seq(Piece) /\ Size(head) = w + 1
  BY <1>1, HeadParts
<1>3. ReadI64(head) = {ts}
  BY ReadI64Head
<1> HIDE DEF head
<1>4. head \in ByteStrings /\ Size(head) \in 1..9
  BY <1>2 DEF ByteStrings, Widths
<1>5. claims \in ByteStrings /\ Size(claims) = 37 + Size(head)
  BY <1>4, ClaimsParts
<1>6. DecodeClaims(claims) = {<<Hash, ts>>}
  BY <1>3, <1>4, DecodeClaimsBytes
<1> HIDE DEF claims
<1>7. Size(claims) \in 38..46
  BY <1>4, <1>5
<1> QED BY <1>4, <1>5, <1>6, <1>7 DEF head, claims

\* What the parser takes for an attestation with this timestamp.
LEMMA DecodeSpelling ==
  ASSUME NEW ts \in Word,
         NEW w \in Widths, Fits(Magnitude(ts), w),
         NEW x \in Widths, Fits(U64(18), x),
         NEW after \in ByteStrings, NEW k \in 0..1, Size(after) = k
  PROVE  DecodeFields(Cat(HeadOfWidth(Major.tag, U64(18), x),
                          Cat(CoseSign1(ClaimsUpToTimestamp
                                          \o HeadOfWidth(Sign(ts), Magnitude(ts), w)),
                              after))) = {Fields(ts)}
<1> DEFINE claims == ClaimsUpToTimestamp \o HeadOfWidth(Sign(ts), Magnitude(ts), w)
<1>1. /\ claims \in ByteStrings /\ Size(claims) \in 38..46
      /\ DecodeClaims(claims) = {<<Hash, ts>>}
  BY TimestampHead
<1> HIDE DEF claims
<1>2. PICK n \in 38..46 : Size(claims) = n
  BY <1>1
<1>3. DecodeFields(Cat(HeadOfWidth(Major.tag, U64(18), x), Cat(CoseSign1(claims), after)))
        = {Fields(ts)}
  BY <1>1, <1>2, DecodeArtifact
<1> QED BY <1>3 DEF claims

\* The encoder's artifact is one of these.
LEMMA ArtifactIs ==
  ASSUME NEW ts \in Word
  PROVE  /\ Width(Magnitude(ts)) \in Widths /\ Fits(Magnitude(ts), Width(Magnitude(ts)))
         /\ Width(U64(18)) \in Widths /\ Fits(U64(18), Width(U64(18)))
         /\ WriteHead(Major.tag, U64(18)) = HeadOfWidth(Major.tag, U64(18), Width(U64(18)))
         /\ ClaimsBytes(ts) = ClaimsUpToTimestamp
                                \o HeadOfWidth(Sign(ts), Magnitude(ts), Width(Magnitude(ts)))
         /\ ArtifactBytes(ts) = Cat(WriteHead(Major.tag, U64(18)), CoseSign1(ClaimsBytes(ts)))
<1>1. 18 \in 0..255 /\ Major.tag \in 0..6
  BY Majors
<1>2. U64(18) \in Word
  BY <1>1, U64Small
<1>3. Sign(ts) \in 0..6 /\ Magnitude(ts) \in Word /\ WriteI64(ts) = WriteHead(Sign(ts), Magnitude(ts))
  BY SignMagnitude
<1>4. /\ Width(Magnitude(ts)) \in Widths /\ Fits(Magnitude(ts), Width(Magnitude(ts)))
      /\ Width(U64(18)) \in Widths /\ Fits(U64(18), Width(U64(18)))
  BY <1>2, <1>3, WidthFits
<1>5. WriteHead(Major.tag, U64(18)) = HeadOfWidth(Major.tag, U64(18), Width(U64(18)))
  BY <1>1, <1>2, WriteHeadIs
<1>6. WriteI64(ts) = HeadOfWidth(Sign(ts), Magnitude(ts), Width(Magnitude(ts)))
  BY <1>3, WriteHeadIs
<1>7. ClaimsBytes(ts) = ClaimsUpToTimestamp
                          \o HeadOfWidth(Sign(ts), Magnitude(ts), Width(Magnitude(ts)))
  BY <1>6, Zenon DEF ClaimsBytes
<1>8. ArtifactBytes(ts) = Cat(WriteHead(Major.tag, U64(18)), CoseSign1(ClaimsBytes(ts)))
  BY Zenon DEF ArtifactBytes, Cat
<1> QED BY <1>4, <1>5, <1>7, <1>8

LEMMA Nothing == << >> \in ByteStrings /\ Size(<< >>) = 0
<1>1. << >> \in Seq(Piece) /\ << >> \o << >> = << >>
  BY ConcatEmptySeq
<1>2. Size(<< >>) \in Nat /\ Size(<< >> \o << >>) = Size(<< >>) + Size(<< >>)
  BY <1>1, SizeNat, SizeConcat
<1>3. Size(<< >>) = Size(<< >>) + Size(<< >>)
  BY <1>1, <1>2
<1> QED BY <1>1, <1>2, <1>3 DEF ByteStrings

LEMMA CatNothing ==
  ASSUME NEW s \in ByteStrings
  PROVE  Cat(s, << >>) = s
BY ConcatEmptySeq DEF Cat, ByteStrings

\* The claims of any head, without the bytes after the artifact.
LEMMA DecodeShort ==
  ASSUME NEW ts \in Word,
         NEW w \in Widths, Fits(Magnitude(ts), w),
         NEW x \in Widths, Fits(U64(18), x)
  PROVE  DecodeFields(Cat(HeadOfWidth(Major.tag, U64(18), x),
                          CoseSign1(ClaimsUpToTimestamp
                                      \o HeadOfWidth(Sign(ts), Magnitude(ts), w)))) = {Fields(ts)}
<1> DEFINE claims == ClaimsUpToTimestamp \o HeadOfWidth(Sign(ts), Magnitude(ts), w)
<1>1. claims \in ByteStrings /\ Size(claims) \in 38..46
  BY TimestampHead
<1>2. DecodeFields(Cat(HeadOfWidth(Major.tag, U64(18), x), Cat(CoseSign1(claims), << >>)))
        = {Fields(ts)}
  BY Nothing, DecodeSpelling
<1> HIDE DEF claims
<1>3. CoseSign1(claims) \in ByteStrings
  <2>1. PICK n \in 38..46 : Size(claims) = n
    BY <1>1
  <2> QED BY <1>1, <2>1, CoseSize
<1>4. Cat(CoseSign1(claims), << >>) = CoseSign1(claims)
  BY <1>3, CatNothing
<1>5. DecodeFields(Cat(HeadOfWidth(Major.tag, U64(18), x), CoseSign1(claims))) = {Fields(ts)}
  BY <1>2, <1>4
<1> QED BY <1>5 DEF claims

LEMMA DecodeOwn ==
  ASSUME NEW ts \in Word
  PROVE  DecodeFields(ArtifactBytes(ts)) = {Fields(ts)}
<1> DEFINE w == Width(Magnitude(ts))
           x == Width(U64(18))
<1>1. /\ w \in Widths /\ Fits(Magnitude(ts), w) /\ x \in Widths /\ Fits(U64(18), x)
      /\ ArtifactBytes(ts) = Cat(HeadOfWidth(Major.tag, U64(18), x),
                                 CoseSign1(ClaimsUpToTimestamp
                                             \o HeadOfWidth(Sign(ts), Magnitude(ts), w)))
  BY ArtifactIs
<1> HIDE DEF w, x
<1> QED BY <1>1, DecodeShort

LEMMA ReadsBackAll ==
  ASSUME NEW ts \in Word
  PROVE  FromCoseBytes(ArtifactBytes(ts)) = {Fields(ts)}
<1>1. DecodeFields(ArtifactBytes(ts)) = {Fields(ts)}
  BY DecodeOwn
<1>2. Fields(ts).ts = ts
  BY DEF Fields
<1> QED BY <1>1, <1>2 DEF FromCoseBytes

\* The heads that LongHeads makes of a written one.
LEMMA LongHeadsOf ==
  ASSUME NEW major \in 0..6, NEW v \in Word, NEW head \in LongHeads(WriteHead(major, v))
  PROVE  \E w \in Widths : Fits(v, w) /\ head = HeadOfWidth(major, v, w)
<1> DEFINE s == WriteHead(major, v)
           r == [major |-> major, arg |-> v, rest |-> << >>]
           Longer(h) == {HeadOfWidth(h.major, h.arg, w) : w \in {w \in Widths : Fits(h.arg, w)}}
<1>1. s \in Seq(Piece) /\ s = HeadOfWidth(major, v, Width(v))
  BY WriteHeadIs
<1>2. Width(v) \in Widths /\ Fits(v, Width(v))
  BY WidthFits
<1>3. << >> \in Seq(Piece) /\ s \o << >> = s
  BY <1>1, ConcatEmptySeq
<1>4. ReadHead(HeadOfWidth(major, v, Width(v)) \o << >>) = {r}
  BY <1>2, <1>3, ReadHeadWritten
<1>5. r.major = major /\ r.arg = v
  OBVIOUS
<1>6. LongHeads(s) = UNION {Longer(h) : h \in ReadHead(s)}
  BY DEF LongHeads
<1>7. head \in LongHeads(s)
  OBVIOUS
<1> HIDE DEF s, r
<1>8. ReadHead(s) = {r}
  BY <1>1, <1>3, <1>4, Zenon
<1>9. Longer(r) = {HeadOfWidth(major, v, w) : w \in {w \in Widths : Fits(v, w)}}
  BY <1>5, Zenon
<1> HIDE DEF Longer
<1>10. head \in Longer(r)
  BY <1>6, <1>7, <1>8
<1> QED BY <1>9, <1>10

LEMMA DecodeOther ==
  ASSUME NEW ts \in Word, NEW b \in OtherSpellings(ts)
  PROVE  DecodeFields(b) = {Fields(ts)}
<1> DEFINE w == Width(Magnitude(ts))
           x == Width(U64(18))
           tag == WriteHead(Major.tag, U64(18))
           claims == ClaimsBytes(ts)
<1>1. /\ w \in Widths /\ Fits(Magnitude(ts), w) /\ x \in Widths /\ Fits(U64(18), x)
      /\ tag = HeadOfWidth(Major.tag, U64(18), x)
      /\ claims = ClaimsUpToTimestamp \o HeadOfWidth(Sign(ts), Magnitude(ts), w)
      /\ ArtifactBytes(ts) = Cat(tag, CoseSign1(claims))
  BY ArtifactIs
<1>2. /\ 18 \in 0..255 /\ Major.tag \in 0..6
  BY Majors
<1>3. U64(18) \in Word
  BY <1>2, U64Small
<1>4. Sign(ts) \in 0..6 /\ Magnitude(ts) \in Word /\ WriteI64(ts) = WriteHead(Sign(ts), Magnitude(ts))
  BY SignMagnitude
<1>5. CASE b = ArtifactBytes(ts) \o <<Byte(0)>>
  <2> DEFINE zero == <<Byte(0)>>
  <2>1. zero \in ByteStrings /\ Size(zero) = 1
    <3>1. Byte(0) \in Piece /\ Byte(0).size = 1
      BY BytePiece
    <3> QED BY <3>1, SizeOne DEF ByteStrings
  <2>2. b = Cat(Cat(tag, CoseSign1(claims)), zero)
    BY <1>1, <1>5, Zenon DEF Cat
  <2> HIDE DEF zero
  <2>3. claims \in ByteStrings /\ Size(claims) \in 38..46
    <3> HIDE DEF claims, w
    <3> QED BY <1>1, TimestampHead
  <2>4. tag \in ByteStrings
    BY Heads
  <2> HIDE DEF tag, claims, w, x
  <2>5. PICK n \in 38..46 : Size(claims) = n
    BY <2>3
  <2>6. PICK k \in 0..1 : Size(zero) = k
    BY <2>1
  <2>7. CoseSign1(claims) \in ByteStrings
    BY <2>3, <2>5, CoseSize
  <2>8. b = Cat(tag, Cat(CoseSign1(claims), zero))
    BY <2>1, <2>2, <2>4, <2>7, CatAssociative
  <2>9. DecodeFields(Cat(tag, Cat(CoseSign1(claims), zero))) = {Fields(ts)}
    BY <1>1, <2>1, <2>6, DecodeSpelling
  <2> QED BY <2>8, <2>9
<1>6. CASE \E head \in LongHeads(WriteI64(ts)) :
             b = WriteHead(Major.tag, U64(18)) \o CoseSign1(ClaimsUpToTimestamp \o head)
  <2>1. PICK head \in LongHeads(WriteI64(ts)) : b = tag \o CoseSign1(ClaimsUpToTimestamp \o head)
    BY <1>6
  <2>2. PICK y \in Widths : Fits(Magnitude(ts), y) /\ head = HeadOfWidth(Sign(ts), Magnitude(ts), y)
    BY <1>4, LongHeadsOf
  <2> HIDE DEF tag, x
  <2>3. b = Cat(HeadOfWidth(Major.tag, U64(18), x),
                CoseSign1(ClaimsUpToTimestamp \o HeadOfWidth(Sign(ts), Magnitude(ts), y)))
    BY <1>1, <2>1, <2>2, Zenon DEF Cat
  <2> QED BY <1>1, <2>2, <2>3, DecodeShort
<1>7. CASE \E head \in LongHeads(WriteHead(Major.tag, U64(18))) :
             b = head \o CoseSign1(ClaimsBytes(ts))
  <2>1. PICK head \in LongHeads(tag) : b = head \o CoseSign1(claims)
    BY <1>7
  <2>2. PICK y \in Widths : Fits(U64(18), y) /\ head = HeadOfWidth(Major.tag, U64(18), y)
    BY <1>2, <1>3, LongHeadsOf
  <2> HIDE DEF claims, w
  <2>3. b = Cat(HeadOfWidth(Major.tag, U64(18), y),
                CoseSign1(ClaimsUpToTimestamp \o HeadOfWidth(Sign(ts), Magnitude(ts), w)))
    BY <1>1, <2>1, <2>2, Zenon DEF Cat
  <2> QED BY <1>1, <2>2, <2>3, DecodeShort
<1> QED BY <1>5, <1>6, <1>7 DEF OtherSpellings

LEMMA OneEncodingAll ==
  ASSUME NEW ts \in Word, NEW b, DecodeFields(b) = {Fields(ts)}, FromCoseBytes(b) # {}
  PROVE  b = ArtifactBytes(ts)
<1>1. PICK f \in {Fields(ts)} : ArtifactBytes(f.ts) = b
  BY DEF FromCoseBytes
<1>2. f.ts = ts
  BY DEF Fields
<1> QED BY <1>1, <1>2

LEMMA SizesAll ==
  ASSUME NEW ts \in Word
  PROVE  /\ Size(ProtectedBytes) = 80
         /\ Size(ClaimsBytes(ts)) \in 38..46
         /\ Size(SigStructureBytes(ProtectedBytes, ClaimsBytes(ts))) \in 135..143
         /\ Size(ArtifactBytes(ts)) \in 191..199
<1> DEFINE w == Width(Magnitude(ts))
           claims == ClaimsBytes(ts)
           tag == WriteHead(Major.tag, U64(18))
<1>1. /\ w \in Widths /\ Fits(Magnitude(ts), w)
      /\ claims = ClaimsUpToTimestamp \o HeadOfWidth(Sign(ts), Magnitude(ts), w)
      /\ ArtifactBytes(ts) = Cat(tag, CoseSign1(claims))
  BY ArtifactIs
<1>2. tag \in ByteStrings /\ Size(tag) = 1
  BY Heads
<1> HIDE DEF w, claims, tag
<1>3. claims \in ByteStrings /\ Size(claims) \in 38..46
  BY <1>1, TimestampHead
<1>4. PICK n \in 38..46 : Size(claims) = n
  BY <1>3
<1>5. Size(ArtifactBytes(ts)) \in 191..199
  <2>1. CoseSign1(claims) \in ByteStrings /\ Size(CoseSign1(claims)) = n + 152
    BY <1>3, <1>4, CoseSize
  <2>2. Size(ArtifactBytes(ts)) = Size(tag) + Size(CoseSign1(claims))
    BY <1>1, <1>2, <2>1, CatIn
  <2> QED BY <1>2, <2>1, <2>2
<1> DEFINE a == WriteHead(Major.array, U64(4))
           t == WriteString(Major.text, <<Opaque("Signature1", 10)>>)
           p == WriteString(Major.bytes, ProtectedBytes)
           b == WriteHead(Major.bytes, U64(0))
           c == WriteString(Major.bytes, claims)
<1>a. a \in ByteStrings /\ Size(a) = 1
  BY Heads
<1>t. t \in ByteStrings /\ Size(t) = 11
  <2> DEFINE s == <<Opaque("Signature1", 10)>>
  <2>1. "Signature1" \in Names
    BY DEF Names
  <2>2. s \in Seq(Piece) /\ Size(s) = 10
    BY <2>1, OpaqueSize
  <2>3. Major.text \in 0..6
    BY Majors
  <2> HIDE DEF s
  <2>4. Size(s) \in 0..255 /\ Size(s) < 24
    BY <2>2
  <2>5. WriteString(Major.text, s) \in Seq(Piece) /\ Size(WriteString(Major.text, s)) = Size(s) + 1
    BY <2>2, <2>3, <2>4, StringSize
  <2> QED BY <2>2, <2>5 DEF s, ByteStrings
<1>p. p \in ByteStrings /\ Size(p) = 82
  <2>1. 80 \in 24..255 /\ 80 + 2 = 82
    OBVIOUS
  <2> QED BY <2>1, ProtectedParts, LongStrings
<1>b. b \in ByteStrings /\ Size(b) = 1
  BY Heads
<1>c. c \in ByteStrings /\ Size(c) = n + 2
  <2>1. n \in 24..255
    OBVIOUS
  <2> QED BY <1>3, <1>4, <2>1, LongStrings
<1> DEFINE upTo1 == Cat(a, t)
           upTo2 == Cat(upTo1, p)
           upTo3 == Cat(upTo2, b)
           upTo4 == Cat(upTo3, c)
<1>6. SigStructureBytes(ProtectedBytes, claims) = upTo4
  BY Zenon DEF SigStructureBytes, Cat
<1> HIDE DEF a, t, p, b, c
<1>7. upTo1 \in ByteStrings /\ Size(upTo1) = 12
  BY <1>a, <1>t, CatIn
<1>8. upTo2 \in ByteStrings /\ Size(upTo2) = 94
  <2> HIDE DEF upTo1
  <2> QED BY <1>7, <1>p, CatIn
<1>9. upTo3 \in ByteStrings /\ Size(upTo3) = 95
  <2> HIDE DEF upTo2
  <2> QED BY <1>8, <1>b, CatIn
<1>10. Size(upTo4) = n + 97
  <2> HIDE DEF upTo3
  <2> QED BY <1>9, <1>c, CatIn
<1> HIDE DEF upTo4
<1>11. Size(SigStructureBytes(ProtectedBytes, claims)) \in 135..143
  BY <1>6, <1>10
<1> QED BY <1>3, <1>5, <1>11, ProtectedParts DEF claims

-----------------------------------------------------------------------------
\* The specification's steps keep the timestamp a word; what is proved for every
\* word is an invariant, then.

IsWord == timestamp \in Word

\* Change: every byte of the timestamp stays a byte.
THEOREM TimestampIsWord == Spec => []IsWord
<1>1. Init => IsWord
  <2>1. 0 \in 0..255
    OBVIOUS
  <2> QED BY <2>1, U64Small DEF Init, IsWord
<1>2. IsWord /\ [Next]_timestamp => IsWord'
  <2> SUFFICES ASSUME timestamp \in Word, [Next]_timestamp PROVE timestamp' \in Word
    BY DEF IsWord
  <2>1. CASE UNCHANGED timestamp
    BY <2>1
  <2>2. CASE Next
    <3>1. PICK i \in 1..8 : \E b \in ByteChoices(i) : Change(i, b)
      BY <2>2 DEF Next
    <3>2. PICK b \in ByteChoices(i) : Change(i, b)
      BY <3>1
    <3>3. b \in 0..255
      BY BytesAssumption DEF ByteChoices
    <3> QED BY <3>2, <3>3 DEF Change, Word
  <2> QED BY <2>1, <2>2
<1> QED BY <1>1, <1>2, PTL DEF Spec

\* encoding.rs: whatever the timestamp, an attestation comes back from its own
\* artifact.
THEOREM ArtifactsReadBack == Spec => []ReadsBack
<1>1. IsWord => ReadsBack
  BY ReadsBackAll DEF ReadsBack, IsWord
<1> QED BY <1>1, TimestampIsWord, PTL

\* Attestation::from_cose_bytes: the parser takes other spellings for the same
\* attestation, and the comparison with the canonical encoding refuses them.
THEOREM OneSpelling == Spec => []OneEncoding
<1>1. IsWord => OneEncoding
  <2> SUFFICES ASSUME timestamp \in Word,
                      NEW b \in OtherSpellings(timestamp) \cup {ArtifactBytes(timestamp)}
               PROVE  /\ DecodeFields(b) = {Fields(timestamp)}
                      /\ FromCoseBytes(b) # {} => b = ArtifactBytes(timestamp)
    BY DEF OneEncoding, IsWord
  <2>1. DecodeFields(b) = {Fields(timestamp)}
    BY DecodeOther, DecodeOwn
  <2> QED BY <2>1, OneEncodingAll
<1> QED BY <1>1, TimestampIsWord, PTL

\* encoding.rs: the sizes in its comments, which it reserves its buffers by.
THEOREM SizesAsDocumented == Spec => []DocumentedSizes
<1>1. IsWord => DocumentedSizes
  BY SizesAll DEF DocumentedSizes, IsWord
<1> QED BY <1>1, TimestampIsWord, PTL

\* artifact_bytes: two timestamps never share an artifact, so the bytes that are
\* signed and stored tell them apart.
THEOREM ArtifactsDiffer ==
  ASSUME NEW s \in Word, NEW t \in Word, ArtifactBytes(s) = ArtifactBytes(t)
  PROVE  s = t
<1>1. DecodeFields(ArtifactBytes(s)) = {Fields(s)} /\ DecodeFields(ArtifactBytes(t)) = {Fields(t)}
  BY DecodeOwn
<1>2. {Fields(s)} = {Fields(t)}
  BY <1>1, Zenon
<1>3. Fields(s).ts = s /\ Fields(t).ts = t /\ Fields(s) = Fields(t)
  <2>1. Fields(s).ts = s /\ Fields(t).ts = t
    BY DEF Fields
  <2> QED BY <1>2, <2>1
<1> QED BY <1>3, Zenon

=============================================================================
