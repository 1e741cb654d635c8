----------------------------- MODULE TlogProofs -----------------------------
(***************************************************************************)
(* What a verifier of the artifacts of module Tlog accepts is true, for    *)
(* every set of logs, origins and keys, and trees of every size.           *)
(***************************************************************************)
EXTENDS Tlog, MerkleProofs

-----------------------------------------------------------------------------
\* Notes.

IsNote(note, body, lines) == note = body \o (<<Blank>> \o lines)

NoneBlank(lines) == \A i \in 1..Len(lines) : lines[i] # Blank

SplitsInto(note, body, lines) ==
  /\ Len(note) = Len(body) + 1 + Len(lines)
  /\ LastBlank(note) = Len(body) + 1
  /\ BodyOf(note) = body
  /\ SignaturesOf(note) = lines

\* A note is split at its last blank line.
LEMMA NoteSplits ==
  ASSUME NEW S, NEW body \in Seq(S), NEW lines \in Seq(S), NEW note,
         Blank \in S, IsNote(note, body, lines), NoneBlank(lines)
  PROVE  SplitsInto(note, body, lines)
<1>1. /\ <<Blank>> \o lines \in Seq(S) /\ Len(<<Blank>> \o lines) = 1 + Len(lines)
      /\ (<<Blank>> \o lines)[1] = Blank
      /\ \A i \in 1..Len(lines) : (<<Blank>> \o lines)[1 + i] = lines[i]
  OBVIOUS
<1> DEFINE rest == <<Blank>> \o lines
<1> HIDE DEF rest
<1>2. /\ note \in Seq(S) /\ Len(note) = Len(body) + Len(rest)
      /\ \A i \in 1..Len(body) : note[i] = body[i]
      /\ \A i \in 1..Len(rest) : note[Len(body) + i] = rest[i]
  BY <1>1 DEF rest, IsNote
<1>3. Len(rest) = 1 + Len(lines) /\ rest[1] = Blank /\ \A i \in 1..Len(lines) : rest[1 + i] = lines[i]
  BY <1>1 DEF rest
<1>4. Len(body) \in Nat /\ Len(lines) \in Nat
  OBVIOUS
<1>5. /\ Len(note) = Len(body) + 1 + Len(lines)
      /\ note[Len(body) + 1] = Blank
      /\ \A i \in 1..Len(lines) : note[Len(body) + 1 + i] = lines[i]
  <2>1. Len(note) = Len(body) + 1 + Len(lines)
    BY <1>2, <1>3, <1>4
  <2>2. 1 \in 1..Len(rest)
    BY <1>3, <1>4
  <2>3. note[Len(body) + 1] = Blank
    BY <1>2, <1>3, <2>2
  <2>4. ASSUME NEW i \in 1..Len(lines) PROVE note[Len(body) + 1 + i] = lines[i]
    <3>1. 1 + i \in 1..Len(rest) /\ Len(body) + (1 + i) = Len(body) + 1 + i
      BY <1>3, <1>4
    <3> QED BY <1>2, <1>3, <3>1
  <2> QED BY <2>1, <2>3, <2>4
<1>6. LastBlank(note) = Len(body) + 1
  <2> DEFINE I == {i \in 1..Len(note) : note[i] = Blank}
  <2>1. LastBlank(note) = IF I # {} THEN Max(I) ELSE 0
    BY DEF LastBlank, SelectLastInSeq
  <2>2. Len(body) + 1 \in I
    BY <1>4, <1>5
  <2>3. ASSUME NEW i \in I PROVE i <= Len(body) + 1
    <3>1. SUFFICES ASSUME i > Len(body) + 1 PROVE FALSE
      BY <1>4
    <3>2. i - (Len(body) + 1) \in 1..Len(lines) /\ Len(body) + 1 + (i - (Len(body) + 1)) = i
      BY <1>4, <1>5, <3>1
    <3>3. note[i] = lines[i - (Len(body) + 1)]
      BY <1>5, <3>2
    <3> QED BY <3>2, <3>3 DEF NoneBlank
  <2>4. \A i \in I : i \in Nat
    BY <1>4, <1>5
  <2> HIDE DEF I
  <2>5. Max(I) = Len(body) + 1
    BY <1>4, <2>2, <2>3, <2>4 DEF Max
  <2> QED BY <2>1, <2>2, <2>5
<1>7. BodyOf(note) = body
  <2>1. BodyOf(note) = SubSeq(note, 1, Len(body))
    BY <1>4, <1>6 DEF BodyOf
  <2>2. /\ SubSeq(note, 1, Len(body)) \in Seq(S)
        /\ Len(SubSeq(note, 1, Len(body))) = Len(body)
        /\ \A i \in 1..Len(body) : SubSeq(note, 1, Len(body))[i] = note[i]
    BY <1>2, <1>4, <1>5
  <2> HIDE DEF rest
  <2>3. \A i \in 1..Len(body) : SubSeq(note, 1, Len(body))[i] = body[i]
    BY <1>2, <2>2
  <2>4. SubSeq(note, 1, Len(body)) = body
    BY <2>2, <2>3, SeqEqual
  <2> QED BY <2>1, <2>4
<1>8. SignaturesOf(note) = lines
  <2>1. SignaturesOf(note) = SubSeq(note, Len(body) + 2, Len(note))
    BY <1>4, <1>6 DEF SignaturesOf
  <2>2. /\ SubSeq(note, Len(body) + 2, Len(note)) \in Seq(S)
        /\ Len(SubSeq(note, Len(body) + 2, Len(note))) = Len(lines)
        /\ \A i \in 1..Len(lines) : SubSeq(note, Len(body) + 2, Len(note))[i] = note[Len(body) + 1 + i]
    BY <1>2, <1>4, <1>5
  <2>3. \A i \in 1..Len(lines) : SubSeq(note, Len(body) + 2, Len(note))[i] = lines[i]
    BY <1>5, <2>2
  <2>4. SubSeq(note, Len(body) + 2, Len(note)) = lines
    BY <2>2, <2>3, SeqEqual
  <2> QED BY <2>1, <2>4
<1> QED BY <1>5, <1>6, <1>7, <1>8 DEF SplitsInto

IsText(body) == \E S : body \in Seq(S)

\* Signature lines are not blank.
LEMMA SignatureLineNotBlank ==
  ASSUME NEW name, NEW id, NEW sig
  PROVE  SignatureLine(name, id, sig) # Blank
BY DEF SignatureLine, Blank

LEMMA Concat1 ==
  ASSUME NEW x, NEW y
  PROVE  <<x>> \o <<y>> = <<x, y>>
<1> DEFINE S == {x, y}
           a == <<x>>
           b == <<y>>
           c == <<x, y>>
<1>1. a \in Seq(S) /\ b \in Seq(S) /\ c \in Seq(S)
  OBVIOUS
<1>2. /\ Len(a) = 1 /\ a[1] = x
      /\ Len(b) = 1 /\ b[1] = y
      /\ Len(c) = 2 /\ c[1] = x /\ c[2] = y
  OBVIOUS
<1> HIDE DEF S, a, b, c
<1>3. /\ a \o b \in Seq(S) /\ Len(a \o b) = Len(a) + Len(b)
      /\ \A i \in 1..(Len(a) + Len(b)) : (a \o b)[i] = IF i <= Len(a) THEN a[i] ELSE b[i - Len(a)]
  BY <1>1, ConcatProperties
<1>4. \A i \in 1..Len(a \o b) : (a \o b)[i] = c[i]
  <2>1. \A i \in 1..2 : i \in {1, 2}
    OBVIOUS
  <2> QED BY <1>2, <1>3, <2>1
<1>5. a \o b = c
  BY <1>1, <1>2, <1>3, <1>4, SeqEqual
<1> QED BY <1>5 DEF a, b, c

LEMMA Concat2 ==
  ASSUME NEW x, NEW y, NEW z
  PROVE  <<x>> \o <<y, z>> = <<x, y, z>>
<1> DEFINE S == {x, y, z}
           a == <<x>>
           b == <<y, z>>
           c == <<x, y, z>>
<1>1. a \in Seq(S) /\ b \in Seq(S) /\ c \in Seq(S)
  OBVIOUS
<1>2. /\ Len(a) = 1 /\ a[1] = x
      /\ Len(b) = 2 /\ b[1] = y /\ b[2] = z
      /\ Len(c) = 3 /\ c[1] = x /\ c[2] = y /\ c[3] = z
  OBVIOUS
<1> HIDE DEF S, a, b, c
<1>3. /\ a \o b \in Seq(S) /\ Len(a \o b) = Len(a) + Len(b)
      /\ \A i \in 1..(Len(a) + Len(b)) : (a \o b)[i] = IF i <= Len(a) THEN a[i] ELSE b[i - Len(a)]
  BY <1>1, ConcatProperties
<1>4. \A i \in 1..Len(a \o b) : (a \o b)[i] = c[i]
  <2>1. \A i \in 1..3 : i \in {1, 2, 3}
    OBVIOUS
  <2> QED BY <1>2, <1>3, <2>1
<1>5. a \o b = c
  BY <1>1, <1>2, <1>3, <1>4, SeqEqual
<1> QED BY <1>5 DEF a, b, c

\* A note with one signature line.
LEMMA OneLine ==
  ASSUME NEW body, IsText(body), NEW line, line # Blank, NEW note, note = body \o <<Blank, line>>
  PROVE  /\ IsText(note) /\ Len(body) \in Nat
         /\ Len(note) = Len(body) + 2 /\ Last(note) = line
         /\ LastBlank(note) = Len(body) + 1
         /\ BodyOf(note) = body /\ SignaturesOf(note) = <<line>>
<1>1. PICK S0 : body \in Seq(S0)
  BY DEF IsText
<1> DEFINE S == S0 \cup {Blank, line}
<1>2. body \in Seq(S) /\ <<line>> \in Seq(S) /\ <<Blank>> \in Seq(S) /\ Blank \in S
  BY <1>1
<1>3. <<Blank>> \o <<line>> = <<Blank, line>>
  BY Concat1
<1>4. Len(<<line>>) = 1 /\ \A i \in 1..1 : <<line>>[i] # Blank
  OBVIOUS
<1> HIDE DEF S
<1>5. /\ Len(note) = Len(body) + 1 + Len(<<line>>)
      /\ LastBlank(note) = Len(body) + 1
      /\ BodyOf(note) = body
      /\ SignaturesOf(note) = <<line>>
  <2> DEFINE ls == <<line>>
  <2>1. /\ ls \in Seq(S) /\ IsNote(note, body, ls) /\ NoneBlank(ls)
    BY <1>2, <1>3, <1>4 DEF IsNote, NoneBlank
  <2> HIDE DEF ls
  <2>2. SplitsInto(note, body, ls)
    BY <1>2, <2>1, NoteSplits
  <2> QED BY <2>2 DEF ls, SplitsInto
<1>6. <<Blank, line>> \in Seq(S) /\ Len(<<Blank, line>>) = 2 /\ <<Blank, line>>[2] = line
  BY DEF S
<1>7. note \in Seq(S) /\ note[Len(body) + 2] = line
  BY <1>2, <1>6
<1>8. Len(body) \in Nat /\ Len(note) = Len(body) + 2
  BY <1>2, <1>4, <1>5
<1> QED BY <1>5, <1>7, <1>8 DEF IsText, Last

\* A note with two signature lines.
HasTwoLines(note, body, line, line2) ==
  /\ Len(body) \in Nat /\ Len(note) = Len(body) + 3
  /\ LastBlank(note) = Len(body) + 1
  /\ BodyOf(note) = body /\ SignaturesOf(note) = <<line, line2>>

LEMMA TwoLines ==
  ASSUME NEW body, IsText(body), NEW line, line # Blank, NEW line2, line2 # Blank,
         NEW note, note = body \o <<Blank, line, line2>>
  PROVE  HasTwoLines(note, body, line, line2)
<1>1. PICK S0 : body \in Seq(S0)
  BY DEF IsText
<1> DEFINE S == S0 \cup {Blank, line, line2}
<1>2. body \in Seq(S) /\ <<line, line2>> \in Seq(S) /\ <<Blank>> \in Seq(S) /\ Blank \in S
  BY <1>1
<1>3. <<Blank>> \o <<line, line2>> = <<Blank, line, line2>>
  BY Concat2
<1>4. Len(<<line, line2>>) = 2 /\ \A i \in 1..2 : <<line, line2>>[i] # Blank
  OBVIOUS
<1> HIDE DEF S
<1>5. /\ Len(note) = Len(body) + 1 + Len(<<line, line2>>)
      /\ LastBlank(note) = Len(body) + 1
      /\ BodyOf(note) = body
      /\ SignaturesOf(note) = <<line, line2>>
  <2> DEFINE ls == <<line, line2>>
  <2>1. /\ ls \in Seq(S) /\ IsNote(note, body, ls) /\ NoneBlank(ls)
    BY <1>2, <1>3, <1>4 DEF IsNote, NoneBlank
  <2> HIDE DEF ls
  <2>2. SplitsInto(note, body, ls)
    BY <1>2, <2>1, NoteSplits
  <2> QED BY <2>2 DEF ls, SplitsInto
<1> QED BY <1>2, <1>4, <1>5 DEF HasTwoLines

\* A line that is added to a note.
LEMMA AppendLine ==
  ASSUME NEW body, IsText(body), NEW line, NEW line2
  PROVE  Append(body \o <<Blank, line>>, line2) = body \o <<Blank, line, line2>>
<1>1. PICK S0 : body \in Seq(S0)
  BY DEF IsText
<1> DEFINE S == S0 \cup {Blank, line, line2}
           a == <<Blank, line>>
           b == <<Blank, line, line2>>
<1>2. body \in Seq(S) /\ a \in Seq(S) /\ b \in Seq(S) /\ line2 \in S
  BY <1>1
<1>3. b = Append(a, line2)
  OBVIOUS
<1> HIDE DEF S, a, b
<1>4. Append(body \o a, line2) = body \o Append(a, line2)
  <2>1. body \o a \in Seq(S) /\ <<line2>> \in Seq(S)
    BY <1>2, ConcatProperties
  <2>2. /\ Append(body \o a, line2) = (body \o a) \o <<line2>>
        /\ Append(a, line2) = a \o <<line2>>
    BY <1>2, <2>1, AppendIsConcat
  <2>3. (body \o a) \o <<line2>> = body \o (a \o <<line2>>)
    BY <1>2, <2>1, ConcatAssociative
  <2> QED BY <2>2, <2>3, Zenon
<1> QED BY <1>3, <1>4 DEF a, b

\* The line that decides about a note with one line, or two.
LEMMA FirstOfOne ==
  ASSUME NEW line, NEW v
  PROVE  FirstMatch(<<line>>, v) = IF Matches(line, v) THEN 1 ELSE 0
<1> DEFINE I == {i \in 1..Len(<<line>>) : Matches(<<line>>[i], v)}
<1>1. FirstMatch(<<line>>, v) = IF I # {} THEN Min(I) ELSE 0
  BY DEF FirstMatch, SelectInSeq
<1>2. Len(<<line>>) = 1 /\ <<line>>[1] = line
  OBVIOUS
<1>3. I = IF Matches(line, v) THEN {1} ELSE {}
  BY <1>2
<1>4. Min({1}) = 1
  BY DEF Min
<1> QED BY <1>1, <1>3, <1>4

LEMMA FirstOfTwo ==
  ASSUME NEW line, NEW line2, NEW v
  PROVE  FirstMatch(<<line, line2>>, v) =
           IF Matches(line, v) THEN 1 ELSE IF Matches(line2, v) THEN 2 ELSE 0
<1> DEFINE s == <<line, line2>>
           I == {i \in 1..Len(s) : Matches(s[i], v)}
<1>1. FirstMatch(s, v) = IF I # {} THEN Min(I) ELSE 0
  BY DEF FirstMatch, SelectInSeq
<1>2. Len(s) = 2 /\ s[1] = line /\ s[2] = line2
  OBVIOUS
<1> HIDE DEF s
<1>3. 1..2 = {1, 2}
  OBVIOUS
<1>4. I = {i \in {1, 2} : Matches(s[i], v)}
  BY <1>2, <1>3
<1>5. Matches(line, v) => 1 \in I /\ Min(I) = 1
  BY <1>2, <1>4 DEF Min
<1>6. ~Matches(line, v) /\ Matches(line2, v) => I = {2}
  BY <1>2, <1>4
<1>7. ~Matches(line, v) /\ ~Matches(line2, v) => I = {}
  BY <1>2, <1>4
<1>8. Min({2}) = 2
  BY DEF Min
<1> QED BY <1>1, <1>5, <1>6, <1>7, <1>8 DEF s

\* A note with one line is accepted by the verifier that this line is for.
LEMMA OneLineVerified ==
  ASSUME NEW body, IsText(body), NEW line, line # Blank,
         NEW note, note = body \o <<Blank, line>>, NEW v, VerifyNote(note, v)
  PROVE  Matches(line, v) /\ Valid(line, body, v)
<1>1. BodyOf(note) = body /\ SignaturesOf(note) = <<line>>
  BY OneLine
<1> DEFINE first == FirstMatch(<<line>>, v)
<1>2. first # 0 /\ Valid(<<line>>[first], body, v)
  BY <1>1 DEF VerifyNote
<1>3. first = IF Matches(line, v) THEN 1 ELSE 0
  BY FirstOfOne
<1> HIDE DEF first
<1>4. Matches(line, v) /\ first = 1
  BY <1>2, <1>3
<1>5. <<line>>[1] = line
  OBVIOUS
<1> QED BY <1>2, <1>4, <1>5

\* What the checkpoint of a tree says.
Body(t, o) == EncodeBody(o, Root(t))

Line(t, o, k) == SignatureLine(o, KeyIdOf[<<o, k>>], Signature(k, Body(t, o)))

LEMMA BodyParts ==
  ASSUME NEW t, NEW o
  PROVE  /\ IsText(Body(t, o)) /\ Len(Body(t, o)) = 3
         /\ Body(t, o)[1] = NameLine(o)
         /\ Body(t, o)[2] = SizeLine(Len(t))
         /\ Body(t, o)[3] = RootLine(TreeHash(t))
<1> DEFINE a == NameLine(o)
           b == SizeLine(Len(t))
           c == RootLine(TreeHash(t))
<1>1. Body(t, o) = <<a, b, c>>
  BY DEF Body, EncodeBody, Root
<1> HIDE DEF a, b, c
<1>2. <<a, b, c>> \in Seq({a, b, c})
  OBVIOUS
<1>3. IsText(Body(t, o))
  BY <1>1, <1>2 DEF IsText
<1>4. /\ Len(Body(t, o)) = 3
      /\ Body(t, o)[1] = a /\ Body(t, o)[2] = b /\ Body(t, o)[3] = c
  BY <1>1
<1> QED BY <1>3, <1>4 DEF a, b, c

LEMMA NoteParts ==
  ASSUME NEW t, NEW o, NEW k
  PROVE  /\ Note(t, o, k) = Body(t, o) \o <<Blank, Line(t, o, k)>>
         /\ BodyOf(Note(t, o, k)) = Body(t, o)
         /\ ParsedOrigin(Note(t, o, k)) = o
         /\ ParsedRoot(Note(t, o, k)) = Root(t)
         /\ Last(Note(t, o, k))[4] = Signature(k, Body(t, o))
<1> DEFINE note == Note(t, o, k)
<1>1. note = Body(t, o) \o <<Blank, Line(t, o, k)>>
  BY DEF Note, SignNote, Line, Body
<1>2. Line(t, o, k) # Blank
  BY SignatureLineNotBlank DEF Line
<1> HIDE DEF note
<1>3. IsText(Body(t, o))
  BY BodyParts
<1>4. BodyOf(note) = Body(t, o) /\ Last(note) = Line(t, o, k)
  BY <1>1, <1>2, <1>3, OneLine
<1>5. ParsedOrigin(note) = o
  BY <1>4, BodyParts DEF ParsedOrigin, NameLine
<1>6. ParsedRoot(note) = Root(t)
  BY <1>4, BodyParts DEF ParsedRoot, Root, SizeLine, RootLine
<1>7. Last(note)[4] = Signature(k, Body(t, o))
  BY <1>4 DEF Line, SignatureLine
<1> QED BY <1>1, <1>4, <1>5, <1>6, <1>7 DEF note

-----------------------------------------------------------------------------
\* The published trees.

TypeOK == tree \in [Logs -> Seq(Leaves)]

\* The trees are sequences of leaves.
THEOREM TypeCorrect == Spec => []TypeOK
<1>1. Init => TypeOK
  BY EmptySeq DEF Init, TypeOK
<1>2. TypeOK /\ [Next]_tree => TypeOK'
  <2> SUFFICES ASSUME TypeOK, [Next]_tree PROVE TypeOK'
    OBVIOUS
  <2>1. ASSUME NEW l \in Logs, NEW d \in Leaves, AppendRaw(l, d) PROVE TypeOK'
    BY <2>1 DEF AppendRaw, TypeOK
  <2>2. CASE UNCHANGED tree
    BY <2>2 DEF TypeOK
  <2> QED BY <2>1, <2>2 DEF Next
<1> QED BY <1>1, <1>2, PTL DEF Spec

\* What a log has had is a prefix of what it has.
LEMMA PastIsPrefix ==
  ASSUME TypeOK, NEW l \in Logs, NEW t \in Past(l)
  PROVE  /\ t \in Seq(Leaves) /\ Len(t) \in Nat /\ Len(t) <= Len(tree[l])
         /\ \A i \in 1..Len(t) : t[i] = tree[l][i]
<1>1. tree[l] \in Seq(Leaves)
  BY DEF TypeOK
<1>2. PICK n \in 0..Len(tree[l]) : t = SubSeq(tree[l], 1, n)
  BY DEF Past, Prefixes
<1>3. n \in Nat /\ n <= Len(tree[l])
  BY <1>1
<1>4. /\ SubSeq(tree[l], 1, n) \in Seq(Leaves) /\ Len(SubSeq(tree[l], 1, n)) = n
      /\ \A i \in 1..n : SubSeq(tree[l], 1, n)[i] = tree[l][i]
  BY <1>1, <1>3
<1> QED BY <1>2, <1>3, <1>4

\* Proper prefixes, element by element.
LEMMA StrictPrefixIs ==
  ASSUME NEW S, NEW old \in Seq(S), NEW new \in Seq(S)
  PROVE  IsStrictPrefix(old, new) <=>
           Len(old) < Len(new) /\ \A i \in 1..Len(old) : old[i] = new[i]
<1> DEFINE a == SubSeq(old, 1, Len(old))
           b == SubSeq(new, 1, Len(old))
<1>1. Len(old) \in Nat /\ Len(new) \in Nat
  OBVIOUS
<1>2. a \in Seq(S) /\ Len(a) = Len(old) /\ \A i \in 1..Len(old) : a[i] = old[i]
  BY <1>1
<1>3. Len(old) <= Len(new) =>
        b \in Seq(S) /\ Len(b) = Len(old) /\ \A i \in 1..Len(old) : b[i] = new[i]
  BY <1>1
<1>4. IsStrictPrefix(old, new) <=> Len(old) <= Len(new) /\ a = b /\ old # new
  BY DEF IsStrictPrefix, IsPrefix
<1> HIDE DEF a, b
<1>5. ASSUME Len(old) < Len(new), \A i \in 1..Len(old) : old[i] = new[i]
      PROVE  a = b /\ old # new
  <2>1. a = b
    BY <1>1, <1>2, <1>3, <1>5, SeqEqual
  <2> QED BY <1>5, <2>1
<1>6. ASSUME Len(old) <= Len(new), a = b, old # new
      PROVE  Len(old) < Len(new) /\ \A i \in 1..Len(old) : old[i] = new[i]
  <2>1. \A i \in 1..Len(old) : old[i] = new[i]
    BY <1>2, <1>3, <1>6
  <2>2. Len(old) # Len(new)
    BY <1>6, <2>1, SeqEqual
  <2> QED BY <1>1, <1>6, <2>1, <2>2
<1> QED BY <1>1, <1>4, <1>5, <1>6

LEMMA NotesAre ==
  ASSUME NEW note \in Notes
  PROVE  \E l \in Logs : \E t \in Past(l) : note = Note(t, OriginOf[l], KeyOf[l])
<1>1. PICK l \in SigningLogs : \E t \in Past(l) : note = Note(t, OriginOf[l], KeyOf[l])
  BY DEF Notes
<1>2. l \in Logs
  BY DEF SigningLogs
<1> QED BY <1>1, <1>2

\* A published note is accepted only under the origin and the key of its log.
LEMMA NoteOfLog ==
  ASSUME NEW l \in Logs, NEW t, NEW v, VerifyCheckpoint(Note(t, OriginOf[l], KeyOf[l]), v)
  PROVE  OriginOf[l] = v.name /\ KeyOf[l] = v.key /\ l \in LogsOf(v)
<1> DEFINE o == OriginOf[l]
           k == KeyOf[l]
           note == Note(t, o, k)
<1>1. VerifyNote(note, v) /\ ParsedOrigin(note) = v.name
  BY DEF VerifyCheckpoint
<1>2. o = v.name
  <2>1. ParsedOrigin(note) = o
    <3> HIDE DEF o, k
    <3> QED BY NoteParts
  <2> QED BY <1>1, <2>1
<1>3. note = Body(t, o) \o <<Blank, Line(t, o, k)>> /\ Line(t, o, k) # Blank /\ IsText(Body(t, o))
  <2>1. Line(t, o, k) # Blank
    BY SignatureLineNotBlank DEF Line
  <2>2. IsText(Body(t, o))
    BY BodyParts
  <2> HIDE DEF o, k
  <2> QED BY <2>1, <2>2, NoteParts
<1> HIDE DEF note
<1>4. Valid(Line(t, o, k), Body(t, o), v)
  BY <1>1, <1>3, OneLineVerified
<1>5. k = v.key
  BY <1>4 DEF Valid, Line, SignatureLine, Signature
<1> QED BY <1>2, <1>5 DEF LogsOf

-----------------------------------------------------------------------------
\* Checkpoints.

\* What is signed, and how it is spread.
LEMMA BodiesAre ==
  ASSUME NEW body \in Bodies
  PROVE  \E l \in Logs : \E t \in Past(l) :
           \/ body = Body(t, OriginOf[l])
           \/ body = Append(Body(t, OriginOf[l]), Extension)
           \/ body = <<Blank>> \o Body(t, OriginOf[l])
<1>1. PICK n \in Notes : \/ body = BodyOf(n)
                         \/ body = Append(BodyOf(n), Extension)
                         \/ body = <<Blank>> \o BodyOf(n)
  BY DEF Bodies
<1>2. PICK l \in Logs : \E t \in Past(l) : n = Note(t, OriginOf[l], KeyOf[l])
  BY NotesAre
<1>3. PICK t \in Past(l) : n = Note(t, OriginOf[l], KeyOf[l])
  BY <1>2
<1>4. BodyOf(n) = Body(t, OriginOf[l])
  BY <1>3, NoteParts
<1> QED BY <1>1, <1>4

LEMMA BodiesAreText ==
  ASSUME NEW body \in Bodies
  PROVE  IsText(body)
<1>1. PICK b : IsText(b) /\ (body = b \/ body = Append(b, Extension) \/ body = <<Blank>> \o b)
  BY BodiesAre, BodyParts
<1>2. PICK S : b \in Seq(S)
  BY <1>1 DEF IsText
<1> DEFINE E == Extension
           B == <<Blank>>
           U == S \cup {E, Blank}
<1>3. b \in Seq(U) /\ B \in Seq(U) /\ E \in U
  BY <1>2
<1> HIDE DEF E, B, U
<1>4. Append(b, E) \in Seq(U) /\ B \o b \in Seq(U)
  BY <1>3
<1> QED BY <1>1, <1>3, <1>4 DEF IsText, E, B

LEMMA SignatureLinesAre ==
  ASSUME NEW line \in SignatureLines
  PROVE  \E l \in Logs : \E t \in Past(l) : \E name \in Names, id \in KeyIds :
           line = SignatureLine(name, id, Signature(KeyOf[l], Body(t, OriginOf[l])))
<1>1. PICK name \in Names, id \in KeyIds, n \in Notes : line = SignatureLine(name, id, Last(n)[4])
  BY DEF SignatureLines
<1>2. PICK l \in Logs : \E t \in Past(l) : n = Note(t, OriginOf[l], KeyOf[l])
  BY NotesAre
<1>3. PICK t \in Past(l) : n = Note(t, OriginOf[l], KeyOf[l])
  BY <1>2
<1>4. Last(n)[4] = Signature(KeyOf[l], Body(t, OriginOf[l]))
  BY <1>3, NoteParts
<1> QED BY <1>1, <1>4

LEMMA SignatureInjective ==
  ASSUME NEW k1, NEW b1, NEW k2, NEW b2, Signature(k1, b1) = Signature(k2, b2)
  PROVE  k1 = k2 /\ b1 = b2
BY DEF Signature

\* CheckpointSound holds of any trees at all.
LEMMA CheckpointsSound == CheckpointSound
<1> SUFFICES ASSUME NEW note \in Relabelled, NEW v \in Verifiers, VerifyCheckpoint(note, v)
             PROVE  \E l \in LogsOf(v) : \E t \in Past(l) : ParsedRoot(note) = Root(t)
  BY DEF CheckpointSound
<1>1. PICK body \in Bodies, line \in SignatureLines : note = body \o <<Blank, line>>
  <2> DEFINE R(body, line) == body \o <<Blank, line>>
  <2>1. Relabelled = {R(body, line) : body \in Bodies, line \in SignatureLines}
    BY DEF Relabelled
  <2> HIDE DEF R
  <2>2. \E body \in Bodies, line \in SignatureLines : note = R(body, line)
    BY <2>1
  <2> QED BY <2>2 DEF R
<1>2. PICK l \in Logs : \E t \in Past(l) : \E name \in Names, id \in KeyIds :
        line = SignatureLine(name, id, Signature(KeyOf[l], Body(t, OriginOf[l])))
  BY SignatureLinesAre
<1>3. PICK t \in Past(l), name \in Names, id \in KeyIds :
        line = SignatureLine(name, id, Signature(KeyOf[l], Body(t, OriginOf[l])))
  BY <1>2
<1>4. line # Blank /\ IsText(body)
  BY <1>3, SignatureLineNotBlank, BodiesAreText
<1>5. VerifyNote(note, v) /\ ParsedOrigin(note) = v.name
  BY DEF VerifyCheckpoint
<1>6. Valid(line, body, v)
  BY <1>1, <1>4, <1>5, OneLineVerified
<1>7. KeyOf[l] = v.key /\ body = Body(t, OriginOf[l])
  <2> DEFINE key == KeyOf[l]
             b == Body(t, OriginOf[l])
  <2>1. line[4] = Signature(key, b)
    <3> HIDE DEF key, b
    <3> QED BY <1>3 DEF SignatureLine, key, b
  <2>2. Signature(key, b) = Signature(v.key, body)
    BY <1>6, <2>1 DEF Valid
  <2> HIDE DEF key, b
  <2>3. key = v.key /\ b = body
    BY <2>2, SignatureInjective
  <2> QED BY <2>3 DEF key, b
<1>8. BodyOf(note) = body
  BY <1>1, <1>4, OneLine
<1>9. BodyOf(note) = Body(t, OriginOf[l])
  BY <1>7, <1>8
<1>10. OriginOf[l] = v.name
  <2>1. ParsedOrigin(note) = OriginOf[l]
    BY <1>9, BodyParts DEF ParsedOrigin, NameLine
  <2> QED BY <1>5, <2>1
<1>11. ParsedRoot(note) = Root(t)
  BY <1>9, BodyParts DEF ParsedRoot, Root, SizeLine, RootLine
<1> QED BY <1>7, <1>10, <1>11 DEF LogsOf

(***************************************************************************)
(* A checkpoint that verify_checkpoint accepts is one that a log with the  *)
(* verifier's origin and key has signed, for any logs, however keys are    *)
(* shared, key ids collide and signatures are relabelled.                  *)
(***************************************************************************)
THEOREM CheckpointsAreSigned == Spec => []CheckpointSound
BY CheckpointsSound, PTL

\* Control characters: a note has none when its body and its lines have none.
NoControl(text) == \A line \in Range(text) : ~HasControl(line)

LEMMA NoControlConcat ==
  ASSUME NEW body, IsText(body), NEW rest, IsText(rest)
  PROVE  NoControl(body \o rest) <=> NoControl(body) /\ NoControl(rest)
<1>1. PICK S1 : body \in Seq(S1)
  BY DEF IsText
<1>2. PICK S2 : rest \in Seq(S2)
  BY DEF IsText
<1> DEFINE S == S1 \cup S2
           note == body \o rest
<1>3. body \in Seq(S) /\ rest \in Seq(S) /\ Len(body) \in Nat /\ Len(rest) \in Nat
  BY <1>1, <1>2
<1> HIDE DEF S
<1>4. /\ note \in Seq(S) /\ Len(note) = Len(body) + Len(rest)
      /\ \A i \in 1..Len(body) : note[i] = body[i]
      /\ \A i \in 1..Len(rest) : note[Len(body) + i] = rest[i]
  BY <1>3
<1> HIDE DEF note
<1>5. /\ DOMAIN body = 1..Len(body) /\ DOMAIN rest = 1..Len(rest)
      /\ DOMAIN note = 1..(Len(body) + Len(rest))
  BY <1>3, <1>4
<1>6. ASSUME NoControl(note) PROVE NoControl(body) /\ NoControl(rest)
  <2>1. \A i \in 1..(Len(body) + Len(rest)) : ~HasControl(note[i])
    BY <1>5, <1>6 DEF NoControl, Range
  <2>2. \A i \in 1..Len(body) : ~HasControl(body[i])
    <3> SUFFICES ASSUME NEW i \in 1..Len(body) PROVE ~HasControl(body[i])
      OBVIOUS
    <3>1. i \in 1..(Len(body) + Len(rest))
      BY <1>3
    <3> QED BY <1>4, <2>1, <3>1
  <2>3. \A i \in 1..Len(rest) : ~HasControl(rest[i])
    <3> SUFFICES ASSUME NEW i \in 1..Len(rest) PROVE ~HasControl(rest[i])
      OBVIOUS
    <3>1. Len(body) + i \in 1..(Len(body) + Len(rest))
      BY <1>3
    <3> QED BY <1>4, <2>1, <3>1
  <2> QED BY <1>5, <2>2, <2>3 DEF NoControl, Range
<1>7. ASSUME NoControl(body), NoControl(rest) PROVE NoControl(note)
  <2> SUFFICES ASSUME NEW i \in 1..(Len(body) + Len(rest)) PROVE ~HasControl(note[i])
    BY <1>5 DEF NoControl, Range
  <2>1. CASE i <= Len(body)
    <3>1. i \in 1..Len(body)
      BY <1>3, <2>1
    <3>2. ~HasControl(body[i])
      BY <1>5, <1>7, <3>1 DEF NoControl, Range
    <3> QED BY <1>4, <3>1, <3>2
  <2>2. CASE ~(i <= Len(body))
    <3> DEFINE j == i - Len(body)
    <3>1. j \in 1..Len(rest) /\ i = Len(body) + j
      BY <1>3, <2>2
    <3> HIDE DEF j
    <3>2. ~HasControl(rest[j])
      BY <1>5, <1>7, <3>1 DEF NoControl, Range
    <3> QED BY <1>4, <3>1, <3>2
  <2> QED BY <2>1, <2>2
<1> QED BY <1>6, <1>7 DEF note

LEMMA BlankNoControl == ~HasControl(Blank)
BY DEF HasControl, Blank

LEMMA OneLineControl ==
  ASSUME NEW body, IsText(body), NoControl(body), NEW line
  PROVE  NoControl(body \o <<Blank, line>>) <=> ~HasControl(line)
<1> DEFINE rest == <<Blank, line>>
<1>1. rest \in Seq({Blank, line}) /\ Range(rest) = {Blank, line}
  BY DEF Range
<1> HIDE DEF rest
<1>2. NoControl(rest) <=> ~HasControl(line)
  BY <1>1, BlankNoControl DEF NoControl
<1>3. IsText(rest)
  BY <1>1 DEF IsText
<1>4. NoControl(body \o rest) <=> ~HasControl(line)
  BY <1>2, <1>3, NoControlConcat
<1> QED BY <1>4 DEF rest

LEMMA TwoLinesControl ==
  ASSUME NEW body, IsText(body), NoControl(body), NEW line, NEW line2
  PROVE  NoControl(body \o <<Blank, line, line2>>) <=> ~HasControl(line) /\ ~HasControl(line2)
<1> DEFINE rest == <<Blank, line, line2>>
<1>1. rest \in Seq({Blank, line, line2}) /\ Range(rest) = {Blank, line, line2}
  BY DEF Range
<1> HIDE DEF rest
<1>2. NoControl(rest) <=> ~HasControl(line) /\ ~HasControl(line2)
  BY <1>1, BlankNoControl DEF NoControl
<1>3. IsText(rest)
  BY <1>1 DEF IsText
<1>4. NoControl(body \o rest) <=> ~HasControl(line) /\ ~HasControl(line2)
  BY <1>2, <1>3, NoControlConcat
<1> QED BY <1>4 DEF rest

\* A note that its one line, or the first of two that is for the verifier, signs.
LEMMA OneLineAccepted ==
  ASSUME NEW body, IsText(body), body # << >>, Len(body) + 2 <= MaxNoteLines, NoControl(body),
         NEW line, line # Blank, IsSignatureLine(line), ~HasControl(line),
         NEW v, Matches(line, v), Valid(line, body, v),
         NEW note, note = body \o <<Blank, line>>
  PROVE  VerifyNote(note, v)
<1>1. /\ Len(body) \in Nat /\ Len(note) = Len(body) + 2 /\ LastBlank(note) = Len(body) + 1
      /\ BodyOf(note) = body /\ SignaturesOf(note) = <<line>>
  BY OneLine
<1>2. Len(body) # 0
  <2>1. PICK S : body \in Seq(S)
    BY DEF IsText
  <2> QED BY <2>1, EmptySeq
<1>3. /\ Len(<<line>>) = 1 /\ <<line>> # << >> /\ <<line>>[1] = line
      /\ \A x \in Range(<<line>>) : x = line
  BY DEF Range
<1>4. FirstMatch(<<line>>, v) = 1
  BY FirstOfOne
<1> DEFINE lines == <<line>>
<1>5. Parses(note)
  <2>1. 1 <= MaxSignatureLines
    BY CapsAssumption
  <2> HIDE DEF lines
  <2>2. LastBlank(note) > 1
    BY <1>1, <1>2
  <2>3. Len(note) <= MaxNoteLines
    BY <1>1
  <2>4. NoControl(note)
    BY OneLineControl
  <2> QED BY <1>1, <1>3, <2>1, <2>2, <2>3, <2>4 DEF Parses, NoControl, lines
<1> QED BY <1>1, <1>3, <1>4, <1>5 DEF VerifyNote

LEMMA TwoLinesAccepted ==
  ASSUME NEW body, IsText(body), body # << >>, Len(body) + 3 <= MaxNoteLines, NoControl(body),
         NEW line, line # Blank, IsSignatureLine(line), ~HasControl(line),
         NEW line2, line2 # Blank, IsSignatureLine(line2), ~HasControl(line2),
         NEW v, \/ Matches(line, v) /\ Valid(line, body, v)
                \/ ~Matches(line, v) /\ Matches(line2, v) /\ Valid(line2, body, v),
         NEW note, note = body \o <<Blank, line, line2>>
  PROVE  VerifyNote(note, v)
<1> DEFINE lines == <<line, line2>>
<1>1. /\ Len(body) \in Nat /\ Len(note) = Len(body) + 3 /\ LastBlank(note) = Len(body) + 1
      /\ BodyOf(note) = body /\ SignaturesOf(note) = lines
  <2>1. HasTwoLines(note, body, line, line2)
    BY TwoLines
  <2> QED BY <2>1 DEF HasTwoLines
<1>2. Len(body) # 0
  <2>1. PICK S : body \in Seq(S)
    BY DEF IsText
  <2> QED BY <2>1, EmptySeq
<1>3. /\ Len(lines) = 2 /\ lines # << >> /\ lines[1] = line /\ lines[2] = line2
      /\ \A x \in Range(lines) : x = line \/ x = line2
  BY DEF Range
<1>4. FirstMatch(lines, v) = IF Matches(line, v) THEN 1 ELSE IF Matches(line2, v) THEN 2 ELSE 0
  BY FirstOfTwo
<1> HIDE DEF lines
<1>5. Parses(note)
  <2>1. 2 <= MaxSignatureLines
    BY CapsAssumption
  <2>2. LastBlank(note) > 1
    BY <1>1, <1>2
  <2>3. Len(note) <= MaxNoteLines
    BY <1>1
  <2>4. NoControl(note)
    BY TwoLinesControl
  <2> QED BY <1>1, <1>3, <2>1, <2>2, <2>3, <2>4 DEF Parses, NoControl
<1> QED BY <1>1, <1>3, <1>4, <1>5 DEF VerifyNote

\* CosignedVerifies holds of any trees at all.
LEMMA CosignedNotesVerify == CosignedVerifies
<1> SUFFICES ASSUME NEW v \in Verifiers, NEW body \in Bodies, NEW line \in SignatureLines
             PROVE  LET note == SignNote(body, v.name, v.key)
                        before == body \o <<Blank, line, Last(note)>>
                    IN CanSign(body, v.name) =>
                         /\ FromSpec(ToSpec(v)) = {v}
                         /\ BodyOf(note) = body
                         /\ VerifyNote(note, v) <=> v.name \notin ControlNames
                         /\ \/ v.name \in ControlNames \/ HasControl(line)
                            \/ Matches(line, v) \/ Len(before) > MaxNoteLines
                            \/ VerifyNote(before, v) /\ VerifyNote(Append(note, line), v)
  BY DEF CosignedVerifies
<1> DEFINE note == SignNote(body, v.name, v.key)
           before == body \o <<Blank, line, Last(note)>>
           own == SignatureLine(v.name, v.key_id, Signature(v.key, body))
<1> SUFFICES ASSUME CanSign(body, v.name)
             PROVE  /\ FromSpec(ToSpec(v)) = {v}
                    /\ BodyOf(note) = body
                    /\ VerifyNote(note, v) <=> v.name \notin ControlNames
                    /\ \/ v.name \in ControlNames \/ HasControl(line)
                       \/ Matches(line, v) \/ Len(before) > MaxNoteLines
                       \/ VerifyNote(before, v) /\ VerifyNote(Append(note, line), v)
  OBVIOUS
<1>a. PICK o \in Names : \E k : v = VerifierKey(o, k)
  BY DEF Verifiers, FromSpec
<1>0. PICK k : v = VerifierKey(o, k)
  BY <1>a
<1>1. v.name \in Names /\ v.name = o /\ v.key = k /\ v.key_id = KeyIdOf[<<v.name, v.key>>]
  BY <1>0 DEF VerifierKey
<1>2. FromSpec(ToSpec(v)) = {v}
  <2> DEFINE spec == ToSpec(v)
  <2>1. /\ spec.name = v.name /\ spec.key = v.key /\ spec.algorithm = "ed25519"
        /\ spec.key_id = KeyIdOf[<<v.name, v.key>>]
    BY <1>1 DEF ToSpec
  <2>2. v = VerifierKey(v.name, v.key)
    BY <1>0, <1>1
  <2> HIDE DEF spec
  <2>3. {n \in Names : n = spec.name /\ spec.algorithm = "ed25519"
                         /\ spec.key_id = KeyIdOf[<<n, spec.key>>]} = {v.name}
    BY <1>1, <2>1
  <2>4. FromSpec(spec) = {VerifierKey(n, spec.key) : n \in {v.name}}
    BY <2>3 DEF FromSpec
  <2> QED BY <2>1, <2>2, <2>4 DEF spec
<1>3. /\ IsText(body) /\ body # << >> /\ Len(body) + 2 <= MaxNoteLines /\ NoControl(body)
  BY BodiesAreText DEF CanSign, NoControl
<1>4. note = body \o <<Blank, own>>
  BY <1>1 DEF SignNote
<1>4a. HasControl(own) <=> v.name \in ControlNames
  BY DEF HasControl, SignatureLine
<1>5. own # Blank /\ IsSignatureLine(own) /\ Matches(own, v) /\ Valid(own, body, v)
  <2>1. own # Blank
    BY SignatureLineNotBlank
  <2> DEFINE sig == Signature(v.key, body)
  <2>2. own = <<"sig", v.name, v.key_id, sig>>
    BY DEF SignatureLine
  <2> HIDE DEF own, sig
  <2>3. own[1] = "sig" /\ own[2] = v.name /\ own[3] = v.key_id /\ own[4] = sig
    BY <2>2
  <2> QED BY <1>1, <2>1, <2>3 DEF IsSignatureLine, Matches, Valid, sig
<1>6. line # Blank /\ IsSignatureLine(line)
  <2>1. PICK name, id, sig : name \in Names /\ line = SignatureLine(name, id, sig)
    BY DEF SignatureLines
  <2> QED BY <2>1, SignatureLineNotBlank DEF SignatureLine, IsSignatureLine
<1> HIDE DEF note, own
<1>7. BodyOf(note) = body /\ Last(note) = own
  BY <1>3, <1>4, <1>5, OneLine
<1>8. VerifyNote(note, v) <=> v.name \notin ControlNames
  <2>1. ASSUME v.name \notin ControlNames PROVE VerifyNote(note, v)
    BY <1>3, <1>4, <1>4a, <1>5, <2>1, OneLineAccepted
  <2>2. ASSUME VerifyNote(note, v) PROVE v.name \notin ControlNames
    <3>1. NoControl(note)
      BY <2>2 DEF VerifyNote, Parses, NoControl
    <3> QED BY <1>3, <1>4, <1>4a, <3>1, OneLineControl
  <2> QED BY <2>1, <2>2
<1>9. ASSUME v.name \notin ControlNames, ~HasControl(line),
             ~Matches(line, v), ~(Len(before) > MaxNoteLines)
      PROVE  VerifyNote(before, v) /\ VerifyNote(Append(note, line), v)
  <2>1. before = body \o <<Blank, line, own>>
    BY <1>7
  <2>2. Append(note, line) = body \o <<Blank, own, line>>
    BY <1>3, <1>4, AppendLine
  <2> HIDE DEF before
  <2>3. Len(before) = Len(body) + 3 /\ Len(body) \in Nat
    BY <1>3, <1>5, <1>6, <2>1, TwoLines DEF HasTwoLines
  <2>4. Len(body) + 3 <= MaxNoteLines
    BY <1>9, <2>3, CapsAssumption
  <2>5. VerifyNote(before, v)
    BY <1>3, <1>4a, <1>5, <1>6, <1>9, <2>1, <2>4, TwoLinesAccepted
  <2>6. VerifyNote(Append(note, line), v)
    BY <1>3, <1>4a, <1>5, <1>6, <1>9, <2>2, <2>4, TwoLinesAccepted
  <2> QED BY <2>5, <2>6
<1> QED BY <1>2, <1>7, <1>8, <1>9

(***************************************************************************)
(* A note that sign_note emits verifies with the key that `key inspect'    *)
(* prints, read back by from_spec, exactly when its name has no control    *)
(* character, and still does when a line of another signer is added before *)
(* or after its own, up to the caps: for every set of names, keys and key  *)
(* ids, colliding ones included.                                           *)
(***************************************************************************)
THEOREM SignedNotesVerify == Spec => []CosignedVerifies
BY CosignedNotesVerify, PTL

-----------------------------------------------------------------------------
\* Artifacts.

\* Published proofs, and what becomes of them, are sequences.
LEMMA ProofsAreText ==
  ASSUME TypeOK, NEW p \in Proofs
  PROVE  IsText(p)
<1>1. PICK l \in Logs : p \in UNION {{InclusionPath(t, i) : i \in 0..(Len(t) - 1)} \cup
                                     {ConsistencyPath(t, m) : m \in 1..Len(t)} : t \in Past(l)}
  BY DEF Proofs
<1>2. PICK t \in Past(l) : p \in {InclusionPath(t, i) : i \in 0..(Len(t) - 1)} \cup
                                 {ConsistencyPath(t, m) : m \in 1..Len(t)}
  BY <1>1
<1>3. Len(t) \in Nat
  BY PastIsPrefix
<1>4. ASSUME NEW i \in 0..(Len(t) - 1) PROVE InclusionPath(t, i) \in Seq(NodesOf(t))
  <2>1. Len(t) \in Positive /\ i \in Nat
    BY <1>3 DEF Positive
  <2> QED BY <2>1, InclusionPathsType DEF InclusionPath
<1>5. ASSUME NEW m \in 1..Len(t) PROVE ConsistencyPath(t, m) \in Seq(NodesOf(t))
  <2>1. Len(t) \in Positive /\ m \in Positive /\ m <= Len(t)
    BY <1>3 DEF Positive
  <2> QED BY <2>1, ConsistencyPathsType DEF ConsistencyPath
<1>6. p \in Seq(NodesOf(t))
  BY <1>2, <1>4, <1>5
<1> QED BY <1>6 DEF IsText

LEMMA HashesHaveLength ==
  ASSUME TypeOK, NEW hashes \in Hashes
  PROVE  Len(hashes) \in Nat
<1>1. PICK p \in Proofs : hashes \in Edited(p)
  BY DEF Hashes
<1>2. PICK S : p \in Seq(S)
  BY ProofsAreText DEF IsText
<1>3. \/ hashes = p
      \/ \E i \in DOMAIN p : hashes = RemoveAt(p, i)
      \/ \E i \in DOMAIN p : \E h : hashes = ReplaceAt(p, i, h)
  BY <1>1 DEF Edited
<1>4. DOMAIN p = 1..Len(p) /\ Len(p) \in Nat
  BY <1>2
<1>5. ASSUME NEW i \in DOMAIN p PROVE Len(RemoveAt(p, i)) \in Nat
  <2>1. i \in 1..Len(p)
    BY <1>4
  <2> DEFINE a == SubSeq(p, 1, i - 1)
             b == SubSeq(p, i + 1, Len(p))
  <2>2. a \in Seq(S)
    BY <1>2, <1>4, <2>1
  <2>3. b \in Seq(S)
    BY <1>2, <1>4, <2>1
  <2>4. RemoveAt(p, i) = a \o b
    BY DEF RemoveAt
  <2> HIDE DEF a, b
  <2>5. a \o b \in Seq(S)
    BY <2>2, <2>3
  <2> QED BY <2>4, <2>5
<1>6. ASSUME NEW i \in DOMAIN p, NEW h PROVE Len(ReplaceAt(p, i, h)) \in Nat
  <2> DEFINE U == S \cup {h}
  <2>1. p \in Seq(U) /\ h \in U
    BY <1>2
  <2> HIDE DEF U
  <2>2. ReplaceAt(p, i, h) \in Seq(U)
    BY <1>4, <2>1 DEF ReplaceAt
  <2> QED BY <2>2
<1> QED BY <1>3, <1>4, <1>5, <1>6

\* InclusionSound follows from the type of the trees.
LEMMA InclusionsSound == TypeOK => InclusionSound
<1> SUFFICES ASSUME TypeOK,
                    NEW note \in Notes, NEW hashes \in Hashes, NEW i \in Sizes, NEW d \in Leaves,
                    NEW v \in LogVerifiers,
                    NEW size \in Neighbours(ParsedRoot(note).num_leaves),
                    LogVerifyInclusion([format |-> "inclusion", tree_size |-> size, leaf_index |-> i,
                                        hashes |-> hashes, checkpoint |-> note], d, v)
             PROVE  \E l \in LogsOf(v) : i < size /\ size <= Len(tree[l]) /\ tree[l][i + 1] = d
  BY DEF InclusionSound
<1> DEFINE a == [format |-> "inclusion", tree_size |-> size, leaf_index |-> i,
                 hashes |-> hashes, checkpoint |-> note]
<1>1. a.tree_size = size /\ a.leaf_index = i /\ a.hashes = hashes /\ a.checkpoint = note
  OBVIOUS
<1>2. VerifyInclusionArtifact(a, d, v)
  BY DEF LogVerifyInclusion
<1> HIDE DEF a
<1>3. /\ VerifyCheckpoint(note, v)
      /\ ParsedRoot(note).num_leaves = size
      /\ VerifyInclusionRaw(ParsedRoot(note), d, i, hashes)
  BY <1>1, <1>2 DEF VerifyInclusionArtifact
<1>4. PICK l \in Logs : \E t \in Past(l) : note = Note(t, OriginOf[l], KeyOf[l])
  BY NotesAre
<1>4a. PICK t \in Past(l) : note = Note(t, OriginOf[l], KeyOf[l])
  BY <1>4
<1>5. l \in LogsOf(v)
  BY <1>3, <1>4a, NoteOfLog
<1>6. ParsedRoot(note) = Root(t)
  BY <1>4a, NoteParts
<1>7. /\ t \in Seq(Leaves) /\ Len(t) \in Nat /\ Len(t) <= Len(tree[l])
      /\ \A j \in 1..Len(t) : t[j] = tree[l][j]
  BY PastIsPrefix
<1>8. i \in Nat
  BY GuardsAssumption DEF Sizes
<1>9. Len(hashes) \in Nat
  BY HashesHaveLength
<1>10. i < Len(t) /\ t[i + 1] = d
  BY <1>3, <1>6, <1>7, <1>8, <1>9, InclusionProofsSound
<1>11. size = Len(t)
  BY <1>3, <1>6 DEF Root
<1>12. tree[l][i + 1] = d
  BY <1>7, <1>8, <1>10
<1> QED BY <1>5, <1>7, <1>10, <1>11, <1>12

(***************************************************************************)
(* An inclusion artifact that verifies says the truth: some log with the   *)
(* verifier's origin and key has had the leaf at this index in a tree of   *)
(* this size, for trees of every size and proofs of every length.          *)
(***************************************************************************)
THEOREM InclusionArtifactsSound == Spec => []InclusionSound
<1>1. TypeOK => InclusionSound
  BY InclusionsSound
<1> QED BY <1>1, TypeCorrect, PTL

\* ConsistencySound follows from the type of the trees.
LEMMA ConsistenciesSound == TypeOK => ConsistencySound
<1> SUFFICES ASSUME TypeOK,
                    NEW note1 \in Notes, NEW note2 \in Notes, NEW hashes \in Hashes,
                    NEW v \in LogVerifiers,
                    LogVerifyConsistency([format |-> "consistency",
                                          tree_size_1 |-> ParsedRoot(note1).num_leaves,
                                          tree_size_2 |-> ParsedRoot(note2).num_leaves,
                                          hashes |-> hashes,
                                          checkpoint_1 |-> note1, checkpoint_2 |-> note2], v)
             PROVE  \E l, m \in LogsOf(v) : \E old \in Past(l), new \in Past(m) :
                      /\ note1 = Note(old, v.name, v.key) /\ note2 = Note(new, v.name, v.key)
                      /\ IsStrictPrefix(old, new)
  BY DEF ConsistencySound
<1> DEFINE size1 == ParsedRoot(note1).num_leaves
           size2 == ParsedRoot(note2).num_leaves
           a == [format |-> "consistency", tree_size_1 |-> size1, tree_size_2 |-> size2,
                 hashes |-> hashes, checkpoint_1 |-> note1, checkpoint_2 |-> note2]
<1>1. /\ a.tree_size_1 = size1 /\ a.tree_size_2 = size2 /\ a.hashes = hashes
      /\ a.checkpoint_1 = note1 /\ a.checkpoint_2 = note2
  OBVIOUS
<1>2. VerifyConsistencyArtifact(a, v)
  BY DEF LogVerifyConsistency
<1> HIDE DEF a
<1>3. /\ size1 < size2
      /\ VerifyCheckpoint(note1, v) /\ VerifyCheckpoint(note2, v)
      /\ VerifyConsistency(ParsedRoot(note1), ParsedRoot(note2), hashes)
  BY <1>1, <1>2 DEF VerifyConsistencyArtifact
<1>4. PICK l \in Logs : \E old \in Past(l) : note1 = Note(old, OriginOf[l], KeyOf[l])
  BY NotesAre
<1>4a. PICK old \in Past(l) : note1 = Note(old, OriginOf[l], KeyOf[l])
  BY <1>4
<1>5. PICK m \in Logs : \E new \in Past(m) : note2 = Note(new, OriginOf[m], KeyOf[m])
  BY NotesAre
<1>5a. PICK new \in Past(m) : note2 = Note(new, OriginOf[m], KeyOf[m])
  BY <1>5
<1>6. OriginOf[l] = v.name /\ KeyOf[l] = v.key /\ l \in LogsOf(v)
  BY <1>3, <1>4a, NoteOfLog
<1>7. OriginOf[m] = v.name /\ KeyOf[m] = v.key /\ m \in LogsOf(v)
  BY <1>3, <1>5a, NoteOfLog
<1>8. ParsedRoot(note1) = Root(old) /\ ParsedRoot(note2) = Root(new)
  BY <1>4a, <1>5a, NoteParts
<1>9. old \in Seq(Leaves) /\ new \in Seq(Leaves) /\ Len(old) \in Nat /\ Len(new) \in Nat
  BY PastIsPrefix
<1>10. Len(hashes) \in Nat
  BY HashesHaveLength
<1>11. Len(old) <= Len(new) /\ \A i \in 1..Len(old) : old[i] = new[i]
  BY <1>3, <1>8, <1>9, <1>10, ConsistencyProofsSound
<1>12. Len(old) < Len(new)
  BY <1>3, <1>8 DEF Root
<1>13. IsStrictPrefix(old, new)
  BY <1>9, <1>11, <1>12, StrictPrefixIs
<1> QED BY <1>4a, <1>5a, <1>6, <1>7, <1>13

(***************************************************************************)
(* A consistency artifact that verifies says the truth: both checkpoints   *)
(* are of logs with the verifier's origin and key, and the old tree is a   *)
(* proper prefix of the new one.  Copies of a log that went apart, however *)
(* long they are, are never consistent.                                    *)
(***************************************************************************)
THEOREM ConsistencyArtifactsSound == Spec => []ConsistencySound
<1>1. TypeOK => ConsistencySound
  BY ConsistenciesSound
<1> QED BY <1>1, TypeCorrect, PTL

-----------------------------------------------------------------------------
\* Building.

\* The hashes of subtrees are encoded as 32 bytes.
LEMMA NodesDecode ==
  ASSUME NEW t, NEW hashes \in Seq(NodesOf(t))
  PROVE  Decodes(hashes)
<1>1. ASSUME NEW lo \in Nat, NEW n \in Positive PROVE SubtreeHashes(t)[<<lo, n>>] # Junk
  <2>1. CASE n = 1
    BY <2>1, SubtreeLeaf DEF LeafHash, Junk
  <2>2. CASE n # 1
    <3>1. SubtreeHashes(t)[<<lo, n>>] =
            NodeHash(SubtreeHashes(t)[<<lo, Split(n)>>],
                     SubtreeHashes(t)[<<lo + Split(n), n - Split(n)>>])
      BY <2>2, SubtreeNode
    <3> QED BY <3>1 DEF NodeHash, Junk
  <2> QED BY <2>1, <2>2
<1>2. Junk \notin NodesOf(t)
  <2>1. SUFFICES ASSUME NEW run \in Nat \X Positive PROVE SubtreeHashes(t)[run] # Junk
    BY DEF NodesOf
  <2>2. run = <<run[1], run[2]>> /\ run[1] \in Nat /\ run[2] \in Positive
    OBVIOUS
  <2> QED BY <1>1, <2>2
<1>3. \A x \in DOMAIN hashes : hashes[x] \in NodesOf(t)
  OBVIOUS
<1> QED BY <1>2, <1>3 DEF Decodes, Range

\* The lines of a checkpoint: it parses, and it can be signed unless its origin
\* has a control character.
LEMMA BodyIsSound ==
  ASSUME NEW t, NEW o \in Names
  PROVE  /\ CanSign(Body(t, o), o) <=> o \notin ControlNames
         /\ NoControl(Body(t, o)) <=> o \notin ControlNames
         /\ Body(t, o) # << >> /\ Len(Body(t, o)) + 2 <= MaxNoteLines /\ BodyParses(Body(t, o))
<1> DEFINE b == Body(t, o)
<1>1. /\ IsText(b) /\ Len(b) = 3
      /\ b[1] = NameLine(o) /\ b[2] = SizeLine(Len(t)) /\ b[3] = RootLine(TreeHash(t))
  BY BodyParts
<1> HIDE DEF b
<1>2. PICK S : b \in Seq(S)
  BY <1>1 DEF IsText
<1>3. DOMAIN b = 1..3 /\ b # << >>
  <2>1. DOMAIN b = 1..Len(b) /\ (b = << >> => Len(b) = 0)
    BY <1>2
  <2>2. Len(b) = 3
    BY <1>1
  <2> QED BY <2>1, <2>2
<1>4. 1..3 = {1, 2, 3}
  OBVIOUS
<1>5. Blank \notin Range(b)
  <2>1. NameLine(o) # Blank /\ SizeLine(Len(t)) # Blank /\ RootLine(TreeHash(t)) # Blank
    BY DEF NameLine, SizeLine, RootLine, Blank
  <2>2. \A i \in DOMAIN b : b[i] # Blank
    BY <1>1, <1>3, <1>4, <2>1
  <2> QED BY <2>2 DEF Range
<1>6. Len(b) + 2 <= MaxNoteLines
  BY <1>1, HonestSizesAssumption, CapsAssumption
<1>7. b[1][1] = "name" /\ b[1][2] = o /\ b[2][1] = "size" /\ b[3][1] = "root"
  BY <1>1 DEF NameLine, SizeLine, RootLine
<1>8. NoControl(b) <=> o \notin ControlNames
  <2>1. /\ HasControl(b[1]) <=> o \in ControlNames
        /\ ~HasControl(b[2]) /\ ~HasControl(b[3])
    BY <1>7 DEF HasControl
  <2>2. NoControl(b) <=> \A i \in {1, 2, 3} : ~HasControl(b[i])
    BY <1>3, <1>4 DEF NoControl, Range
  <2> QED BY <2>1, <2>2
<1>9. \A i \in 2..Len(b) : b[i] # Blank
  <2>1. \A i \in 2..3 : i \in DOMAIN b
    BY <1>3
  <2> QED BY <1>1, <1>5, <2>1 DEF Range
<1>10. CanSign(b, o) <=> o \notin ControlNames
  BY <1>3, <1>6, <1>8, <1>9 DEF CanSign, NoControl
<1>11. BodyParses(b)
  BY <1>1, <1>5, <1>7 DEF BodyParses
<1> QED BY <1>3, <1>6, <1>8, <1>10, <1>11 DEF b

\* The note of a tree verifies as a checkpoint under the key that signed it.
LEMMA NoteVerifies ==
  ASSUME NEW t, NEW o \in Names, o \notin ControlNames, NEW k
  PROVE  VerifyCheckpoint(Note(t, o, k), VerifierKey(o, k))
<1> DEFINE b == Body(t, o)
           line == Line(t, o, k)
           v == VerifierKey(o, k)
           note == Note(t, o, k)
<1>1. note = b \o <<Blank, line>> /\ BodyOf(note) = b /\ ParsedOrigin(note) = o
  BY NoteParts
<1>2. IsText(b)
  BY BodyParts
<1>3. b # << >> /\ Len(b) + 2 <= MaxNoteLines /\ BodyParses(b) /\ NoControl(b)
  BY BodyIsSound
<1>4. v.name = o /\ v.key = k /\ v.key_id = KeyIdOf[<<o, k>>]
  BY DEF VerifierKey
<1>5. /\ line # Blank /\ IsSignatureLine(line) /\ ~HasControl(line)
      /\ Matches(line, v) /\ Valid(line, b, v)
  <2>1. line # Blank
    BY SignatureLineNotBlank DEF Line
  <2> DEFINE sig == Signature(k, b)
             id == KeyIdOf[<<o, k>>]
  <2>2. line = <<"sig", o, id, sig>>
    BY DEF Line, SignatureLine
  <2> HIDE DEF line, sig, id, v
  <2>3. line[1] = "sig" /\ line[2] = o /\ line[3] = id /\ line[4] = sig
    BY <2>2
  <2> QED BY <1>4, <2>1, <2>3 DEF IsSignatureLine, HasControl, Matches, Valid, sig, id
<1> HIDE DEF b, line, v, note
<1>6. VerifyNote(note, v)
  BY <1>1, <1>2, <1>3, <1>5, OneLineAccepted
<1>7. VerifyCheckpoint(note, v)
  BY <1>1, <1>3, <1>4, <1>6 DEF VerifyCheckpoint
<1> QED BY <1>7 DEF note, v

\* BuildInclusionExact follows from the type of the trees.
LEMMA InclusionBuilds == TypeOK => BuildInclusionExact
<1> SUFFICES ASSUME TypeOK,
                    NEW l \in Logs, NEW o \in Names, NEW d \in Leaves, NEW i \in Sizes,
                    NEW t \in Past(l)
             PROVE  BuildsInclusion(t, d, i, o, KeyOf[l]) <=>
                      /\ o \notin ControlNames
                      /\ Len(t) < MaxJsonTreeSize /\ i < Len(t) /\ t[i + 1] = d
  BY DEF BuildInclusionExact
<1> DEFINE k == KeyOf[l]
           note == Note(t, o, k)
           path == InclusionPath(t, i)
           a == InclusionArtifact(t, i, o, k)
           v == VerifierKey(o, k)
<1>1. i \in Nat /\ t \in Seq(Leaves) /\ Len(t) \in Nat
  BY GuardsAssumption, PastIsPrefix DEF Sizes
<1>2. /\ a.format = "inclusion" /\ a.tree_size = Len(t) /\ a.leaf_index = i
      /\ a.hashes = path /\ a.checkpoint = note
  BY DEF InclusionArtifact
<1>3. BuildsInclusion(t, d, i, o, k) <=>
        /\ Len(t) < MaxJsonTreeSize /\ i < Len(t)
        /\ CanSign(Body(t, o), o) /\ VerifyInclusionArtifact(a, d, v)
  <2> HIDE DEF k
  <2> QED BY DEF BuildsInclusion, JsonSafe, CanProveInclusion, Body
<1>4. ParsedRoot(note) = Root(t) /\ Root(t).num_leaves = Len(t)
  BY NoteParts DEF Root
<1>5. /\ CanSign(Body(t, o), o) <=> o \notin ControlNames
      /\ o \notin ControlNames => VerifyCheckpoint(note, v)
  BY BodyIsSound, NoteVerifies
<1> HIDE DEF k, a, v, note
<1>6. o \notin ControlNames =>
        (VerifyInclusionArtifact(a, d, v) <=>
          /\ Len(t) < MaxJsonTreeSize /\ i < Len(t)
          /\ Len(path) <= MaxInclusionHashes /\ Decodes(path)
          /\ VerifyInclusionRaw(Root(t), d, i, path))
  BY <1>2, <1>4, <1>5 DEF VerifyInclusionArtifact
<1>7. ASSUME Len(t) < MaxJsonTreeSize, i < Len(t)
      PROVE  /\ path \in Seq(NodesOf(t)) /\ Len(path) <= MaxInclusionHashes /\ Decodes(path)
             /\ VerifyInclusionRaw(Root(t), d, i, path) <=> t[i + 1] = d
  <2>1. Len(t) \in Positive
    BY <1>1, <1>7 DEF Positive
  <2>2. path \in Seq(NodesOf(t))
    BY <2>1, InclusionPathsType DEF InclusionPath
  <2>3. MaxJsonTreeSize \in Nat /\ MaxInclusionHashes \in Nat
    BY GuardsAssumption
  <2>4. TwoTo[MaxInclusionHashes] \in Nat
    BY <2>3, TwoToUnfold DEF Positive
  <2>5. Len(t) <= TwoTo[MaxInclusionHashes]
    BY <1>1, <1>7, <2>3, <2>4, HonestSizesAssumption
  <2>6. Len(path) <= MaxInclusionHashes
    BY <1>1, <1>7, <2>3, <2>5, InclusionPathLength
  <2>7. Decodes(path)
    BY <2>2, NodesDecode
  <2>8. Len(path) \in Nat
    BY <2>2
  <2>9. VerifyInclusionRaw(Root(t), d, i, path) => t[i + 1] = d
    BY <1>1, <2>8, InclusionProofsSound
  <2>10. VerifyInclusionRaw(Root(t), t[i + 1], i, path)
    BY <1>1, <1>7, InclusionProofsComplete
  <2> QED BY <2>2, <2>6, <2>7, <2>9, <2>10
<1>8. BuildsInclusion(t, d, i, o, k) <=>
        /\ o \notin ControlNames
        /\ Len(t) < MaxJsonTreeSize /\ i < Len(t) /\ t[i + 1] = d
  BY <1>3, <1>5, <1>6, <1>7
<1> QED BY <1>8 DEF k

(***************************************************************************)
(* build_inclusion_artifact succeeds for exactly the leaves that are in    *)
(* the tree, at their index, up to the size that JSON can carry, whatever  *)
(* that size is, and under every origin without a control character: its   *)
(* own verification never stops an honest artifact.                        *)
(***************************************************************************)
THEOREM HonestInclusionBuilds == Spec => []BuildInclusionExact
<1>1. TypeOK => BuildInclusionExact
  BY InclusionBuilds
<1> QED BY <1>1, TypeCorrect, PTL

\* BuildConsistencyExact follows from the type of the trees.
LEMMA ConsistencyBuilds == TypeOK => BuildConsistencyExact
<1> SUFFICES ASSUME TypeOK, NEW l \in Logs, NEW m \in Logs, NEW o \in Names,
                    NEW old \in Past(l), NEW new \in Past(m)
             PROVE  BuildsConsistency(old, new, o, KeyOf[m]) <=>
                      /\ o \notin ControlNames
                      /\ Len(new) < MaxJsonTreeSize /\ old # << >> /\ IsStrictPrefix(old, new)
  BY DEF BuildConsistencyExact
<1> DEFINE k == KeyOf[m]
           note1 == Note(old, o, k)
           note2 == Note(new, o, k)
           path == ConsistencyPath(new, Len(old))
           a == ConsistencyArtifact(old, new, o, k)
           v == VerifierKey(o, k)
           Sized == Len(new) < MaxJsonTreeSize /\ Len(old) # 0 /\ Len(old) < Len(new)
<1>1. old \in Seq(Leaves) /\ new \in Seq(Leaves) /\ Len(old) \in Nat /\ Len(new) \in Nat
  BY PastIsPrefix
<1>2. /\ a.format = "consistency" /\ a.tree_size_1 = Len(old) /\ a.tree_size_2 = Len(new)
      /\ a.hashes = path /\ a.checkpoint_1 = note1 /\ a.checkpoint_2 = note2
  BY DEF ConsistencyArtifact
<1>3. BuildsConsistency(old, new, o, k) <=>
        Sized /\ CanSign(Body(old, o), o) /\ VerifyConsistencyArtifact(a, v)
  <2> HIDE DEF k
  <2>1. CanProveConsistency(new, Len(old), Len(new)) <=> Len(old) # 0 /\ Len(old) <= Len(new)
    BY DEF CanProveConsistency
  <2>2. Len(old) < Len(new) => Len(old) <= Len(new)
    BY <1>1
  <2> QED BY <2>1, <2>2 DEF BuildsConsistency, JsonSafe, Body
<1>4. /\ ParsedRoot(note1) = Root(old) /\ ParsedRoot(note2) = Root(new)
      /\ Root(old).num_leaves = Len(old) /\ Root(new).num_leaves = Len(new)
  <2> HIDE DEF k
  <2> QED BY NoteParts DEF Root
<1>5. /\ CanSign(Body(old, o), o) <=> o \notin ControlNames
      /\ o \notin ControlNames => VerifyCheckpoint(note1, v) /\ VerifyCheckpoint(note2, v)
  <2> HIDE DEF k
  <2> QED BY BodyIsSound, NoteVerifies
<1> HIDE DEF k, a, v, note1, note2
<1>6. o \notin ControlNames =>
        (VerifyConsistencyArtifact(a, v) <=>
          /\ Sized
          /\ Len(path) <= MaxConsistencyHashes /\ Decodes(path)
          /\ VerifyConsistency(Root(old), Root(new), path))
  <2>1. 0 < Len(old) <=> Len(old) # 0
    BY <1>1
  <2> QED BY <1>2, <1>4, <1>5, <2>1 DEF VerifyConsistencyArtifact
<1>7. ASSUME Sized
      PROVE  /\ Len(path) <= MaxConsistencyHashes /\ Decodes(path)
             /\ VerifyConsistency(Root(old), Root(new), path) <=> IsStrictPrefix(old, new)
  <2>1. Len(new) \in Positive /\ Len(old) \in Positive /\ Len(old) <= Len(new)
    BY <1>1, <1>7 DEF Positive
  <2>2. path \in Seq(NodesOf(new))
    BY <2>1, ConsistencyPathsType DEF ConsistencyPath
  <2> DEFINE h == MaxConsistencyHashes - 1
  <2>3. MaxJsonTreeSize \in Nat /\ h \in Nat /\ h + 1 = MaxConsistencyHashes
    BY GuardsAssumption, HonestSizesAssumption
  <2>4. MaxJsonTreeSize - 1 <= TwoTo[h]
    BY HonestSizesAssumption
  <2> HIDE DEF h
  <2>5. TwoTo[h] \in Nat
    BY <2>3, TwoToUnfold DEF Positive
  <2>6. Len(new) <= TwoTo[h]
    BY <1>1, <1>7, <2>3, <2>4, <2>5
  <2>7. Len(path) <= h + 1
    BY <1>1, <1>7, <2>1, <2>3, <2>6, ConsistencyPathLength
  <2>8. Decodes(path)
    BY <2>2, NodesDecode
  <2>9. Len(path) \in Nat
    BY <2>2
  <2> HIDE DEF path
  <2>10. ASSUME VerifyConsistency(Root(old), Root(new), path) PROVE IsStrictPrefix(old, new)
    <3>1. \A i \in 1..Len(old) : old[i] = new[i]
      BY <1>1, <2>9, <2>10, ConsistencyProofsSound
    <3> QED BY <1>1, <1>7, <3>1, StrictPrefixIs
  <2>11. ASSUME IsStrictPrefix(old, new) PROVE VerifyConsistency(Root(old), Root(new), path)
    <3>1. \A i \in 1..Len(old) : old[i] = new[i]
      BY <1>1, <2>11, StrictPrefixIs
    <3> QED BY <1>1, <1>7, <2>1, <3>1, ConsistencyProofsComplete DEF path
  <2> QED BY <2>3, <2>7, <2>8, <2>10, <2>11
<1>8. Len(old) # 0 <=> old # << >>
  BY <1>1, EmptySeq
<1>9. IsStrictPrefix(old, new) => Len(old) < Len(new)
  BY <1>1, StrictPrefixIs
<1> HIDE DEF path
<1>10. BuildsConsistency(old, new, o, k) <=>
        /\ o \notin ControlNames
        /\ Len(new) < MaxJsonTreeSize /\ old # << >> /\ IsStrictPrefix(old, new)
  BY <1>3, <1>5, <1>6, <1>7, <1>8, <1>9
<1> QED BY <1>10 DEF k

(***************************************************************************)
(* build_consistency_artifact, which takes any two trees, succeeds exactly *)
(* when the old one is a proper prefix of the new one and not empty, for   *)
(* trees of every size that JSON can carry and every origin without a      *)
(* control character.                                                      *)
(***************************************************************************)
THEOREM HonestConsistencyBuilds == Spec => []BuildConsistencyExact
<1>1. TypeOK => BuildConsistencyExact
  BY ConsistencyBuilds
<1> QED BY <1>1, TypeCorrect, PTL

=============================================================================
