------------------------ MODULE CertAuthorityProofs ------------------------
(***************************************************************************)
(* For any number of authorities, processes, certificates and extensions,  *)
(* any clock and any length of a second: what ca verify accepts was issued *)
(* by the key given, with the claims and the validity that it shows, and   *)
(* what an undisturbed ca issue leaves is accepted.                        *)
(***************************************************************************)
EXTENDS CertAuthority, SequenceTheorems, TLAPS

-----------------------------------------------------------------------------
\* Certificates, and the lines that files are made of.

Certs ==
  [id : Nat, issuer : Authority, subject : Names, ttl : Nat, issued_at : Nat,
   expires_at : Nat, exts : Seq(ExtensionSet)]

SignatureOf(c) == SignatureLine("ed25519", Sign(c.issuer, Tbs(c)))

Lines(I) ==
  {Begin, End, Hole} \cup ExtensionSet \cup {HeadLine(c) : c \in I}
    \cup {SubjectLine(c) : c \in I} \cup {SignatureOf(c) : c \in I}

LEMMA SeqWider ==
  ASSUME NEW A, NEW B, NEW s \in Seq(A), \A i \in 1..Len(s) : s[i] \in B
  PROVE  s \in Seq(B)
  OBVIOUS

-----------------------------------------------------------------------------
\* The text of a certificate, line by line.

LEMMA TbsLines ==
  ASSUME NEW c \in Certs
  PROVE  /\ Tbs(c) \in Seq({HeadLine(c), SubjectLine(c)} \cup ExtensionSet)
         /\ Len(Tbs(c)) = Len(c.exts) + 2
         /\ Tbs(c)[1] = HeadLine(c)
         /\ Tbs(c)[2] = SubjectLine(c)
         /\ \A i \in 1..Len(c.exts) : Tbs(c)[i + 2] = c.exts[i]
  <1> DEFINE S == {HeadLine(c), SubjectLine(c)} \cup ExtensionSet
  <1> DEFINE h == <<HeadLine(c), SubjectLine(c)>>
  <1>1. h \in Seq(S) /\ Len(h) = 2 /\ h[1] = HeadLine(c) /\ h[2] = SubjectLine(c)
    OBVIOUS
  <1>2. c.exts \in Seq(ExtensionSet)  BY DEF Certs
  <1>3. c.exts \in Seq(S)  BY <1>2
  <1> HIDE DEF h, S
  <1>4. QED  BY <1>1, <1>2, <1>3, ConcatProperties DEF Tbs, h, S

LEMMA DerLines ==
  ASSUME NEW c \in Certs
  PROVE  /\ Der(c) \in Seq({HeadLine(c), SubjectLine(c), SignatureOf(c)} \cup ExtensionSet)
         /\ Len(Der(c)) = Len(c.exts) + 3
         /\ \A i \in 1..(Len(c.exts) + 2) : Der(c)[i] = Tbs(c)[i]
         /\ Der(c)[Len(c.exts) + 3] = SignatureOf(c)
  <1> DEFINE S == {HeadLine(c), SubjectLine(c), SignatureOf(c)} \cup ExtensionSet
  <1>1. Tbs(c) \in Seq(S) /\ Len(Tbs(c)) = Len(c.exts) + 2
    <2>1. {HeadLine(c), SubjectLine(c)} \cup ExtensionSet \subseteq S  OBVIOUS
    <2> HIDE DEF S
    <2>2. QED  BY <2>1, TbsLines, SeqMonotonic
  <1>2. SignatureOf(c) \in S  OBVIOUS
  <1>3. Der(c) = Append(Tbs(c), SignatureOf(c))  BY DEF Der, SignatureOf
  <1>4. Len(c.exts) \in Nat  BY DEF Certs
  <1> HIDE DEF S
  <1>5. QED  BY <1>1, <1>2, <1>3, <1>4, AppendProperties DEF S

LEMMA PemLines ==
  ASSUME NEW c \in Certs
  PROVE  /\ EncodePem(c) \in Seq(Lines({c}))
         /\ Len(EncodePem(c)) = Len(c.exts) + 5
         /\ EncodePem(c)[1] = Begin
         /\ \A i \in 1..(Len(c.exts) + 3) : EncodePem(c)[i + 1] = Der(c)[i]
         /\ EncodePem(c)[Len(c.exts) + 5] = End
  <1> DEFINE S == Lines({c})
  <1>1. Der(c) \in Seq(S) /\ Len(Der(c)) = Len(c.exts) + 3
    <2>1. {HeadLine(c), SubjectLine(c), SignatureOf(c)} \cup ExtensionSet \subseteq S
      BY DEF Lines
    <2> HIDE DEF S
    <2>2. QED  BY <2>1, DerLines, SeqMonotonic
  <1>2. <<Begin>> \in Seq(S) /\ <<End>> \in Seq(S)  BY DEF Lines
  <1>3. Len(c.exts) \in Nat  BY DEF Certs
  <1>4. /\ <<Begin>> \o Der(c) \in Seq(S)
        /\ Len(<<Begin>> \o Der(c)) = Len(c.exts) + 4
        /\ (<<Begin>> \o Der(c))[1] = Begin
        /\ \A i \in 1..(Len(c.exts) + 3) : (<<Begin>> \o Der(c))[i + 1] = Der(c)[i]
    <2> HIDE DEF S
    <2>1. QED  BY <1>1, <1>2, <1>3, ConcatProperties
  <1> HIDE DEF S
  <1>5. EncodePem(c) = (<<Begin>> \o Der(c)) \o <<End>>  BY DEF EncodePem
  <1>6. QED  BY <1>2, <1>3, <1>4, <1>5, ConcatProperties DEF S

LEMMA LineItems ==
  ASSUME NEW c
  PROVE  /\ HeadLine(c).item = "head"
         /\ HeadLine(c).lines = Len(c.exts) + 3
         /\ SubjectLine(c).item = "subject"
         /\ SignatureOf(c).item = "signature"
         /\ \A e \in ExtensionSet : e.item = "extension"
  BY DEF HeadLine, SubjectLine, SignatureOf, SignatureLine, ExtensionSet

-----------------------------------------------------------------------------
\* Decoding gives back what was encoded.

LEMMA FromDerExact ==
  ASSUME NEW c \in Certs
  PROVE  FromDer(Der(c)) = {[tbs |-> Tbs(c), signature |-> SignatureOf(c)]}
  <1> DEFINE S == {HeadLine(c), SubjectLine(c), SignatureOf(c)} \cup ExtensionSet
             n == Len(c.exts) + 3
             t == SubSeq(Der(c), 1, n - 1)
  <1>1. n \in Nat /\ n >= 3 /\ n - 1 \in Nat /\ Len(c.exts) \in Nat
    BY DEF Certs
  <1>2. Der(c)[1].item = "head" /\ Der(c)[1].lines = n
    <2>1. Der(c)[1] = Tbs(c)[1]
      <3>1. 1 \in 1..(Len(c.exts) + 2)  BY <1>1
      <3>2. QED  BY <3>1, DerLines
    <2>2. Der(c)[1] = HeadLine(c)  BY <2>1, TbsLines
    <2>3. QED  BY <2>2, LineItems
  <1>3. Tbs(c) \in Seq(S)
    <2>1. {HeadLine(c), SubjectLine(c)} \cup ExtensionSet \subseteq S  OBVIOUS
    <2> HIDE DEF S
    <2>2. QED  BY <2>1, TbsLines, SeqMonotonic
  <1>4. t = Tbs(c)
    <2>1. Der(c) \in Seq(S) /\ Len(Der(c)) = n /\ Len(Tbs(c)) = n - 1
          /\ \A i \in 1..(n - 1) : Der(c)[i] = Tbs(c)[i]
      <3>1. n - 1 = Len(c.exts) + 2  BY <1>1
      <3>2. QED  BY <3>1, DerLines, TbsLines
    <2> HIDE DEF S, n
    <2>2. \A i \in 1..(n - 1) : Der(c)[i] \in S  BY <2>1, <1>1
    <2>3. t \in Seq(S) /\ Len(t) = n - 1 /\ \A i \in 1..(n - 1) : t[i] = Der(c)[1 + i - 1]
      BY <1>1, <2>2, SubSeqProperties
    <2>4. \A i \in 1..(n - 1) : t[i] = Tbs(c)[i]  BY <2>1, <2>3, <1>1
    <2> HIDE DEF t
    <2>5. QED  BY <1>3, <2>1, <2>3, <2>4, SeqEqual
  <1>5. Len(Der(c)) = n /\ Der(c)[n] = SignatureOf(c)  BY DerLines
  <1>6. /\ Len(Tbs(c)) >= 2
        /\ Tbs(c)[2].item = "subject"
        /\ \A i \in 3..Len(Tbs(c)) : Tbs(c)[i].item = "extension"
        /\ SignatureOf(c).item = "signature"
    <2>1. c.exts \in Seq(ExtensionSet) /\ Len(Tbs(c)) = Len(c.exts) + 2  BY TbsLines DEF Certs
    <2>2. ASSUME NEW i \in 3..Len(Tbs(c))
          PROVE  Tbs(c)[i].item = "extension"
      <3>1. i - 2 \in 1..Len(c.exts) /\ i = (i - 2) + 2  BY <1>1, <2>1
      <3>2. Tbs(c)[i] = c.exts[i - 2]  BY <3>1, TbsLines
      <3>3. c.exts[i - 2] \in ExtensionSet  BY <2>1, <3>1
      <3>4. QED  BY <3>2, <3>3, LineItems
    <2>3. Len(Tbs(c)) >= 2  BY <1>1, <2>1
    <2>4. Tbs(c)[2].item = "subject"  BY TbsLines, LineItems
    <2>5. QED  BY <2>2, <2>3, <2>4, LineItems
  <1>7. {i \in 1..Len(Der(c)) : i = n} = {n}  BY <1>1, <1>5
  <1>8. FromDer(Der(c)) =
          { cert \in {[tbs |-> t, signature |-> Der(c)[i]] : i \in {n}} :
              /\ Len(cert.tbs) >= 2
              /\ cert.tbs[2].item = "subject"
              /\ \A i \in 3..Len(cert.tbs) : cert.tbs[i].item = "extension"
              /\ cert.signature.item = "signature" }
    BY <1>2, <1>7 DEF FromDer
  <1> HIDE DEF t, n
  <1>9. QED  BY <1>4, <1>5, <1>6, <1>8

LEMMA DecodePemExact ==
  ASSUME NEW c \in Certs
  PROVE  DecodePem(EncodePem(c)) = {Der(c)}
  <1> DEFINE S == Lines({c})
             T == {HeadLine(c), SubjectLine(c), SignatureOf(c)} \cup ExtensionSet
             e == EncodePem(c)
             n == Len(c.exts) + 3
             t == SubSeq(e, 2, n + 1)
  <1>1. n \in Nat /\ n >= 3  BY DEF Certs
  <1>2. /\ e \in Seq(S) /\ Len(e) = n + 2 /\ e[1] = Begin /\ e[n + 2] = End
        /\ \A i \in 1..n : e[i + 1] = Der(c)[i]
    <2>1. n + 2 = Len(c.exts) + 5  BY DEF Certs
    <2>2. QED  BY <2>1, PemLines
  <1>3. Der(c) \in Seq(T) /\ Len(Der(c)) = n  BY DerLines
  <1>4. T \subseteq S /\ \A l \in T : l.item \in DerItems
    BY LineItems DEF Lines, DerItems
  <1> HIDE DEF S, T, e, n
  <1>5. \A i \in 2..(n + 1) : e[i] = Der(c)[i - 1] /\ e[i] \in T
    <2>1. ASSUME NEW i \in 2..(n + 1)
          PROVE  e[i] = Der(c)[i - 1] /\ e[i] \in T
      <3>1. i - 1 \in 1..n /\ i = (i - 1) + 1  BY <1>1
      <3>2. QED  BY <3>1, <1>2, <1>3
    <2>2. QED  BY <2>1
  <1>6. t = Der(c)
    <2>1. t \in Seq(T) /\ Len(t) = n /\ \A i \in 1..n : t[i] = e[2 + i - 1]
      BY <1>1, <1>5, SubSeqProperties
    <2>2. \A i \in 1..n : t[i] = Der(c)[i]  BY <1>1, <1>2, <2>1
    <2> HIDE DEF t
    <2>3. QED  BY <1>3, <2>1, <2>2, SeqEqual
  <1>7. \A i \in 2..(Len(e) - 1) : e[i].item \in DerItems
    BY <1>1, <1>2, <1>4, <1>5
  <1>8. SubSeq(e, 2, Len(e) - 1) = t  BY <1>1, <1>2
  <1> HIDE DEF t
  <1>9. DecodePem(e) = {Der(c)}  BY <1>1, <1>2, <1>6, <1>7, <1>8 DEF DecodePem
  <1>10. QED  BY <1>9 DEF e

-----------------------------------------------------------------------------
\* The inductive invariant.

\* Certificates are as issue_certificate makes them, with keys of their own.
CertInv ==
  /\ issued \subseteq Certs
  /\ \A c \in issued :
       /\ c.id \in 1..MaxIssues
       /\ c.subject # BlankName
       /\ c.expires_at = TruncateToSecond(c.issued_at + c.ttl)
       /\ Timestamp(c.issued_at + c.ttl) <= LastSecond

IdsInv == \A c, d \in issued : c.id = d.id => c = d

\* Every line of the file is one of a certificate that was issued.
FileInv == file \in Seq(Lines(issued))

Commands(I) ==
  [id : 0..MaxIssues, text : {<< >>} \cup {EncodePem(c) : c \in I},
   offset : Int, alone : BOOLEAN]

Writes(o, c) ==
  o.id = c.id /\ o.text = EncodePem(c) /\ o.offset \in (-1)..Len(EncodePem(c))

CmdInv ==
  /\ cmd \in [Proc -> Commands(issued)]
  /\ \A p \in Proc : IF cmd[p].id = 0 THEN cmd[p] = Idle
                      ELSE \E c \in issued : Writes(cmd[p], c)

\* A command that runs alone has written what the file holds.
AloneInv ==
  \A p \in Proc :
    Running(p) /\ cmd[p].alone =>
      /\ \A q \in Proc : Running(q) => q = p
      /\ cmd[p].offset >= 0 =>
           Len(file) = cmd[p].offset
             /\ \A i \in 1..cmd[p].offset : file[i] = cmd[p].text[i]

\* Nobody has touched the file since the issue that left it clean.
CleanInv ==
  clean # 0 =>
    /\ \E c \in issued : c.id = clean /\ file = EncodePem(c)
    /\ \A p \in Proc : Running(p) => cmd[p].offset = -1

IndInv == CertInv /\ IdsInv /\ FileInv /\ CmdInv /\ AloneInv /\ CleanInv

LEMMA LinesGrow ==
  ASSUME NEW I, NEW J, I \subseteq J
  PROVE  Lines(I) \subseteq Lines(J)
  BY DEF Lines

LEMMA InitInv == Init => IndInv
  <1> SUFFICES ASSUME Init PROVE IndInv  OBVIOUS
  <1>1. CertInv /\ IdsInv  BY DEF Init, CertInv, IdsInv
  <1>2. FileInv  BY DEF Init, FileInv
  <1>3. CmdInv  BY BoundAssumption DEF Init, CmdInv, Commands, Idle
  <1>4. AloneInv /\ CleanInv  BY DEF Init, AloneInv, CleanInv, Running, Idle
  <1>5. QED  BY <1>1, <1>2, <1>3, <1>4 DEF IndInv

LEMMA StartIssueInv ==
  ASSUME IndInv, NEW p \in Proc, NEW a \in Authority, NEW subject \in Names,
         NEW ttl \in Ttls, NEW exts \in Extensions, NEW now \in Clock,
         StartIssue(p, a, subject, ttl, exts, now)
  PROVE  IndInv'
  <1>1. PICK id \in 1..MaxIssues :
          /\ ~Running(p)
          /\ \A d \in issued : d.id < id
          /\ \E c \in IssueCertificate(id, a, subject, ttl, exts, now) :
               /\ issued' = issued \cup {c}
               /\ cmd' = [q \in Proc |->
                            IF q = p
                            THEN Issuing(id, EncodePem(c), \A r \in Proc : ~Running(r))
                            ELSE [cmd[q] EXCEPT !.alone = FALSE]]
          /\ UNCHANGED <<file, clean>>
    BY DEF StartIssue
  <1>2. PICK c \in IssueCertificate(id, a, subject, ttl, exts, now) :
          /\ issued' = issued \cup {c}
          /\ cmd' = [q \in Proc |->
                       IF q = p
                       THEN Issuing(id, EncodePem(c), \A r \in Proc : ~Running(r))
                       ELSE [cmd[q] EXCEPT !.alone = FALSE]]
    BY <1>1
  <1>3. /\ c = Certificate(id, a, subject, ttl, exts, now)
        /\ subject # BlankName
        /\ Timestamp(now + ttl) <= LastSecond
    BY DEF IssueCertificate, Representable
  <1>4. TruncateToSecond(now + ttl) \in Nat
    <2>1. now \in Nat /\ ttl \in Nat /\ Second \in Nat \ {0}  BY TimeAssumption
    <2>2. (now + ttl) \in Nat /\ (now + ttl) \div Second \in Nat  BY <2>1
    <2>3. QED  BY <2>1, <2>2 DEF TruncateToSecond, Timestamp
  <1>5. c \in Certs /\ c.id = id /\ c.subject = subject /\ c.issued_at = now /\ c.ttl = ttl
          /\ c.expires_at = TruncateToSecond(now + ttl)
    <2>1. exts \in Seq(ExtensionSet) /\ now \in Nat /\ ttl \in Nat
      BY ExtensionsAssumption, TimeAssumption
    <2>2. id \in Nat  BY BoundAssumption
    <2>3. QED  BY <1>3, <1>4, <2>1, <2>2 DEF Certificate, Certs
  <1>6. CertInv'
    BY <1>2, <1>3, <1>5 DEF IndInv, CertInv
  <1>7. IdsInv'
    <2>1. \A d \in issued : d.id # c.id
      BY <1>1, <1>5, BoundAssumption DEF IndInv, CertInv
    <2>2. QED  BY <1>2, <2>1 DEF IndInv, IdsInv
  <1>8. FileInv'
    <2>1. Lines(issued) \subseteq Lines(issued')  BY <1>2, LinesGrow
    <2>2. file' \in Seq(Lines(issued))  BY <1>1 DEF IndInv, FileInv
    <2>3. QED  BY <2>1, <2>2, SeqMonotonic DEF FileInv
  <1>9. \A q \in Proc : q # p => /\ cmd'[q].id = cmd[q].id /\ cmd'[q].text = cmd[q].text
                                 /\ cmd'[q].offset = cmd[q].offset /\ cmd'[q].alone = FALSE
                                 /\ cmd'[q] \in Commands(issued)
                                 /\ cmd[q] = Idle => cmd'[q] = Idle
    <2>1. ASSUME NEW q \in Proc, q # p
          PROVE  /\ cmd'[q].id = cmd[q].id /\ cmd'[q].text = cmd[q].text
                 /\ cmd'[q].offset = cmd[q].offset /\ cmd'[q].alone = FALSE
                 /\ cmd'[q] \in Commands(issued)
                 /\ cmd[q] = Idle => cmd'[q] = Idle
      <3>1. cmd'[q] = [cmd[q] EXCEPT !.alone = FALSE]  BY <1>2, <2>1
      <3>2. cmd[q] \in Commands(issued)  BY DEF IndInv, CmdInv
      <3>3. /\ cmd'[q].id = cmd[q].id /\ cmd'[q].text = cmd[q].text
            /\ cmd'[q].offset = cmd[q].offset /\ cmd'[q].alone = FALSE
        BY <3>1, <3>2 DEF Commands
      <3>4. cmd'[q] \in Commands(issued)  BY <3>1, <3>2 DEF Commands
      <3>5. cmd[q] = Idle => cmd'[q] = Idle
        <4>1. cmd'[q] = [id |-> cmd'[q].id, text |-> cmd'[q].text,
                         offset |-> cmd'[q].offset, alone |-> cmd'[q].alone]
          BY <3>4 DEF Commands
        <4>2. Idle.id = 0 /\ Idle.text = << >> /\ Idle.offset = -1  BY DEF Idle
        <4>3. QED  BY <3>3, <4>1, <4>2 DEF Idle
      <3>6. QED  BY <3>3, <3>4, <3>5
    <2>2. QED  BY <2>1
  <1>10. /\ cmd'[p].id = id /\ cmd'[p].text = EncodePem(c) /\ cmd'[p].offset = -1
         /\ cmd'[p].alone => \A r \in Proc : ~Running(r)
         /\ cmd'[p] \in Commands(issued')
    <2>1. cmd'[p] = Issuing(id, EncodePem(c), \A r \in Proc : ~Running(r))  BY <1>2
    <2>2. EncodePem(c) \in {EncodePem(d) : d \in issued'} /\ id \in 0..MaxIssues
      BY <1>2, BoundAssumption
    <2>3. QED  BY <2>1, <2>2 DEF Issuing, Commands
  <1>11. CmdInv'
    <2>1. cmd' \in [Proc -> Commands(issued')]
      <3>1. Commands(issued) \subseteq Commands(issued')  BY <1>2 DEF Commands
      <3>2. \A q \in Proc : cmd'[q] \in Commands(issued')  BY <1>9, <1>10, <3>1
      <3>3. cmd' = [q \in Proc |-> cmd'[q]]  BY <1>2
      <3>4. QED  BY <3>2, <3>3
    <2>2. Writes(cmd'[p], c) /\ c \in issued'
      <3>1. Len(EncodePem(c)) \in Nat  BY <1>5, PemLines
      <3>2. -1 \in (-1)..Len(EncodePem(c))  BY <3>1
      <3>3. QED  BY <1>2, <1>5, <1>10, <3>2 DEF Writes
    <2>3. ASSUME NEW q \in Proc, q # p, cmd'[q].id # 0
          PROVE  \E d \in issued' : Writes(cmd'[q], d)
      <3>1. PICK d \in issued : Writes(cmd[q], d)  BY <1>9, <2>3 DEF IndInv, CmdInv
      <3>2. QED  BY <1>2, <1>9, <2>3, <3>1 DEF Writes
    <2>4. ASSUME NEW q \in Proc, cmd'[q].id = 0
          PROVE  cmd'[q] = Idle
      <3>1. q # p  BY <1>10, <2>4, BoundAssumption
      <3>2. QED  BY <1>9, <2>4, <3>1 DEF IndInv, CmdInv
    <2>5. QED  BY <2>1, <2>2, <2>3, <2>4 DEF CmdInv
  <1>12. AloneInv'
    <2>1. ASSUME NEW q \in Proc, Running(q)', cmd'[q].alone
          PROVE  q = p /\ \A r \in Proc : Running(r)' => r = p
      BY <1>9, <1>10, <2>1 DEF Running
    <2>2. QED  BY <1>10, <2>1 DEF AloneInv
  <1>13. CleanInv'
    <2>1. file' = file /\ clean' = clean  BY <1>1
    <2>2. clean # 0 => \A q \in Proc : Running(q)' => cmd'[q].offset = -1
      BY <1>9, <1>10 DEF IndInv, CleanInv, Running
    <2>3. QED  BY <1>2, <2>1, <2>2 DEF IndInv, CleanInv
  <1>14. QED  BY <1>6, <1>7, <1>8, <1>11, <1>12, <1>13 DEF IndInv

LEMMA SetOffset ==
  ASSUME cmd \in [Proc -> Commands(issued)], NEW p \in Proc, NEW n \in Int,
         cmd' = [cmd EXCEPT ![p].offset = n]
  PROVE  \A q \in Proc : /\ cmd'[q].id = cmd[q].id /\ cmd'[q].text = cmd[q].text
                         /\ cmd'[q].alone = cmd[q].alone
                         /\ q # p => cmd'[q] = cmd[q]
                         /\ cmd'[q] \in Commands(issued)
  <1>1. cmd[p] \in Commands(issued) /\ cmd'[p] = [cmd[p] EXCEPT !.offset = n]  OBVIOUS
  <1>2. /\ cmd'[p].id = cmd[p].id /\ cmd'[p].text = cmd[p].text
        /\ cmd'[p].alone = cmd[p].alone
    BY <1>1 DEF Commands
  <1>3. cmd'[p] \in Commands(issued)  BY <1>1 DEF Commands
  <1>4. \A q \in Proc : q # p => cmd'[q] = cmd[q]  OBVIOUS
  <1>5. QED  BY <1>2, <1>3, <1>4

LEMMA CreateFileInv ==
  ASSUME IndInv, NEW p \in Proc, CreateFile(p)
  PROVE  IndInv'
  <1>1. /\ Running(p) /\ cmd[p].offset = -1 /\ file' = << >> /\ clean' = 0
        /\ cmd' = [cmd EXCEPT ![p].offset = 0] /\ issued' = issued
    BY DEF CreateFile
  <1>2. CertInv' /\ IdsInv'  BY <1>1 DEF IndInv, CertInv, IdsInv
  <1>3. FileInv'  BY <1>1 DEF FileInv
  <1>4. \A q \in Proc : /\ cmd'[q].id = cmd[q].id /\ cmd'[q].text = cmd[q].text
                        /\ cmd'[q].alone = cmd[q].alone
                        /\ q # p => cmd'[q] = cmd[q]
                        /\ cmd'[q] \in Commands(issued)
    <2>1. cmd \in [Proc -> Commands(issued)]  BY DEF IndInv, CmdInv
    <2>2. 0 \in Int  OBVIOUS
    <2>3. QED  BY <1>1, <2>1, <2>2, SetOffset
  <1>5. cmd'[p].offset = 0  BY <1>1 DEF IndInv, CmdInv, Commands
  <1>6. CmdInv'
    <2>1. cmd' \in [Proc -> Commands(issued)]  BY <1>1, <1>4 DEF IndInv, CmdInv
    <2>2. PICK c \in issued : Writes(cmd[p], c)  BY <1>1 DEF IndInv, CmdInv, Running
    <2>3. Len(EncodePem(c)) \in Nat  BY PemLines DEF IndInv, CertInv
    <2>4. Writes(cmd'[p], c)  BY <1>4, <1>5, <2>2, <2>3 DEF Writes
    <2>5. QED  BY <1>1, <1>4, <2>1, <2>4 DEF IndInv, CmdInv, Running
  <1>7. AloneInv'
    <2>1. ASSUME NEW q \in Proc, Running(q)', cmd'[q].alone
          PROVE  q = p /\ \A r \in Proc : Running(r)' => r = p
      <3>1. Running(q) /\ cmd[q].alone  BY <1>4, <2>1 DEF Running
      <3>2. \A r \in Proc : Running(r) => r = q  BY <3>1 DEF IndInv, AloneInv
      <3>3. q = p  BY <1>1, <3>2
      <3>4. QED  BY <1>4, <3>2, <3>3 DEF Running
    <2>2. Len(file') = 0  BY <1>1
    <2>3. QED  BY <1>5, <2>1, <2>2 DEF AloneInv
  <1>8. CleanInv'  BY <1>1 DEF CleanInv
  <1>9. QED  BY <1>2, <1>3, <1>6, <1>7, <1>8 DEF IndInv

LEMMA OverwrittenLines ==
  ASSUME NEW S, file \in Seq(S), Hole \in S, NEW line \in S, NEW i \in Nat \ {0}
  PROVE  /\ Overwritten(i, line) \in Seq(S)
         /\ Len(Overwritten(i, line)) = IF i > Len(file) THEN i ELSE Len(file)
         /\ Overwritten(i, line)[i] = line
         /\ \A j \in 1..Len(file) : j # i => Overwritten(i, line)[j] = file[j]
  <1> DEFINE n == IF i > Len(file) THEN i ELSE Len(file)
             f == [j \in 1..n |-> IF j = i THEN line ELSE
                                  IF j <= Len(file) THEN file[j] ELSE Hole]
  <1>1. n \in Nat /\ i \in 1..n /\ 1..Len(file) \subseteq 1..n /\ Len(file) \in Nat
    OBVIOUS
  <1>2. Overwritten(i, line) = f  BY DEF Overwritten
  <1> HIDE DEF n
  <1>3. \A j \in 1..n : f[j] \in S  BY <1>1
  <1>4. f \in [1..n -> S]  BY <1>3
  <1>5. f \in Seq(S)
    <2> HIDE DEF f
    <2>1. QED  BY <1>1, <1>4, SeqDef
  <1>6. DOMAIN f = 1..n /\ DOMAIN f = 1..Len(f) /\ Len(f) \in Nat
    <2>1. DOMAIN f = 1..n  OBVIOUS
    <2> HIDE DEF f
    <2>2. QED  BY <1>5, <2>1, LenProperties
  <1>7. Len(f) = n
    <2> HIDE DEF f
    <2>1. QED  BY <1>1, <1>6
  <1>8. f[i] = line /\ \A j \in 1..Len(file) : j # i => f[j] = file[j]  BY <1>1
  <1>9. QED  BY <1>2, <1>5, <1>7, <1>8 DEF n

LEMMA WriteLineInv ==
  ASSUME IndInv, NEW p \in Proc, WriteLine(p)
  PROVE  IndInv'
  <1> DEFINE i == cmd[p].offset + 1
  <1>1. /\ Running(p) /\ i \in 1..Len(cmd[p].text)
        /\ file' = Overwritten(i, cmd[p].text[i])
        /\ cmd' = [cmd EXCEPT ![p].offset = i] /\ issued' = issued /\ clean' = clean
    BY DEF WriteLine
  <1>2. PICK c \in issued : Writes(cmd[p], c)  BY <1>1 DEF IndInv, CmdInv, Running
  <1>3. /\ cmd[p].text = EncodePem(c) /\ EncodePem(c) \in Seq(Lines({c}))
        /\ Len(EncodePem(c)) \in Nat /\ cmd[p].offset \in Int /\ i \in Nat \ {0}
    BY <1>1, <1>2, PemLines DEF IndInv, CertInv, Writes
  <1>4. /\ file' \in Seq(Lines(issued))
        /\ Len(file') = IF i > Len(file) THEN i ELSE Len(file)
        /\ file'[i] = cmd[p].text[i]
        /\ \A j \in 1..Len(file) : j # i => file'[j] = file[j]
    <2>1. cmd[p].text[i] \in Lines({c})  BY <1>1, <1>3
    <2>2. Lines({c}) \subseteq Lines(issued) /\ Hole \in Lines(issued)
      BY LinesGrow DEF Lines
    <2>3. file \in Seq(Lines(issued))  BY DEF IndInv, FileInv
    <2>4. cmd[p].text[i] \in Lines(issued)  BY <2>1, <2>2
    <2> HIDE DEF i
    <2>5. QED  BY <1>1, <1>3, <2>2, <2>3, <2>4, OverwrittenLines
  <1>5. CertInv' /\ IdsInv'  BY <1>1 DEF IndInv, CertInv, IdsInv
  <1>6. FileInv'  BY <1>1, <1>4 DEF FileInv
  <1>7. \A q \in Proc : /\ cmd'[q].id = cmd[q].id /\ cmd'[q].text = cmd[q].text
                        /\ cmd'[q].alone = cmd[q].alone
                        /\ q # p => cmd'[q] = cmd[q]
                        /\ cmd'[q] \in Commands(issued)
    <2>1. cmd \in [Proc -> Commands(issued)]  BY DEF IndInv, CmdInv
    <2>2. i \in Int  BY <1>3
    <2> HIDE DEF i
    <2>3. QED  BY <1>1, <2>1, <2>2, SetOffset
  <1>8. cmd'[p].offset = i  BY <1>1 DEF IndInv, CmdInv, Commands
  <1>9. CmdInv'
    <2>1. cmd' \in [Proc -> Commands(issued)]  BY <1>1, <1>7 DEF IndInv, CmdInv
    <2>2. Writes(cmd'[p], c)  BY <1>1, <1>2, <1>3, <1>7, <1>8 DEF Writes
    <2>3. QED  BY <1>1, <1>7, <2>1, <2>2 DEF IndInv, CmdInv, Running
  <1>10. AloneInv'
    <2>1. ASSUME NEW q \in Proc, Running(q)', cmd'[q].alone
          PROVE  /\ q = p /\ \A r \in Proc : Running(r)' => r = p
                 /\ Len(file') = i /\ \A j \in 1..i : file'[j] = cmd[p].text[j]
      <3>1. Running(q) /\ cmd[q].alone  BY <1>7, <2>1 DEF Running
      <3>2. \A r \in Proc : Running(r) => r = q  BY <3>1 DEF IndInv, AloneInv
      <3>3. q = p  BY <1>1, <3>2
      <3>4. cmd[p].offset >= 0  BY <1>1, <1>3
      <3>5. Len(file) = i - 1 /\ \A j \in 1..(i - 1) : file[j] = cmd[p].text[j]
        BY <1>3, <3>1, <3>3, <3>4 DEF IndInv, AloneInv
      <3> HIDE DEF i
      <3>6. Len(file') = i  BY <1>3, <1>4, <3>5
      <3>7. \A j \in 1..i : file'[j] = cmd[p].text[j]  BY <1>3, <1>4, <3>5
      <3>8. QED  BY <1>7, <3>2, <3>3, <3>6, <3>7 DEF Running
    <2>2. QED  BY <1>7, <1>8, <2>1 DEF AloneInv
  <1>11. CleanInv'
    <2>1. cmd[p].offset # -1  BY <1>1, <1>3
    <2>2. clean = 0  BY <1>1, <2>1 DEF IndInv, CleanInv
    <2>3. QED  BY <1>1, <2>2 DEF CleanInv
  <1>12. QED  BY <1>5, <1>6, <1>9, <1>10, <1>11 DEF IndInv

\* A command ends, in one way or another.
LEMMA EndInv ==
  ASSUME IndInv, NEW p \in Proc, Running(p),
         cmd' = [cmd EXCEPT ![p] = Idle], file' = file, issued' = issued
  PROVE  /\ CertInv' /\ IdsInv' /\ FileInv' /\ CmdInv' /\ AloneInv'
         /\ \A q \in Proc : Running(q)' => q # p /\ Running(q) /\ cmd'[q] = cmd[q]
  <1>1. CertInv' /\ IdsInv' /\ FileInv'  BY DEF IndInv, CertInv, IdsInv, FileInv
  <1>2. /\ cmd \in [Proc -> Commands(issued)] /\ cmd'[p] = Idle
        /\ \A q \in Proc : q # p => cmd'[q] = cmd[q]
    BY DEF IndInv, CmdInv
  <1>3. Idle \in Commands(issued) /\ Idle.id = 0  BY BoundAssumption DEF Idle, Commands
  <1>4. CmdInv'
    <2>1. cmd' \in [Proc -> Commands(issued)]  BY <1>2, <1>3
    <2>2. QED  BY <1>2, <1>3, <2>1 DEF IndInv, CmdInv
  <1>5. \A q \in Proc : Running(q)' => q # p /\ Running(q) /\ cmd'[q] = cmd[q]
    BY <1>2, <1>3 DEF Running
  <1>6. AloneInv'  BY <1>5 DEF IndInv, AloneInv
  <1>7. QED  BY <1>1, <1>4, <1>5, <1>6

LEMMA ReportInv ==
  ASSUME IndInv, NEW p \in Proc, Report(p)
  PROVE  IndInv'
  <1>1. /\ Running(p) /\ cmd[p].offset = Len(cmd[p].text)
        /\ clean' = IF cmd[p].alone THEN cmd[p].id ELSE 0
        /\ cmd' = [cmd EXCEPT ![p] = Idle] /\ file' = file /\ issued' = issued
    BY DEF Report
  <1>2. PICK c \in issued : Writes(cmd[p], c)  BY <1>1 DEF IndInv, CmdInv, Running
  <1>3. CleanInv'
    <2>1. ASSUME cmd[p].alone
          PROVE  file = EncodePem(c) /\ \A q \in Proc : ~Running(q)'
      <3>1. /\ cmd[p].text = EncodePem(c) /\ cmd[p].id = c.id
            /\ EncodePem(c) \in Seq(Lines({c})) /\ Len(EncodePem(c)) \in Nat
        BY <1>2, PemLines DEF IndInv, CertInv, Writes
      <3>2. /\ \A q \in Proc : Running(q) => q = p
            /\ Len(file) = Len(EncodePem(c))
            /\ \A i \in 1..Len(EncodePem(c)) : file[i] = EncodePem(c)[i]
        BY <1>1, <2>1, <3>1 DEF IndInv, AloneInv
      <3>3. file \in Seq(Lines(issued)) /\ Lines({c}) \subseteq Lines(issued)
        BY LinesGrow DEF IndInv, FileInv
      <3>4. EncodePem(c) \in Seq(Lines(issued))  BY <3>1, <3>3, SeqMonotonic
      <3>5. file = EncodePem(c)  BY <3>2, <3>3, <3>4, SeqEqual
      <3>6. QED  BY <1>1, <3>2, <3>5, EndInv
    <2>2. QED  BY <1>1, <1>2, <2>1 DEF CleanInv, Writes
  <1>4. QED  BY <1>1, <1>3, EndInv DEF IndInv

LEMMA StopInv ==
  ASSUME IndInv, NEW p \in Proc, Stop(p)
  PROVE  IndInv'
  <1>1. /\ Running(p) /\ cmd' = [cmd EXCEPT ![p] = Idle]
        /\ file' = file /\ issued' = issued /\ clean' = clean
    BY DEF Stop
  <1>2. CleanInv'  BY <1>1, EndInv DEF IndInv, CleanInv
  <1>3. QED  BY <1>1, <1>2, EndInv DEF IndInv

LEMMA StutterInv == IndInv /\ UNCHANGED vars => IndInv'
  BY DEF vars, IndInv, CertInv, IdsInv, FileInv, CmdInv, AloneInv, CleanInv, Running

\* Every reachable state of the commands satisfies the inductive invariant: the
\* file only ever holds lines of certificates that were issued.
THEOREM Inductive == Spec => []IndInv
  <1>1. IndInv /\ [Next]_vars => IndInv'
    BY StartIssueInv, CreateFileInv, WriteLineInv, ReportInv, StopInv, StutterInv DEF Next
  <1>2. QED  BY InitInv, <1>1, PTL DEF Spec

-----------------------------------------------------------------------------
\* What a reader gets are lines with known signatures.

ReadLines == Lines(issued) \cup AlteredLines

LEMMA KnownSignatures ==
  ASSUME NEW l \in ReadLines, l.item = "signature"
  PROVE  l.sig = Stray \/ \E c \in issued : l.sig = Sign(c.issuer, Tbs(c))
  <1>1. CASE l \in Lines(issued)
    <2>1. Begin.item # "signature" /\ End.item # "signature" /\ Hole.item # "signature"
      BY DEF Begin, End, Hole
    <2>2. \E c \in issued : l = SignatureOf(c)
      BY <1>1, <2>1, LineItems DEF Lines
    <2>3. QED  BY <2>2 DEF SignatureOf, SignatureLine
  <1>2. CASE l \in AlteredLines
    <2>1. l \notin [item : {"subject"}, name : Names \ {BlankName}, key : {c.id : c \in issued}]
      OBVIOUS
    <2>2. l \notin {[HeadLine(c) EXCEPT !.not_after = LastSecond] : c \in issued}
      BY DEF HeadLine
    <2>3. End.item # "signature"  BY DEF End
    <2>4. l \notin ExtensionSet \cup {End}  BY <2>3, LineItems
    <2>5. CASE l = SignatureLine("ed25519", Stray)
      BY <2>5 DEF SignatureLine
    <2>6. CASE \E c \in issued : \/ l = SignatureLine("other", Sign(c.issuer, Tbs(c)))
                                \/ l = SignatureLine("ed25519", Sign(c.issuer, Tbs(c)))
      BY <2>6 DEF SignatureLine
    <2>7. QED  BY <1>2, <2>1, <2>2, <2>4, <2>5, <2>6 DEF AlteredLines
  <1>3. QED  BY <1>1, <1>2 DEF ReadLines

LEMMA MakeSeq ==
  ASSUME NEW S, NEW n \in Nat, NEW f \in [1..n -> S]
  PROVE  f \in Seq(S)
  BY SeqDef

LEMMA ReadingsTyped ==
  ASSUME IndInv
  PROVE  Readings \subseteq Seq(ReadLines)
  <1> DEFINE S == ReadLines
  <1>1. file \in Seq(S)
    <2>1. Lines(issued) \subseteq S  BY DEF ReadLines
    <2> HIDE DEF S
    <2>2. QED  BY <2>1, SeqMonotonic DEF IndInv, FileInv
  <1>2. ASSUME NEW i \in 1..Len(file), NEW line \in AlteredLines
        PROVE  Replaced(file, i, line) \in Seq(S)
    <2>1. line \in S  BY DEF ReadLines
    <2> HIDE DEF S
    <2>2. QED  BY <1>1, <2>1, ExceptSeq DEF Replaced
  <1>3. ASSUME NEW i \in 1..Len(file)
        PROVE  Dropped(file, i) \in Seq(S)
    <2> HIDE DEF S
    <2>1. Len(file) - 1 \in Nat  BY <1>1
    <2>2. Dropped(file, i) \in [1..(Len(file) - 1) -> S]  BY <1>1, <2>1 DEF Dropped
    <2>3. QED  BY <2>1, <2>2, MakeSeq
  <1>4. ASSUME NEW i \in 1..Len(file)
        PROVE  Doubled(file, i) \in Seq(S)
    <2> HIDE DEF S
    <2>1. Len(file) + 1 \in Nat  BY <1>1
    <2>2. Doubled(file, i) \in [1..(Len(file) + 1) -> S]  BY <1>1, <2>1 DEF Doubled
    <2>3. QED  BY <2>1, <2>2, MakeSeq
  <1> HIDE DEF S
  <1>5. QED  BY <1>1, <1>2, <1>3, <1>4 DEF Readings, S

LEMMA CaVerifySteps ==
  ASSUME NEW text, NEW issuer, NEW at, NEW r \in CaVerify(text, issuer, at)
  PROVE  \E der \in DecodePem(text) :
           \E cert \in VerifyCertificateChainAt(der, issuer, at) :
             \E claims \in DecodeExtension(cert, ClaimsOid) :
               r.cert = cert /\ r.claims = Echo(claims)
  BY DEF CaVerify

\* The signature under the key given covers every signed line.
LEMMA VerifySound ==
  ASSUME NEW text \in Seq(ReadLines), NEW issuer, NEW at,
         NEW der \in DecodePem(text),
         NEW cert \in VerifyCertificateChainAt(der, issuer, at)
  PROVE  \E c \in issued : c.issuer = issuer /\ cert.tbs = Tbs(c)
  <1>1. /\ cert \in FromDer(der) /\ issuer # Weak
        /\ cert.signature.sig = Sign(issuer, cert.tbs)
    BY DEF VerifyCertificateChainAt, VerifyStrict
  <1>2. der = SubSeq(text, 2, Len(text) - 1) /\ Len(text) \in Nat
    BY DEF DecodePem
  <1>3. der \in Seq(ReadLines)
    <2>1. \A i \in 2..(Len(text) - 1) : text[i] \in ReadLines  BY <1>2
    <2>2. QED  BY <1>2, <2>1, SubSeqProperties
  <1>4. PICK i \in 1..Len(der) : cert.signature = der[i]
    BY <1>1 DEF FromDer
  <1>5. cert.signature.item = "signature"  BY <1>1 DEF FromDer
  <1>6. cert.signature \in ReadLines  BY <1>3, <1>4
  <1>7. cert.signature.sig # Stray  BY <1>1 DEF Stray, Sign
  <1>8. PICK c \in issued : cert.signature.sig = Sign(c.issuer, Tbs(c))
    BY <1>5, <1>6, <1>7, KnownSignatures
  <1>9. QED  BY <1>1, <1>8 DEF Sign

LEMMA VerifiedInv == IndInv => VerifiedWasIssued
  <1> SUFFICES ASSUME IndInv, NEW text \in Readings, NEW issuer \in Authority \cup {Weak},
                      NEW at \in Asked, NEW r \in CaVerify(text, issuer, at)
               PROVE  \E c \in issued : c.issuer = issuer /\ r.cert.tbs = Tbs(c)
    BY DEF VerifiedWasIssued
  <1>1. text \in Seq(ReadLines)  BY ReadingsTyped
  <1>2. QED  BY <1>1, CaVerifySteps, VerifySound

\* Whatever is left in the file and read from it, a certificate that ca verify
\* accepts is one that the key given issued.
THEOREM CertificatesUnforged == Spec => []VerifiedWasIssued
  BY Inductive, VerifiedInv, PTL

-----------------------------------------------------------------------------
\* Claims.

LEMMA CarriedClaims ==
  ASSUME NEW c \in Certs, NEW cert, cert.tbs = Tbs(c), NEW oid
  PROVE  /\ \A i \in Carried(cert, oid) :
              /\ i - 2 \in 1..Len(c.exts) /\ c.exts[i - 2].oid = oid
              /\ cert.tbs[i].payload = c.exts[i - 2].payload
         /\ \A j \in 1..Len(c.exts) : c.exts[j].oid = oid => j + 2 \in Carried(cert, oid)
  <1>1. Len(c.exts) \in Nat /\ Len(Tbs(c)) = Len(c.exts) + 2
    <2>1. Len(c.exts) \in Nat  BY DEF Certs
    <2>2. QED  BY <2>1, TbsLines
  <1>2. ASSUME NEW i \in 3..Len(Tbs(c))
        PROVE  i - 2 \in 1..Len(c.exts) /\ Tbs(c)[i] = c.exts[i - 2]
    <2>1. i - 2 \in 1..Len(c.exts) /\ (i - 2) + 2 = i  BY <1>1
    <2>2. Tbs(c)[(i - 2) + 2] = c.exts[i - 2]  BY <2>1, TbsLines
    <2>3. QED  BY <2>1, <2>2
  <1>3. ASSUME NEW j \in 1..Len(c.exts)
        PROVE  j + 2 \in 3..Len(Tbs(c)) /\ Tbs(c)[j + 2] = c.exts[j]
    <2>1. j + 2 \in 3..Len(Tbs(c))  BY <1>1
    <2>2. QED  BY <2>1, TbsLines
  <1>4. QED  BY <1>2, <1>3 DEF Carried

LEMMA EchoedInv == IndInv => EchoedWasEmbedded
  <1> SUFFICES ASSUME IndInv, NEW text \in Readings, NEW issuer \in Authority \cup {Weak},
                      NEW at \in Asked, NEW r \in CaVerify(text, issuer, at)
               PROVE  /\ \E c \in issued :
                           /\ c.issuer = issuer /\ c.id = r.cert.tbs[2].key
                           /\ {c.exts[i].payload : i \in {i \in 1..Len(c.exts) : c.exts[i].oid = ClaimsOid}}
                                = {r.claims.bytes} \ {None}
                      /\ r.claims.form = "verbatim" => r.claims.bytes \in Printable \cup {None}
    BY DEF EchoedWasEmbedded
  <1>1. text \in Seq(ReadLines)  BY ReadingsTyped
  <1>2. PICK der \in DecodePem(text) :
          \E cert \in VerifyCertificateChainAt(der, issuer, at) :
            \E claims \in DecodeExtension(cert, ClaimsOid) :
              r.cert = cert /\ r.claims = Echo(claims)
    BY CaVerifySteps
  <1>3. PICK cert \in VerifyCertificateChainAt(der, issuer, at) :
          \E claims \in DecodeExtension(cert, ClaimsOid) :
            r.cert = cert /\ r.claims = Echo(claims)
    BY <1>2
  <1>4. PICK claims \in DecodeExtension(cert, ClaimsOid) :
          r.cert = cert /\ r.claims = Echo(claims)
    BY <1>3
  <1>5. PICK c \in issued : c.issuer = issuer /\ cert.tbs = Tbs(c)
    BY <1>1, VerifySound
  <1>6. c \in Certs  BY DEF IndInv, CertInv
  <1>7. c.id = r.cert.tbs[2].key
    <2>1. r.cert.tbs[2] = SubjectLine(c)  BY <1>4, <1>5, <1>6, TbsLines
    <2>2. QED  BY <2>1 DEF SubjectLine
  <1> DEFINE J == {i \in 1..Len(c.exts) : c.exts[i].oid = ClaimsOid}
  <1>8. {c.exts[i].payload : i \in J} = {claims} \ {None}
    <2>1. CASE Carried(cert, ClaimsOid) = {}
      <3>1. claims = None  BY <2>1 DEF DecodeExtension
      <3>2. J = {}  BY <1>5, <1>6, <2>1, CarriedClaims
      <3>3. QED  BY <3>1, <3>2
    <2>2. CASE Carried(cert, ClaimsOid) # {}
      <3>1. PICK k \in Carried(cert, ClaimsOid) :
              claims = cert.tbs[k].payload /\ \A j \in Carried(cert, ClaimsOid) : k = j
        BY <2>2 DEF DecodeExtension
      <3>2. k - 2 \in J /\ claims = c.exts[k - 2].payload
        BY <1>5, <1>6, <3>1, CarriedClaims
      <3>3. ASSUME NEW j \in J
            PROVE  j = k - 2
        <4>1. j + 2 = k  BY <1>5, <1>6, <3>1, CarriedClaims
        <4>2. QED  BY <4>1
      <3>4. c.exts[k - 2] \in ExtensionSet  BY <1>6, <3>2 DEF Certs
      <3>5. claims # None  BY <3>2, <3>4, PayloadAssumption DEF ExtensionSet
      <3>6. J = {k - 2}  BY <3>2, <3>3
      <3> HIDE DEF J
      <3>7. QED  BY <3>2, <3>5, <3>6
    <2>3. QED  BY <2>1, <2>2
  <1>9. r.claims.bytes = claims  BY <1>4 DEF Echo
  <1>10. r.claims.form = "verbatim" => claims \in Printable \cup {None}  BY <1>4 DEF Echo
  <1>11. QED  BY <1>5, <1>7, <1>8, <1>9, <1>10

\* The claims that ca verify prints are the only ones the issuer embedded.
THEOREM ClaimsAuthentic == Spec => []EchoedWasEmbedded
  BY Inductive, EchoedInv, PTL

-----------------------------------------------------------------------------
\* Validity.

LEMMA Truncation ==
  ASSUME NEW x \in Nat
  PROVE  /\ Timestamp(x) \in Nat
         /\ TruncateToSecond(x) \in Nat
         /\ TruncateToSecond(x) <= x
         /\ x < TruncateToSecond(x) + Second
         /\ Timestamp(TruncateToSecond(x)) = Timestamp(x)
  <1>1. Second \in Nat \ {0}  BY TimeAssumption
  <1> DEFINE q == x \div Second
  <1>2. q \in Nat /\ x = q * Second + (x % Second) /\ x % Second \in 0..(Second - 1)
    BY <1>1
  <1>3. q * Second \in Nat /\ q * Second <= x /\ x < q * Second + Second
    BY <1>1, <1>2
  <1>4. (q * Second) \div Second = q  BY <1>1, <1>2
  <1>5. QED  BY <1>1, <1>2, <1>3, <1>4 DEF Timestamp, TruncateToSecond

\* When a certificate verifies.
LEMMA ValidIff ==
  ASSUME NEW c \in Certs, NEW at
  PROVE  /\ \A cert \in VerifyCertificateChainAt(Der(c), c.issuer, at) : cert.tbs = Tbs(c)
         /\ VerifyCertificateChainAt(Der(c), c.issuer, at) # {} <=>
              /\ NotSelfNamed(c)
              /\ Timestamp(c.issued_at) * Second <= at
              /\ at <= Timestamp(c.expires_at) * Second
  <1> DEFINE x == [tbs |-> Tbs(c), signature |-> SignatureOf(c)]
  <1>1. FromDer(Der(c)) = {x}  BY FromDerExact
  <1>2. x.tbs[1] = HeadLine(c) /\ x.tbs[2] = SubjectLine(c)  BY TbsLines
  <1>3. /\ x.tbs[1].issuer = HexName(c.issuer)
        /\ x.tbs[1].not_before = Timestamp(c.issued_at)
        /\ x.tbs[1].not_after = Timestamp(c.expires_at)
        /\ x.tbs[2].name = c.subject
    BY <1>2 DEF HeadLine, SubjectLine
  <1>4. c.issuer # Weak  BY KeysAssumption DEF Certs
  <1>5. x.signature.alg = "ed25519" /\ VerifyStrict(c.issuer, x.tbs, x.signature.sig)
    BY <1>4 DEF SignatureOf, SignatureLine, VerifyStrict
  <1>6. x.tbs = Tbs(c)  OBVIOUS
  <1> HIDE DEF x
  <1>7. QED  BY <1>1, <1>3, <1>5, <1>6 DEF VerifyCertificateChainAt, InWindow, NotSelfNamed

LEMMA ValidityInv == IndInv => ValidityKept
  <1> SUFFICES ASSUME IndInv, NEW c \in issued
               PROVE  /\ NotSelfNamed(c) => ValidAt(c, c.expires_at)
                      /\ \A at \in 0..((LastSecond + 1) * Second) :
                           /\ ValidAt(c, at) => /\ at <= c.expires_at /\ at <= c.issued_at + c.ttl
                                                /\ at > c.issued_at - Second
                           /\ /\ NotSelfNamed(c)
                              /\ c.issued_at <= at /\ at <= c.issued_at + c.ttl - Second
                              => ValidAt(c, at)
    BY DEF ValidityKept
  <1> DEFINE b == TruncateToSecond(c.issued_at)
  <1>1. /\ c \in Certs /\ c.issued_at \in Nat /\ c.ttl \in Nat
        /\ c.expires_at = TruncateToSecond(c.issued_at + c.ttl)
        /\ Second \in Nat \ {0}
    BY TimeAssumption DEF IndInv, CertInv, Certs
  <1>2. c.issued_at + c.ttl \in Nat  BY <1>1
  <1>3. /\ c.expires_at \in Nat
        /\ c.expires_at <= c.issued_at + c.ttl
        /\ c.issued_at + c.ttl < c.expires_at + Second
        /\ Timestamp(c.expires_at) * Second = c.expires_at
    <2>1. Timestamp(c.expires_at) = Timestamp(c.issued_at + c.ttl)  BY <1>1, <1>2, Truncation
    <2>2. Timestamp(c.expires_at) * Second = c.expires_at  BY <1>1, <2>1 DEF TruncateToSecond
    <2>3. QED  BY <1>1, <1>2, <2>2, Truncation
  <1>4. /\ b \in Nat /\ b <= c.issued_at /\ c.issued_at < b + Second
        /\ Timestamp(c.issued_at) * Second = b
    BY <1>1, Truncation DEF TruncateToSecond
  <1>5. \A at : ValidAt(c, at) <=> NotSelfNamed(c) /\ b <= at /\ at <= c.expires_at
    BY <1>1, <1>3, <1>4, ValidIff DEF ValidAt
  <1>6. b <= c.expires_at
    <2>1. Timestamp(c.issued_at) <= Timestamp(c.issued_at + c.ttl)
      <3>1. c.issued_at \div Second <= (c.issued_at + c.ttl) \div Second  BY <1>1
      <3>2. QED  BY <3>1 DEF Timestamp
    <2>2. Timestamp(c.issued_at) \in Nat /\ Timestamp(c.issued_at + c.ttl) \in Nat
      BY <1>1, <1>2, Truncation
    <2>3. Timestamp(c.issued_at) * Second <= Timestamp(c.issued_at + c.ttl) * Second
      BY <1>1, <2>1, <2>2
    <2>4. QED  BY <1>1, <1>4, <2>3 DEF TruncateToSecond
  <1> HIDE DEF b
  <1>7. NotSelfNamed(c) => ValidAt(c, c.expires_at)  BY <1>3, <1>5, <1>6
  <1>8. ASSUME NEW at \in 0..((LastSecond + 1) * Second)
        PROVE  /\ ValidAt(c, at) => /\ at <= c.expires_at /\ at <= c.issued_at + c.ttl
                                    /\ at > c.issued_at - Second
               /\ /\ NotSelfNamed(c)
                  /\ c.issued_at <= at /\ at <= c.issued_at + c.ttl - Second
                  => ValidAt(c, at)
    <2>1. at \in Int  BY <1>1, TimeAssumption
    <2>2. QED  BY <1>1, <1>3, <1>4, <1>5, <2>1
  <1>9. QED  BY <1>7, <1>8

\* For every length of a second, every clock and every lifetime, the window that
\* is checked is the one that was promised, to a second.
THEOREM ValidityExact == Spec => []ValidityKept
  BY Inductive, ValidityInv, PTL

-----------------------------------------------------------------------------
\* A clean issue.

LEMMA AckedInv == IndInv => AckedVerifies
  <1> SUFFICES ASSUME IndInv, NEW c \in issued, clean = c.id, NotSelfNamed(c), ClaimsOnce(c)
               PROVE  \E r \in CaVerify(file, c.issuer, c.expires_at) : r.cert.tbs = Tbs(c)
    BY DEF AckedVerifies
  <1>1. c \in Certs /\ c.id \in Nat /\ c.id # 0
    BY BoundAssumption DEF IndInv, CertInv
  <1>2. file = EncodePem(c)  BY <1>1 DEF IndInv, CleanInv, IdsInv
  <1>3. DecodePem(file) = {Der(c)}  BY <1>1, <1>2, DecodePemExact
  <1>4. ValidAt(c, c.expires_at)  BY ValidityInv DEF ValidityKept
  <1>5. PICK cert \in VerifyCertificateChainAt(Der(c), c.issuer, c.expires_at) :
          cert.tbs = Tbs(c)
    BY <1>1, <1>4, ValidIff DEF ValidAt
  <1>6. PICK claims \in DecodeExtension(cert, ClaimsOid) : TRUE
    <2>1. CASE Carried(cert, ClaimsOid) = {}  BY <2>1 DEF DecodeExtension
    <2>2. CASE Carried(cert, ClaimsOid) # {}
      <3>1. PICK k \in Carried(cert, ClaimsOid) : TRUE  BY <2>2
      <3>2. ASSUME NEW j \in Carried(cert, ClaimsOid)
            PROVE  k = j
        <4>1. /\ k - 2 \in 1..Len(c.exts) /\ c.exts[k - 2].oid = ClaimsOid
              /\ j - 2 \in 1..Len(c.exts) /\ c.exts[j - 2].oid = ClaimsOid
          BY <1>1, <1>5, CarriedClaims
        <4>2. k - 2 = j - 2  BY <4>1 DEF ClaimsOnce
        <4>3. k \in Int /\ j \in Int  BY DEF Carried
        <4>4. QED  BY <4>2, <4>3
      <3>3. QED  BY <2>2, <3>2 DEF DecodeExtension
    <2>3. QED  BY <2>1, <2>2
  <1>7. [cert |-> cert, claims |-> Echo(claims)] \in CaVerify(file, c.issuer, c.expires_at)
    BY <1>3, <1>5, <1>6 DEF CaVerify
  <1>8. QED  BY <1>5, <1>7

\* What an undisturbed ca issue leaves is a file that ca verify accepts.
THEOREM CleanIssueVerifies == Spec => []AckedVerifies
  BY Inductive, AckedInv, PTL

LEMMA TypeInv == IndInv => TypeOK
  <1> SUFFICES ASSUME IndInv PROVE TypeOK  OBVIOUS
  <1>1. ASSUME NEW i \in 1..Len(file)
        PROVE  file[i] \in {Begin, End, Hole} \/ file[i].item \in DerItems
    <2>1. file[i] \in Lines(issued)  BY DEF IndInv, FileInv
    <2>2. QED  BY <2>1, LineItems DEF Lines, DerItems
  <1>2. ASSUME NEW c \in issued
        PROVE  /\ c.id \in 1..MaxIssues /\ c.subject \in Names \ {BlankName}
               /\ TruncateToSecond(c.issued_at) <= c.expires_at
               /\ c.expires_at \in 0..(LastSecond * Second)
    <2>1. /\ c.issued_at \in Nat /\ c.ttl \in Nat /\ c.subject \in Names
          /\ c.issued_at + c.ttl \in Nat /\ c.subject # BlankName
          /\ Second \in Nat \ {0} /\ LastSecond \in Nat /\ c.id \in 1..MaxIssues
          /\ c.expires_at = TruncateToSecond(c.issued_at + c.ttl)
          /\ Timestamp(c.issued_at + c.ttl) <= LastSecond
      BY TimeAssumption DEF IndInv, CertInv, Certs
    <2>2. c.issued_at \div Second <= (c.issued_at + c.ttl) \div Second  BY <2>1
    <2>3. Timestamp(c.issued_at) \in Nat /\ Timestamp(c.issued_at + c.ttl) \in Nat
      BY <2>1, Truncation
    <2>4. Timestamp(c.issued_at) * Second <= Timestamp(c.issued_at + c.ttl) * Second
      BY <2>1, <2>2, <2>3 DEF Timestamp
    <2>5. Timestamp(c.issued_at + c.ttl) * Second \in 0..(LastSecond * Second)
      BY <2>1, <2>3
    <2>6. QED  BY <2>1, <2>4, <2>5 DEF TruncateToSecond
  <1>3. clean = 0 \/ \E c \in issued : c.id = clean  BY DEF IndInv, CleanInv
  <1>4. ASSUME NEW p \in Proc
        PROVE  \/ cmd[p] = Idle
               \/ \E c \in issued : /\ cmd[p].id = c.id /\ cmd[p].text = EncodePem(c)
                                    /\ cmd[p].offset \in (-1)..Len(EncodePem(c))
    BY DEF IndInv, CmdInv, Writes
  <1>5. QED  BY <1>1, <1>2, <1>3, <1>4 DEF TypeOK

\* Type correctness.
THEOREM TypeCorrect == Spec => []TypeOK
  BY Inductive, TypeInv, PTL

=============================================================================
