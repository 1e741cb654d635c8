----------------------------- MODULE SealProofs -----------------------------
(***************************************************************************)
(* Sealing and opening, for any number of parties, payloads, commands and  *)
(* processes.  First what is accepted: an artifact is one that its signer  *)
(* made for this message, nothing is decrypted that the sender named did   *)
(* not attest, and what is opened was sealed for the recipient, by the     *)
(* sender or by another whose envelope the sender attested with the tag.   *)
(* Then what a seal leaves on disk.                                        *)
(***************************************************************************)
EXTENDS Seal, TLAPS

-----------------------------------------------------------------------------
\* The inductive invariant.

\* Sealing and attesting is done by parties; a message with the context tag is
\* over an envelope that somebody sealed.
SealedInv == \A s \in sealed : s.from \in Party
AttestedInv ==
  \A x \in attested :
    /\ x.signer \in Party
    /\ \/ x.msg.context = "none"
       \/ \E s \in sealed : x.msg = TaggedMessage(EnvelopeOf(s))

\* An artifact in a file, or on its way into one, is one of those issued.
Honest(I, d) == d.kind = "artifact" => \E i \in I : d.bytes = ArtifactBytes(i[2])

DiskInv ==
  /\ disk = [p \in Paths |-> [ino |-> disk[p].ino, data |-> disk[p].data]]
  /\ Honest(Issued, disk[AttPath].data)

\* What a command still has to write.
TodoInv(I, t) ==
  \/ t = <<t[1]>> /\ Honest(I, t[1].data)
  \/ t = <<t[1], t[2]>> /\ Honest(I, t[1].data) /\ Honest(I, t[2].data)

HasWriting(o) == o = [op |-> o.op, id |-> o.id, todo |-> o.todo, fd |-> o.fd]

CommandInv(I, o) ==
  /\ o.op \in {"seal", "attest", "open"} => HasWriting(o) /\ TodoInv(I, o.todo)
  /\ o.op = "reading" => o.from \in Party /\ o.to \in Party

CmdInv == cmd = [c \in Cmd |-> cmd[c]] /\ \A c \in Cmd : CommandInv(Issued, cmd[c])

EventInv == OpenedWasVouchedFor /\ DecryptedWasAttested /\ AcceptedWasIssued

IndInv == SealedInv /\ AttestedInv /\ DiskInv /\ CmdInv /\ EventInv

-----------------------------------------------------------------------------
\* What is issued.

LEMMA IssuedForm ==
  ASSUME SealedInv, AttestedInv, NEW i \in Issued
  PROVE  \E k \in Party : \E ts : i = <<i[1], SignAttestation(i[1], k, ts)>>
  <1>1. CASE \E s \in sealed :
               i = <<ContextualizedEnvelopeBytes(EnvelopeOf(s)), AttestationOf(s)>>
    BY <1>1 DEF SealedInv, AttestationOf, AttestEnvelope
  <1>2. CASE \E x \in attested : i = <<x.msg, SignAttestation(x.msg, x.signer, x.ts)>>
    BY <1>2 DEF AttestedInv
  <1>3. QED  BY <1>1, <1>2 DEF Issued

\* A message with the context tag is issued by sealing, or by attesting the tagged
\* bytes of what somebody sealed.
LEMMA ContextIssued ==
  ASSUME AttestedInv, NEW i \in Issued, NEW env, i[1] = ContextualizedEnvelopeBytes(env)
  PROVE  \E s \in sealed :
           /\ i[1] = ContextualizedEnvelopeBytes(EnvelopeOf(s))
           /\ i[2] = AttestationOf(s) \/ AttestedAsSealed(i[2].signer, s)
  <1>1. CASE \E s \in sealed :
               i = <<ContextualizedEnvelopeBytes(EnvelopeOf(s)), AttestationOf(s)>>
    BY <1>1
  <1>2. ASSUME NEW x \in attested, i = <<x.msg, SignAttestation(x.msg, x.signer, x.ts)>>
        PROVE  \E s \in sealed : /\ i[1] = ContextualizedEnvelopeBytes(EnvelopeOf(s))
                                 /\ AttestedAsSealed(i[2].signer, s)
    <2>1. i[1] = x.msg /\ i[2] = SignAttestation(x.msg, x.signer, x.ts)  BY <1>2
    <2>2. i[2].signer = x.signer  BY <2>1 DEF SignAttestation
    <2>3. x.msg.context # "none"  BY <2>1 DEF ContextualizedEnvelopeBytes, TaggedMessage
    <2>4. PICK s \in sealed : x.msg = TaggedMessage(EnvelopeOf(s))
      BY <2>3 DEF AttestedInv
    <2>5. QED  BY <2>1, <2>2, <2>4 DEF AttestedAsSealed, ContextualizedEnvelopeBytes
  <1>3. QED  BY <1>1, <1>2 DEF Issued

\* The signer, the hash and the time are under the signature.
LEMMA SignatureBinds ==
  ASSUME NEW a, NEW m, NEW n, NEW k, NEW ts,
         VerifyAttestation(a, m), a.sig = SignAttestation(n, k, ts).sig
  PROVE  m = n /\ a.signer = k /\ a.hash = Sha256(n) /\ a.ts = ts
  <1> DEFINE sa == SigStructureBytes(ProtectedBytes(a.signer), ClaimsBytes(a.hash, a.ts))
             sn == SigStructureBytes(ProtectedBytes(k), ClaimsBytes(Sha256(n), ts))
  <1>1. Sign(a.signer, sa) = Sign(k, sn)
    BY DEF VerifyAttestation, VerifySignature, SignAttestation
  <1>2. a.signer = k /\ sa = sn
    <2> HIDE DEF sa, sn
    <2>1. QED  BY <1>1 DEF Sign
  <1>3. ClaimsBytes(a.hash, a.ts) = ClaimsBytes(Sha256(n), ts)
    BY <1>2 DEF SigStructureBytes
  <1>4. a.hash = Sha256(n) /\ a.ts = ts  BY <1>3 DEF ClaimsBytes
  <1>5. Sha256(m) = a.hash  BY DEF VerifyAttestation
  <1>6. QED  BY <1>2, <1>4, <1>5 DEF Sha256

\* What a reader gets of an issued artifact still names a party, and its
\* signature is an issued one or that of nobody.
LEMMA ReadForm ==
  ASSUME SealedInv, AttestedInv, NEW j \in Issued, NEW b \in Read(ArtifactBytes(j[2]))
  PROVE  /\ b.protected.kid \in Party
         /\ b.sig = NoSignature \/ \E i \in Issued : b.sig = i[2].sig
  <1> DEFINE o == ArtifactBytes(j[2])
  <1>1. o.protected.kid \in Party
    <2>1. PICK k, ts : k \in Party /\ j = <<j[1], SignAttestation(j[1], k, ts)>>
      BY IssuedForm
    <2>2. j[2].signer = k  BY <2>1 DEF SignAttestation
    <2>3. QED  BY <2>1, <2>2 DEF ArtifactBytes, ProtectedBytes
  <1>2. o.sig = j[2].sig  BY DEF ArtifactBytes
  <1>3. CASE b = o  BY <1>1, <1>2, <1>3
  <1>4. CASE b \in {[o EXCEPT !.tag = 0], [o EXCEPT !.unprotected = {Garbled}],
                    [o EXCEPT !.protected.content = OtherContentType],
                    [o EXCEPT !.canonical = FALSE], [o EXCEPT !.sig = NoSignature]}
    BY <1>1, <1>2, <1>4 DEF ArtifactBytes, ProtectedBytes
  <1>5. CASE \E k \in Party : b = [o EXCEPT !.protected.kid = k]
    BY <1>2, <1>5 DEF ArtifactBytes, ProtectedBytes
  <1>6. CASE \E t \in Time \cup {Garbled} : b = [o EXCEPT !.claims.ts = t]
    BY <1>1, <1>2, <1>6 DEF ArtifactBytes, ProtectedBytes
  <1>7. CASE \E i \in Issued : b = [o EXCEPT !.claims.hash = i[2].hash]
    BY <1>1, <1>2, <1>7 DEF ArtifactBytes, ProtectedBytes
  <1>8. CASE \E i \in Issued : b = [o EXCEPT !.sig = i[2].sig]
    BY <1>1, <1>8 DEF ArtifactBytes, ProtectedBytes
  <1>9. QED
    <2> HIDE DEF o
    <2>1. b \in {o} \cup AlteredArtifacts(o)  BY DEF Read, o
    <2>2. QED  BY <2>1, <1>3, <1>4, <1>5, <1>6, <1>7, <1>8 DEF AlteredArtifacts

\* An artifact that verifies for a message was issued for it.
LEMMA Unforged ==
  ASSUME SealedInv, AttestedInv, NEW j \in Issued, NEW b \in Read(ArtifactBytes(j[2])),
         NEW a \in FromCoseBytes(b), NEW m, VerifyAttestation(a, m)
  PROVE  \E i \in Issued : i[1] = m /\ i[2] = a /\ ArtifactBytes(i[2]) = b
  <1>1. /\ a = [hash |-> a.hash, ts |-> a.ts, signer |-> a.signer, sig |-> a.sig]
        /\ a.signer = b.protected.kid /\ a.sig = b.sig
        /\ ArtifactBytes(a) = b
    BY DEF FromCoseBytes, DecodeFields
  <1>2. a.signer \in Party  BY <1>1, ReadForm
  <1>3. a.sig # NoSignature
    <2>1. a.sig = Sign(a.signer, SigStructureBytes(ProtectedBytes(a.signer),
                                                   ClaimsBytes(a.hash, a.ts)))
      BY DEF VerifyAttestation, VerifySignature
    <2>2. QED  BY <1>2, <2>1, AlteredAssumption DEF NoSignature, Sign
  <1>4. PICK i \in Issued : a.sig = i[2].sig  BY <1>1, <1>3, ReadForm
  <1>5. PICK k, ts : k \in Party /\ i = <<i[1], SignAttestation(i[1], k, ts)>>
    BY IssuedForm
  <1>6. i[2] = SignAttestation(i[1], k, ts)  BY <1>5
  <1>7. m = i[1] /\ a.signer = k /\ a.hash = Sha256(i[1]) /\ a.ts = ts
    BY <1>4, <1>6, SignatureBinds
  <1>8. i[2] = [hash |-> a.hash, ts |-> a.ts, signer |-> a.signer, sig |-> a.sig]
    BY <1>4, <1>6, <1>7 DEF SignAttestation
  <1>9. QED  BY <1>1, <1>7, <1>8

\* What decrypts was encrypted for this recipient.
LEMMA CipherBinds ==
  ASSUME NEW s, NEW env, NEW r, NEW m \in OpenEnvelope(env, r),
         ContextualizedEnvelopeBytes(env) = ContextualizedEnvelopeBytes(EnvelopeOf(s))
  PROVE  r = s.to /\ m = s.payload
  <1> DEFINE d == DeriveKeyAndNonce(Shared(r, env.eph), env.eph, r)
             ds == DeriveKeyAndNonce(Shared(s.id, s.to), s.id, s.to)
  <1>1. AttestationBytes(env) = AttestationBytes(EnvelopeOf(s))
    BY DEF ContextualizedEnvelopeBytes, TaggedMessage
  <1>2. env.ct = EnvelopeOf(s).ct  BY <1>1 DEF AttestationBytes
  <1>3. env.ct = Encrypt(d.key, env.nonce, m)  BY DEF OpenEnvelope, Decrypt
  <1>4. EnvelopeOf(s).ct = Encrypt(ds.key, ds.nonce, s.payload)
    BY DEF EnvelopeOf, SealEnvelope
  <1>5. d.key = ds.key /\ m = s.payload
    <2> HIDE DEF d, ds
    <2>1. Encrypt(d.key, env.nonce, m) = Encrypt(ds.key, ds.nonce, s.payload)
      BY <1>2, <1>3, <1>4
    <2>2. QED  BY <2>1 DEF Encrypt
  <1>6. r = s.to  BY <1>5 DEF DeriveKeyAndNonce
  <1>7. QED  BY <1>5, <1>6

-----------------------------------------------------------------------------
\* How the parts of the invariant carry over to the next state.

LEMMA Carries ==
  ASSUME NEW I, NEW J, I \subseteq J
  PROVE  /\ \A d : Honest(I, d) => Honest(J, d)
         /\ \A o : CommandInv(I, o) => CommandInv(J, o)
  <1>1. \A d : Honest(I, d) => Honest(J, d)  BY DEF Honest
  <1>2. \A t : TodoInv(I, t) => TodoInv(J, t)  BY <1>1 DEF TodoInv
  <1>3. QED  BY <1>1, <1>2 DEF CommandInv

LEMMA IdleInv == \A I : CommandInv(I, Idle)
  BY DEF CommandInv, Idle

LEMMA QuietEvent == event' = Quiet => EventInv'
  BY DEF Quiet, EventInv, OpenedWasVouchedFor, DecryptedWasAttested, AcceptedWasIssued

\* One process gets another command.
LEMMA NextCommand ==
  ASSUME CmdInv, Issued \subseteq Issued', NEW c \in Cmd, NEW o,
         cmd' = [cmd EXCEPT ![c] = o], CommandInv(Issued', o)
  PROVE  CmdInv'
  <1>1. \A d \in Cmd : CommandInv(Issued', cmd'[d])
    <2>1. TAKE d \in Cmd
    <2>2. CommandInv(Issued', cmd[d])  BY Carries DEF CmdInv
    <2>3. cmd'[d] = IF d = c THEN o ELSE cmd[d]  BY DEF CmdInv
    <2>4. QED  BY <2>2, <2>3
  <1>2. cmd' = [d \in Cmd |-> cmd'[d]]  BY DEF CmdInv
  <1>3. QED  BY <1>1, <1>2 DEF CmdInv

\* A process is done.
LEMMA Ended ==
  ASSUME CmdInv, Issued \subseteq Issued', NEW c \in Cmd, NEW res, End(c, res)
  PROVE  CmdInv'
  BY NextCommand, IdleInv DEF End

LEMMA DiskStays ==
  ASSUME DiskInv, Issued \subseteq Issued', UNCHANGED disk
  PROVE  DiskInv'
  BY Carries DEF DiskInv

\* A file is removed, truncated or written.
LEMMA DiskChanges ==
  ASSUME DiskInv, Issued \subseteq Issued', NEW p, NEW ino, NEW data,
         disk' = [disk EXCEPT ![p] = [ino |-> ino, data |-> data]], Honest(Issued', data)
  PROVE  DiskInv'
  <1>1. disk' = [q \in Paths |-> [ino |-> disk'[q].ino, data |-> disk'[q].data]]
    BY DEF DiskInv
  <1>2. Honest(Issued', disk'[AttPath].data)
    <2>1. CASE p = AttPath
      <3>1. disk'[AttPath] = [ino |-> ino, data |-> data]  BY <2>1 DEF DiskInv, Paths
      <3>2. QED  BY <3>1
    <2>2. CASE p # AttPath
      <3>1. disk'[AttPath] = disk[AttPath]  BY <2>2 DEF DiskInv
      <3>2. QED  BY <3>1, Carries DEF DiskInv
    <2>3. QED  BY <2>1, <2>2
  <1>3. QED  BY <1>1, <1>2 DEF DiskInv

LEMMA DataChanges ==
  ASSUME DiskInv, Issued \subseteq Issued', NEW p, NEW data,
         disk' = [disk EXCEPT ![p].data = data], Honest(Issued', data)
  PROVE  DiskInv'
  <1>1. CASE p \in Paths
    <2>1. [disk[p] EXCEPT !.data = data] = [ino |-> disk[p].ino, data |-> data]
      BY <1>1 DEF DiskInv
    <2>2. disk' = [disk EXCEPT ![p] = [ino |-> disk[p].ino, data |-> data]]  BY <2>1
    <2>3. QED  BY <2>2, DiskChanges
  <1>2. CASE p \notin Paths
    <2>1. UNCHANGED disk  BY <1>2 DEF DiskInv
    <2>2. QED  BY <2>1, DiskStays
  <1>3. QED  BY <1>1, <1>2

LEMMA TornIsHonest == \A I : Honest(I, Torn) /\ Honest(I, Missing.data)
  BY DEF Honest, Torn, Missing

\* The first write of a busy command.
LEMMA TodoHead ==
  ASSUME NEW I, NEW o, CommandInv(I, o), o.op \in {"seal", "attest", "open"}
  PROVE  /\ Honest(I, Head(o.todo).data)
         /\ Tail(o.todo) # << >> => TodoInv(I, Tail(o.todo))
  <1> DEFINE t == o.todo
  <1>1. TodoInv(I, t)  BY DEF CommandInv
  <1>2. CASE t = <<t[1]>> /\ Honest(I, t[1].data)
    <2>0. \A u : Head(<<u>>) = u /\ Tail(<<u>>) = << >>  OBVIOUS
    <2>1. Head(t) = t[1] /\ Tail(t) = << >>  BY <1>2, <2>0, Zenon
    <2>2. QED  BY <1>2, <2>1
  <1>3. CASE t = <<t[1], t[2]>> /\ Honest(I, t[1].data) /\ Honest(I, t[2].data)
    <2>0. \A u, v : Head(<<u, v>>) = u /\ Tail(<<u, v>>) = <<v>>  OBVIOUS
    <2>1. Head(t) = t[1] /\ Tail(t) = <<t[2]>>  BY <1>3, <2>0, Zenon
    <2>2. QED  BY <1>3, <2>1 DEF TodoInv
  <1>4. QED  BY <1>1, <1>2, <1>3 DEF TodoInv

-----------------------------------------------------------------------------
\* Every step keeps the invariant.

LEMMA SameIssued ==
  ASSUME UNCHANGED <<sealed, attested>>
  PROVE  Issued' = Issued
  BY DEF Issued

LEMMA SameHistory ==
  ASSUME SealedInv, AttestedInv, UNCHANGED <<sealed, attested>>
  PROVE  SealedInv' /\ AttestedInv' /\ Issued \subseteq Issued'
  BY SameIssued DEF SealedInv, AttestedInv

LEMMA StartSealInv ==
  ASSUME IndInv, NEW c \in Cmd, NEW from \in Party, NEW to, NEW m, NEW ts,
         StartSeal(c, from, to, m, ts)
  PROVE  IndInv'
  <1>1. PICK k \in Ids :
          LET s == [id |-> k, from |-> from, to |-> to, payload |-> m, ts |-> ts] IN
          /\ cmd' = [cmd EXCEPT ![c] = Writing("seal", k,
                       <<Write(EnvPath, EnvFile(EnvelopeOf(s))),
                         Write(AttPath, AttFile(ArtifactBytes(AttestationOf(s))))>>)]
          /\ sealed' = sealed \cup {s}
          /\ event' = Quiet
          /\ UNCHANGED <<disk, attested>>
    BY DEF StartSeal
  <1> DEFINE s == [id |-> k, from |-> from, to |-> to, payload |-> m, ts |-> ts]
             i == <<ContextualizedEnvelopeBytes(EnvelopeOf(s)), AttestationOf(s)>>
             w1 == Write(EnvPath, EnvFile(EnvelopeOf(s)))
             w2 == Write(AttPath, AttFile(ArtifactBytes(AttestationOf(s))))
             o == Writing("seal", k, <<w1, w2>>)
  <1>2. s.from \in Party /\ s \in sealed' /\ sealed \subseteq sealed'  BY <1>1
  <1>3. SealedInv' /\ AttestedInv'
    BY <1>1, <1>2 DEF IndInv, SealedInv, AttestedInv
  <1>4. Issued \subseteq Issued' /\ i \in Issued'
    <2> HIDE DEF s
    <2>1. QED  BY <1>1, <1>2 DEF Issued
  <1>5. CommandInv(Issued', o)
    <2>1. Honest(Issued', w1.data)  BY DEF Honest, Write, EnvFile
    <2>2. Honest(Issued', w2.data)
      <3>1. w2.data.bytes = ArtifactBytes(i[2])  BY DEF Write, AttFile
      <3>2. QED  BY <1>4, <3>1 DEF Honest
    <2> HIDE DEF w1, w2
    <2>3. TodoInv(Issued', <<w1, w2>>)  BY <2>1, <2>2 DEF TodoInv
    <2>4. QED  BY <2>3 DEF CommandInv, HasWriting, Writing
  <1>6. CmdInv'
    <2> HIDE DEF o
    <2>1. cmd' = [cmd EXCEPT ![c] = o]  BY <1>1 DEF o
    <2>2. QED  BY <1>4, <1>5, <2>1, NextCommand DEF IndInv
  <1>7. DiskInv'  BY <1>1, <1>4, DiskStays DEF IndInv
  <1>8. EventInv'  BY <1>1, QuietEvent
  <1>9. QED  BY <1>3, <1>6, <1>7, <1>8 DEF IndInv

LEMMA StartAttestInv ==
  ASSUME IndInv, NEW c \in Cmd, NEW signer \in Party, NEW ts,
         NEW msg \in GenericMessages, StartAttest(c, signer, msg, ts)
  PROVE  IndInv'
  <1> DEFINE x == [signer |-> signer, msg |-> msg, ts |-> ts]
             a == SignAttestation(msg, signer, ts)
             i == <<msg, a>>
             w == Write(AttPath, AttFile(ArtifactBytes(a)))
  <1>1. PICK k \in Ids :
          /\ cmd' = [cmd EXCEPT ![c] = Writing("attest", k, <<w>>)]
          /\ attested' = attested \cup {x}
          /\ event' = Quiet
          /\ UNCHANGED <<disk, sealed>>
    BY DEF StartAttest
  <1>2. \/ msg.context = "none"
        \/ \E s \in sealed : msg = TaggedMessage(EnvelopeOf(s))
    BY DEF GenericMessages, PayloadMessage, BareMessage
  <1>3. SealedInv' /\ AttestedInv'
    BY <1>1, <1>2 DEF IndInv, SealedInv, AttestedInv
  <1>4. Issued \subseteq Issued' /\ i \in Issued'
    <2>1. i = <<x.msg, SignAttestation(x.msg, x.signer, x.ts)>>  OBVIOUS
    <2>2. x \in attested' /\ attested \subseteq attested' /\ sealed' = sealed  BY <1>1
    <2> HIDE DEF x, i
    <2>3. QED  BY <2>1, <2>2 DEF Issued
  <1>5. CommandInv(Issued', Writing("attest", k, <<w>>))
    <2>1. Honest(Issued', w.data)
      <3>1. w.data.bytes = ArtifactBytes(i[2])  BY DEF Write, AttFile
      <3>2. QED  BY <1>4, <3>1 DEF Honest
    <2> HIDE DEF w
    <2>2. TodoInv(Issued', <<w>>)  BY <2>1 DEF TodoInv
    <2>3. QED  BY <2>2 DEF CommandInv, HasWriting, Writing
  <1>6. CmdInv'  BY <1>1, <1>4, <1>5, NextCommand DEF IndInv
  <1>7. DiskInv'  BY <1>1, <1>4, DiskStays DEF IndInv
  <1>8. EventInv'  BY <1>1, QuietEvent
  <1>9. QED  BY <1>3, <1>6, <1>7, <1>8 DEF IndInv

LEMMA StartOpenInv ==
  ASSUME IndInv, NEW c \in Cmd, NEW r \in Party, NEW sender \in Party,
         StartOpen(c, r, sender)
  PROVE  IndInv'
  <1>1. PICK k, env : cmd' = [cmd EXCEPT ![c] = [op |-> "reading", id |-> k, env |-> env,
                                                 to |-> r, from |-> sender]]
    BY DEF StartOpen
  <1>2. event' = Quiet /\ UNCHANGED <<disk, sealed, attested>>  BY DEF StartOpen
  <1>3. SealedInv' /\ AttestedInv' /\ Issued \subseteq Issued'
    BY <1>2, SameHistory DEF IndInv
  <1>4. CommandInv(Issued', [op |-> "reading", id |-> k, env |-> env,
                             to |-> r, from |-> sender])
    BY DEF CommandInv
  <1>5. CmdInv'  BY <1>1, <1>3, <1>4, NextCommand DEF IndInv
  <1>6. DiskInv'  BY <1>2, <1>3, DiskStays DEF IndInv
  <1>7. QED  BY <1>2, <1>3, <1>5, <1>6, QuietEvent DEF IndInv

LEMMA BusyForm ==
  ASSUME CmdInv, NEW c \in Cmd, Busy(c)
  PROVE  /\ HasWriting(cmd[c])
         /\ TodoInv(Issued, cmd[c].todo)
         /\ cmd[c].op \in {"seal", "attest", "open"}
  BY DEF CmdInv, CommandInv, Busy

\* A command with a field replaced.
With(o, todo, fd) == [op |-> o.op, id |-> o.id, todo |-> todo, fd |-> fd]

LEMMA Updates ==
  ASSUME NEW o, HasWriting(o), NEW y
  PROVE  /\ [o EXCEPT !.fd = y] = With(o, o.todo, y)
         /\ [o EXCEPT !.op = y].op = y
  <1> DEFINE op == o.op  id == o.id  t == o.todo  fd == o.fd
  <1>1. o = [op |-> op, id |-> id, todo |-> t, fd |-> fd]  BY DEF HasWriting
  <1> HIDE DEF op, id, t, fd
  <1>2. [o EXCEPT !.fd = y] = [op |-> op, id |-> id, todo |-> t, fd |-> y]  BY <1>1
  <1>3. [o EXCEPT !.op = y].op = y  BY <1>1
  <1>4. QED  BY <1>2, <1>3 DEF op, id, t, With

LEMMA WithInv ==
  ASSUME NEW I, NEW o, o.op \in {"seal", "attest", "open"}, NEW todo, NEW fd,
         TodoInv(I, todo)
  PROVE  CommandInv(I, With(o, todo, fd))
  BY DEF CommandInv, HasWriting, With

LEMMA CreateFileInv ==
  ASSUME IndInv, NEW c \in Cmd, CreateFile(c)
  PROVE  IndInv'
  <1> DEFINE p == Head(cmd[c].todo).path
             ino == IF disk[p] = Missing THEN cmd[c].id ELSE disk[p].ino
             o == [cmd[c] EXCEPT !.fd = ino]
  <1>1. /\ disk' = [disk EXCEPT ![p] = [ino |-> ino, data |-> Torn]]
        /\ cmd' = [cmd EXCEPT ![c] = o]
        /\ event' = Quiet /\ UNCHANGED <<sealed, attested>>
    BY DEF CreateFile
  <1>2. SealedInv' /\ AttestedInv' /\ Issued \subseteq Issued' /\ Issued' = Issued
    BY <1>1, SameHistory, SameIssued DEF IndInv
  <1>3. CommandInv(Issued', o)
    <2> HIDE DEF ino
    <2>1. Busy(c)  BY DEF CreateFile
    <2>2. o = With(cmd[c], cmd[c].todo, ino)  BY <2>1, BusyForm, Updates DEF IndInv
    <2>3. TodoInv(Issued', cmd[c].todo) /\ cmd[c].op \in {"seal", "attest", "open"}
      BY <1>2, <2>1, BusyForm DEF IndInv
    <2>4. QED  BY <2>2, <2>3, WithInv
  <1> HIDE DEF o, ino, p
  <1>4. CmdInv'  BY <1>1, <1>2, <1>3, NextCommand DEF IndInv
  <1>5. DiskInv'  BY <1>1, <1>2, DiskChanges, TornIsHonest DEF IndInv
  <1>6. QED  BY <1>1, <1>2, <1>4, <1>5, QuietEvent DEF IndInv

LEMMA WrittenInv ==
  ASSUME CmdInv, NEW c \in Cmd, Busy(c), Written(c), Issued' = Issued
  PROVE  CmdInv'
  <1> DEFINE rest == Tail(cmd[c].todo)
             o == With(cmd[c], rest, 0)
  <1>1. CASE rest = << >>  BY <1>1, Ended DEF Written
  <1>2. CASE rest # << >>
    <2>1. TodoInv(Issued', rest) /\ cmd[c].op \in {"seal", "attest", "open"}
      BY <1>2, BusyForm, TodoHead DEF CmdInv
    <2>2. cmd' = [cmd EXCEPT ![c] = o]  BY <1>2 DEF Written, Writing, With
    <2>3. CommandInv(Issued', o)  BY <2>1, WithInv
    <2> HIDE DEF o
    <2>4. QED  BY <2>2, <2>3, NextCommand
  <1>3. QED  BY <1>1, <1>2

LEMMA WriteAllInv ==
  ASSUME IndInv, NEW c \in Cmd, WriteAll(c)
  PROVE  IndInv'
  <1> DEFINE w == Head(cmd[c].todo)
  <1>1. /\ Busy(c) /\ Written(c)
        /\ event' = Quiet /\ UNCHANGED <<sealed, attested>>
    BY DEF WriteAll
  <1>2. SealedInv' /\ AttestedInv' /\ Issued \subseteq Issued' /\ Issued' = Issued
    BY <1>1, SameHistory, SameIssued DEF IndInv
  <1>3. CmdInv'  BY <1>1, <1>2, WrittenInv DEF IndInv
  <1>4. \A data \in {w.data, Torn} : Honest(Issued', data)
    BY <1>1, <1>2, BusyForm, TodoHead, TornIsHonest DEF IndInv, CmdInv
  <1>5. PICK data \in {w.data, Torn} :
          disk' = IF disk[w.path].ino = cmd[c].fd
                  THEN [disk EXCEPT ![w.path].data = data] ELSE disk
    BY DEF WriteAll
  <1>6. DiskInv'
    <2> HIDE DEF w
    <2>1. CASE UNCHANGED disk  BY <1>2, <2>1, DiskStays DEF IndInv
    <2>2. CASE disk' = [disk EXCEPT ![w.path].data = data]
      BY <1>2, <1>4, <2>2, DataChanges DEF IndInv
    <2>3. QED  BY <1>5, <2>1, <2>2
  <1>7. QED  BY <1>1, <1>2, <1>3, <1>6, QuietEvent DEF IndInv

LEMMA WriteFailsInv ==
  ASSUME IndInv, NEW c \in Cmd, WriteFails(c)
  PROVE  IndInv'
  <1> DEFINE p == Head(cmd[c].todo).path
             o == [cmd[c] EXCEPT !.op = "cleanup"]
  <1>1. /\ Busy(c) /\ WriteError(c)
        /\ event' = Quiet /\ UNCHANGED <<sealed, attested>>
    BY DEF WriteFails
  <1>2. SealedInv' /\ AttestedInv' /\ Issued \subseteq Issued'
    BY <1>1, SameHistory DEF IndInv
  <1>3. CmdInv'
    <2>1. CASE \E res : End(c, res)  BY <1>2, <2>1, Ended DEF IndInv
    <2>2. CASE cmd' = [cmd EXCEPT ![c] = o]
      <3>1. HasWriting(cmd[c])  BY <1>1, BusyForm DEF IndInv
      <3>2. o.op = "cleanup"  BY <3>1, Updates
      <3> HIDE DEF o
      <3>3. CommandInv(Issued', o)  BY <3>2 DEF CommandInv
      <3>4. QED  BY <1>2, <2>2, <3>3, NextCommand DEF IndInv
    <2>3. QED  BY <1>1, <2>1, <2>2 DEF WriteError
  <1>4. DiskInv'
    <2>1. CASE UNCHANGED disk  BY <1>2, <2>1, DiskStays DEF IndInv
    <2>2. CASE disk' = [disk EXCEPT ![p].data = Torn]
      BY <1>2, <2>2, DataChanges, TornIsHonest DEF IndInv
    <2>3. QED  BY <2>1, <2>2 DEF WriteFails
  <1>5. QED  BY <1>1, <1>2, <1>3, <1>4, QuietEvent DEF IndInv

LEMMA CleanupInv ==
  ASSUME IndInv, NEW c \in Cmd, Cleanup(c)
  PROVE  IndInv'
  <1>1. /\ \E res : End(c, res)
        /\ UNCHANGED disk \/ disk' = [disk EXCEPT ![EnvPath] = Missing]
        /\ event' = Quiet /\ UNCHANGED <<sealed, attested>>
    BY DEF Cleanup
  <1>2. SealedInv' /\ AttestedInv' /\ Issued \subseteq Issued'
    BY <1>1, SameHistory DEF IndInv
  <1>3. CmdInv'  BY <1>1, <1>2, Ended DEF IndInv
  <1>4. DiskInv'
    <2>1. CASE UNCHANGED disk  BY <1>2, <2>1, DiskStays DEF IndInv
    <2>2. CASE disk' = [disk EXCEPT ![EnvPath] = Missing]
      <3>1. Missing = [ino |-> 0, data |-> Missing.data]  BY DEF Missing
      <3>2. PICK d : d = Missing.data /\ Honest(Issued', d)  BY TornIsHonest
      <3>3. disk' = [disk EXCEPT ![EnvPath] = [ino |-> 0, data |-> d]]  BY <2>2, <3>1, <3>2
      <3>4. QED  BY <1>2, <3>2, <3>3, DiskChanges DEF IndInv
    <2>3. QED  BY <1>1, <2>1, <2>2
  <1>5. QED  BY <1>1, <1>2, <1>3, <1>4, QuietEvent DEF IndInv

LEMMA KilledInv ==
  ASSUME IndInv, NEW c \in Cmd, Killed(c)
  PROVE  IndInv'
  <1>1. End(c, "killed") /\ event' = Quiet /\ UNCHANGED <<disk, sealed, attested>>
    BY DEF Killed
  <1>2. SealedInv' /\ AttestedInv' /\ Issued \subseteq Issued'
    BY <1>1, SameHistory DEF IndInv
  <1>3. CmdInv'  BY <1>1, <1>2, Ended DEF IndInv
  <1>4. DiskInv'  BY <1>1, <1>2, DiskStays DEF IndInv
  <1>5. QED  BY <1>1, <1>2, <1>3, <1>4, QuietEvent DEF IndInv

\* A pair whose sender verifies is one that the sender sealed.
LEMMA SenderSealed ==
  ASSUME IndInv, IsWhole(disk[AttPath], "artifact"),
         NEW b \in Read(disk[AttPath].data.bytes), NEW a \in FromCoseBytes(b),
         NEW env, NEW sender, SenderVerifies(env, a, sender)
  PROVE  \E s \in sealed, i \in Issued :
           /\ i[1] = ContextualizedEnvelopeBytes(env) /\ i[2].signer = sender
           /\ ArtifactBytes(i[2]) = b
           /\ s.from = sender \/ AttestedAsSealed(sender, s)
           /\ ContextualizedEnvelopeBytes(env) = ContextualizedEnvelopeBytes(EnvelopeOf(s))
  <1>1. PICK j \in Issued : disk[AttPath].data.bytes = ArtifactBytes(j[2])
    BY DEF IndInv, DiskInv, Honest, IsWhole
  <1>2. b \in Read(ArtifactBytes(j[2]))  BY <1>1
  <1>3. /\ a.signer = sender
        /\ VerifyAttestation(a, ContextualizedEnvelopeBytes(env))
    BY DEF SenderVerifies
  <1>4. PICK i \in Issued : /\ i[1] = ContextualizedEnvelopeBytes(env)
                            /\ i[2] = a /\ ArtifactBytes(i[2]) = b
    BY <1>2, <1>3, Unforged DEF IndInv
  <1>5. PICK s \in sealed :
          /\ i[1] = ContextualizedEnvelopeBytes(EnvelopeOf(s))
          /\ i[2] = AttestationOf(s) \/ AttestedAsSealed(i[2].signer, s)
    BY <1>4, ContextIssued DEF IndInv
  <1>6. s.from = sender \/ AttestedAsSealed(sender, s)
    <2>1. AttestationOf(s).signer = s.from
      BY DEF AttestationOf, AttestEnvelope, SignAttestation
    <2>2. QED  BY <1>3, <1>4, <1>5, <2>1
  <1>7. QED  BY <1>3, <1>4, <1>5, <1>6

LEMMA OpenPairInv ==
  ASSUME IndInv, NEW c \in Cmd, OpenPair(c)
  PROVE  IndInv'
  <1> DEFINE env == cmd[c].env  sender == cmd[c].from  r == cmd[c].to
  <1>1. UNCHANGED <<disk, sealed, attested>>  BY DEF OpenPair
  <1>2. PICK b \in Read(disk[AttPath].data.bytes) : \E a \in FromCoseBytes(b) :
          \E m \in OpenAndVerify(env, a, sender, r) :
            /\ event' = [accepted |-> {<<ContextualizedEnvelopeBytes(env), b>>},
                         decrypted |-> {<<env, sender>>},
                         opened |-> {[from |-> sender, to |-> r, payload |-> m]}]
            /\ cmd' = [cmd EXCEPT ![c] = Writing("open", cmd[c].id,
                                           <<Write(OutPath, PlainFile(m))>>)]
    BY DEF OpenPair
  <1>3. PICK a \in FromCoseBytes(b) : \E m \in OpenAndVerify(env, a, sender, r) :
            /\ event' = [accepted |-> {<<ContextualizedEnvelopeBytes(env), b>>},
                         decrypted |-> {<<env, sender>>},
                         opened |-> {[from |-> sender, to |-> r, payload |-> m]}]
            /\ cmd' = [cmd EXCEPT ![c] = Writing("open", cmd[c].id,
                                           <<Write(OutPath, PlainFile(m))>>)]
    BY <1>2
  <1>4. PICK m \in OpenAndVerify(env, a, sender, r) :
            /\ event' = [accepted |-> {<<ContextualizedEnvelopeBytes(env), b>>},
                         decrypted |-> {<<env, sender>>},
                         opened |-> {[from |-> sender, to |-> r, payload |-> m]}]
            /\ cmd' = [cmd EXCEPT ![c] = Writing("open", cmd[c].id,
                                           <<Write(OutPath, PlainFile(m))>>)]
    BY <1>3
  <1>5. SealedInv' /\ AttestedInv' /\ Issued \subseteq Issued' /\ Issued' = Issued
    BY <1>1, SameHistory, SameIssued DEF IndInv
  <1>6. DiskInv'  BY <1>1, <1>5, DiskStays DEF IndInv
  <1>7. CmdInv'
    <2> DEFINE w == Write(OutPath, PlainFile(m))
               o == Writing("open", cmd[c].id, <<w>>)
    <2>1. CommandInv(Issued', o)
      <3>1. Honest(Issued', w.data)  BY DEF Honest, Write, PlainFile
      <3> HIDE DEF w
      <3>2. TodoInv(Issued', <<w>>)  BY <3>1 DEF TodoInv
      <3>3. QED  BY <3>2 DEF CommandInv, HasWriting, Writing
    <2>2. cmd' = [cmd EXCEPT ![c] = o]  BY <1>4
    <2> HIDE DEF o
    <2>3. QED  BY <1>5, <2>1, <2>2, NextCommand DEF IndInv
  <1>8. EventInv'
    <2> HIDE DEF env, sender, r
    <2>1. SenderVerifies(env, a, sender) /\ m \in OpenEnvelope(env, r)
      BY DEF OpenAndVerify
    <2>2. IsWhole(disk[AttPath], "artifact")  BY DEF OpenPair
    <2>3. PICK s \in sealed, i \in Issued :
            /\ i[1] = ContextualizedEnvelopeBytes(env) /\ i[2].signer = sender
            /\ ArtifactBytes(i[2]) = b
            /\ s.from = sender \/ AttestedAsSealed(sender, s)
            /\ ContextualizedEnvelopeBytes(env) = ContextualizedEnvelopeBytes(EnvelopeOf(s))
      BY <2>1, <2>2, SenderSealed
    <2>4. r = s.to /\ m = s.payload  BY <2>1, <2>3, CipherBinds
    <2>5. OpenedWasVouchedFor'
      BY <1>1, <1>4, <2>3, <2>4 DEF OpenedWasVouchedFor, AttestedAsSealed
    <2>6. DecryptedWasAttested'
      <3>1. \A d \in event'.decrypted : d[1] = env /\ d[2] = sender  BY <1>4
      <3>2. QED  BY <1>5, <2>3, <3>1 DEF DecryptedWasAttested
    <2>7. AcceptedWasIssued'
      <3>1. \A x \in event'.accepted : x[1] = ContextualizedEnvelopeBytes(env) /\ x[2] = b
        BY <1>4
      <3>2. QED  BY <1>5, <2>3, <3>1 DEF AcceptedWasIssued
    <2>8. QED  BY <2>5, <2>6, <2>7 DEF EventInv
  <1>9. QED  BY <1>5, <1>6, <1>7, <1>8 DEF IndInv

LEMMA OpenFailsInv ==
  ASSUME IndInv, NEW c \in Cmd, OpenFails(c)
  PROVE  IndInv'
  <1> DEFINE env == cmd[c].env  sender == cmd[c].from
  <1>1. End(c, "error") /\ UNCHANGED <<disk, sealed, attested>>  BY DEF OpenFails
  <1>2. SealedInv' /\ AttestedInv' /\ Issued \subseteq Issued' /\ Issued' = Issued
    BY <1>1, SameHistory, SameIssued DEF IndInv
  <1>3. CmdInv'  BY <1>1, <1>2, Ended DEF IndInv
  <1>4. DiskInv'  BY <1>1, <1>2, DiskStays DEF IndInv
  <1>5. CASE event' = Quiet  BY <1>2, <1>3, <1>4, <1>5, QuietEvent DEF IndInv
  <1>6. CASE event' # Quiet
    <2>1. IsWhole(disk[AttPath], "artifact")  BY <1>6 DEF OpenFails
    <2>2. PICK b \in Read(disk[AttPath].data.bytes) : \E a \in FromCoseBytes(b) :
            /\ Decrypts(env, a, sender)
            /\ event' = [Quiet EXCEPT !.decrypted = {<<env, sender>>}]
      BY <1>6 DEF OpenFails
    <2>3. PICK a \in FromCoseBytes(b) :
            /\ Decrypts(env, a, sender)
            /\ event' = [Quiet EXCEPT !.decrypted = {<<env, sender>>}]
      BY <2>2
    <2> HIDE DEF env, sender
    <2>4. PICK i \in Issued : i[1] = ContextualizedEnvelopeBytes(env) /\ i[2].signer = sender
      BY <2>1, <2>3, SenderSealed DEF Decrypts
    <2>5. event' = [accepted |-> {}, decrypted |-> {<<env, sender>>}, opened |-> {}]
      BY <2>3 DEF Quiet
    <2>6. OpenedWasVouchedFor' /\ AcceptedWasIssued'
      BY <2>5 DEF OpenedWasVouchedFor, AcceptedWasIssued
    <2>7. DecryptedWasAttested'
      <3>1. \A d \in event'.decrypted : d[1] = env /\ d[2] = sender  BY <2>5
      <3>2. QED  BY <1>2, <2>4, <3>1 DEF DecryptedWasAttested
    <2>8. QED  BY <1>2, <1>3, <1>4, <2>6, <2>7 DEF IndInv, EventInv
  <1>7. QED  BY <1>5, <1>6

LEMMA VerifyInv ==
  ASSUME IndInv, Verify
  PROVE  IndInv'
  <1>1. UNCHANGED <<disk, cmd, sealed, attested>>  BY DEF Verify
  <1>2. SealedInv' /\ AttestedInv' /\ Issued \subseteq Issued' /\ Issued' = Issued
    BY <1>1, SameHistory, SameIssued DEF IndInv
  <1>3. DiskInv'  BY <1>1, <1>2, DiskStays DEF IndInv
  <1>4. CmdInv'  BY <1>1, <1>2 DEF IndInv, CmdInv
  <1>5. PICK b \in Read(disk[AttPath].data.bytes), msg \in GenericMessages :
          /\ VerifyAttestationBytes(b, msg) # {}
          /\ event' = [Quiet EXCEPT !.accepted = {<<msg, b>>}]
    BY DEF Verify
  <1>6. event' = [accepted |-> {<<msg, b>>}, decrypted |-> {}, opened |-> {}]
    BY <1>5 DEF Quiet
  <1>7. PICK a \in FromCoseBytes(b) : VerifyAttestation(a, msg)
    BY <1>5 DEF VerifyAttestationBytes
  <1>8. PICK j \in Issued : disk[AttPath].data.bytes = ArtifactBytes(j[2])
    BY DEF Verify, IndInv, DiskInv, Honest, IsWhole
  <1>9. b \in Read(ArtifactBytes(j[2]))  BY <1>5, <1>8
  <1>10. PICK i \in Issued : i[1] = msg /\ ArtifactBytes(i[2]) = b
    BY <1>7, <1>9, Unforged DEF IndInv
  <1>11. OpenedWasVouchedFor' /\ DecryptedWasAttested'
    BY <1>6 DEF OpenedWasVouchedFor, DecryptedWasAttested
  <1>12. AcceptedWasIssued'
    <2>1. \A x \in event'.accepted : x[1] = msg /\ x[2] = b  BY <1>6
    <2>2. QED  BY <1>2, <1>10, <2>1 DEF AcceptedWasIssued
  <1>13. QED  BY <1>2, <1>3, <1>4, <1>11, <1>12 DEF IndInv, EventInv

-----------------------------------------------------------------------------
LEMMA InitInv == Init => IndInv
  <1> SUFFICES ASSUME Init PROVE IndInv  OBVIOUS
  <1>1. SealedInv /\ AttestedInv  BY DEF Init, SealedInv, AttestedInv
  <1>2. disk = [p \in Paths |-> Missing]  BY DEF Init
  <1>3. DiskInv
    <2>1. disk = [p \in Paths |-> [ino |-> disk[p].ino, data |-> disk[p].data]]
      BY <1>2 DEF Missing
    <2>2. disk[AttPath] = Missing  BY <1>2 DEF Paths
    <2>3. QED  BY <2>1, <2>2, TornIsHonest DEF DiskInv
  <1>4. CmdInv
    <2>1. cmd = [c \in Cmd |-> Idle]  BY DEF Init
    <2> HIDE DEF Idle
    <2>2. QED  BY <2>1, IdleInv DEF CmdInv
  <1>5. EventInv
    BY DEF Init, Quiet, EventInv, OpenedWasVouchedFor, DecryptedWasAttested, AcceptedWasIssued
  <1>6. QED  BY <1>1, <1>3, <1>4, <1>5 DEF IndInv

LEMMA NextInv == IndInv /\ [Next]_vars => IndInv'
  <1> SUFFICES ASSUME IndInv, [Next]_vars PROVE IndInv'  OBVIOUS
  <1>1. CASE \E c \in Cmd, from \in Party, to \in Party \cup {LowOrder}, m \in Payload,
                ts \in Time : StartSeal(c, from, to, m, ts)
    BY <1>1, StartSealInv
  <1>2. CASE \E c \in Cmd, signer \in Party, ts \in Time : \E msg \in GenericMessages :
               StartAttest(c, signer, msg, ts)
    BY <1>2, StartAttestInv
  <1>3. CASE \E c \in Cmd, r, sender \in Party : StartOpen(c, r, sender)
    BY <1>3, StartOpenInv
  <1>4. CASE \E c \in Cmd : CreateFile(c)  BY <1>4, CreateFileInv
  <1>5. CASE \E c \in Cmd : WriteAll(c)  BY <1>5, WriteAllInv
  <1>6. CASE \E c \in Cmd : WriteFails(c)  BY <1>6, WriteFailsInv
  <1>7. CASE \E c \in Cmd : Cleanup(c)  BY <1>7, CleanupInv
  <1>8. CASE \E c \in Cmd : OpenPair(c)  BY <1>8, OpenPairInv
  <1>9. CASE \E c \in Cmd : OpenFails(c)  BY <1>9, OpenFailsInv
  <1>10. CASE \E c \in Cmd : Killed(c)  BY <1>10, KilledInv
  <1>11. CASE Verify  BY <1>11, VerifyInv
  <1>12. CASE UNCHANGED vars
    <2>1. UNCHANGED <<disk, cmd, sealed, attested, event>>  BY <1>12 DEF vars
    <2>2. SealedInv' /\ AttestedInv' /\ Issued \subseteq Issued' /\ Issued' = Issued
      BY <2>1, SameHistory, SameIssued DEF IndInv
    <2>3. DiskInv' /\ CmdInv'  BY <2>1, <2>2, DiskStays DEF IndInv, CmdInv
    <2>4. EventInv'
      BY <2>1, <2>2
      DEF IndInv, EventInv, OpenedWasVouchedFor, AttestedAsSealed, DecryptedWasAttested,
          AcceptedWasIssued
    <2>5. QED  BY <2>2, <2>3, <2>4 DEF IndInv
  <1>13. QED
    BY <1>1, <1>2, <1>3, <1>4, <1>5, <1>6, <1>7, <1>8, <1>9, <1>10, <1>11, <1>12 DEF Next

LEMMA Invariance == Spec => []IndInv
  BY InitInv, NextInv, PTL DEF Spec

\* However many commands read, mix up, overwrite or get altered files: what
\* open_and_verify returns is a payload that was sealed for the recipient, by the
\* sender named or by one whose envelope that sender attested with the context tag;
\* attesting anything else makes nobody a sender.
THEOREM SealAuthentic == Spec => []OpenedWasVouchedFor
  <1>1. IndInv => OpenedWasVouchedFor  BY DEF IndInv, EventInv
  <1>2. QED  BY <1>1, Invariance, PTL

\* The gates of open_and_verify come before the cipher: an envelope that the
\* sender named did not attest is never decrypted.
THEOREM VerifiedBeforeDecrypted == Spec => []DecryptedWasAttested
  <1>1. IndInv => DecryptedWasAttested  BY DEF IndInv, EventInv
  <1>2. QED  BY <1>1, Invariance, PTL

\* from_cose_bytes and verify_attestation together accept, for a message, only
\* the very bytes that the signer's sign_attestation made for it.
THEOREM AttestationUnforged == Spec => []AcceptedWasIssued
  <1>1. IndInv => AcceptedWasIssued  BY DEF IndInv, EventInv
  <1>2. QED  BY <1>1, Invariance, PTL

(***************************************************************************)
(* What a seal leaves on disk, for any number of commands that run beside  *)
(* it: if no other command wrote the pair of files, a seal that returned   *)
(* Ok left a pair that opens, and one that reported an error left no whole *)
(* envelope.                                                               *)
(*                                                                         *)
(* The inductive invariant follows the one seal that `sole' names from its *)
(* first open(2) to its end.  Ids are never used twice, so the envelope of *)
(* that seal cannot have been on disk before it.                           *)
(***************************************************************************)

EnvWrite(s) == Write(EnvPath, EnvFile(EnvelopeOf(s)))
AttWrite(s) == Write(AttPath, AttFile(ArtifactBytes(AttestationOf(s))))

Active(c) == cmd[c] # Idle

\* Commands, seals and inodes are numbered without repetition.
IdsInv ==
  /\ started \in 0..MaxCommands
  /\ \A c \in Cmd : Active(c) => cmd[c].id \in 1..started
  /\ \A c, d \in Cmd : Active(c) /\ Active(d) /\ cmd[c].id = cmd[d].id => c = d
  /\ \A p \in Paths : disk[p].ino \in 0..started

SealsInv ==
  /\ \A s \in sealed : s.id \in 1..started /\ s.to \in Party /\ s.payload \in Payload
  /\ \A s, t \in sealed : s.id = t.id => s = t

\* What the commands write, and where.
ShapeInv(o) ==
  /\ o.op = "open" => o.todo = <<o.todo[1]>> /\ o.todo[1].path = OutPath
  /\ o.op = "attest" => o.todo = <<o.todo[1]>> /\ o.todo[1].path = AttPath
  /\ o.op = "seal" => \E s \in sealed :
       s.id = o.id /\ o.todo \in {<<EnvWrite(s), AttWrite(s)>>, <<AttWrite(s)>>}

\* Only envelopes that were sealed are in the envelope file.
EnvelopeInv ==
  disk[EnvPath].data \in {Torn, Missing.data} \cup {EnvFile(EnvelopeOf(s)) : s \in sealed}

\* The file that the command has open is there, and still empty.
Holds(o, p) == o.fd # 0 => disk[p].ino = o.fd /\ disk[p].data = Torn

\* How far the command o of seal s is.
Stage(o, s) ==
  \/ /\ o.op = "seal" /\ o.todo = <<EnvWrite(s), AttWrite(s)>>
     /\ Holds(o, EnvPath) /\ disk[EnvPath].data # EnvFile(EnvelopeOf(s))
  \/ /\ o.op = "seal" /\ o.todo = <<AttWrite(s)>>
     /\ Holds(o, AttPath) /\ disk[EnvPath].data = EnvFile(EnvelopeOf(s))
  \/ o.op = "cleanup"

\* The result of seal s is what the files say.
Outcome(s) ==
  /\ sole.result = "ok" =>
       disk[EnvPath].data = EnvWrite(s).data /\ disk[AttPath].data = AttWrite(s).data
  /\ sole.result = "error" => disk[EnvPath].data # EnvFile(EnvelopeOf(s))

\* The sole seal, while it runs and afterwards.
SoleInv ==
  /\ sole = [id |-> sole.id, result |-> sole.result]
  /\ sole.id \in 0..started
  /\ sole.id # 0 => \E s \in sealed :
       /\ s.id = sole.id /\ Outcome(s)
       /\ \A c \in Cmd : WritesPair(c) => cmd[c].id = sole.id
       /\ \A c \in Cmd : Active(c) /\ cmd[c].id = sole.id =>
            sole.result = "none" /\ Stage(cmd[c], s)

FilesInv ==
  /\ IndInv /\ IdsInv /\ SealsInv /\ EnvelopeInv /\ SoleInv
  /\ \A c \in Cmd : ShapeInv(cmd[c])

-----------------------------------------------------------------------------
\* Facts used throughout.

LEMMA Lists ==
  ASSUME NEW u, NEW v
  PROVE  /\ Head(<<u>>) = u /\ Tail(<<u>>) = << >> /\ Len(<<u>>) = 1
         /\ Head(<<u, v>>) = u /\ Tail(<<u, v>>) = <<v>> /\ Len(<<u, v>>) = 2
         /\ <<v>> # << >> /\ \A w : <<w>> # <<u, v>>
  OBVIOUS

LEMMA Writes ==
  ASSUME NEW p, NEW d
  PROVE  Write(p, d).path = p /\ Write(p, d).data = d
  BY DEF Write

LEMMA Kinds ==
  ASSUME NEW e
  PROVE  EnvFile(e) # Torn /\ EnvFile(e) # Missing.data /\ Missing.data # Torn
  <1>1. EnvFile(e).kind = "envelope"  BY DEF EnvFile
  <1>2. Torn.kind = "torn" /\ Missing.data.kind = "none"  BY DEF Torn, Missing
  <1>3. QED  BY <1>1, <1>2

\* The ephemeral key in an envelope is that of its seal.
LEMMA EnvelopeBinds ==
  ASSUME NEW s, NEW t, EnvFile(EnvelopeOf(s)) = EnvFile(EnvelopeOf(t))
  PROVE  s.id = t.id
  <1>1. \A e : EnvFile(e).env = e  BY DEF EnvFile
  <1>2. EnvelopeOf(s) = EnvelopeOf(t)  BY <1>1
  <1>3. EnvelopeOf(s).eph = s.id /\ EnvelopeOf(t).eph = t.id
    BY DEF EnvelopeOf, SealEnvelope
  <1>4. QED  BY <1>2, <1>3

LEMMA IdleOp == Idle.op = "idle"
  BY DEF Idle

LEMMA FilesKnow ==
  ASSUME FilesInv
  PROVE  /\ IndInv /\ IdsInv /\ SealsInv /\ EnvelopeInv /\ SoleInv /\ started \in Nat
         /\ cmd = [c \in Cmd |-> cmd[c]]
         /\ \A c \in Cmd : ShapeInv(cmd[c])
         /\ disk = [p \in Paths |-> [ino |-> disk[p].ino, data |-> disk[p].data]]
  <1>1. IndInv /\ IdsInv  BY DEF FilesInv
  <1>2. started \in Nat  BY <1>1, BoundsAssumption DEF IdsInv
  <1>3. QED  BY <1>1, <1>2 DEF FilesInv, IndInv, CmdInv, DiskInv

LEMMA PathsDiffer == /\ EnvPath # AttPath /\ EnvPath # OutPath /\ AttPath # OutPath
                     /\ EnvPath \in Paths /\ AttPath \in Paths /\ OutPath \in Paths
  BY DEF EnvPath, AttPath, OutPath, Paths

\* One process gets another command.
LEMMA CmdUpdate ==
  ASSUME FilesInv, NEW c \in Cmd, NEW o, cmd' = [cmd EXCEPT ![c] = o]
  PROVE  cmd'[c] = o /\ \A d \in Cmd : d # c => cmd'[d] = cmd[d]
  BY FilesKnow

\* A file gets other contents, in place or not.
LEMMA DiskUpdate ==
  ASSUME FilesInv, NEW p \in Paths, NEW f, disk' = [disk EXCEPT ![p] = f]
  PROVE  disk'[p] = f /\ \A q \in Paths : q # p => disk'[q] = disk[q]
  BY FilesKnow

LEMMA DataUpdate ==
  ASSUME FilesInv, NEW p \in Paths, NEW d, disk' = [disk EXCEPT ![p].data = d]
  PROVE  /\ disk'[p].ino = disk[p].ino /\ disk'[p].data = d
         /\ \A q \in Paths : q # p => disk'[q] = disk[q]
  <1>1. disk[p] = [ino |-> disk[p].ino, data |-> disk[p].data]  BY FilesKnow
  <1> DEFINE f == [disk[p] EXCEPT !.data = d]
  <1>2. f.ino = disk[p].ino /\ f.data = d
    <2> DEFINE i == disk[p].ino  e == disk[p].data
    <2>1. disk[p] = [ino |-> i, data |-> e]  BY <1>1
    <2> HIDE DEF i, e
    <2>2. f = [ino |-> i, data |-> d]  BY <2>1
    <2>3. QED  BY <2>2 DEF i
  <1>3. disk' = [disk EXCEPT ![p] = f]  OBVIOUS
  <1> HIDE DEF f
  <1>4. QED  BY <1>2, <1>3, DiskUpdate

-----------------------------------------------------------------------------
\* How the parts of the invariant carry over to the next state.

\* The command of c goes on, or ends.
Continues(c, o) == o = Idle \/ (Active(c) /\ o.id = cmd[c].id)

LEMMA IdsStep ==
  ASSUME FilesInv, NEW c \in Cmd, NEW o, cmd' = [cmd EXCEPT ![c] = o], Continues(c, o),
         UNCHANGED started, \A p \in Paths : disk'[p].ino \in 0..started
  PROVE  IdsInv'
  BY FilesKnow, CmdUpdate DEF IdsInv, Active, Continues

LEMMA SealsStep ==
  ASSUME FilesInv, UNCHANGED <<started, sealed>>
  PROVE  SealsInv'
  BY FilesKnow DEF SealsInv

LEMMA ShapeStep ==
  ASSUME FilesInv, NEW c \in Cmd, NEW o, cmd' = [cmd EXCEPT ![c] = o],
         UNCHANGED sealed, ShapeInv(o)
  PROVE  \A d \in Cmd : ShapeInv(cmd[d])'
  <1>1. TAKE d \in Cmd
  <1>2. ShapeInv(cmd'[d])
    BY FilesKnow, CmdUpdate
  <1>3. QED  BY <1>2 DEF ShapeInv, EnvWrite, AttWrite

LEMMA IdleShape == ShapeInv(Idle)
  BY IdleOp DEF ShapeInv

LEMMA EnvelopeStep ==
  ASSUME FilesInv, UNCHANGED sealed,
         \/ disk'[EnvPath].data \in {disk[EnvPath].data, Torn, Missing.data}
         \/ \E s \in sealed : disk'[EnvPath].data = EnvFile(EnvelopeOf(s))
  PROVE  EnvelopeInv'
  BY FilesKnow DEF EnvelopeInv

\* There is no sole seal.
LEMMA NoSole ==
  ASSUME FilesInv, sole'.id = 0, sole' = [id |-> sole'.id, result |-> sole'.result],
         started' \in Nat
  PROVE  SoleInv'
  BY DEF SoleInv

\* The command of c is not the sole seal's, before and after the step.
LEMMA SoleBystander ==
  ASSUME FilesInv, NEW c \in Cmd, NEW o, cmd' = [cmd EXCEPT ![c] = o],
         UNCHANGED <<sole, sealed>>, started' \in Nat, started <= started',
         o.op \notin {"seal", "cleanup", "attest"},
         o = Idle \/ o.id # sole.id,
         disk'[EnvPath] = disk[EnvPath], disk'[AttPath] = disk[AttPath]
  PROVE  SoleInv'
  <1>1. sole.id \in 0..started' /\ sole = [id |-> sole.id, result |-> sole.result]
    BY FilesKnow DEF SoleInv
  <1>2. CASE sole.id = 0  BY <1>1, <1>2, NoSole
  <1>3. CASE sole.id # 0
    <2>1. PICK s \in sealed :
            /\ s.id = sole.id /\ Outcome(s)
            /\ \A d \in Cmd : WritesPair(d) => cmd[d].id = sole.id
            /\ \A d \in Cmd : Active(d) /\ cmd[d].id = sole.id =>
                 sole.result = "none" /\ Stage(cmd[d], s)
      BY <1>3, FilesKnow DEF SoleInv
    <2>2. Outcome(s)'  BY <2>1 DEF Outcome, EnvWrite, AttWrite
    <2>3. \A d \in Cmd : WritesPair(d)' => cmd'[d].id = sole'.id
      BY <2>1, CmdUpdate DEF WritesPair
    <2>4. \A d \in Cmd : Active(d)' /\ cmd'[d].id = sole'.id =>
            sole'.result = "none" /\ Stage(cmd[d], s)'
      <3> SUFFICES ASSUME NEW d \in Cmd, cmd'[d] # Idle, cmd'[d].id = sole.id
                   PROVE  sole.result = "none" /\ Stage(cmd[d], s)'
        BY DEF Active
      <3>1. d # c /\ cmd'[d] = cmd[d]  BY CmdUpdate
      <3>2. sole.result = "none" /\ Stage(cmd[d], s)  BY <2>1, <3>1 DEF Active
      <3>3. QED  BY <3>1, <3>2 DEF Stage, Holds, EnvWrite, AttWrite
    <2>5. QED  BY <1>1, <2>1, <2>2, <2>3, <2>4 DEF SoleInv
  <1>4. QED  BY <1>2, <1>3

\* What the sole seal's process c knows.
SoleSeal(c, s) ==
  /\ s \in sealed /\ s.id = sole.id /\ cmd[c].id = sole.id /\ sole.result = "none"
  /\ Active(c) /\ Stage(cmd[c], s)
  /\ \A d \in Cmd : d # c => ~WritesPair(d) /\ (Active(d) => cmd[d].id # sole.id)

LEMMA SoleSealKnows ==
  ASSUME FilesInv, NEW c \in Cmd, WritesPair(c), sole.id # 0
  PROVE  \E s \in sealed : SoleSeal(c, s)
  <1>1. PICK s \in sealed :
          /\ s.id = sole.id
          /\ \A d \in Cmd : WritesPair(d) => cmd[d].id = sole.id
          /\ \A d \in Cmd : Active(d) /\ cmd[d].id = sole.id =>
               sole.result = "none" /\ Stage(cmd[d], s)
    BY FilesKnow DEF SoleInv
  <1>2. \A d \in Cmd : WritesPair(d) => Active(d)
    BY IdleOp DEF WritesPair, Active
  <1>3. \A d \in Cmd : Active(d) /\ cmd[d].id = sole.id => d = c
    BY <1>1, <1>2, FilesKnow DEF IdsInv
  <1>4. QED  BY <1>1, <1>2, <1>3 DEF SoleSeal

\* Only a seal is the sole seal.
LEMMA NotSole ==
  ASSUME FilesInv, NEW c \in Cmd, Active(c), cmd[c].op \notin {"seal", "cleanup"}
  PROVE  cmd[c].id # sole.id /\ (cmd[c].op = "attest" => sole.id = 0)
  <1>1. cmd[c].id # 0  BY FilesKnow DEF IdsInv
  <1>2. cmd[c].id # sole.id
    BY <1>1, FilesKnow DEF SoleInv, Stage
  <1>3. QED  BY <1>2, FilesKnow DEF SoleInv, WritesPair

\* The sole seal goes on.
LEMMA SoleRuns ==
  ASSUME FilesInv, NEW c \in Cmd, NEW s, SoleSeal(c, s), NEW o,
         cmd' = [cmd EXCEPT ![c] = o], o.id = cmd[c].id,
         UNCHANGED <<sole, sealed, started>>, Stage(cmd[c], s)'
  PROVE  SoleInv'
  <1>1. Outcome(s)'  BY DEF SoleSeal, Outcome
  <1>2. \A d \in Cmd : WritesPair(d)' => cmd'[d].id = sole'.id
    BY CmdUpdate DEF SoleSeal, WritesPair
  <1>3. \A d \in Cmd : Active(d)' /\ cmd'[d].id = sole'.id => d = c
    BY CmdUpdate DEF SoleSeal, Active
  <1>4. QED  BY <1>1, <1>2, <1>3, FilesKnow DEF SoleInv, SoleSeal

\* The sole seal ends.
LEMMA SoleEnds ==
  ASSUME FilesInv, NEW c \in Cmd, NEW s, SoleSeal(c, s), NEW res, End(c, res),
         UNCHANGED <<sealed, started>>,
         res = "ok" =>
           disk'[EnvPath].data = EnvWrite(s).data /\ disk'[AttPath].data = AttWrite(s).data,
         res = "error" => disk'[EnvPath].data # EnvFile(EnvelopeOf(s))
  PROVE  SoleInv'
  <1>1. sole' = [id |-> sole.id, result |-> res]
    <2>1. sole = [id |-> sole.id, result |-> sole.result]  BY FilesKnow DEF SoleInv
    <2>2. sole' = [sole EXCEPT !.result = res]  BY DEF End, SoleSeal
    <2> DEFINE i == sole.id  r == sole.result
    <2> HIDE DEF i, r
    <2>3. sole = [id |-> i, result |-> r]  BY <2>1 DEF i, r
    <2>4. sole' = [id |-> i, result |-> res]  BY <2>2, <2>3
    <2>5. QED  BY <2>4 DEF i
  <1>2. Outcome(s)'  BY <1>1 DEF Outcome, EnvWrite, AttWrite
  <1>3. cmd' = [cmd EXCEPT ![c] = Idle]  BY DEF End
  <1>4. \A d \in Cmd : ~WritesPair(d)'
    BY <1>3, CmdUpdate, IdleOp DEF SoleSeal, WritesPair
  <1>5. \A d \in Cmd : Active(d)' => cmd'[d].id # sole'.id
    BY <1>1, <1>3, CmdUpdate DEF SoleSeal, Active
  <1>6. sole.id \in 0..started  BY FilesKnow DEF SoleInv
  <1>7. QED  BY <1>1, <1>2, <1>4, <1>5, <1>6 DEF SoleInv, SoleSeal

-----------------------------------------------------------------------------
\* Commands start.

LEMMA BeginKnows ==
  ASSUME FilesInv, NEW c \in Cmd, NEW k \in Ids, Begin(c, k)
  PROVE  /\ cmd[c] = Idle /\ k = started + 1 /\ started' = k /\ k \in Nat
         /\ started' \in 0..MaxCommands /\ started <= started' /\ k \notin 1..started
         /\ sole.id # k
  <1>1. cmd[c] = Idle /\ k = started + 1 /\ started' = k  BY DEF Begin
  <1>2. started \in Nat /\ sole.id \in 0..started  BY FilesKnow DEF SoleInv
  <1>3. QED  BY <1>1, <1>2 DEF Ids

\* A command with a new id, and nothing written yet.
LEMMA BeginIds ==
  ASSUME FilesInv, NEW c \in Cmd, NEW k \in Ids, Begin(c, k),
         NEW o, cmd' = [cmd EXCEPT ![c] = o], o.id = k, UNCHANGED disk
  PROVE  IdsInv'
  <1>1. \A d \in Cmd : Active(d)' =>
          cmd'[d].id \in 1..started' /\ (d # c => Active(d) /\ cmd'[d] = cmd[d])
    BY BeginKnows, CmdUpdate, FilesKnow DEF Active, IdsInv
  <1>2. \A d \in Cmd : d # c /\ Active(d)' => cmd'[d].id # cmd'[c].id
    BY <1>1, BeginKnows, CmdUpdate, FilesKnow DEF IdsInv
  <1>3. \A p \in Paths : disk'[p].ino \in 0..started'
    BY BeginKnows, FilesKnow DEF IdsInv
  <1>4. QED  BY <1>1, <1>2, <1>3, BeginKnows, FilesKnow DEF IdsInv

LEMMA StartSealFiles ==
  ASSUME FilesInv, NEW c \in Cmd, NEW from \in Party, NEW to \in Party \cup {LowOrder},
         NEW m \in Payload, NEW ts, StartSeal(c, from, to, m, ts), IndInv'
  PROVE  FilesInv'
  <1>1. PICK k \in Ids :
          LET s == [id |-> k, from |-> from, to |-> to, payload |-> m, ts |-> ts] IN
          /\ Begin(c, k) /\ Contributory(to) /\ NoteWriter(k)
          /\ cmd' = [cmd EXCEPT ![c] = Writing("seal", k, <<EnvWrite(s), AttWrite(s)>>)]
          /\ sealed' = sealed \cup {s}
          /\ UNCHANGED disk
    BY DEF StartSeal, EnvWrite, AttWrite
  <1> DEFINE s == [id |-> k, from |-> from, to |-> to, payload |-> m, ts |-> ts]
             o == Writing("seal", k, <<EnvWrite(s), AttWrite(s)>>)
  <1>2. s.id = k /\ s.to \in Party /\ s.payload \in Payload
    BY <1>1 DEF Contributory
  <1>3. /\ o.op = "seal" /\ o.id = k /\ o.fd = 0 /\ o # Idle
        /\ o.todo = <<EnvWrite(s), AttWrite(s)>>
    <2>1. o.op = "seal" /\ o.id = k /\ o.fd = 0 /\ o.todo = <<EnvWrite(s), AttWrite(s)>>
      BY DEF Writing
    <2> HIDE DEF o
    <2>2. QED  BY <2>1, IdleOp
  <1>4. /\ sealed' = sealed \cup {s} /\ cmd' = [cmd EXCEPT ![c] = o]
        /\ Begin(c, k) /\ NoteWriter(k) /\ UNCHANGED disk
    BY <1>1
  <1> HIDE DEF s, o
  <1>5. IdsInv'  BY <1>3, <1>4, BeginIds
  <1>6. SealsInv'
    <2>1. \A t \in sealed : t.id \in 1..started' /\ t.id # k /\ t.to \in Party /\ t.payload \in Payload
      BY <1>4, BeginKnows, FilesKnow DEF SealsInv
    <2>2. s.id \in 1..started'  BY <1>2, <1>4, BeginKnows, FilesKnow
    <2>3. QED  BY <1>2, <1>4, <2>1, <2>2, FilesKnow DEF SealsInv
  <1>7. EnvelopeInv'  BY <1>4, FilesKnow DEF EnvelopeInv
  <1>8. \A d \in Cmd : ShapeInv(cmd[d])'
    <2>1. TAKE d \in Cmd
    <2>2. CASE d = c
      <3>1. s \in sealed' /\ s.id = cmd'[d].id /\ cmd'[d].op = "seal"
            /\ cmd'[d].todo = <<EnvWrite(s), AttWrite(s)>>
        BY <1>2, <1>3, <1>4, <2>2, CmdUpdate
      <3>2. QED  BY <3>1 DEF ShapeInv
    <2>3. CASE d # c
      <3>1. cmd'[d] = cmd[d] /\ ShapeInv(cmd[d]) /\ sealed \subseteq sealed'
        BY <1>4, <2>3, CmdUpdate, FilesKnow
      <3>2. QED  BY <3>1 DEF ShapeInv
    <2>4. QED  BY <2>2, <2>3
  <1>9. SoleInv'
    <2>1. CASE \E d \in Cmd : WritesPair(d)
      <3>1. sole' = [id |-> 0, result |-> "none"]  BY <1>4, <2>1 DEF NoteWriter
      <3>2. started' \in Nat  BY <1>4, BeginKnows, BoundsAssumption
      <3>3. QED  BY <3>1, <3>2, NoSole
    <2>2. CASE \A d \in Cmd : ~WritesPair(d)
      <3>1. sole' = [id |-> k, result |-> "none"]  BY <1>4, <2>2 DEF NoteWriter
      <3>2. s \in sealed' /\ s.id = sole'.id /\ Outcome(s)'
        BY <1>2, <1>4, <3>1 DEF Outcome
      <3>3. \A d \in Cmd : WritesPair(d)' => cmd'[d].id = k
        BY <1>3, <1>4, <2>2, CmdUpdate DEF WritesPair
      <3>4. \A d \in Cmd : Active(d)' /\ cmd'[d].id = k => d = c
        BY <1>3, <1>4, CmdUpdate, BeginKnows, FilesKnow DEF IdsInv, Active
      <3>5. disk'[EnvPath].data # EnvFile(EnvelopeOf(s))
        <4>1. \A t \in sealed : t.id # s.id
          BY <1>2, <1>4, BeginKnows, FilesKnow DEF SealsInv
        <4>2. \A t \in sealed : EnvFile(EnvelopeOf(t)) # EnvFile(EnvelopeOf(s))
          BY <4>1, EnvelopeBinds
        <4>3. QED  BY <1>4, <4>2, Kinds, FilesKnow DEF EnvelopeInv
      <3>6. Stage(cmd[c], s)'
        BY <1>3, <1>4, <3>5, CmdUpdate DEF Stage, Holds
      <3>7. sole'.id \in 0..started'  BY <1>4, <3>1, BeginKnows
      <3>8. QED  BY <3>1, <3>2, <3>3, <3>4, <3>6, <3>7 DEF SoleInv
    <2>3. QED  BY <2>1, <2>2
  <1>10. QED  BY <1>5, <1>6, <1>7, <1>8, <1>9 DEF FilesInv

LEMMA StartAttestFiles ==
  ASSUME FilesInv, NEW c \in Cmd, NEW signer, NEW msg, NEW ts,
         StartAttest(c, signer, msg, ts), IndInv'
  PROVE  FilesInv'
  <1> DEFINE w == Write(AttPath, AttFile(ArtifactBytes(SignAttestation(msg, signer, ts))))
  <1>1. PICK k \in Ids :
          /\ Begin(c, k) /\ sole' = [id |-> 0, result |-> "none"]
          /\ cmd' = [cmd EXCEPT ![c] = Writing("attest", k, <<w>>)]
          /\ UNCHANGED <<disk, sealed>>
    BY DEF StartAttest
  <1>2. w.path = AttPath  BY Writes
  <1> HIDE DEF w
  <1> DEFINE o == Writing("attest", k, <<w>>)
  <1>3. o.op = "attest" /\ o.id = k /\ o.todo = <<w>>  BY DEF Writing
  <1>4. ShapeInv(o)
    <2>1. o.todo = <<o.todo[1]>> /\ o.todo[1].path = AttPath  BY <1>2, <1>3
    <2>2. QED  BY <1>3, <2>1 DEF ShapeInv
  <1>5. cmd' = [cmd EXCEPT ![c] = o]  BY <1>1
  <1> HIDE DEF o
  <1>6. IdsInv'  BY <1>1, <1>3, <1>5, BeginIds
  <1>7. SealsInv'  BY <1>1, BeginKnows, FilesKnow DEF SealsInv
  <1>8. EnvelopeInv'  BY <1>1, EnvelopeStep
  <1>9. \A d \in Cmd : ShapeInv(cmd[d])'  BY <1>1, <1>4, <1>5, ShapeStep
  <1>10. started' \in Nat  BY <1>1, BeginKnows
  <1>11. SoleInv'  BY <1>1, <1>10, NoSole
  <1>12. QED  BY <1>6, <1>7, <1>8, <1>9, <1>11 DEF FilesInv

LEMMA StartOpenFiles ==
  ASSUME FilesInv, NEW c \in Cmd, NEW r, NEW sender, StartOpen(c, r, sender), IndInv'
  PROVE  FilesInv'
  <1>1. PICK k, env :
          /\ k \in Ids /\ Begin(c, k)
          /\ cmd' = [cmd EXCEPT ![c] = [op |-> "reading", id |-> k, env |-> env,
                                        to |-> r, from |-> sender]]
          /\ UNCHANGED <<disk, sole, sealed>>
    BY DEF StartOpen
  <1> DEFINE o == [op |-> "reading", id |-> k, env |-> env, to |-> r, from |-> sender]
  <1>2. o.op = "reading" /\ o.id = k /\ ShapeInv(o)  BY DEF ShapeInv
  <1>3. cmd' = [cmd EXCEPT ![c] = o]  BY <1>1
  <1> HIDE DEF o
  <1>4. IdsInv'  BY <1>1, <1>2, <1>3, BeginIds
  <1>5. SealsInv'  BY <1>1, BeginKnows, FilesKnow DEF SealsInv
  <1>6. EnvelopeInv'  BY <1>1, EnvelopeStep
  <1>7. \A d \in Cmd : ShapeInv(cmd[d])'  BY <1>1, <1>2, <1>3, ShapeStep
  <1>8. SoleInv'
    <2>1. started' \in Nat /\ started <= started' /\ k # sole.id  BY <1>1, BeginKnows
    <2>2. QED  BY <1>1, <1>2, <1>3, <2>1, SoleBystander
  <1>9. QED  BY <1>4, <1>5, <1>6, <1>7, <1>8 DEF FilesInv

-----------------------------------------------------------------------------
\* Commands write.

LEMMA StepFiles ==
  ASSUME FilesInv, NEW c \in Cmd, NEW o, cmd' = [cmd EXCEPT ![c] = o], Continues(c, o),
         ShapeInv(o), UNCHANGED <<started, sealed>>,
         \A p \in Paths : disk'[p].ino \in 0..started,
         IndInv', EnvelopeInv', SoleInv'
  PROVE  FilesInv'
  BY IdsStep, SealsStep, ShapeStep DEF FilesInv

\* The first file that a busy command has to write.
LEMMA Target ==
  ASSUME FilesInv, NEW c \in Cmd, Busy(c)
  PROVE  LET w == Head(cmd[c].todo)
             rest == Tail(cmd[c].todo)
         IN  /\ Active(c) /\ HasWriting(cmd[c]) /\ w.path \in Paths
             /\ cmd[c].id \in 1..started /\ cmd[c].id # 0
             /\ cmd[c].op = "open" => w.path = OutPath /\ rest = << >>
             /\ cmd[c].op = "attest" => w.path = AttPath /\ rest = << >>
             /\ w.path = EnvPath => \E s \in sealed : w.data = EnvFile(EnvelopeOf(s))
             /\ rest # << >> => \E s \in sealed :
                  s.id = cmd[c].id /\ cmd[c].op = "seal" /\ rest = <<AttWrite(s)>>
  <1> DEFINE t == cmd[c].todo
  <1>1. Active(c) /\ HasWriting(cmd[c]) /\ cmd[c].op \in {"seal", "attest", "open"}
    BY FilesKnow, BusyForm, IdleOp DEF IndInv, Busy, Active
  <1>2. cmd[c].id \in 1..started /\ cmd[c].id # 0  BY <1>1, FilesKnow DEF IdsInv
  <1>3. ShapeInv(cmd[c])  BY FilesKnow
  <1>4. CASE cmd[c].op = "open"
    <2>1. t = <<t[1]>> /\ t[1].path = OutPath  BY <1>3, <1>4 DEF ShapeInv
    <2>2. Head(t) = t[1] /\ Tail(t) = << >>  BY <2>1, Lists, Zenon
    <2>3. QED  BY <1>1, <1>2, <1>4, <2>1, <2>2, PathsDiffer
  <1>5. CASE cmd[c].op = "attest"
    <2>1. t = <<t[1]>> /\ t[1].path = AttPath  BY <1>3, <1>5 DEF ShapeInv
    <2>2. Head(t) = t[1] /\ Tail(t) = << >>  BY <2>1, Lists, Zenon
    <2>3. QED  BY <1>1, <1>2, <1>5, <2>1, <2>2, PathsDiffer
  <1>6. CASE cmd[c].op = "seal"
    <2>1. PICK s \in sealed : s.id = cmd[c].id /\ t \in {<<EnvWrite(s), AttWrite(s)>>, <<AttWrite(s)>>}
      BY <1>3, <1>6 DEF ShapeInv
    <2>2. /\ EnvWrite(s).path = EnvPath /\ EnvWrite(s).data = EnvFile(EnvelopeOf(s))
          /\ AttWrite(s).path = AttPath
      BY Writes DEF EnvWrite, AttWrite
    <2>3. CASE t = <<EnvWrite(s), AttWrite(s)>>
      <3>1. Head(t) = EnvWrite(s) /\ Tail(t) = <<AttWrite(s)>>  BY <2>3, Lists, Zenon
      <3>2. QED  BY <1>1, <1>2, <1>6, <2>1, <2>2, <3>1, PathsDiffer
    <2>4. CASE t = <<AttWrite(s)>>
      <3>1. Head(t) = AttWrite(s) /\ Tail(t) = << >>  BY <2>4, Lists, Zenon
      <3>2. QED  BY <1>1, <1>2, <1>6, <2>1, <2>2, <3>1, PathsDiffer
    <2>5. QED  BY <2>1, <2>3, <2>4
  <1>7. QED  BY <1>1, <1>4, <1>5, <1>6

\* The two files of the sole seal, in order.
LEMMA SealTarget ==
  ASSUME FilesInv, NEW c \in Cmd, Busy(c), NEW s, SoleSeal(c, s)
  PROVE  /\ cmd[c].op = "seal"
         /\ \/ /\ Head(cmd[c].todo).path = EnvPath
               /\ Head(cmd[c].todo).data = EnvFile(EnvelopeOf(s))
               /\ Tail(cmd[c].todo) = <<AttWrite(s)>> /\ Tail(cmd[c].todo) # << >>
               /\ Len(cmd[c].todo) = 2 /\ cmd[c].todo = <<EnvWrite(s), AttWrite(s)>>
               /\ Holds(cmd[c], EnvPath) /\ disk[EnvPath].data # EnvFile(EnvelopeOf(s))
            \/ /\ Head(cmd[c].todo).path = AttPath
               /\ Head(cmd[c].todo).data = AttWrite(s).data
               /\ Tail(cmd[c].todo) = << >>
               /\ Len(cmd[c].todo) = 1 /\ cmd[c].todo = <<AttWrite(s)>>
               /\ Holds(cmd[c], AttPath) /\ disk[EnvPath].data = EnvFile(EnvelopeOf(s))
  <1> DEFINE t == cmd[c].todo
  <1>1. Stage(cmd[c], s) /\ cmd[c].op # "cleanup"  BY DEF SoleSeal, Busy
  <1>2. /\ EnvWrite(s).path = EnvPath /\ EnvWrite(s).data = EnvFile(EnvelopeOf(s))
        /\ AttWrite(s).path = AttPath
    BY Writes DEF EnvWrite, AttWrite
  <1>3. CASE t = <<EnvWrite(s), AttWrite(s)>>
    <2>1. Head(t) = EnvWrite(s) /\ Tail(t) = <<AttWrite(s)>>  BY <1>3, Lists, Zenon
    <2>2. Len(t) = 2  BY <1>3, Lists
    <2>3. Tail(t) # << >> /\ t # <<AttWrite(s)>>  BY <1>3, <2>1, Lists
    <2>4. QED  BY <1>1, <1>2, <1>3, <2>1, <2>2, <2>3 DEF Stage
  <1>4. CASE t = <<AttWrite(s)>>
    <2>1. Head(t) = AttWrite(s) /\ Tail(t) = << >>  BY <1>4, Lists, Zenon
    <2>2. Len(t) = 1  BY <1>4, Lists
    <2>3. t # <<EnvWrite(s), AttWrite(s)>>  BY <1>4, Lists
    <2>4. QED  BY <1>1, <1>2, <1>4, <2>1, <2>2, <2>3 DEF Stage
  <1>5. QED  BY <1>1, <1>3, <1>4 DEF Stage

\* Who a busy command is to the sole seal.
LEMMA BusyCases ==
  ASSUME FilesInv, NEW c \in Cmd, Busy(c)
  PROVE  \/ cmd[c].op = "open" /\ cmd[c].id # sole.id
         \/ sole.id = 0 /\ cmd[c].id # sole.id
         \/ \E s \in sealed : SoleSeal(c, s)
  <1>1. CASE cmd[c].op = "open"  BY <1>1, Target, NotSole
  <1>2. CASE cmd[c].op # "open" /\ sole.id # 0
    BY <1>2, SoleSealKnows DEF Busy, WritesPair
  <1>3. CASE sole.id = 0  BY <1>3, Target
  <1>4. QED  BY <1>1, <1>2, <1>3

LEMMA CreateFileFiles ==
  ASSUME FilesInv, NEW c \in Cmd, CreateFile(c), IndInv'
  PROVE  FilesInv'
  <1> DEFINE p == Head(cmd[c].todo).path
             ino == IF disk[p] = Missing THEN cmd[c].id ELSE disk[p].ino
             o == With(cmd[c], cmd[c].todo, ino)
  <1>1. Busy(c) /\ UNCHANGED <<started, sole, sealed>>  BY DEF CreateFile
  <1>2. disk' = [disk EXCEPT ![p] = [ino |-> ino, data |-> Torn]]  BY DEF CreateFile
  <1>3. cmd' = [cmd EXCEPT ![c] = o]
    <2>1. HasWriting(cmd[c])  BY <1>1, Target
    <2>2. [cmd[c] EXCEPT !.fd = ino] = o  BY <2>1, Updates
    <2>3. QED  BY <2>2 DEF CreateFile
  <1>4. p \in Paths /\ Active(c) /\ cmd[c].id \in 1..started  BY <1>1, Target
  <1>5. ino \in 0..started  BY <1>4, FilesKnow DEF IdsInv
  <1>6. o.op = cmd[c].op /\ o.id = cmd[c].id /\ o.todo = cmd[c].todo /\ o.fd = ino
    BY DEF With
  <1> HIDE DEF o, ino, p
  <1>7. /\ disk'[p].ino = ino /\ disk'[p].data = Torn
        /\ \A q \in Paths : q # p => disk'[q] = disk[q]
    <2> DEFINE file == [ino |-> ino, data |-> Torn]
    <2>1. file.ino = ino /\ file.data = Torn  OBVIOUS
    <2>2. disk' = [disk EXCEPT ![p] = file]  BY <1>2
    <2> HIDE DEF file
    <2>3. QED  BY <1>4, <2>1, <2>2, DiskUpdate
  <1>8. \A q \in Paths : disk'[q].ino \in 0..started
    BY <1>5, <1>7, FilesKnow DEF IdsInv
  <1>9. ShapeInv(o)  BY <1>6, FilesKnow DEF ShapeInv
  <1>10. EnvelopeInv'  BY <1>1, <1>7, PathsDiffer, EnvelopeStep
  <1>11. SoleInv'
    <2>1. CASE cmd[c].op = "open" /\ cmd[c].id # sole.id
      <3>1. p = OutPath  BY <1>1, <2>1, Target DEF p
      <3>2. disk'[EnvPath] = disk[EnvPath] /\ disk'[AttPath] = disk[AttPath]
        BY <1>7, <3>1, PathsDiffer
      <3>3. started' \in Nat /\ started <= started'  BY <1>1, FilesKnow
      <3>4. QED  BY <1>1, <1>3, <1>6, <2>1, <3>2, <3>3, SoleBystander
    <2>2. CASE sole.id = 0  BY <1>1, <2>2, NoSole, FilesKnow DEF SoleInv
    <2>3. ASSUME NEW s \in sealed, SoleSeal(c, s) PROVE SoleInv'
      <3>1. cmd'[c] = o  BY <1>3, CmdUpdate
      <3>2. CASE p = EnvPath
        <4>1. o.op = "seal" /\ o.todo = <<EnvWrite(s), AttWrite(s)>>
          BY <1>1, <1>6, <2>3, <3>2, SealTarget, PathsDiffer DEF p
        <4>2. Stage(cmd[c], s)'
          BY <1>6, <1>7, <3>1, <3>2, <4>1, Kinds DEF Stage, Holds, EnvWrite, AttWrite
        <4>3. QED  BY <1>1, <1>3, <1>6, <2>3, <4>2, SoleRuns
      <3>3. CASE p = AttPath
        <4>1. /\ o.op = "seal" /\ o.todo = <<AttWrite(s)>>
              /\ disk[EnvPath].data = EnvFile(EnvelopeOf(s))
          BY <1>1, <1>6, <2>3, <3>3, SealTarget, PathsDiffer DEF p
        <4>2. Stage(cmd[c], s)'
          BY <1>6, <1>7, <3>1, <3>3, <4>1, PathsDiffer DEF Stage, Holds, EnvWrite, AttWrite
        <4>3. QED  BY <1>1, <1>3, <1>6, <2>3, <4>2, SoleRuns
      <3>4. QED  BY <1>1, <2>3, <3>2, <3>3, SealTarget DEF p
    <2>4. QED  BY <1>1, <2>1, <2>2, <2>3, BusyCases
  <1>12. QED
    BY <1>1, <1>3, <1>4, <1>6, <1>8, <1>9, <1>10, <1>11, StepFiles DEF Continues

\* The command of c, which is not the sole seal's, ends.
LEMMA OtherEnds ==
  ASSUME FilesInv, NEW c \in Cmd, NEW res, End(c, res), cmd[c].id # sole.id,
         UNCHANGED <<started, sealed>>,
         \/ sole.id = 0
         \/ disk'[EnvPath] = disk[EnvPath] /\ disk'[AttPath] = disk[AttPath]
  PROVE  SoleInv'
  <1>1. sole' = sole /\ cmd' = [cmd EXCEPT ![c] = Idle]  BY DEF End
  <1>2. CASE sole.id = 0  BY <1>1, <1>2, NoSole, FilesKnow DEF SoleInv
  <1>3. CASE disk'[EnvPath] = disk[EnvPath] /\ disk'[AttPath] = disk[AttPath]
    <2>1. started' \in Nat /\ started <= started'  BY FilesKnow
    <2>2. QED  BY <1>1, <1>3, <2>1, IdleOp, SoleBystander
  <1>4. QED  BY <1>2, <1>3

\* A command ends.
LEMMA EndFiles ==
  ASSUME FilesInv, NEW c \in Cmd, NEW res, End(c, res), UNCHANGED <<started, sealed>>,
         \A p \in Paths : disk'[p].ino \in 0..started,
         IndInv', EnvelopeInv', SoleInv'
  PROVE  FilesInv'
  <1>1. cmd' = [cmd EXCEPT ![c] = Idle]  BY DEF End
  <1>2. QED  BY <1>1, IdleShape, StepFiles DEF Continues

\* The last write, or the next one.
LEMMA WrittenForm ==
  ASSUME FilesInv, NEW c \in Cmd, Busy(c), Written(c)
  PROVE  \/ Tail(cmd[c].todo) = << >> /\ End(c, "ok")
         \/ /\ Tail(cmd[c].todo) # << >> /\ UNCHANGED sole
            /\ cmd' = [cmd EXCEPT ![c] = With(cmd[c], Tail(cmd[c].todo), 0)]
  BY DEF Written, Writing, With

LEMMA WriteAllFiles ==
  ASSUME FilesInv, NEW c \in Cmd, WriteAll(c), IndInv'
  PROVE  FilesInv'
  <1> DEFINE w == Head(cmd[c].todo)
             p == w.path
             rest == Tail(cmd[c].todo)
             o == With(cmd[c], rest, 0)
  <1>1. Busy(c) /\ Written(c) /\ cmd[c].fd # 0 /\ UNCHANGED <<started, sealed>>
    BY DEF WriteAll
  <1>2. PICK data \in IF disk[p].data = Torn THEN {w.data} ELSE {w.data, Torn} :
          disk' = IF disk[p].ino = cmd[c].fd THEN [disk EXCEPT ![p].data = data] ELSE disk
    BY DEF WriteAll
  <1>3. p \in Paths /\ Active(c)  BY <1>1, Target
  <1>4. o.op = cmd[c].op /\ o.id = cmd[c].id /\ o.todo = rest /\ o.fd = 0  BY DEF With
  <1>5. \/ rest = << >> /\ End(c, "ok")
        \/ rest # << >> /\ UNCHANGED sole /\ cmd' = [cmd EXCEPT ![c] = o]
    BY <1>1, WrittenForm
  <1> HIDE DEF o, rest, p
  <1>6. /\ disk[p].ino = cmd[c].fd => disk'[p].data = data
        /\ disk'[p].data \in {disk[p].data, data}
        /\ \A q \in Paths : q # p => disk'[q] = disk[q]
        /\ \A q \in Paths : disk'[q].ino = disk[q].ino
    BY <1>2, <1>3, DataUpdate
  <1>7. \A q \in Paths : disk'[q].ino \in 0..started  BY <1>6, FilesKnow DEF IdsInv
  <1>8. EnvelopeInv'
    <2>1. CASE p = EnvPath
      <3>1. \E s \in sealed : w.data = EnvFile(EnvelopeOf(s))
        BY <1>1, <2>1, Target DEF p
      <3>2. QED  BY <1>1, <1>2, <1>6, <2>1, <3>1, EnvelopeStep
    <2>2. CASE p # EnvPath  BY <1>1, <1>6, <2>2, PathsDiffer, EnvelopeStep
    <2>3. QED  BY <2>1, <2>2
  <1>9. SoleInv'
    <2>1. CASE cmd[c].op = "open" /\ cmd[c].id # sole.id
      <3>1. p = OutPath /\ rest = << >>  BY <1>1, <2>1, Target DEF p, rest
      <3>2. disk'[EnvPath] = disk[EnvPath] /\ disk'[AttPath] = disk[AttPath]
        BY <1>6, <3>1, PathsDiffer
      <3>3. QED  BY <1>1, <1>5, <2>1, <3>1, <3>2, OtherEnds
    <2>2. CASE sole.id = 0 /\ cmd[c].id # sole.id
      <3>1. CASE UNCHANGED sole  BY <1>1, <2>2, <3>1, NoSole, FilesKnow DEF SoleInv
      <3>2. CASE End(c, "ok")  BY <1>1, <2>2, <3>2, OtherEnds
      <3>3. QED  BY <1>5, <3>1, <3>2
    <2>3. ASSUME NEW s \in sealed, SoleSeal(c, s) PROVE SoleInv'
      <3>1. CASE p = EnvPath
        <4>1. /\ cmd[c].op = "seal" /\ rest = <<AttWrite(s)>> /\ rest # << >>
              /\ w.data = EnvFile(EnvelopeOf(s)) /\ Holds(cmd[c], EnvPath)
          BY <1>1, <2>3, <3>1, SealTarget, PathsDiffer DEF p, rest
        <4>2. disk'[EnvPath].data = EnvFile(EnvelopeOf(s))
          BY <1>1, <1>2, <1>6, <3>1, <4>1 DEF Holds
        <4>3. UNCHANGED sole /\ cmd' = [cmd EXCEPT ![c] = o] /\ cmd'[c] = o
          BY <1>5, <4>1, CmdUpdate
        <4>4. Stage(cmd[c], s)'
          BY <1>4, <4>1, <4>2, <4>3 DEF Stage, Holds, EnvWrite, AttWrite
        <4>5. QED  BY <1>1, <1>4, <2>3, <4>3, <4>4, SoleRuns
      <3>2. CASE p = AttPath
        <4>1. /\ rest = << >> /\ w.data = AttWrite(s).data /\ Holds(cmd[c], AttPath)
              /\ disk[EnvPath].data = EnvFile(EnvelopeOf(s))
          BY <1>1, <2>3, <3>2, SealTarget, PathsDiffer DEF p, rest
        <4>2. disk'[AttPath].data = AttWrite(s).data
          BY <1>1, <1>2, <1>6, <3>2, <4>1 DEF Holds
        <4>3. disk'[EnvPath].data = EnvWrite(s).data
          BY <1>6, <3>2, <4>1, PathsDiffer, Writes DEF EnvWrite
        <4>4. QED  BY <1>1, <1>5, <2>3, <4>1, <4>2, <4>3, SoleEnds
      <3>3. QED  BY <1>1, <2>3, <3>1, <3>2, SealTarget DEF p
    <2>4. QED  BY <1>1, <2>1, <2>2, <2>3, BusyCases
  <1>10. CASE End(c, "ok")  BY <1>1, <1>7, <1>8, <1>9, <1>10, EndFiles
  <1>11. CASE rest # << >> /\ cmd' = [cmd EXCEPT ![c] = o]
    <2>1. PICK s \in sealed : s.id = cmd[c].id /\ cmd[c].op = "seal" /\ rest = <<AttWrite(s)>>
      BY <1>1, <1>11, Target DEF rest
    <2>2. ShapeInv(o)  BY <1>4, <2>1 DEF ShapeInv
    <2>3. QED
      BY <1>1, <1>3, <1>4, <1>7, <1>8, <1>9, <1>11, <2>2, StepFiles DEF Continues
  <1>12. QED  BY <1>5, <1>10, <1>11

\* A command with another name for what it does now.
LEMMA OpUpdate ==
  ASSUME NEW o, HasWriting(o), NEW y
  PROVE  [o EXCEPT !.op = y].op = y /\ [o EXCEPT !.op = y].id = o.id
  <1> DEFINE op == o.op  id == o.id  t == o.todo  fd == o.fd
  <1>1. o = [op |-> op, id |-> id, todo |-> t, fd |-> fd]  BY DEF HasWriting
  <1> HIDE DEF op, id, t, fd
  <1>2. [o EXCEPT !.op = y] = [op |-> y, id |-> id, todo |-> t, fd |-> fd]  BY <1>1
  <1>3. QED  BY <1>2 DEF id

LEMMA WriteFailsFiles ==
  ASSUME FilesInv, NEW c \in Cmd, WriteFails(c), IndInv'
  PROVE  FilesInv'
  <1> DEFINE p == Head(cmd[c].todo).path
             o == [cmd[c] EXCEPT !.op = "cleanup"]
             takesBack == cmd[c].op = "seal" /\ Len(cmd[c].todo) = 1
  <1>1. Busy(c) /\ WriteError(c) /\ UNCHANGED <<started, sealed>>  BY DEF WriteFails
  <1>2. disk' = IF cmd[c].fd # 0 /\ disk[p].ino = cmd[c].fd
                THEN [disk EXCEPT ![p].data = Torn] ELSE disk
    BY DEF WriteFails
  <1>3. p \in Paths /\ Active(c) /\ HasWriting(cmd[c])  BY <1>1, Target
  <1>4. o.op = "cleanup" /\ o.id = cmd[c].id  BY <1>3, OpUpdate
  <1>5. \/ takesBack /\ UNCHANGED sole /\ cmd' = [cmd EXCEPT ![c] = o]
        \/ ~takesBack /\ End(c, "error")
    BY <1>1 DEF WriteError
  <1> HIDE DEF o, p
  <1>6. /\ disk'[p].data \in {disk[p].data, Torn}
        /\ \A q \in Paths : q # p => disk'[q] = disk[q]
        /\ \A q \in Paths : disk'[q].ino = disk[q].ino
    BY <1>2, <1>3, DataUpdate
  <1>7. \A q \in Paths : disk'[q].ino \in 0..started  BY <1>6, FilesKnow DEF IdsInv
  <1>8. EnvelopeInv'  BY <1>1, <1>6, PathsDiffer, EnvelopeStep
  <1>9. SoleInv'
    <2>1. CASE cmd[c].op = "open" /\ cmd[c].id # sole.id
      <3>1. p = OutPath  BY <1>1, <2>1, Target DEF p
      <3>2. disk'[EnvPath] = disk[EnvPath] /\ disk'[AttPath] = disk[AttPath]
        BY <1>6, <3>1, PathsDiffer
      <3>3. QED  BY <1>1, <1>5, <2>1, <3>2, OtherEnds
    <2>2. CASE sole.id = 0 /\ cmd[c].id # sole.id
      <3>1. CASE UNCHANGED sole  BY <1>1, <2>2, <3>1, NoSole, FilesKnow DEF SoleInv
      <3>2. CASE End(c, "error")  BY <1>1, <2>2, <3>2, OtherEnds
      <3>3. QED  BY <1>5, <3>1, <3>2
    <2>3. ASSUME NEW s \in sealed, SoleSeal(c, s) PROVE SoleInv'
      <3>1. CASE takesBack
        <4>1. cmd' = [cmd EXCEPT ![c] = o] /\ cmd'[c] = o /\ UNCHANGED sole
          BY <1>5, <3>1, CmdUpdate
        <4>2. Stage(cmd[c], s)'  BY <1>4, <4>1 DEF Stage
        <4>3. QED  BY <1>1, <1>4, <2>3, <4>1, <4>2, SoleRuns
      <3>2. CASE ~takesBack
        <4>1. disk[EnvPath].data # EnvFile(EnvelopeOf(s))
          BY <1>1, <2>3, <3>2, SealTarget
        <4>2. disk'[EnvPath].data # EnvFile(EnvelopeOf(s))
          BY <1>6, <4>1, Kinds, PathsDiffer
        <4>3. QED  BY <1>1, <1>5, <2>3, <3>2, <4>2, SoleEnds
      <3>3. QED  BY <3>1, <3>2
    <2>4. QED  BY <1>1, <2>1, <2>2, <2>3, BusyCases
  <1>10. CASE End(c, "error")  BY <1>1, <1>7, <1>8, <1>9, <1>10, EndFiles
  <1>11. CASE cmd' = [cmd EXCEPT ![c] = o]
    <2>1. ShapeInv(o)  BY <1>4 DEF ShapeInv
    <2>2. QED
      BY <1>1, <1>3, <1>4, <1>7, <1>8, <1>9, <1>11, <2>1, StepFiles DEF Continues
  <1>12. QED  BY <1>5, <1>10, <1>11

LEMMA CleanupFiles ==
  ASSUME FilesInv, NEW c \in Cmd, Cleanup(c), IndInv'
  PROVE  FilesInv'
  <1>1. /\ cmd[c].op = "cleanup" /\ UNCHANGED <<started, sealed>>
        /\ \/ disk' = [disk EXCEPT ![EnvPath] = Missing] /\ End(c, "error")
           \/ UNCHANGED disk /\ End(c, "error, not removed")
    BY DEF Cleanup
  <1>2. Active(c) /\ WritesPair(c)  BY <1>1, IdleOp DEF Active, WritesPair
  <1>3. cmd[c].id # 0  BY <1>2, FilesKnow DEF IdsInv
  <1>4. Missing.ino = 0 /\ \A q \in Paths : disk'[q] \in {disk[q], Missing}
    <2>1. Missing.ino = 0  BY DEF Missing
    <2>2. QED  BY <1>1, <2>1, DiskUpdate, PathsDiffer
  <1>5. \A q \in Paths : disk'[q].ino \in 0..started
    BY <1>4, FilesKnow DEF IdsInv
  <1>6. EnvelopeInv'  BY <1>1, <1>4, PathsDiffer, EnvelopeStep
  <1>7. SoleInv'
    <2>1. CASE sole.id = 0  BY <1>1, <1>3, <2>1, OtherEnds
    <2>2. CASE sole.id # 0
      <3>1. PICK s \in sealed : SoleSeal(c, s)  BY <1>2, <2>2, SoleSealKnows
      <3>2. CASE UNCHANGED disk /\ End(c, "error, not removed")
        <4>1. "error, not removed" # "ok" /\ "error, not removed" # "error"  BY Zenon
        <4>2. QED  BY <1>1, <3>1, <3>2, <4>1, SoleEnds
      <3>3. CASE disk' = [disk EXCEPT ![EnvPath] = Missing] /\ End(c, "error")
        <4>1. disk'[EnvPath].data # EnvFile(EnvelopeOf(s))
          BY <3>3, DiskUpdate, PathsDiffer, Kinds
        <4>2. QED  BY <1>1, <3>1, <3>3, <4>1, SoleEnds
      <3>4. QED  BY <1>1, <3>2, <3>3
    <2>3. QED  BY <2>1, <2>2
  <1>8. QED  BY <1>1, <1>5, <1>6, <1>7, EndFiles

-----------------------------------------------------------------------------
\* Commands read, and die.

LEMMA OpenPairFiles ==
  ASSUME FilesInv, NEW c \in Cmd, OpenPair(c), IndInv'
  PROVE  FilesInv'
  <1>1. cmd[c].op = "reading" /\ UNCHANGED <<disk, started, sole, sealed>>  BY DEF OpenPair
  <1>2. PICK m : cmd' = [cmd EXCEPT ![c] = Writing("open", cmd[c].id,
                                             <<Write(OutPath, PlainFile(m))>>)]
    BY DEF OpenPair
  <1> DEFINE w == Write(OutPath, PlainFile(m))
             o == Writing("open", cmd[c].id, <<w>>)
  <1>3. w.path = OutPath  BY Writes
  <1> HIDE DEF w
  <1>4. o.op = "open" /\ o.id = cmd[c].id /\ o.todo = <<w>>  BY DEF Writing
  <1>5. cmd' = [cmd EXCEPT ![c] = o]  BY <1>2 DEF w
  <1> HIDE DEF o
  <1>6. ShapeInv(o)
    <2>1. o.todo = <<o.todo[1]>> /\ o.todo[1].path = OutPath  BY <1>3, <1>4
    <2>2. QED  BY <1>4, <2>1 DEF ShapeInv
  <1>7. Active(c) /\ cmd[c].id # sole.id
    <2>1. Active(c)  BY <1>1, IdleOp DEF Active
    <2>2. QED  BY <1>1, <2>1, NotSole
  <1>8. EnvelopeInv'  BY <1>1, EnvelopeStep
  <1>9. SoleInv'
    <2>1. started' \in Nat /\ started <= started'  BY <1>1, FilesKnow
    <2>2. QED  BY <1>1, <1>4, <1>5, <1>7, <2>1, SoleBystander
  <1>10. \A p \in Paths : disk'[p].ino \in 0..started  BY <1>1, FilesKnow DEF IdsInv
  <1>11. QED  BY <1>1, <1>4, <1>5, <1>6, <1>7, <1>8, <1>9, <1>10, StepFiles DEF Continues

LEMMA OpenFailsFiles ==
  ASSUME FilesInv, NEW c \in Cmd, OpenFails(c), IndInv'
  PROVE  FilesInv'
  <1>1. /\ cmd[c].op = "reading" /\ End(c, "error")
        /\ UNCHANGED <<disk, started, sealed>>
    BY DEF OpenFails
  <1>2. cmd[c].id # sole.id
    <2>1. Active(c)  BY <1>1, IdleOp DEF Active
    <2>2. QED  BY <1>1, <2>1, NotSole
  <1>3. EnvelopeInv'  BY <1>1, EnvelopeStep
  <1>4. SoleInv'  BY <1>1, <1>2, OtherEnds
  <1>5. \A p \in Paths : disk'[p].ino \in 0..started  BY <1>1, FilesKnow DEF IdsInv
  <1>6. QED  BY <1>1, <1>3, <1>4, <1>5, EndFiles

LEMMA KilledFiles ==
  ASSUME FilesInv, NEW c \in Cmd, Killed(c), IndInv'
  PROVE  FilesInv'
  <1>1. Active(c) /\ End(c, "killed") /\ UNCHANGED <<disk, started, sealed>>
    BY DEF Killed, Active
  <1>2. EnvelopeInv'  BY <1>1, EnvelopeStep
  <1>3. SoleInv'
    <2>1. CASE cmd[c].id # sole.id  BY <1>1, <2>1, OtherEnds
    <2>2. CASE cmd[c].id = sole.id
      <3>1. sole.id # 0 /\ cmd[c].op \in {"seal", "cleanup"}
        BY <1>1, <2>2, NotSole, FilesKnow DEF IdsInv
      <3>2. PICK s \in sealed : SoleSeal(c, s)  BY <3>1, SoleSealKnows DEF WritesPair
      <3>3. QED  BY <1>1, <3>2, SoleEnds
    <2>3. QED  BY <2>1, <2>2
  <1>4. \A p \in Paths : disk'[p].ino \in 0..started  BY <1>1, FilesKnow DEF IdsInv
  <1>5. QED  BY <1>1, <1>2, <1>3, <1>4, EndFiles

\* A command that only reads takes an id at most.
LEMMA UnchangedFiles ==
  ASSUME FilesInv, UNCHANGED <<disk, cmd, sole, sealed>>, IndInv',
         started' \in 0..MaxCommands, started' >= started
  PROVE  FilesInv'
  <1>0. started \in Nat /\ started' \in Nat  BY FilesKnow, BoundsAssumption DEF IdsInv
  <1>1. IdsInv' /\ SealsInv' /\ EnvelopeInv'
    BY <1>0, FilesKnow DEF IdsInv, SealsInv, EnvelopeInv, Active
  <1>2. SoleInv'
    BY <1>0, FilesKnow DEF SoleInv, Outcome, Stage, Holds, Active, WritesPair
  <1>3. \A c \in Cmd : ShapeInv(cmd[c])'  BY FilesKnow DEF ShapeInv
  <1>4. QED  BY <1>1, <1>2, <1>3 DEF FilesInv

LEMMA NextFiles == FilesInv /\ [Next]_vars => FilesInv'
  <1> SUFFICES ASSUME FilesInv, [Next]_vars PROVE FilesInv'  OBVIOUS
  <1>1. IndInv'  BY NextInv, FilesKnow
  <1>2. CASE UNCHANGED vars
    <2>1. started \in 0..MaxCommands /\ started' = started  BY <1>2, FilesKnow DEF IdsInv, vars
    <2>2. QED  BY <1>1, <1>2, <2>1, BoundsAssumption, UnchangedFiles DEF vars
  <1>3. CASE Verify
    <2>1. started \in 0..MaxCommands  BY FilesKnow DEF IdsInv
    <2>2. started' = started + 1 /\ started < MaxCommands  BY <1>3 DEF Verify, Begin
    <2>3. QED  BY <1>1, <1>3, <2>1, <2>2, BoundsAssumption, UnchangedFiles DEF Verify
  <1>4. ASSUME NEW c \in Cmd,
               \/ CreateFile(c) \/ WriteAll(c) \/ WriteFails(c) \/ Cleanup(c)
               \/ OpenPair(c) \/ OpenFails(c) \/ Killed(c)
        PROVE  FilesInv'
    BY <1>1, <1>4, CreateFileFiles, WriteAllFiles, WriteFailsFiles, CleanupFiles,
       OpenPairFiles, OpenFailsFiles, KilledFiles
  <1>5. ASSUME NEW c \in Cmd, NEW from \in Party, NEW to \in Party \cup {LowOrder},
               NEW m \in Payload, NEW ts \in Time, StartSeal(c, from, to, m, ts)
        PROVE  FilesInv'
    BY <1>1, <1>5, StartSealFiles
  <1>6. ASSUME NEW c \in Cmd, NEW signer \in Party, NEW ts \in Time,
               NEW msg \in GenericMessages, StartAttest(c, signer, msg, ts)
        PROVE  FilesInv'
    BY <1>1, <1>6, StartAttestFiles
  <1>7. ASSUME NEW c \in Cmd, NEW r \in Party, NEW sender \in Party, StartOpen(c, r, sender)
        PROVE  FilesInv'
    BY <1>1, <1>7, StartOpenFiles
  <1>8. QED  BY <1>2, <1>3, <1>4, <1>5, <1>6, <1>7 DEF Next

LEMMA InitFiles == Init => FilesInv
  <1> SUFFICES ASSUME Init PROVE FilesInv  OBVIOUS
  <1>1. IndInv  BY InitInv
  <1>2. \A p \in Paths : disk[p] = Missing  BY DEF Init
  <1>3. Missing.ino = 0  BY DEF Missing
  <1>4. IdsInv  BY <1>2, <1>3, BoundsAssumption DEF Init, IdsInv, Active
  <1>5. SealsInv /\ SoleInv  BY DEF Init, SealsInv, SoleInv
  <1>6. EnvelopeInv  BY <1>2, PathsDiffer DEF EnvelopeInv
  <1>7. \A c \in Cmd : ShapeInv(cmd[c])
    <2>1. \A c \in Cmd : cmd[c] = Idle  BY DEF Init
    <2>2. QED  BY <2>1, IdleShape
  <1>8. QED  BY <1>1, <1>4, <1>5, <1>6, <1>7 DEF FilesInv

\* Seals, attestations, openings and kills in any order keep every part of the
\* invariant about the files.
THEOREM FilesInvariance == Spec => []FilesInv
  BY InitFiles, NextFiles, PTL DEF Spec

-----------------------------------------------------------------------------
\* What the invariant gives.

\* The ids of commands, seals and inodes are those handed out: none is used
\* before the command that owns it starts.
THEOREM TypeCorrect == Spec => []TypeOK
  <1>1. FilesInv => TypeOK
    BY DEF FilesInv, IdsInv, SealsInv, SoleInv, TypeOK, Active
  <1>2. QED  BY <1>1, FilesInvariance, PTL

LEMMA SoleOutcome ==
  ASSUME FilesInv, NEW s \in sealed, sole.id = s.id
  PROVE  Outcome(s)
  <1>1. s.id # 0  BY FilesKnow DEF SealsInv
  <1>2. PICK t \in sealed : t.id = sole.id /\ Outcome(t)  BY <1>1, FilesKnow DEF SoleInv
  <1>3. s = t  BY <1>2, FilesKnow DEF SealsInv
  <1>4. QED  BY <1>2, <1>3

\* A seal that fails takes its envelope back: however it is interleaved with
\* commands that only read the pair, an error of seal never leaves a whole
\* envelope without an attestation, except where remove_file fails as well.
THEOREM FailedSealCleansUp == Spec => []NoStrandedEnvelope
  <1>1. FilesInv => NoStrandedEnvelope  BY SoleOutcome DEF NoStrandedEnvelope, Outcome
  <1>2. QED  BY <1>1, FilesInvariance, PTL

\* to_cose_bytes and from_cose_bytes are inverse to each other.
LEMMA DecodeExact ==
  ASSUME NEW m, NEW key, NEW ts
  PROVE  FromCoseBytes(ArtifactBytes(SignAttestation(m, key, ts))) =
           {SignAttestation(m, key, ts)}
  <1> DEFINE a == SignAttestation(m, key, ts)
             b == ArtifactBytes(a)
             d == [hash |-> b.claims.hash, ts |-> b.claims.ts,
                   signer |-> b.protected.kid, sig |-> b.sig]
  <1>1. a = [hash |-> a.hash, ts |-> a.ts, signer |-> a.signer, sig |-> a.sig]
    BY DEF SignAttestation
  <1> HIDE DEF a
  <1>2. /\ b.claims.hash = a.hash /\ b.claims.ts = a.ts /\ b.protected.kid = a.signer
        /\ b.sig = a.sig /\ b.tag = 18 /\ b.unprotected = {}
        /\ b.protected.alg = "EdDSA" /\ b.protected.content = ContentType
    BY DEF ArtifactBytes, ProtectedBytes, ClaimsBytes
  <1> HIDE DEF b
  <1>3. d = a  BY <1>1, <1>2
  <1>4. DecodeFields(b) = {d}  BY <1>2 DEF DecodeFields
  <1>5. FromCoseBytes(b) = {x \in {d} : ArtifactBytes(x) = b}  BY <1>4 DEF FromCoseBytes
  <1> HIDE DEF d
  <1>6. QED  BY <1>3, <1>5 DEF b, a

\* The attestation of a seal verifies for its sender, and for no one else.
LEMMA SenderExact ==
  ASSUME NEW s, NEW sender
  PROVE  SenderVerifies(EnvelopeOf(s), AttestationOf(s), sender) <=> sender = s.from
  <1> DEFINE m == ContextualizedEnvelopeBytes(EnvelopeOf(s))
  <1> HIDE DEF m
  <1>1. AttestationOf(s) = SignAttestation(m, s.from, s.ts)
    BY DEF AttestationOf, AttestEnvelope, m
  <1>2. SignAttestation(m, s.from, s.ts).signer = s.from  BY DEF SignAttestation
  <1>3. VerifyAttestation(SignAttestation(m, s.from, s.ts), m)
    BY DEF VerifyAttestation, VerifySignature, SignAttestation
  <1>4. QED  BY <1>1, <1>2, <1>3 DEF SenderVerifies, m

\* The envelope of a seal opens for its recipient, and for no one else.
LEMMA OpenExact ==
  ASSUME NEW s, s.payload \in Payload, s.id # LowOrder, NEW r
  PROVE  OpenEnvelope(EnvelopeOf(s), r) = IF r = s.to THEN {s.payload} ELSE {}
  <1> DEFINE env == EnvelopeOf(s)
  <1>1. ASSUME NEW m \in OpenEnvelope(env, r) PROVE r = s.to /\ m = s.payload
    BY <1>1, CipherBinds
  <1>2. ASSUME r = s.to PROVE s.payload \in OpenEnvelope(env, r)
    <2> DEFINE k == DeriveKeyAndNonce(Shared(r, s.id), s.id, r)
               n == DeriveKeyAndNonce(Shared(s.id, s.to), s.id, s.to)
    <2>1. Shared(r, s.id) = Shared(s.id, r)  BY DEF Shared
    <2>2. k = n  BY <1>2, <2>1
    <2> HIDE DEF k, n
    <2>3. env = [eph |-> s.id, ct |-> Encrypt(n.key, n.nonce, s.payload), nonce |-> n.nonce]
      BY DEF EnvelopeOf, SealEnvelope, n
    <2>4. env.eph = s.id /\ env.nonce = n.nonce /\ env.ct = Encrypt(n.key, n.nonce, s.payload)
      BY <2>3
    <2> HIDE DEF env
    <2>5. DeriveKeyAndNonce(Shared(r, env.eph), env.eph, r).key = n.key
      BY <2>2, <2>4 DEF k
    <2>6. s.payload \in Decrypt(n.key, env.nonce, env.ct)  BY <2>4 DEF Decrypt
    <2>7. Contributory(env.eph)  BY <2>4 DEF Contributory
    <2>8. QED  BY <2>5, <2>6, <2>7 DEF OpenEnvelope
  <1> HIDE DEF env
  <1>3. CASE r = s.to  BY <1>1, <1>2, <1>3 DEF env
  <1>4. CASE r # s.to
    <2>1. OpenEnvelope(env, r) = {}  BY <1>1, <1>4
    <2>2. QED  BY <1>4, <2>1 DEF env
  <1>5. QED  BY <1>3, <1>4

\* A seal that returned Ok, and beside which nothing else wrote its two files,
\* left a pair that open accepts: with the sender's name and for the recipient it
\* gives the payload, and it gives nothing to anybody else.
THEOREM SealedPairOpens == Spec => []AckedSealOpens
  <1>1. ASSUME FilesInv, NEW s \in sealed, sole.id = s.id, sole.result = "ok"
        PROVE  /\ disk[EnvPath].data = EnvFile(EnvelopeOf(s))
               /\ disk[AttPath].data = AttFile(ArtifactBytes(AttestationOf(s)))
               /\ \A r, sender \in Party :
                    UNION {OpenAndVerify(EnvelopeOf(s), a, sender, r) :
                             a \in FromCoseBytes(disk[AttPath].data.bytes)}
                      = IF r = s.to /\ sender = s.from THEN {s.payload} ELSE {}
    <2>1. /\ disk[EnvPath].data = EnvFile(EnvelopeOf(s))
          /\ disk[AttPath].data = AttFile(ArtifactBytes(AttestationOf(s)))
      BY <1>1, SoleOutcome, Writes DEF Outcome, EnvWrite, AttWrite
    <2>2. s.payload \in Payload /\ s.id # LowOrder
      BY <1>1, FilesKnow, EphemeralAssumption, BoundsAssumption DEF SealsInv, IdsInv, Ids
    <2>3. \A b : AttFile(b).bytes = b  BY DEF AttFile
    <2>4. FromCoseBytes(disk[AttPath].data.bytes) = {AttestationOf(s)}
      <3>1. disk[AttPath].data.bytes = ArtifactBytes(AttestationOf(s))  BY <2>1, <2>3
      <3>2. QED  BY <3>1, DecodeExact DEF AttestationOf, AttestEnvelope
    <2>5. ASSUME NEW r \in Party, NEW sender \in Party
          PROVE  UNION {OpenAndVerify(EnvelopeOf(s), a, sender, r) : a \in {AttestationOf(s)}}
                   = IF r = s.to /\ sender = s.from THEN {s.payload} ELSE {}
      <3> DEFINE X == OpenAndVerify(EnvelopeOf(s), AttestationOf(s), sender, r)
      <3>1. X = IF r = s.to /\ sender = s.from THEN {s.payload} ELSE {}
        BY <2>2, SenderExact, OpenExact DEF OpenAndVerify
      <3>2. UNION {OpenAndVerify(EnvelopeOf(s), a, sender, r) : a \in {AttestationOf(s)}} = X
        OBVIOUS
      <3>3. QED  BY <3>1, <3>2
    <2>6. QED  BY <2>1, <2>4, <2>5
  <1>2. FilesInv => AckedSealOpens  BY <1>1 DEF AckedSealOpens
  <1>3. QED  BY <1>2, FilesInvariance, PTL

=============================================================================
