-------------------------------- MODULE Seal --------------------------------
(***************************************************************************)
(* Authenticated sealing: the envelope and its sender attestation          *)
(* (crates/lys-core/src/seal) and the commands seal, open, attest and      *)
(* verify that write and read them as two files                            *)
(* (crates/lys/src/commands/{seal,attest,verify,files}.rs).                *)
(*                                                                         *)
(* Commands run at the same time on the same paths, each step can fail and *)
(* each command can be killed.  What a reader gets may have been altered   *)
(* on the way from the writer's disk: one field of an artifact is replaced *)
(* or the artifact is encoded in another way.                              *)
(*                                                                         *)
(* X25519, HKDF and AES-GCM are symbolic.  A public key stands for its     *)
(* secret; a shared secret is the unordered pair of the two.               *)
(***************************************************************************)
EXTENDS Attestation, Sequences

CONSTANTS
  Party,       \* identities: an Ed25519 and an X25519 key each
  Payload,     \* payload bytes
  Time,        \* unix-millisecond clock readings
  Cmd,         \* processes that run commands, one after the other
  MaxCommands, \* bound: commands run in all
  MaxSeals,    \* bound: seals among them
  LowOrder,    \* a low-order X25519 point
  Garbled      \* a field whose bytes were altered

ASSUME BoundsAssumption == MaxCommands \in Nat /\ MaxSeals \in Nat
ASSUME AlteredAssumption ==
  LowOrder \notin Party /\ Garbled \notin Party \cup Payload \cup {LowOrder}

Ids == 1..MaxCommands

\* An ephemeral key, named by the id of its command, is no low-order point.
ASSUME EphemeralAssumption == LowOrder \notin Ids

-----------------------------------------------------------------------------
\* sealed_envelope.rs.

Shared(a, b) == {<<"x25519", a>>, <<"x25519", b>>}

\* The key and the nonce are two parts of one HKDF expansion, whose info names
\* the ephemeral and the recipient key.
DeriveKeyAndNonce(shared, eph, recipient) ==
  [key |-> <<"key", shared, eph, recipient>>,
   nonce |-> <<"nonce", shared, eph, recipient>>]

Encrypt(key, nonce, m) == [key |-> key, nonce |-> nonce, msg |-> m]

\* The GCM tag decides.
Decrypt(key, nonce, ct) == { m \in Payload : ct = Encrypt(key, nonce, m) }

\* Mutant: a low-order recipient key is not refused.
ContributoryAny(key) == TRUE

\* was_contributory: the other side's point is not a low-order one.
Contributory(key) == key # LowOrder

\* seal, for a recipient key that is not low-order; `eph' is fresh.
SealEnvelope(m, eph, recipient) ==
  LET d == DeriveKeyAndNonce(Shared(eph, recipient), eph, recipient)
  IN  [eph |-> eph, ct |-> Encrypt(d.key, d.nonce, m), nonce |-> d.nonce]

\* Mutant: the keys in the HKDF info are swapped.
OpenEnvelopeSwapped(env, r) ==
  { m \in Decrypt(DeriveKeyAndNonce(Shared(r, env.eph), r, env.eph).key,
                  env.nonce, env.ct) : Contributory(env.eph) }

\* open: the nonce in the envelope is the operative one.
OpenEnvelope(env, r) ==
  { m \in Decrypt(DeriveKeyAndNonce(Shared(r, env.eph), env.eph, r).key,
                  env.nonce, env.ct) : Contributory(env.eph) }

-----------------------------------------------------------------------------
\* authenticated.rs.  A message is what an attestation is over.

\* attestation_bytes: every byte of the envelope.
AttestationBytes(env) == <<env.eph, env.ct, env.nonce>>

PayloadMessage(m) == [context |-> "none", body |-> m]

\* A generic attestation over the bare bytes of an envelope.
BareMessage(env) == [context |-> "none", body |-> AttestationBytes(env)]

\* The bytes of an envelope behind SEALED_ENVELOPE_CONTEXT_V1.
TaggedMessage(env) == [context |-> "lys/sealed-envelope/v1", body |-> AttestationBytes(env)]

\* Mutant: without the context tag.
ContextlessEnvelopeBytes(env) == BareMessage(env)

ContextualizedEnvelopeBytes(env) == TaggedMessage(env)

\* The second half of sign_and_seal.
AttestEnvelope(env, sender, ts) ==
  SignAttestation(ContextualizedEnvelopeBytes(env), sender, ts)

\* The two gates of open_and_verify, before any decryption.
SenderVerifies(env, a, sender) ==
  /\ a.signer = sender
  /\ VerifyAttestation(a, ContextualizedEnvelopeBytes(env))

OpenAndVerify(env, a, sender, r) ==
  IF SenderVerifies(env, a, sender) THEN OpenEnvelope(env, r) ELSE {}

-----------------------------------------------------------------------------
\* The files, and the commands at work.

VARIABLES
  disk,      \* path -> the file there: its inode and what it holds
  cmd,       \* process -> the command it runs
  started,   \* how many commands were started: ids, ephemeral keys, inodes
  sole,      \* the last seal if no other writer of the pair ran beside it (its
             \* id, or 0) and how it ended
  sealed,    \* history: what was sealed, by whom, for whom
  attested,  \* history: what was attested on its own: signer, message, time
  event      \* what the last step let through, see Quiet

vars == <<disk, cmd, started, sole, sealed, attested, event>>

EnvPath == "envelope"
AttPath == "attestation"
OutPath == "payload out"
Paths == {EnvPath, AttPath, OutPath}

Missing == [ino |-> 0, data |-> [kind |-> "none"]]
Torn == [kind |-> "torn"]  \* created or truncated, and not whole

\* The contents of files.
EnvFile(env) == [kind |-> "envelope", env |-> env]
AttFile(b) == [kind |-> "artifact", bytes |-> b]
PlainFile(m) == [kind |-> "plaintext", payload |-> m]

IsWhole(f, kind) == f.data.kind = kind

Idle == [op |-> "idle"]

\* What a step of open or verify let through: the artifact accepted for a
\* message, the envelope given to the cipher for a sender, the payload opened.
Quiet == [accepted |-> {}, decrypted |-> {}, opened |-> {}]

\* The files that the command still has to write, the first one created as fd.
Writing(op, id, todo) == [op |-> op, id |-> id, todo |-> todo, fd |-> 0]

Write(path, data) == [path |-> path, data |-> data]

\* Commands that write the pair of files that open reads.
WritesPair(c) == cmd[c].op \in {"seal", "cleanup", "attest"}

Init ==
  /\ disk = [p \in Paths |-> Missing]
  /\ cmd = [c \in Cmd |-> Idle]
  /\ started = 0
  /\ sole = [id |-> 0, result |-> "none"]
  /\ sealed = {} /\ attested = {}
  /\ event = Quiet

\* A command of process c starts with the next id.
Begin(c, k) ==
  /\ cmd[c] = Idle
  /\ started < MaxCommands
  /\ k = started + 1
  /\ started' = k

\* Seal k is the only writer of the pair that runs, or there is none.
NoteWriter(k) ==
  sole' = [id |-> IF \E c \in Cmd : WritesPair(c) THEN 0 ELSE k, result |-> "none"]

\* Process c's command is over.
End(c, res) ==
  /\ cmd' = [cmd EXCEPT ![c] = Idle]
  /\ sole' = IF cmd[c].id = sole.id THEN [sole EXCEPT !.result = res] ELSE sole

EnvelopeOf(s) == SealEnvelope(s.payload, s.id, s.to)

AttestationOf(s) == AttestEnvelope(EnvelopeOf(s), s.from, s.ts)

\* Every attestation ever signed, with its message.
Issued ==
  {<<ContextualizedEnvelopeBytes(EnvelopeOf(s)), AttestationOf(s)>> : s \in sealed}
    \cup {<<x.msg, SignAttestation(x.msg, x.signer, x.ts)>> : x \in attested}

-----------------------------------------------------------------------------
\* seal and attest, up to the first write.  A command that fails before it
\* writes (no key file, bad hex, unreadable payload, low-order recipient key)
\* changes nothing.

StartSeal(c, from, to, m, ts) ==
  \E k \in Ids :
    LET s == [id |-> k, from |-> from, to |-> to, payload |-> m, ts |-> ts] IN
    /\ Begin(c, k)
    /\ Contributory(to) /\ Cardinality(sealed) < MaxSeals
    /\ NoteWriter(k)
    /\ cmd' = [cmd EXCEPT ![c] = Writing("seal", k,
                 <<Write(EnvPath, EnvFile(EnvelopeOf(s))),
                   Write(AttPath, AttFile(ArtifactBytes(AttestationOf(s))))>>)]
    /\ sealed' = sealed \cup {s}
    /\ event' = Quiet
    /\ UNCHANGED <<disk, attested>>

\* What is attested outside of sign_and_seal.  attest signs the bytes of any file:
\* a payload, the bytes of an envelope, or these with the context tag in front.
GenericMessages ==
  {PayloadMessage(m) : m \in Payload} \cup {BareMessage(EnvelopeOf(s)) : s \in sealed}
    \cup {TaggedMessage(EnvelopeOf(s)) : s \in sealed}

StartAttest(c, signer, msg, ts) ==
  \E k \in Ids :
    LET a == SignAttestation(msg, signer, ts) IN
    /\ Begin(c, k)
    /\ sole' = [id |-> 0, result |-> "none"]
    /\ cmd' = [cmd EXCEPT ![c] = Writing("attest", k,
                                   <<Write(AttPath, AttFile(ArtifactBytes(a)))>>)]
    /\ attested' = attested \cup {[signer |-> signer, msg |-> msg, ts |-> ts]}
    /\ event' = Quiet
    /\ UNCHANGED <<disk, sealed>>

-----------------------------------------------------------------------------
\* write_file and write_file_private: open and truncate, then write.

\* The last write ends the command.
Written(c) ==
  LET rest == Tail(cmd[c].todo) IN
  IF rest = << >>
  THEN End(c, "ok")
  ELSE cmd' = [cmd EXCEPT ![c] = Writing(@.op, @.id, rest)] /\ UNCHANGED sole

\* Mutant: the envelope stays when its attestation cannot be written.
WriteErrorNoCleanup(c) == End(c, "error")

\* A write error ends the command; seal takes its envelope back first if the
\* attestation is what could not be written.
WriteError(c) ==
  IF cmd[c].op = "seal" /\ Len(cmd[c].todo) = 1
  THEN cmd' = [cmd EXCEPT ![c].op = "cleanup"] /\ UNCHANGED sole
  ELSE End(c, "error")

Busy(c) == cmd[c].op \in {"seal", "attest", "open"}

CreateFile(c) ==
  /\ Busy(c) /\ cmd[c].fd = 0
  /\ LET p == Head(cmd[c].todo).path
         ino == IF disk[p] = Missing THEN cmd[c].id ELSE disk[p].ino
     IN /\ disk' = [disk EXCEPT ![p] = [ino |-> ino, data |-> Torn]]
        /\ cmd' = [cmd EXCEPT ![c].fd = ino]
  /\ event' = Quiet
  /\ UNCHANGED <<started, sole, sealed, attested>>

\* Over the bytes of another writer the new ones may leave a tail of the old.
WriteAll(c) ==
  /\ Busy(c) /\ cmd[c].fd # 0
  /\ LET w == Head(cmd[c].todo)
         here == disk[w.path].ino = cmd[c].fd
     IN \E data \in IF disk[w.path].data = Torn THEN {w.data} ELSE {w.data, Torn} :
          disk' = IF here THEN [disk EXCEPT ![w.path].data = data] ELSE disk
  /\ Written(c)
  /\ event' = Quiet
  /\ UNCHANGED <<started, sealed, attested>>

\* The file cannot be created, or cannot be written to the end.
WriteFails(c) ==
  /\ Busy(c)
  /\ LET p == Head(cmd[c].todo).path IN
     disk' = IF cmd[c].fd # 0 /\ disk[p].ino = cmd[c].fd
             THEN [disk EXCEPT ![p].data = Torn] ELSE disk
  /\ WriteError(c)
  /\ event' = Quiet
  /\ UNCHANGED <<started, sealed, attested>>

\* remove_file(out), whatever file is there now; a failure is only a warning.
Cleanup(c) ==
  /\ cmd[c].op = "cleanup"
  /\ \/ /\ disk[EnvPath] # Missing
        /\ disk' = [disk EXCEPT ![EnvPath] = Missing]
        /\ End(c, "error")
     \/ /\ UNCHANGED disk
        /\ End(c, "error, not removed")
  /\ event' = Quiet
  /\ UNCHANGED <<started, sealed, attested>>

-----------------------------------------------------------------------------
\* What the reader of a file may get: the file, or one altered on the way.

AlteredEnvelopes(env) ==
  {[env EXCEPT !.eph = e] : e \in {LowOrder} \cup {s.id : s \in sealed}}
    \cup {[env EXCEPT !.ct = x] : x \in {Garbled} \cup {EnvelopeOf(s).ct : s \in sealed}}
    \cup {[env EXCEPT !.nonce = x] : x \in {Garbled} \cup {EnvelopeOf(s).nonce : s \in sealed}}

\* The signature of no message by nobody.
NoSignature == Sign(Garbled, Garbled)

AlteredArtifacts(b) ==
  {[b EXCEPT !.tag = 0], [b EXCEPT !.unprotected = {Garbled}],
   [b EXCEPT !.protected.content = OtherContentType],
   [b EXCEPT !.canonical = FALSE], [b EXCEPT !.sig = NoSignature]}
    \cup {[b EXCEPT !.protected.kid = k] : k \in Party}
    \cup {[b EXCEPT !.claims.ts = t] : t \in Time \cup {Garbled}}
    \cup {[b EXCEPT !.claims.hash = i[2].hash] : i \in Issued}
    \cup {[b EXCEPT !.sig = i[2].sig] : i \in Issued}

Read(b) == {b} \cup AlteredArtifacts(b)

\* open reads and parses the envelope ...
StartOpen(c, r, sender) ==
  /\ IsWhole(disk[EnvPath], "envelope")
  /\ \E k \in Ids, env \in {disk[EnvPath].data.env}
                              \cup AlteredEnvelopes(disk[EnvPath].data.env) :
       /\ Begin(c, k)
       /\ cmd' = [cmd EXCEPT ![c] = [op |-> "reading", id |-> k, env |-> env,
                                     to |-> r, from |-> sender]]
  /\ event' = Quiet
  /\ UNCHANGED <<disk, sole, sealed, attested>>

\* Mutant: open_and_verify decrypts first and verifies then.
DecryptsAlways(env, a, sender) == TRUE

\* Whether open_and_verify gets to the cipher.
Decrypts(env, a, sender) == SenderVerifies(env, a, sender)

\* ... and then the attestation; it verifies the pair and has a payload to
\* write.
OpenPair(c) ==
  /\ cmd[c].op = "reading"
  /\ IsWhole(disk[AttPath], "artifact")
  /\ \E b \in Read(disk[AttPath].data.bytes) :
     \E a \in FromCoseBytes(b) :
       LET o == cmd[c] IN
       \E m \in OpenAndVerify(o.env, a, o.from, o.to) :
         /\ event' = [accepted |-> {<<ContextualizedEnvelopeBytes(o.env), b>>},
                      decrypted |-> {<<o.env, o.from>>},
                      opened |-> {[from |-> o.from, to |-> o.to, payload |-> m]}]
         /\ cmd' = [cmd EXCEPT ![c] = Writing("open", o.id,
                                        <<Write(OutPath, PlainFile(m))>>)]
  /\ UNCHANGED <<disk, started, sole, sealed, attested>>

\* Every reason to refuse the pair ends in the same way.
OpenFails(c) ==
  /\ cmd[c].op = "reading"
  /\ LET o == cmd[c] IN
     \/ /\ ~ IsWhole(disk[AttPath], "artifact")
        /\ event' = Quiet
     \/ /\ IsWhole(disk[AttPath], "artifact")
        /\ \E b \in Read(disk[AttPath].data.bytes) :
           \/ /\ FromCoseBytes(b) = {}
              /\ event' = Quiet
           \/ \E a \in FromCoseBytes(b) :
                /\ OpenAndVerify(o.env, a, o.from, o.to) = {}
                /\ event' = IF Decrypts(o.env, a, o.from)
                            THEN [Quiet EXCEPT !.decrypted = {<<o.env, o.from>>}]
                            ELSE Quiet
  /\ End(c, "error")
  /\ UNCHANGED <<disk, started, sealed, attested>>

-----------------------------------------------------------------------------
\* verify only reads; what it accepts is recorded.
Verify ==
  /\ \E c \in Cmd, k \in Ids : Begin(c, k)
  /\ IsWhole(disk[AttPath], "artifact")
  /\ \E b \in Read(disk[AttPath].data.bytes), msg \in GenericMessages :
       /\ VerifyAttestationBytes(b, msg) # {}
       /\ event' = [Quiet EXCEPT !.accepted = {<<msg, b>>}]
  /\ UNCHANGED <<disk, cmd, sole, sealed, attested>>

\* A command dies between two of its steps.
Killed(c) ==
  /\ cmd[c] # Idle
  /\ End(c, "killed")
  /\ event' = Quiet
  /\ UNCHANGED <<disk, started, sealed, attested>>

Next ==
  \/ \E c \in Cmd, from \in Party, to \in Party \cup {LowOrder}, m \in Payload, ts \in Time :
       StartSeal(c, from, to, m, ts)
  \/ \E c \in Cmd, signer \in Party, ts \in Time : \E msg \in GenericMessages :
       StartAttest(c, signer, msg, ts)
  \/ \E c \in Cmd, r, sender \in Party : StartOpen(c, r, sender)
  \/ \E c \in Cmd : \/ CreateFile(c) \/ WriteAll(c) \/ WriteFails(c) \/ Cleanup(c)
                    \/ OpenPair(c) \/ OpenFails(c) \/ Killed(c)
  \/ Verify

Spec == Init /\ [][Next]_vars

-----------------------------------------------------------------------------
\* Types, and what the history variables are.
TypeOK ==
  /\ started \in 0..MaxCommands
  /\ sole.id \in 0..started
  /\ \A p \in Paths : disk[p].ino \in 0..started
  /\ \A c \in Cmd : cmd[c] # Idle => cmd[c].id \in 1..started
  /\ \A s \in sealed : s.id \in 1..started /\ s.to \in Party

\* Whether a party attested, outside of sign_and_seal, the envelope of s with the
\* context tag.
AttestedAsSealed(party, s) ==
  \E x \in attested : x.signer = party /\ x.msg = TaggedMessage(EnvelopeOf(s))

\* An opened payload is one that was sealed for the recipient that opened it, by
\* the sender named to open, or by another party whose envelope that sender itself
\* attested with the tag; however files were mixed up, overwritten between the two
\* reads or altered.  No attestation of other bytes, of the bare envelope say,
\* makes anyone a sender.
OpenedWasVouchedFor ==
  \A o \in event.opened : \E s \in sealed :
    /\ s.to = o.to /\ s.payload = o.payload
    /\ s.from = o.from \/ AttestedAsSealed(o.from, s)

\* What the module comment of authenticated.rs claims: a signature only ever means
\* that this sender sealed this envelope.
OpenedWasSealed ==
  \A o \in event.opened : \E s \in sealed :
    s.from = o.from /\ s.to = o.to /\ s.payload = o.payload

\* Nothing is decrypted that the sender named to open did not attest: a pair
\* that does not verify is refused before the cipher sees it.
DecryptedWasAttested ==
  \A d \in event.decrypted : \E i \in Issued :
    i[1] = ContextualizedEnvelopeBytes(d[1]) /\ i[2].signer = d[2]

\* An artifact that is accepted for a message is, byte for byte, one that its
\* signer made for that message: no field was altered and it was not encoded
\* again.
AcceptedWasIssued ==
  \A x \in event.accepted : \E i \in Issued : i[1] = x[1] /\ ArtifactBytes(i[2]) = x[2]

\* After a seal that returned Ok, beside which no other writer of the pair ran
\* and after which none started, the two files open: for its recipient, naming
\* its sender, as the payload; and for nobody else and under no other name.
AckedSealOpens ==
  \A s \in sealed :
    sole.id = s.id /\ sole.result = "ok" =>
      /\ disk[EnvPath].data = EnvFile(EnvelopeOf(s))
      /\ disk[AttPath].data = AttFile(ArtifactBytes(AttestationOf(s)))
      /\ \A r, sender \in Party :
           UNION {OpenAndVerify(EnvelopeOf(s), a, sender, r) :
                    a \in FromCoseBytes(disk[AttPath].data.bytes)}
             = IF r = s.to /\ sender = s.from THEN {s.payload} ELSE {}

\* A seal that reports an error, beside which no other writer ran, leaves no
\* whole envelope without its attestation, unless it warned that it could not
\* remove it.
NoStrandedEnvelope ==
  \A s \in sealed :
    sole.id = s.id /\ sole.result = "error" => disk[EnvPath].data # EnvFile(EnvelopeOf(s))

\* What the module comment of seal.rs promises: a failed seal leaves no partial
\* outputs.
NoPartialOutputs ==
  \A s \in sealed :
    sole.id = s.id /\ sole.result = "error" =>
      disk[EnvPath].data # Torn /\ disk[AttPath].data # Torn

=============================================================================
