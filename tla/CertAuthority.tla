--------------------------- MODULE CertAuthority ---------------------------
(***************************************************************************)
(* The certificate authority (crates/lys-core/src/ca) and the commands     *)
(* `lys ca issue' and `lys ca verify' (crates/lys/src/commands/ca.rs and   *)
(* pem.rs).                                                                *)
(*                                                                         *)
(* Commands that issue run at the same time and write one path, which is   *)
(* not locked, and each of them can fail or be killed on the way.  A       *)
(* certificate in PEM is written line by line, a line being one part of    *)
(* the DER: what two writers leave may be a splice of two certificates, a  *)
(* certificate with a tail of another one, or one with a hole.  `ca        *)
(* verify' may read the file at any time, and as altered on the way.       *)
(*                                                                         *)
(* Instants are in ticks, `Second' of them in a second; DER has whole      *)
(* seconds.  The clock is the operating system's: it can be stepped back.  *)
(* An operation that can be refused returns the set of its results: {} is  *)
(* the error.                                                              *)
(***************************************************************************)
EXTENDS Integers, Sequences

CONSTANTS
  Authority,   \* the Ed25519 keys that issue
  Weak,        \* a small-order Ed25519 point, which a verifier may be given
  Name,        \* subject names
  BlankName,   \* a name of white space only
  Payload,     \* the bytes of extensions
  Printable,   \* the payloads that are UTF-8 without control characters
  Extensions,  \* the lists of extensions that are asked for
  Second,      \* ticks in a second
  Clock,       \* clock readings, as instants
  Ttls,        \* lifetimes asked for, in ticks
  Asked,       \* the instants at which certificates are verified
  LastSecond,  \* the last second that the date types can represent
  Proc,        \* processes that issue
  MaxIssues    \* bound: certificates issued in all

ClaimsOid == "1.3.6.1.4.1.58888.1"
OtherOid == "1.3.6.1.4.1.58888.2"

\* encode_extension
EncodeExtension(oid, payload) == [item |-> "extension", oid |-> oid, payload |-> payload]

ExtensionSet == [item : {"extension"}, oid : {ClaimsOid, OtherOid}, payload : Payload]

None == "none"  \* no claims

ASSUME KeysAssumption == Weak \notin Authority
ASSUME PayloadAssumption == None \notin Payload
ASSUME ExtensionsAssumption == Extensions \subseteq Seq(ExtensionSet)
ASSUME TimeAssumption ==
  /\ Second \in Nat \ {0} /\ LastSecond \in Nat
  /\ Clock \subseteq Nat /\ Ttls \subseteq Nat /\ Asked \subseteq Nat
ASSUME BoundAssumption == MaxIssues \in Nat

-----------------------------------------------------------------------------
\* Ed25519: a signature verifies for the key and the message it was made with.

Sign(key, m) == [by |-> key, over |-> m]

\* A signature that nobody made; plain verification with a weak key takes it.
Stray == Sign(Weak, << >>)

\* Mutant: verify instead of verify_strict.
VerifyPlain(key, m, sig) == sig = Sign(key, m) \/ (key = Weak /\ sig = Stray)

\* verify_strict refuses small-order keys.
VerifyStrict(key, m, sig) == key # Weak /\ sig = Sign(key, m)

-----------------------------------------------------------------------------
\* issue_certificate.

\* hex_lower of a public key, as a name.
HexName(key) == <<"hex", key>>

Names == Name \cup {HexName(a) : a \in Authority}

\* to_offset_date_time: whole seconds.
Timestamp(instant) == instant \div Second

\* Mutant: expires_at keeps its nanoseconds.
WithNanoseconds(instant) == instant

\* with_nanosecond(0)
TruncateToSecond(instant) == Timestamp(instant) * Second

\* Mutant: the expiry is not checked against the range of the date types.
RepresentableAlways(instant) == TRUE

\* The range checks of from_std, checked_add_signed and to_offset_date_time.
Representable(instant) == Timestamp(instant) <= LastSecond

\* What is asked for, and the IssuedCertificate.  `id' stands for the fresh
\* subject key.
Certificate(id, a, subject, ttl, exts, now) ==
  [id |-> id, issuer |-> a, subject |-> subject, ttl |-> ttl, issued_at |-> now,
   expires_at |-> TruncateToSecond(now + ttl), exts |-> exts]

IssueCertificate(id, a, subject, ttl, exts, now) ==
  { c \in {Certificate(id, a, subject, ttl, exts, now)} :
      subject # BlankName /\ ttl # 0 /\ Representable(now + ttl) }

\* The to-be-signed part, in lines.  The head line also tells how many lines
\* the DER has; the serial number is derived from the subject key.
HeadLine(c) ==
  [item |-> "head", lines |-> Len(c.exts) + 3, serial |-> c.id,
   issuer |-> HexName(c.issuer), not_before |-> Timestamp(c.issued_at),
   not_after |-> Timestamp(c.expires_at)]

SubjectLine(c) == [item |-> "subject", name |-> c.subject, key |-> c.id]

Tbs(c) == <<HeadLine(c), SubjectLine(c)>> \o c.exts

SignatureLine(alg, sig) == [item |-> "signature", alg |-> alg, sig |-> sig]

\* signed_by
Der(c) == Append(Tbs(c), SignatureLine("ed25519", Sign(c.issuer, Tbs(c))))

-----------------------------------------------------------------------------
\* verify_certificate_chain_at.

\* X509Certificate::from_der: what follows the certificate is ignored.
FromDer(der) ==
  LET n == IF der[1].item = "head" THEN der[1].lines ELSE 0
  IN  { cert \in {[tbs |-> SubSeq(der, 1, n - 1), signature |-> der[i]] :
                    i \in {i \in 1..Len(der) : i = n}} :
          /\ Len(cert.tbs) >= 2
          /\ cert.tbs[2].item = "subject"
          /\ \A i \in 3..Len(cert.tbs) : cert.tbs[i].item = "extension"
          /\ cert.signature.item = "signature" }

\* check_validity_window: both ends belong to it.
InWindow(cert, at) ==
  /\ cert.tbs[1].not_before * Second <= at
  /\ at <= cert.tbs[1].not_after * Second

VerifyCertificateChainAt(der, issuer, at) ==
  { cert \in FromDer(der) :
      /\ cert.tbs[2].name # cert.tbs[1].issuer
      /\ cert.signature.alg = "ed25519"
      /\ VerifyStrict(issuer, cert.tbs, cert.signature.sig)
      /\ InWindow(cert, at) }

Carried(cert, oid) ==
  {i \in 3..Len(cert.tbs) : cert.tbs[i].oid = oid}

\* Mutant: the first extension of that kind counts.
DecodeFirstExtension(cert, oid) ==
  IF Carried(cert, oid) = {} THEN {None}
  ELSE {cert.tbs[i].payload :
          i \in {i \in Carried(cert, oid) : \A j \in Carried(cert, oid) : i <= j}}

\* decode_extension: get_extension_unique refuses a second one.
DecodeExtension(cert, oid) ==
  IF Carried(cert, oid) = {} THEN {None}
  ELSE {cert.tbs[i].payload :
          i \in {i \in Carried(cert, oid) : \A j \in Carried(cert, oid) : i = j}}

-----------------------------------------------------------------------------
\* PEM.

Begin == [item |-> "begin certificate"]
End == [item |-> "end certificate"]
Hole == [item |-> "nul bytes"]  \* of a write past the end of the file

DerItems == {"head", "subject", "extension", "signature"}

\* encode_certificate
EncodePem(c) == <<Begin>> \o Der(c) \o <<End>>

\* decode_certificate: anything but base64 between the boundaries is refused.
\* (Padding in the middle is refused, too, which here it is not.)
DecodePem(text) ==
  { der \in {SubSeq(text, 2, Len(text) - 1)} :
      /\ Len(text) >= 3
      /\ text[1] = Begin /\ text[Len(text)] = End
      /\ \A i \in 2..(Len(text) - 1) : text[i].item \in DerItems }

\* is_terminal_safe, and the forms in which claims are printed.
Echo(claims) ==
  [form |-> IF claims \in Printable \cup {None} THEN "verbatim" ELSE "hex",
   bytes |-> claims]

\* ca verify: claims are read only from a certificate that was verified.
CaVerify(text, issuer, at) ==
  UNION { UNION { {[cert |-> cert, claims |-> Echo(claims)] :
                     claims \in DecodeExtension(cert, ClaimsOid)} :
                  cert \in VerifyCertificateChainAt(der, issuer, at) } :
          der \in DecodePem(text) }

-----------------------------------------------------------------------------
\* The file that `ca issue' writes, and the commands at work.

VARIABLES
  file,    \* the lines of the file; none if it is missing or empty
  cmd,     \* process -> the command it runs
  issued,  \* history: the certificates
  clean    \* the issue that wrote the file last, with nobody beside it, and
           \* reported success; 0 if there is none

vars == <<file, cmd, issued, clean>>

\* offset -1: the file is not open yet.
Issuing(id, text, alone) == [id |-> id, text |-> text, offset |-> -1, alone |-> alone]
Idle == [id |-> 0, text |-> << >>, offset |-> -1, alone |-> FALSE]

Running(p) == cmd[p].id # 0

Init ==
  /\ file = << >>
  /\ cmd = [p \in Proc |-> Idle]
  /\ issued = {}
  /\ clean = 0

\* issue, up to the write.  A refused issue changes nothing.
StartIssue(p, a, subject, ttl, exts, now) ==
  \E id \in 1..MaxIssues :
    /\ ~Running(p)
    /\ \A c \in issued : c.id < id
    /\ \A k \in 1..(id - 1) : \E c \in issued : c.id = k
    /\ \E c \in IssueCertificate(id, a, subject, ttl, exts, now) :
         /\ issued' = issued \cup {c}
         /\ cmd' = [q \in Proc |->
                      IF q = p
                      THEN Issuing(id, EncodePem(c), \A r \in Proc : ~Running(r))
                      ELSE [cmd[q] EXCEPT !.alone = FALSE]]
    /\ UNCHANGED <<file, clean>>

\* Mutant: the file is opened without truncation.
CreateFileKeep(p) ==
  /\ Running(p) /\ cmd[p].offset = -1
  /\ clean' = 0
  /\ cmd' = [cmd EXCEPT ![p].offset = 0]
  /\ UNCHANGED <<file, issued>>

\* write_file: create or truncate the file ...
CreateFile(p) ==
  /\ Running(p) /\ cmd[p].offset = -1
  /\ file' = << >>
  /\ clean' = 0
  /\ cmd' = [cmd EXCEPT ![p].offset = 0]
  /\ UNCHANGED issued

\* The file after a line is written at position i.
Overwritten(i, line) ==
  [j \in 1..(IF i > Len(file) THEN i ELSE Len(file)) |->
     IF j = i THEN line ELSE IF j <= Len(file) THEN file[j] ELSE Hole]

\* ... and write it, from an offset of one's own.
WriteLine(p) ==
  LET i == cmd[p].offset + 1 IN
  /\ Running(p) /\ i \in 1..Len(cmd[p].text)
  /\ file' = Overwritten(i, cmd[p].text[i])
  /\ cmd' = [cmd EXCEPT ![p].offset = i]
  /\ UNCHANGED <<issued, clean>>

\* Everything is written: the command reports the certificate.
Report(p) ==
  /\ Running(p) /\ cmd[p].offset = Len(cmd[p].text)
  /\ clean' = IF cmd[p].alone THEN cmd[p].id ELSE 0
  /\ cmd' = [cmd EXCEPT ![p] = Idle]
  /\ UNCHANGED <<file, issued>>

\* The command is killed, or cannot open or write the file: what it wrote stays.
Stop(p) ==
  /\ Running(p)
  /\ cmd' = [cmd EXCEPT ![p] = Idle]
  /\ UNCHANGED <<file, issued, clean>>

Next ==
  \E p \in Proc :
    \/ \E a \in Authority, subject \in Names, ttl \in Ttls, exts \in Extensions,
          now \in Clock : StartIssue(p, a, subject, ttl, exts, now)
    \/ CreateFile(p)
    \/ WriteLine(p)
    \/ Report(p)
    \/ Stop(p)

Spec == Init /\ [][Next]_vars

-----------------------------------------------------------------------------
\* What `ca verify' may be given: the file, or one with a line altered,
\* dropped or doubled.

AlteredLines ==
  {SignatureLine("ed25519", Stray), End}
    \cup {SignatureLine("other", Sign(c.issuer, Tbs(c))) : c \in issued}
    \cup {SignatureLine("ed25519", Sign(c.issuer, Tbs(c))) : c \in issued}
    \cup [item : {"subject"}, name : Names \ {BlankName}, key : {c.id : c \in issued}]
    \cup {[HeadLine(c) EXCEPT !.not_after = LastSecond] : c \in issued}
    \cup ExtensionSet

Replaced(text, i, line) == [text EXCEPT ![i] = line]

Dropped(text, i) ==
  [j \in 1..(Len(text) - 1) |-> IF j < i THEN text[j] ELSE text[j + 1]]

Doubled(text, i) ==
  [j \in 1..(Len(text) + 1) |-> IF j <= i THEN text[j] ELSE text[j - 1]]

Readings ==
  {file} \cup {Replaced(file, i, line) : i \in 1..Len(file), line \in AlteredLines}
         \cup {Dropped(file, i) : i \in 1..Len(file)}
         \cup {Doubled(file, i) : i \in 1..Len(file)}

-----------------------------------------------------------------------------
\* The state is what the code can hold: lines of certificates and holes;
\* certificates with a window that dates can represent; commands in the middle
\* of the text of their own certificate.
TypeOK ==
  /\ \A i \in 1..Len(file) :
       file[i] \in {Begin, End, Hole} \/ file[i].item \in DerItems
  /\ \A c \in issued :
       /\ c.id \in 1..MaxIssues /\ c.subject \in Names \ {BlankName}
       /\ TruncateToSecond(c.issued_at) <= c.expires_at
       /\ c.expires_at \in 0..(LastSecond * Second)
  /\ clean = 0 \/ \E c \in issued : c.id = clean
  /\ \A p \in Proc :
       \/ cmd[p] = Idle
       \/ \E c \in issued : /\ cmd[p].id = c.id /\ cmd[p].text = EncodePem(c)
                            /\ cmd[p].offset \in (-1)..Len(EncodePem(c))

\* verify_certificate_chain_at behind decode_certificate: whatever two writers
\* and an edit have left in the file, a certificate that is accepted under a key
\* is, in every signed field, one that this key issued.  No weak key has any.
VerifiedWasIssued ==
  \A text \in Readings, issuer \in Authority \cup {Weak}, at \in Asked :
    \A r \in CaVerify(text, issuer, at) :
      \E c \in issued : c.issuer = issuer /\ r.cert.tbs = Tbs(c)

\* decode_extension after the verification: the claims that are printed are the
\* only ones that the issuer embedded in that certificate, none are printed only
\* if it embedded none, and bytes that a terminal would interpret are printed in
\* hexadecimal.
EchoedWasEmbedded ==
  \A text \in Readings, issuer \in Authority \cup {Weak}, at \in Asked :
    \A r \in CaVerify(text, issuer, at) :
      /\ \E c \in issued :
           /\ c.issuer = issuer /\ c.id = r.cert.tbs[2].key
           /\ {c.exts[i].payload : i \in {i \in 1..Len(c.exts) : c.exts[i].oid = ClaimsOid}}
                = {r.claims.bytes} \ {None}
      /\ r.claims.form = "verbatim" => r.claims.bytes \in Printable \cup {None}

\* Whether c verifies at an instant.
ValidAt(c, at) == VerifyCertificateChainAt(Der(c), c.issuer, at) # {}

\* The subject is not the issuer's own name, which verify takes for self-signed.
NotSelfNamed(c) == c.subject # HexName(c.issuer)

\* issue_certificate and check_validity_window agree although both ends are cut
\* to whole seconds: the reported expiry is the last instant of validity; the
\* certificate is never valid a second before it was issued nor after its
\* lifetime; and it is valid from its issue until a second before its lifetime
\* ends (a lifetime of less than a second promises nothing).
ValidityKept ==
  \A c \in issued :
    /\ NotSelfNamed(c) => ValidAt(c, c.expires_at)
    /\ \A at \in 0..((LastSecond + 1) * Second) :
         /\ ValidAt(c, at) => /\ at <= c.expires_at /\ at <= c.issued_at + c.ttl
                              /\ at > c.issued_at - Second
         /\ /\ NotSelfNamed(c)
            /\ c.issued_at <= at /\ at <= c.issued_at + c.ttl - Second
            => ValidAt(c, at)

\* The claims of c are read back: it does not carry them twice.
ClaimsOnce(c) ==
  \A i, j \in 1..Len(c.exts) : c.exts[i].oid = ClaimsOid /\ c.exts[j].oid = ClaimsOid => i = j

\* issue, write_file and verify together: after an issue that reported success
\* with no other writer beside it, whatever longer or torn file was there
\* before, `ca verify' accepts the file as that certificate.
AckedVerifies ==
  \A c \in issued :
    clean = c.id /\ NotSelfNamed(c) /\ ClaimsOnce(c) =>
      \E r \in CaVerify(file, c.issuer, c.expires_at) : r.cert.tbs = Tbs(c)

=============================================================================
