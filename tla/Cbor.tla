-------------------------------- MODULE Cbor --------------------------------
(***************************************************************************)
(* The bytes of an attestation artifact                                    *)
(* (crates/lys-core/src/attestation/encoding.rs): CBOR heads and integers  *)
(* at their real width, the maps and arrays built of them, and the decoder *)
(* with its comparison with the canonical encoding.  Module Attestation    *)
(* takes from here that an artifact has one encoding.                      *)
(*                                                                         *)
(* A 64-bit word is the sequence of its bytes, the highest first; an i64   *)
(* is one in two's complement.  A byte string is a sequence of pieces:     *)
(* single bytes, and opaque pieces (hash, key, signature, text) of a size. *)
(* The state is a timestamp, one byte of which changes in a step.          *)
(***************************************************************************)
EXTENDS Integers, Sequences

CONSTANTS TopBytes, MidBytes, LowBytes  \* the bytes tried in each place

ASSUME BytesAssumption == TopBytes \cup MidBytes \cup LowBytes \subseteq 0..255

ByteChoices(i) == CASE i = 1 -> TopBytes [] i = 8 -> LowBytes [] OTHER -> MidBytes

U64(n) == <<0, 0, 0, 0, 0, 0, n \div 256, n % 256>>

Byte(b) == [byte |-> b, size |-> 1]
Opaque(name, n) == [name |-> name, size |-> n]

Size(s) ==
  LET upTo[i \in 0..Len(s)] == IF i = 0 THEN 0 ELSE upTo[i - 1] + s[i].size
  IN  upTo[Len(s)]

-----------------------------------------------------------------------------
\* Heads and integers.

Major == [unsigned |-> 0, negative |-> 1, bytes |-> 2, text |-> 3,
          array |-> 4, map |-> 5, tag |-> 6]

\* How many bytes an argument can take after the initial byte, and what the
\* initial byte says then.
Widths == {0, 1, 2, 4, 8}
InfoOf(width) == CASE width = 1 -> 24 [] width = 2 -> 25 [] width = 4 -> 26 [] width = 8 -> 27

Fits(v, width) ==
  IF width = 0 THEN v[8] < 24 /\ \A i \in 1..7 : v[i] = 0
               ELSE \A i \in 1..(8 - width) : v[i] = 0

HeadOfWidth(major, v, width) ==
  <<Byte(32 * major + IF width = 0 THEN v[8] ELSE InfoOf(width))>>
    \o [i \in 1..width |-> Byte(v[8 - width + i])]

\* Mutant: 24 is still put into the initial byte, where it announces another.
WriteHeadOff(major, v) ==
  HeadOfWidth(major, v,
    IF v = U64(24) THEN 0
    ELSE CHOOSE w \in Widths : Fits(v, w) /\ \A x \in Widths : Fits(v, x) => w <= x)

\* Mutant: small arguments get a byte of their own.
WriteHeadLong(major, v) ==
  HeadOfWidth(major, v,
    CHOOSE w \in Widths \ {0} : Fits(v, w) /\ \A x \in Widths \ {0} : Fits(v, x) => w <= x)

\* write_head: the shortest form.
WriteHead(major, v) ==
  HeadOfWidth(major, v,
    CHOOSE w \in Widths : Fits(v, w) /\ \A x \in Widths : Fits(v, x) => w <= x)

IsNegative(v) == v[1] >= 128
Complement(v) == [i \in 1..8 |-> 255 - v[i]]
Plus1(v) == [i \in 1..8 |-> IF \A j \in (i + 1)..8 : v[j] = 255 THEN (v[i] + 1) % 256 ELSE v[i]]
Minus1(v) == [i \in 1..8 |-> IF \A j \in (i + 1)..8 : v[j] = 0 THEN (v[i] + 255) % 256 ELSE v[i]]

\* i64::unsigned_abs, which has a result for i64::MIN, too.
UnsignedAbs(v) == IF IsNegative(v) THEN Plus1(Complement(v)) ELSE v

\* write_i64
WriteI64(v) ==
  IF IsNegative(v) THEN WriteHead(Major.negative, Minus1(UnsignedAbs(v)))
                   ELSE WriteHead(Major.unsigned, UnsignedAbs(v))

-----------------------------------------------------------------------------
\* What is built of them.

WriteString(major, s) == WriteHead(major, U64(Size(s))) \o s
WriteUnsigned(n) == WriteHead(Major.unsigned, U64(n))

Signer == <<Opaque("signer", 32)>>
Hash == <<Opaque("hash", 32)>>
Signature == <<Opaque("signature", 64)>>
ContentType == <<Opaque("application/vnd.lys.attestation.v2+cbor", 39)>>

Minus8 == Complement(U64(7))

ProtectedBytes ==
  WriteHead(Major.map, U64(3))
    \o WriteUnsigned(1) \o WriteI64(Minus8)
    \o WriteUnsigned(3) \o WriteString(Major.text, ContentType)
    \o WriteUnsigned(4) \o WriteString(Major.bytes, Signer)

\* The claims up to the timestamp, which comes last.
ClaimsUpToTimestamp ==
  WriteHead(Major.map, U64(2))
    \o WriteUnsigned(1) \o WriteString(Major.bytes, Hash) \o WriteUnsigned(2)

ClaimsBytes(ts) == ClaimsUpToTimestamp \o WriteI64(ts)

SigStructureBytes(protected, claims) ==
  WriteHead(Major.array, U64(4))
    \o WriteString(Major.text, <<Opaque("Signature1", 10)>>)
    \o WriteString(Major.bytes, protected)
    \o WriteHead(Major.bytes, U64(0))
    \o WriteString(Major.bytes, claims)

\* The array of four, and the artifact with its tag.
CoseSign1(claims) ==
  WriteHead(Major.array, U64(4))
    \o WriteString(Major.bytes, ProtectedBytes)
    \o WriteHead(Major.map, U64(0))
    \o WriteString(Major.bytes, claims)
    \o WriteString(Major.bytes, Signature)

ArtifactBytes(ts) == WriteHead(Major.tag, U64(18)) \o CoseSign1(ClaimsBytes(ts))

-----------------------------------------------------------------------------
\* ciborium, and the decoder.  A parser returns the set of its results; {} is
\* the error.

Then(results, Parser(_)) == UNION {Parser(r) : r \in results}

\* Any of the widths is read.  (So are strings and arrays of indefinite length,
\* which are left out.)
ReadHead(s) ==
  { [major |-> s[1].byte \div 32,
     arg |-> [i \in 1..8 |-> IF width = 0
                             THEN IF i = 8 THEN s[1].byte % 32 ELSE 0
                             ELSE IF i <= 8 - width THEN 0 ELSE s[i + width - 7].byte],
     rest |-> SubSeq(s, width + 2, Len(s))] :
    width \in { w \in Widths :
                  /\ Len(s) > w /\ \A i \in 1..(w + 1) : s[i].size = 1
                  /\ IF w = 0 THEN s[1].byte % 32 < 24 ELSE s[1].byte % 32 = InfoOf(w) } }

\* The rest after an item with just this head.
Expect(s, major, v) == { h.rest : h \in { h \in ReadHead(s) : h.major = major /\ h.arg = v } }

\* A string, and what follows it.
ReadString(s, major) ==
  Then({ h \in ReadHead(s) : h.major = major }, LAMBDA h :
    { [value |-> SubSeq(h.rest, 1, k), rest |-> SubSeq(h.rest, k + 1, Len(h.rest))] :
        k \in { k \in 0..Len(h.rest) : U64(Size(SubSeq(h.rest, 1, k))) = h.arg } })

\* fixed_bytes
FixedBytes(s, n) == { r \in ReadString(s, Major.bytes) : Size(r.value) = n }

\* A CBOR integer has 65 bits; try_into takes those of an i64.  -1 - n is the
\* complement of n.
ReadI64(s) ==
  { IF h.major = Major.negative THEN Complement(h.arg) ELSE h.arg :
      h \in { h \in ReadHead(s) : h.major \in {Major.unsigned, Major.negative}
                                  /\ ~IsNegative(h.arg) } }

DecodeProtected(s) ==
  Then(Expect(s, Major.map, U64(3)), LAMBDA s1 :
  Then(Expect(s1, Major.unsigned, U64(1)), LAMBDA s2 :
  Then(Expect(s2, Major.negative, U64(7)), LAMBDA s3 :
  Then(Expect(s3, Major.unsigned, U64(3)), LAMBDA s4 :
  Then({ r \in ReadString(s4, Major.text) : r.value = ContentType }, LAMBDA ct :
  Then(Expect(ct.rest, Major.unsigned, U64(4)), LAMBDA s5 :
    { kid.value : kid \in FixedBytes(s5, 32) }))))))

DecodeClaims(s) ==
  Then(Expect(s, Major.map, U64(2)), LAMBDA s1 :
  Then(Expect(s1, Major.unsigned, U64(1)), LAMBDA s2 :
  Then(FixedBytes(s2, 32), LAMBDA hash :
  Then(Expect(hash.rest, Major.unsigned, U64(2)), LAMBDA s3 :
    { <<hash.value, ts>> : ts \in ReadI64(s3) }))))

MaxArtifactLen == 1024

DecodeFields(b) ==
  Then(IF Size(b) <= MaxArtifactLen THEN Expect(b, Major.tag, U64(18)) ELSE {}, LAMBDA s1 :
  Then(Expect(s1, Major.array, U64(4)), LAMBDA s2 :
  Then(ReadString(s2, Major.bytes), LAMBDA protected :
  Then(Expect(protected.rest, Major.map, U64(0)), LAMBDA s3 :
  Then(ReadString(s3, Major.bytes), LAMBDA claims :
  Then(FixedBytes(claims.rest, 64), LAMBDA sig :
    { [signer |-> kid, hash |-> c[1], ts |-> c[2], sig |-> sig.value] :
        kid \in DecodeProtected(protected.value), c \in DecodeClaims(claims.value) }))))))

\* Mutant: the input is not compared with the canonical encoding.
FromCoseBytesLax(b) == DecodeFields(b)

\* Attestation::from_cose_bytes
FromCoseBytes(b) == { f \in DecodeFields(b) : ArtifactBytes(f.ts) = b }

-----------------------------------------------------------------------------
VARIABLE timestamp

Init == timestamp = U64(0)

Change(i, b) == timestamp' = [timestamp EXCEPT ![i] = b]

Next == \E i \in 1..8 : \E b \in ByteChoices(i) : Change(i, b)

Spec == Init /\ [][Next]_timestamp

\* The fields of an attestation with this timestamp.
Fields(ts) == [signer |-> Signer, hash |-> Hash, ts |-> ts, sig |-> Signature]

\* write_head, write_i64 and decode_fields agree at every length of a head and
\* for both signs, i64::MIN and i64::MAX included: an attestation comes back
\* from its own artifact.
ReadsBack == FromCoseBytes(ArtifactBytes(timestamp)) = {Fields(timestamp)}

\* Other byte strings for the same attestation: a longer head for the timestamp,
\* the tag or the array, or bytes after the artifact.
LongHeads(head) ==
  UNION { { HeadOfWidth(h.major, h.arg, w) : w \in { w \in Widths : Fits(h.arg, w) } } :
          h \in ReadHead(head) }

OtherSpellings(ts) ==
  { ArtifactBytes(ts) \o <<Byte(0)>> }
    \cup { WriteHead(Major.tag, U64(18)) \o CoseSign1(ClaimsUpToTimestamp \o head) :
             head \in LongHeads(WriteI64(ts)) }
    \cup { head \o CoseSign1(ClaimsBytes(ts)) : head \in LongHeads(WriteHead(Major.tag, U64(18))) }

\* from_cose_bytes: the parser takes all of these spellings for the same
\* attestation, and only the one that the encoder writes is accepted.
OneEncoding ==
  \A b \in OtherSpellings(timestamp) \cup {ArtifactBytes(timestamp)} :
    /\ DecodeFields(b) = {Fields(timestamp)}
    /\ FromCoseBytes(b) # {} => b = ArtifactBytes(timestamp)

\* The sizes that encoding.rs documents and sizes its buffers by: 80 bytes of
\* protected header, 38 to 46 of claims, 135 to 143 signed, 191 to 199 in all.
DocumentedSizes ==
  LET claims == ClaimsBytes(timestamp) IN
  /\ Size(ProtectedBytes) = 80
  /\ Size(claims) \in 38..46
  /\ Size(SigStructureBytes(ProtectedBytes, claims)) \in 135..143
  /\ Size(ArtifactBytes(timestamp)) \in 191..199

=============================================================================
