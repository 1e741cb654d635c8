---------------------------- MODULE Attestation ----------------------------
(* lys-core/src/attestation: the signed statement "this key saw a payload of *)
(* this hash at this time", and its one durable form, a COSE_Sign1 artifact. *)
(*                                                                           *)
(* A byte string is modelled by what a parser gets out of it: an artifact is *)
(* the record of its CBOR items, and `canonical' says whether it is written  *)
(* with the shortest heads, definite lengths, the fixed key order and        *)
(* nothing after it.  SHA-256 and Ed25519 are symbolic: a digest is equal to *)
(* another one only for equal inputs, and a signature verifies only for the  *)
(* key and the message that it was made with.  An operation that can be      *)
(* refused returns the set of its results: {} is the error.                  *)
(***************************************************************************)
EXTENDS Integers, FiniteSets

\* Content types of COSE artifacts: the pinned one, and one of another kind.
ContentType == "application/vnd.lys.attestation.v2+cbor"
OtherContentType == "other"

Sha256(m) == [sha256 |-> m]

\* Ed25519Identity::sign and ::verify.
Sign(key, m) == [by |-> key, over |-> m]
VerifySignature(key, m, sig) == sig = Sign(key, m)

ProtectedBytes(key) == [alg |-> "EdDSA", content |-> ContentType, kid |-> key]

ClaimsBytes(hash, ts) == [hash |-> hash, ts |-> ts]

SigStructureBytes(protected, claims) == <<"Signature1", protected, claims>>

\* Attestation::to_cose_bytes: the only encoder.
ArtifactBytes(a) ==
  [tag |-> 18, protected |-> ProtectedBytes(a.signer), unprotected |-> {},
   claims |-> ClaimsBytes(a.hash, a.ts), sig |-> a.sig, canonical |-> TRUE]

\* The structural pins.  The CBOR parser ignores how the items were encoded
\* and what follows them.
DecodeFields(b) ==
  { a \in {[hash |-> b.claims.hash, ts |-> b.claims.ts,
            signer |-> b.protected.kid, sig |-> b.sig]} :
      /\ b.tag = 18
      /\ b.unprotected = {}
      /\ b.protected.alg = "EdDSA"
      /\ b.protected.content = ContentType }

\* Mutant: without the comparison with the canonical encoding.
FromCoseBytesLax(b) == DecodeFields(b)

\* ... so that canonical encoding is enforced by encoding the fields again.
FromCoseBytes(b) == { a \in DecodeFields(b) : ArtifactBytes(a) = b }

SignAttestation(m, key, ts) ==
  LET hash == Sha256(m)
  IN  [hash |-> hash, ts |-> ts, signer |-> key,
       sig |-> Sign(key, SigStructureBytes(ProtectedBytes(key),
                                           ClaimsBytes(hash, ts)))]

\* The signed bytes are built again from the attestation's own fields.
VerifyAttestation(a, m) ==
  /\ Sha256(m) = a.hash
  /\ VerifySignature(a.signer,
                     SigStructureBytes(ProtectedBytes(a.signer),
                                       ClaimsBytes(a.hash, a.ts)),
                     a.sig)

VerifyAttestationBytes(b, m) ==
  { a \in FromCoseBytes(b) : VerifyAttestation(a, m) }

=============================================================================
