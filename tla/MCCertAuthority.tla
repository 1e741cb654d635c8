-------------------------- MODULE MCCertAuthority --------------------------
(* An instance of CertAuthority for TLC. *)
EXTENDS CertAuthority, TLC

CONSTANTS p1, p2

Claim(p) == EncodeExtension(ClaimsOid, p)

\* No extension, the claims, and, from other callers of the library, the claims
\* twice after an extension of another kind.
SomeExtensions ==
  {<< >>, <<Claim(p1)>>, <<EncodeExtension(OtherOid, p1), Claim(p2), Claim(p1)>>}

Symmetric == Permutations(Proc)

=============================================================================
