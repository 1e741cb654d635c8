------------------------------ MODULE MCLogStore ------------------------------
\* Instances of SignedLog, and so of LogStore, for TLC: the constants are model
\* values given in the configurations; payloads are interchangeable.
EXTENDS SignedLog, TLC

Symmetry == Permutations(Payload)
===============================================================================
