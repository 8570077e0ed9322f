------------------------------- MODULE MCJwks -------------------------------
(* Constants of the run of Jwks.                                           *)
EXTENDS Jwks, TLC

CONSTANTS r1, r2, k1, k2

MCRequest == {r1, r2}
MCKey == {k1, k2}

(* The properties are about safety and tell no request from another.       *)
Symmetry == Permutations(MCRequest)
=============================================================================
