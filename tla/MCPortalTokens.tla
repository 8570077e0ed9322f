--------------------------- MODULE MCPortalTokens ---------------------------
(* Constants of the run of PortalTokens.                                   *)
EXTENDS PortalTokens

CONSTANTS r1, r2, r3

MCBearer == {r1, r2, r3}
=============================================================================
