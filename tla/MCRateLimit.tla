---------------------------- MODULE MCRateLimit ----------------------------
(* Constants of the run of RateLimit.                                      *)
EXTENDS RateLimit, TLC

CONSTANTS s1, s2

MCSlot == {s1, s2}
MCRate == {0, 1, 2}
MCSymmetry == Permutations(MCSlot)
=============================================================================
