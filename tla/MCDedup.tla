------------------------------ MODULE MCDedup ------------------------------
(* Constants of the runs of Dedup.  One unit of time stands for 30 s: the  *)
(* TTLs keep the proportions of dedup.py (30, 60 and 30 seconds), and a    *)
(* hold may last one unit longer than the lock.                            *)
EXTENDS DedupRefinement, TLC

CONSTANTS r1, r2, r3, k1, k2

MCRequest == {r1, r2, r3}
MCKey == {k1, k2}

(* Requests and keys are only compared: no action or invariant names one.  *)
Symmetry == Permutations(MCRequest) \cup Permutations(MCKey)
=============================================================================
