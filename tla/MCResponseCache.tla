-------------------------- MODULE MCResponseCache --------------------------
(* Constants of the run of ResponseCache.                                  *)
EXTENDS ResponseCache, TLC

CONSTANTS s1, s2, k1, k2, k3, v1, v2

MCSlot == {s1, s2}
MCKey == {k1, k2, k3}
MCVendor == {v1, v2}
MCOwner == k1 :> v1 @@ k2 :> v1 @@ k3 :> v2
MCVendorTTL == {1}
MCOverride == {None, 0, 2}
MCSymmetry == Permutations(MCSlot) \cup Permutations({k1, k2})
=============================================================================
