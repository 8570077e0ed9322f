----------------------------- MODULE MCRegistry -----------------------------
(* Constants of the run of Registry.                                       *)
EXTENDS Registry

CONSTANTS r1, r2, r3

MCRequest == {r1, r2, r3}

(* The requests are interchangeable in Spec: a request that waits for a    *)
(* load or for a token ends or gets its config, also when the one that     *)
(* holds the lock fails.  (registry.py load, oauth2.py _ensure_token)      *)
FirstPassesLocks == LocksPassOn(r1)
=============================================================================
