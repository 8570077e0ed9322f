-------------------------- MODULE DedupRefinement --------------------------
(* How Dedup implements SharedCalls: the waiting states are one, the block *)
(* of dedup_context has a call in flight, and a call is late once its      *)
(* request has held the lock for LockTTL.                                  *)
EXTENDS Dedup

Place(l) ==
  CASE l \in {"acquire"} \cup WaitPC -> "asking"
    [] l = "call" -> "calling"
    [] l \in {"store", "publish", "release"} -> "settled"
    [] l = "done" -> "ended"
    [] l = "lost" -> "gone"
    [] l = "idle" -> "idle"

SharedState == [r \in Request |-> Place(pc[r])]

LateKeys == {k \in Key : Overrun(k)}

Shared == INSTANCE SharedCalls WITH
  state <- SharedState, want <- key, answer <- source, late <- LateKeys

(* Whatever Redis, the vendor and the process do, the lock, the stored     *)
(* result and the channel together do no more than share calls: one in     *)
(* flight per key unless one was late, each response handed on only by the *)
(* request that got it and only to requests of its key, and nobody both    *)
(* calls and waits.  (dedup.py dedup_context, dedup_publish, dedup_wait)   *)
SharesCalls == Shared!Spec
=============================================================================
