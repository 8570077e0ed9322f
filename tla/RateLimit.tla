----------------------------- MODULE RateLimit -----------------------------
(***************************************************************************)
(* The token bucket of one vendor in src/gateway/middleware/rate_limit.py. *)
(*                                                                         *)
(* Tokens are counted in parts: a token is Window (60) parts, so that at r *)
(* requests a minute the bucket gains r parts a second, holds r * Window   *)
(* at most, and all of the script's arithmetic is in integers.  The script *)
(* runs atomically in Redis, but with the time and the rpm its caller read *)
(* before the await: scripts may run out of the order of their times, and  *)
(* with the rpm of registries that are fresh, stale or empty, each on the  *)
(* same bucket.  The clocks of the gateways and of Redis are one.          *)
(***************************************************************************)
EXTENDS Integers

CONSTANTS Slot,      \* requests that can be under way at once
          Rate,      \* the vendor's rpm, by any host's registry or setting
          Top,       \* the largest of them
          Window,    \* seconds of refill in a full bucket
          MaxDelay,  \* longest time between time.time() and the script
          MaxClock   \* bound of the model on the clock

ASSUME RateLimitAssumption ==
  /\ Rate \subseteq Nat /\ Top \in Nat /\ \A r \in Rate : r <= Top
  /\ Window \in Nat \ {0} /\ MaxDelay \in Nat /\ MaxClock \in Nat

VARIABLES clock,
          busy,     \* slots whose request has read rpm and time
          now,      \* the time a request has read
          rpm,      \* the rpm it has read
          credit,   \* tokens, in parts
          last,     \* last_refill
          dies,     \* when the key expires, or Absent, or NoTTL
          start,    \* auxiliary: start of the interval observed
          spent,    \* auxiliary: parts that were allowed since
          slipped,  \* auxiliary: a script since came before one of a later time
          rate,     \* auxiliary: rpm of the last script since
          mixed     \* auxiliary: scripts since had more than one rpm

NoTTL == -1   \* as Redis's TTL answers
Absent == 0
NoRate == -1

bucket == <<credit, last, dies>>
observed == <<start, spent, slipped, rate, mixed>>
vars == <<clock, busy, now, rpm, bucket, observed>>

TypeOK ==
  /\ clock \in Nat
  /\ busy \subseteq Slot
  /\ now \in [Slot -> Nat] /\ rpm \in [Slot -> Rate \cup {NoRate}]
  /\ \A s \in busy : rpm[s] \in Rate
  /\ credit \in Int /\ credit <= Top * Window
  /\ last \in Nat /\ dies \in Nat \cup {NoTTL}
  /\ start \in Nat /\ spent \in Nat
  /\ slipped \in BOOLEAN /\ mixed \in BOOLEAN
  /\ rate \in Rate \cup {NoRate}

Init ==
  /\ clock = 0
  /\ busy = {} /\ now = [s \in Slot |-> 0] /\ rpm = [s \in Slot |-> NoRate]
  /\ credit = 0 /\ last = 0 /\ dies = Absent
  /\ start = 0 /\ spent = 0
  /\ slipped = FALSE /\ rate = NoRate /\ mixed = FALSE

-----------------------------------------------------------------------------
Exists == dies = NoTTL \/ clock < dies

Capacity(r) == r * Window

-----------------------------------------------------------------------------
(* Faulty variants of the definitions below, which the properties must     *)
(* refute.                                                                 *)

(* The key expires as soon as an empty bucket would have refilled.         *)
TTLWithoutMargin == Window

(* The refill is not capped at the capacity.                               *)
RefilledUncapped(t, r) ==
  IF Exists THEN credit + (t - last) * r ELSE Capacity(r)

-----------------------------------------------------------------------------
TTL == Window + 1   \* math.ceil(capacity / refill_rate) + 1

(* The bucket once refilled at time t; an absent one is full.  Nothing     *)
(* keeps t from being earlier than last_refill.                            *)
Refilled(t, r) ==
  LET sum == credit + (t - last) * r IN
  IF Exists /\ sum < Capacity(r) THEN sum ELSE Capacity(r)

-----------------------------------------------------------------------------
(* The middleware reads the rpm of its registry, or the default where that *)
(* does not know the vendor, and the time.                                 *)
ReadTime(s) ==
  /\ s \notin busy
  /\ busy' = busy \cup {s}
  /\ now' = [now EXCEPT ![s] = clock]
  /\ \E r \in Rate : rpm' = [rpm EXCEPT ![s] = r]
  /\ UNCHANGED <<clock, bucket, observed>>

Leave(s) ==
  /\ busy' = busy \ {s}
  /\ now' = [now EXCEPT ![s] = 0] /\ rpm' = [rpm EXCEPT ![s] = NoRate]

(* Auxiliary: what the observer notes of a script.                         *)
Noted(s, paid) ==
  /\ spent' = spent + paid
  /\ slipped' = (slipped \/ (Exists /\ now[s] < last))
  /\ rate' = rpm[s]
  /\ mixed' = (mixed \/ rate \notin {NoRate, rpm[s]})
  /\ UNCHANGED start

(* HSET and EXPIRE.                                                        *)
Write(s, paid) ==
  /\ credit' = Refilled(now[s], rpm[s]) - paid
  /\ last' = now[s]
  /\ dies' = clock + TTL
  /\ Leave(s)
  /\ Noted(s, paid)
  /\ UNCHANGED clock

Allow(s) ==
  /\ s \in busy /\ rpm[s] > 0
  /\ Refilled(now[s], rpm[s]) >= Window
  /\ Write(s, Window)

Deny(s) ==
  /\ s \in busy /\ rpm[s] > 0
  /\ Refilled(now[s], rpm[s]) < Window
  /\ Write(s, 0)

(* At rpm 0, the default of a new vendor, the script empties the bucket,   *)
(* and computes 0/0 for EXPIRE, which raises: the key keeps its TTL, or    *)
(* has none if it is new, and the request passes.                          *)
ZeroRate(s) ==
  /\ s \in busy /\ rpm[s] = 0
  /\ credit' = Refilled(now[s], 0)
  /\ last' = now[s]
  /\ dies' = IF Exists THEN dies ELSE NoTTL
  /\ Leave(s)
  /\ Noted(s, 0)
  /\ UNCHANGED clock

(* EVAL raises before the script runs: the request passes, unaccounted.    *)
EvalRaises(s) ==
  /\ s \in busy
  /\ Leave(s)
  /\ UNCHANGED <<clock, bucket, observed>>

Tick ==
  /\ clock < MaxClock
  /\ \A s \in busy : clock - now[s] < MaxDelay
  /\ clock' = clock + 1
  /\ UNCHANGED <<busy, now, rpm, bucket, observed>>

(* Auxiliary: the observer begins a new interval.                          *)
Observe ==
  /\ start' = clock /\ spent' = 0
  /\ slipped' = FALSE /\ rate' = NoRate /\ mixed' = FALSE
  /\ UNCHANGED <<clock, busy, now, rpm, bucket>>

Next ==
  \/ \E s \in Slot :
       ReadTime(s) \/ Allow(s) \/ Deny(s) \/ ZeroRate(s) \/ EvalRaises(s)
  \/ Tick \/ Observe

Spec == Init /\ [][Next]_vars

-----------------------------------------------------------------------------
(* Over any interval the scripts allow a burst of the largest capacity,    *)
(* plus what refills in the interval, plus what refills in the delay of a  *)
(* request: neither times out of order nor hosts that disagree about the   *)
(* rpm, be it 0 for some, nor the key's expiry give anything away.  Only   *)
(* both of the first two in one interval may: a bucket set back at one rpm *)
(* and forward at another gains by it.                                     *)
(* (rate_limit.py _TOKEN_BUCKET_LUA, check_rate_limit, dispatch)           *)
RateBounded ==
  ~(slipped /\ mixed) => spent <= Top * (Window + (clock - start) + MaxDelay)
=============================================================================
