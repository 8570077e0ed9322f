------------------------------- MODULE Quota -------------------------------
(***************************************************************************)
(* The quota counters of src/gateway/quota/tracker.py over several periods *)
(* and API keys of one vendor, while an administrator changes limits and   *)
(* periods.  A proxied request reads an API key's row once, checks the     *)
(* counter of the period it is then in, calls the vendor, and counts on    *)
(* the counter of the period it is in afterwards, with what it read.       *)
(*                                                                         *)
(* Slots stand for the requests served at a time, each used by any number  *)
(* of requests one after the other.  A counter in Redis is 0 when its key  *)
(* does not exist, and has 0 left when it does not expire.                 *)
(***************************************************************************)
EXTENDS Integers, FiniteSets

CONSTANTS Slot,       \* requests served at a time: the connection pool
          Key,        \* active API keys of the vendor
          None,       \* NULL in a row, a field left out of a body
          Limits,     \* values of quota_limit
          FirstRow,   \* limit and period of each API key at first
          Length,     \* of each period, the lengths it may have
          PeriodTTL,  \* period_ttl
          LastNo,     \* bound: number of the last day and of the last month
          MaxFaults,  \* bound: commands that raise and crashes
          MaxUpdates, \* bound: changes by the administrator
          MaxRequests \* bound: requests to which a quota applies

Period == {"daily", "monthly"}

Row == [limit : Limits \cup {None}, period : Period \cup {None}]

ASSUME QuotaAssumption ==
  /\ FirstRow \in [Key -> Row]
  /\ Limits \subseteq Int /\ None \notin Limits /\ None \notin Period
  /\ IsFiniteSet(Slot) /\ Slot # {} /\ LastNo \in [Period -> Nat]
  /\ MaxFaults \in Nat /\ MaxUpdates \in Nat /\ MaxRequests \in Nat
  /\ PeriodTTL \in [Period -> Nat]
  /\ \A p \in Period : \A n \in Length[p] : n \in 1..PeriodTTL[p]

VARIABLES no,         \* number of the current day and of the current month
          rest,       \* units of time until the next one
          row,        \* quota_limit and quota_period of an API key
          at,         \* where the request of a slot stands
          req,        \* the row it read, and the period it is about to use
          count,      \* the counters in Redis
          left,       \* units of time until a counter expires
          counted,    \* auxiliary: increments made on a counter, ever
          unchecked,  \* auxiliary: requests let through because a check raised
          leaked,     \* auxiliary: counters whose EXPIRE was lost
          top,        \* auxiliary: the largest limit a row has had
          faults,     \* auxiliary: what has been used of the three bounds
          updates,
          requests

clock == <<no, rest>>
redis == <<count, left>>
aux == <<counted, unchecked, leaked, top>>
bounds == <<faults, updates, requests>>
vars == <<clock, row, at, req, redis, aux, bounds>>

Bucket ==
  UNION {[key : Key, period : {p}, no : 0..LastNo[p]] : p \in Period}
Read == [key : Key, limit : Limits, period : Period, no : Nat]
Stage == {"idle", "check", "refused", "call", "incr", "expire"}

(* quota_key: the counter a request is about to use.                       *)
QuotaKey(s) == [key |-> req[s].key, period |-> req[s].period, no |-> req[s].no]

TypeOK ==
  /\ \A p \in Period : no[p] \in 0..LastNo[p]
  /\ \A p \in Period : rest[p] \in 1..PeriodTTL[p]
  /\ row \in [Key -> Row]
  /\ at \in [Slot -> Stage]
  /\ req \in [Slot -> Read \cup {None}]
  /\ \A s \in Slot : at[s] # "idle" => req[s] \in Read /\ QuotaKey(s) \in Bucket
  /\ count \in [Bucket -> Nat]
  /\ \A b \in Bucket : left[b] \in 0..PeriodTTL[b.period]
  /\ counted \in [Bucket -> Nat]
  /\ unchecked \in 0..MaxFaults
  /\ leaked \subseteq Bucket
  /\ top \in [Key -> Int]
  /\ faults \in 0..MaxFaults /\ updates \in 0..MaxUpdates
  /\ requests \in 0..MaxRequests

Init ==
  /\ no = [p \in Period |-> 0]
  /\ rest \in [Period -> UNION {Length[p] : p \in Period}]
  /\ \A p \in Period : rest[p] \in Length[p]
  /\ row = FirstRow
  /\ at = [s \in Slot |-> "idle"]
  /\ req = [s \in Slot |-> None]
  /\ count = [b \in Bucket |-> 0]
  /\ left = [b \in Bucket |-> 0]
  /\ counted = [b \in Bucket |-> 0]
  /\ unchecked = 0
  /\ leaked = {}
  /\ top = [k \in Key |-> IF row[k].limit = None THEN 0 ELSE row[k].limit]
  /\ faults = 0 /\ updates = 0 /\ requests = 0

-----------------------------------------------------------------------------
Goto(s, l) == at' = [at EXCEPT ![s] = l]

Fault ==
  /\ faults < MaxFaults /\ faults' = faults + 1
  /\ UNCHANGED <<updates, requests>>

(* datetime.now and period_bucket, before the await of the command.        *)
Stamp(s) == req' = [req EXCEPT ![s].no = no[req[s].period]]

(* A request is over; what it read goes with it.                           *)
End(s) == Goto(s, "idle") /\ req' = [req EXCEPT ![s] = None]

Incremented(b) ==
  /\ count' = [count EXCEPT ![b] = @ + 1]
  /\ counted' = [counted EXCEPT ![b] = @ + 1]

-----------------------------------------------------------------------------
(* Faulty variants of the actions below, which the properties must refute. *)

(* check_quota compares with <=.                                           *)
CheckAtLimit(s) ==
  /\ at[s] = "check"
  /\ count[QuotaKey(s)] <= req[s].limit
  /\ Goto(s, "call")
  /\ UNCHANGED <<clock, row, req, redis, aux, bounds>>

(* check_quota counts the request that asks.                               *)
RefuseCountingItself(s) ==
  /\ at[s] = "check"
  /\ count[QuotaKey(s)] + 1 >= req[s].limit
  /\ Goto(s, "refused")
  /\ UNCHANGED <<clock, row, req, redis, aux, bounds>>

(* new_count is compared with 0, which it never is.                        *)
IncrFirstUnnoticed(s) ==
  /\ at[s] = "incr"
  /\ count[QuotaKey(s)] = 0
  /\ Incremented(QuotaKey(s))
  /\ End(s)
  /\ UNCHANGED <<clock, row, left, unchecked, leaked, top, bounds>>

(* Every counter gets the TTL of a daily one.                              *)
ExpiredDaily(b) ==
  left' = [left EXCEPT ![b] = IF count[b] > 0 THEN PeriodTTL["daily"] ELSE 0]

(* The TTL is reckoned from the end of the period.                         *)
ExpiredFromReset(b) ==
  left' = [left EXCEPT ![b] = IF count[b] > 0
                              THEN rest[b.period] + PeriodTTL[b.period] ELSE 0]

-----------------------------------------------------------------------------
(* EXPIRE does nothing to a key that does not exist.                       *)
Expired(b) ==
  left' = [left EXCEPT ![b] = IF count[b] > 0 THEN PeriodTTL[b.period] ELSE 0]

(* Without a limit or a period the quota does not apply: nothing of it is  *)
(* read or written for the request.                                        *)
Pass(s) ==
  /\ at[s] = "idle"
  /\ \E k \in Key : row[k].limit = None \/ row[k].period = None
  /\ UNCHANGED vars

(* _load_active_api_key: any active key, no order.                         *)
Load(s) ==
  /\ at[s] = "idle"
  /\ \E k \in Key :
       /\ row[k].limit # None /\ row[k].period # None
       /\ req' = [req EXCEPT ![s] =
                    [key |-> k, limit |-> row[k].limit, period |-> row[k].period,
                     no |-> no[row[k].period]]]
  /\ Goto(s, "check")
  /\ requests < MaxRequests /\ requests' = requests + 1
  /\ UNCHANGED <<clock, row, redis, aux, faults, updates>>

(* check_quota: GET, and current < limit.                                  *)
Check(s) ==
  /\ at[s] = "check"
  /\ count[QuotaKey(s)] < req[s].limit
  /\ Goto(s, "call")
  /\ UNCHANGED <<clock, row, req, redis, aux, bounds>>

(* 429, with limit, use and resets_at.                                     *)
Refuse(s) ==
  /\ at[s] = "check"
  /\ count[QuotaKey(s)] >= req[s].limit
  /\ Goto(s, "refused")
  /\ UNCHANGED <<clock, row, req, redis, aux, bounds>>

(* check_quota raises: allowed = True.                                     *)
FailOpen(s) ==
  /\ at[s] = "check"
  /\ Fault
  /\ unchecked' = unchecked + 1
  /\ Goto(s, "call")
  /\ UNCHANGED <<clock, row, req, redis, counted, leaked, top>>

(* A refused request ends, as does one answered from the cache or by       *)
(* another's call, and one whose call fails: none of them counts.          *)
Leave(s) ==
  /\ at[s] \in {"refused", "call"}
  /\ End(s)
  /\ UNCHANGED <<clock, row, redis, aux, bounds>>

(* The vendor's 2xx response is cached and published: increment_quota.     *)
Succeed(s) ==
  /\ at[s] = "call"
  /\ Stamp(s)
  /\ Goto(s, "incr")
  /\ UNCHANGED <<clock, row, redis, aux, bounds>>

(* INCR returns 1 to the request that creates the counter.                 *)
IncrFirst(s) ==
  /\ at[s] = "incr"
  /\ count[QuotaKey(s)] = 0
  /\ Incremented(QuotaKey(s))
  /\ Goto(s, "expire")
  /\ UNCHANGED <<clock, row, req, left, unchecked, leaked, top, bounds>>

IncrLater(s) ==
  /\ at[s] = "incr"
  /\ count[QuotaKey(s)] > 0
  /\ Incremented(QuotaKey(s))
  /\ End(s)
  /\ UNCHANGED <<clock, row, left, unchecked, leaked, top, bounds>>

Expire(s) ==
  /\ at[s] = "expire"
  /\ Expired(QuotaKey(s))
  /\ End(s)
  /\ UNCHANGED <<clock, row, count, aux, bounds>>

(* INCR raises, executed or not; proxy() swallows it and sends no EXPIRE.  *)
IncrRaises(s) ==
  /\ at[s] = "incr"
  /\ \/ UNCHANGED <<count, counted, leaked>>
     \/ /\ Incremented(QuotaKey(s))
        /\ leaked' = IF count[QuotaKey(s)] = 0 THEN leaked \cup {QuotaKey(s)}
                                               ELSE leaked
  /\ Fault
  /\ End(s)
  /\ UNCHANGED <<clock, row, left, unchecked, top>>

(* EXPIRE raises, executed or not.                                         *)
ExpireRaises(s) ==
  /\ at[s] = "expire"
  /\ \/ Expired(QuotaKey(s)) /\ UNCHANGED leaked
     \/ leaked' = leaked \cup {QuotaKey(s)} /\ UNCHANGED left
  /\ Fault
  /\ End(s)
  /\ UNCHANGED <<clock, row, count, counted, unchecked, top>>

(* The process dies with its requests; rows and counters stay.             *)
Crash ==
  /\ Fault
  /\ \E s \in Slot : at[s] # "idle"
  /\ at' = [s \in Slot |-> "idle"]
  /\ req' = [s \in Slot |-> None]
  /\ leaked' = leaked \cup {QuotaKey(s) : s \in {t \in Slot : at[t] = "expire"}}
  /\ UNCHANGED <<clock, row, redis, counted, unchecked, top>>

(* PUT /admin/vendors/{id}/quota commits: a field left out, or equal to    *)
(* what was read, is not written.                                          *)
UpdateQuota(k) ==
  /\ \E l \in Limits \cup {None}, p \in Period \cup {None} :
       /\ row' = [row EXCEPT ![k] = [limit |-> IF l = None THEN @.limit ELSE l,
                                     period |-> IF p = None THEN @.period ELSE p]]
       /\ top' = [top EXCEPT ![k] = IF l # None /\ l > @ THEN l ELSE @]
  /\ updates < MaxUpdates /\ updates' = updates + 1
  /\ UNCHANGED <<clock, at, req, redis, counted, unchecked, leaked, faults, requests>>

(* One unit of time: periods end by the gateway's clock, counters expire   *)
(* by Redis's.  A new month may be longer than the last.                   *)
Tick ==
  /\ \A p \in Period : rest[p] = 1 => no[p] < LastNo[p]
  /\ no' = [p \in Period |-> IF rest[p] = 1 THEN no[p] + 1 ELSE no[p]]
  /\ \E n \in Length["daily"], m \in Length["monthly"] :
       rest' = [p \in Period |-> IF rest[p] > 1 THEN rest[p] - 1
                                 ELSE IF p = "daily" THEN n ELSE m]
  /\ left' = [b \in Bucket |-> IF left[b] = 0 THEN 0 ELSE left[b] - 1]
  /\ count' = [b \in Bucket |-> IF left[b] = 1 THEN 0 ELSE count[b]]
  /\ UNCHANGED <<row, at, req, aux, bounds>>

-----------------------------------------------------------------------------
Serve(s) ==
  \/ Pass(s) \/ Load(s) \/ Check(s) \/ Refuse(s) \/ FailOpen(s) \/ Leave(s)
  \/ Succeed(s) \/ IncrFirst(s) \/ IncrLater(s) \/ Expire(s)
  \/ IncrRaises(s) \/ ExpireRaises(s)

Next ==
  \/ \E s \in Slot : Serve(s)
  \/ \E k \in Key : UpdateQuota(k)
  \/ Crash
  \/ Tick

Spec == Init /\ [][Next]_vars

-----------------------------------------------------------------------------
Current(b) == b.no = no[b.period]

(* While its period lasts a counter misses no increment: however late its  *)
(* EXPIRE comes, whoever created it, it does not expire before its period  *)
(* is over.  (tracker.py increment_quota, period_ttl)                      *)
NoCountLost == \A b \in Bucket : Current(b) => count[b] = counted[b]

(* A request is refused only when the limit it read has been used up, on   *)
(* the key it read, in the very period in which it asked: no earlier       *)
(* period, other key or counter of the other kind of period weighs on it.  *)
(* (tracker.py check_quota, quota_key)                                     *)
RefusedWhenUsedUp ==
  \A s \in Slot : at[s] = "refused" => counted[QuotaKey(s)] >= req[s].limit

(* Whenever midnight falls and the limits change, a period's counter       *)
(* exceeds the largest limit its key has had by less than the number of    *)
(* requests served at a time, not counting those let through unchecked.    *)
(* (proxy.py quota pre-check; tracker.py check_quota, increment_quota)     *)
OvershootBounded ==
  \A b \in Bucket :
    counted[b] > unchecked =>
      counted[b] < top[b.key] + Cardinality(Slot) + unchecked

(* Each counter expires some time, or is about to be told to, unless the   *)
(* EXPIRE after its first INCR was lost.  (tracker.py increment_quota)     *)
CountersExpire ==
  \A b \in Bucket : count[b] > 0 /\ left[b] = 0 =>
    b \in leaked \/ \E s \in Slot : at[s] = "expire" /\ QuotaKey(s) = b
=============================================================================
