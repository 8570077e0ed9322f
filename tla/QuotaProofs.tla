---------------------------- MODULE QuotaProofs ----------------------------
(***************************************************************************)
(* Theorems about Quota for every set of slots and API keys, all lengths   *)
(* of the periods and all TTLs that cover them.                            *)
(***************************************************************************)
EXTENDS Quota, FiniteSetTheorems, TLAPS

(* The part of the types the theorems need: a request in progress has a    *)
(* counter to use, of a period that is not in the future.                  *)
TypeInv ==
  /\ no \in [Period -> Nat]
  /\ rest \in [Period -> Nat] /\ \A p \in Period : rest[p] \in 1..PeriodTTL[p]
  /\ at \in [Slot -> Stage]
  /\ DOMAIN req = Slot
  /\ \A s \in Slot : at[s] # "idle" =>
       /\ req[s] \in Read /\ QuotaKey(s) \in Bucket
       /\ req[s].no <= no[req[s].period]
  /\ count \in [Bucket -> Nat] /\ left \in [Bucket -> Nat]
  /\ counted \in [Bucket -> Nat]
  /\ row \in [Key -> Row]
  /\ \A p \in Period : no[p] \in 0..LastNo[p]

(* Why no increment of a current period is lost: a counter that expires at *)
(* all does so after the end of its period, and one of a future period has *)
(* not been used.                                                          *)
Covered(b) == Current(b) /\ left[b] > 0 => left[b] >= rest[b.period]
Unused(b) == b.no > no[b.period] => count[b] = 0 /\ left[b] = 0 /\ counted[b] = 0
Kept(b) == Current(b) => count[b] = counted[b]
Alive(b) == count[b] <= counted[b] /\ (count[b] = 0 => left[b] = 0)

CounterInv ==
  TypeInv /\ \A b \in Bucket : Covered(b) /\ Unused(b) /\ Kept(b) /\ Alive(b)

LEMMA BucketParts ==
  ASSUME NEW b \in Bucket
  PROVE  b.key \in Key /\ b.period \in Period /\ b.no \in 0..LastNo[b.period]
BY DEF Bucket

LEMMA BucketOf ==
  ASSUME NEW k \in Key, NEW p \in Period, NEW n \in 0..LastNo[p]
  PROVE  [key |-> k, period |-> p, no |-> n] \in Bucket
BY DEF Bucket

LEMMA BucketFields ==
  ASSUME NEW b \in Bucket
  PROVE  b = [key |-> b.key, period |-> b.period, no |-> b.no]
BY DEF Bucket

LEMMA CounterInit == Init => CounterInv
<1> SUFFICES ASSUME Init PROVE CounterInv
  OBVIOUS
<1>1. TypeInv
  <2>1. \A p \in Period : rest[p] \in 1..PeriodTTL[p] /\ PeriodTTL[p] \in Nat
    BY QuotaAssumption DEF Init
  <2>2. rest \in [Period -> Nat]
    BY <2>1 DEF Init
  <2>3. \A p \in Period : no[p] \in 0..LastNo[p]
    BY QuotaAssumption DEF Init
  <2> QED
    BY <2>1, <2>2, <2>3, QuotaAssumption DEF Init, TypeInv, Stage
<1>2. \A b \in Bucket : no[b.period] = 0 /\ b.no >= 0
  BY BucketParts, QuotaAssumption DEF Init
<1> QED
  BY <1>1, <1>2 DEF Init, CounterInv, Covered, Unused, Kept, Alive

(* What a step does to one counter b, given what it does to the clock.     *)
Same(b) == UNCHANGED <<count[b], left[b], counted[b]>>

LEMMA CounterFrame ==
  ASSUME CounterInv, TypeInv', UNCHANGED <<clock, count, left, counted>>
  PROVE  CounterInv'
BY DEF CounterInv, Covered, Unused, Kept, Alive, Current, clock

(* An increment of a counter of the current or an earlier period.          *)
LEMMA CounterIncremented ==
  ASSUME CounterInv, TypeInv', NEW c \in Bucket, c.no <= no[c.period],
         Incremented(c), UNCHANGED <<clock, left>>
  PROVE  CounterInv'
<1>1. \A b \in Bucket : b # c => count'[b] = count[b] /\ counted'[b] = counted[b]
  BY DEF CounterInv, TypeInv, Incremented
<1>2. count'[c] = count[c] + 1 /\ counted'[c] = counted[c] + 1
  BY DEF CounterInv, TypeInv, Incremented
<1>3. count[c] \in Nat /\ counted[c] \in Nat /\ c.no \in Nat
  BY BucketParts, QuotaAssumption DEF CounterInv, TypeInv
<1>4. c.period \in Period /\ no[c.period] \in Nat
  BY BucketParts DEF CounterInv, TypeInv
<1>5. ASSUME NEW b \in Bucket
      PROVE  (Covered(b) /\ Unused(b) /\ Kept(b) /\ Alive(b))'
  <2>1. CASE b = c
    BY <1>2, <1>3, <1>4, <2>1
    DEF CounterInv, Covered, Unused, Kept, Alive, Current, clock
  <2>2. CASE b # c
    BY <1>1, <2>2 DEF CounterInv, Covered, Unused, Kept, Alive, Current, clock
  <2> QED
    BY <2>1, <2>2
<1> QED
  BY <1>5 DEF CounterInv

(* An EXPIRE: the TTL covers what is left of any period.                   *)
LEMMA CounterExpired ==
  ASSUME CounterInv, TypeInv', NEW c \in Bucket, c.no <= no[c.period],
         Expired(c), UNCHANGED <<clock, count, counted>>
  PROVE  CounterInv'
<1>1. \A b \in Bucket : b # c => left'[b] = left[b]
  BY DEF CounterInv, TypeInv, Expired
<1>2. left'[c] = IF count[c] > 0 THEN PeriodTTL[c.period] ELSE 0
  BY DEF CounterInv, TypeInv, Expired
<1>3. /\ c.period \in Period /\ no[c.period] \in Nat /\ c.no \in Nat
      /\ PeriodTTL[c.period] \in Nat /\ rest[c.period] \in 1..PeriodTTL[c.period]
      /\ count[c] \in Nat
  BY BucketParts, QuotaAssumption DEF CounterInv, TypeInv
<1>4. ASSUME NEW b \in Bucket
      PROVE  (Covered(b) /\ Unused(b) /\ Kept(b) /\ Alive(b))'
  <2>1. CASE b = c
    BY <1>2, <1>3, <2>1
    DEF CounterInv, Covered, Unused, Kept, Alive, Current, clock
  <2>2. CASE b # c
    BY <1>1, <2>2 DEF CounterInv, Covered, Unused, Kept, Alive, Current, clock
  <2> QED
    BY <2>1, <2>2
<1> QED
  BY <1>4 DEF CounterInv

LEMMA CounterTick ==
  ASSUME CounterInv, TypeInv', Tick
  PROVE  CounterInv'
<1> SUFFICES ASSUME NEW b \in Bucket
             PROVE  (Covered(b) /\ Unused(b) /\ Kept(b) /\ Alive(b))'
  BY DEF CounterInv
<1> DEFINE p == b.period
<1>1. /\ p \in Period /\ no[p] \in Nat /\ rest[p] \in Nat /\ rest[p] >= 1
      /\ b.no \in Nat /\ count[b] \in Nat /\ left[b] \in Nat /\ counted[b] \in Nat
  BY BucketParts, QuotaAssumption DEF CounterInv, TypeInv
<1>2. /\ no'[p] = IF rest[p] = 1 THEN no[p] + 1 ELSE no[p]
      /\ rest[p] > 1 => rest'[p] = rest[p] - 1
  BY <1>1 DEF Tick
<1>3. /\ left'[b] = IF left[b] = 0 THEN 0 ELSE left[b] - 1
      /\ count'[b] = IF left[b] = 1 THEN 0 ELSE count[b]
      /\ counted'[b] = counted[b]
  BY DEF Tick, aux
<1>4. Covered(b) /\ Unused(b) /\ Kept(b) /\ Alive(b)
  BY DEF CounterInv
<1>5. CASE rest[p] > 1
  BY <1>1, <1>2, <1>3, <1>4, <1>5 DEF Covered, Unused, Kept, Alive, Current
<1>6. CASE rest[p] = 1
  BY <1>1, <1>2, <1>3, <1>4, <1>6 DEF Covered, Unused, Kept, Alive, Current
<1> QED
  BY <1>1, <1>5, <1>6

LEMMA TypeTick == ASSUME TypeInv, Tick PROVE TypeInv'
<1>1. PICK n \in Length["daily"], m \in Length["monthly"] :
        rest' = [p \in Period |-> IF rest[p] > 1 THEN rest[p] - 1
                                  ELSE IF p = "daily" THEN n ELSE m]
  BY DEF Tick
<1>2. \A p \in Period : no'[p] = (IF rest[p] = 1 THEN no[p] + 1 ELSE no[p])
  BY DEF Tick
<1>3. \A p \in Period : rest[p] = 1 => no[p] < LastNo[p]
  BY DEF Tick
<1>4. no' \in [Period -> Nat] /\ \A p \in Period : no'[p] \in 0..LastNo[p]
  BY <1>2, <1>3, QuotaAssumption DEF Tick, TypeInv
<1>5. \A p \in Period : rest'[p] \in 1..PeriodTTL[p]
  <2> SUFFICES ASSUME NEW p \in Period PROVE rest'[p] \in 1..PeriodTTL[p]
    OBVIOUS
  <2>1. PeriodTTL[p] \in Nat /\ rest[p] \in 1..PeriodTTL[p]
    BY QuotaAssumption DEF TypeInv
  <2>2. p = "daily" \/ p = "monthly"
    BY DEF Period
  <2>3. /\ p = "daily" => n \in 1..PeriodTTL[p]
        /\ p = "monthly" => m \in 1..PeriodTTL[p]
    BY QuotaAssumption
  <2> QED
    BY <1>1, <2>1, <2>2, <2>3
<1>6. rest' \in [Period -> Nat]
  BY <1>1, <1>5, QuotaAssumption
<1>7. /\ count' \in [Bucket -> Nat] /\ left' \in [Bucket -> Nat]
      /\ counted' \in [Bucket -> Nat]
  BY DEF Tick, TypeInv, aux
<1>8. UNCHANGED <<at, req, row>> /\ \A s : QuotaKey(s)' = QuotaKey(s)
  BY DEF Tick, QuotaKey
<1>9. \A s \in Slot : at[s] # "idle" => req[s].no <= no'[req[s].period]
  <2> SUFFICES ASSUME NEW s \in Slot, at[s] # "idle"
               PROVE  req[s].no <= no'[req[s].period]
    OBVIOUS
  <2>1. req[s].period \in Period /\ req[s].no \in Nat
        /\ req[s].no <= no[req[s].period] /\ no[req[s].period] \in Nat
    BY DEF TypeInv, Read
  <2> QED
    BY <1>2, <2>1
<1> QED
  BY <1>4, <1>5, <1>6, <1>7, <1>8, <1>9 DEF TypeInv

(* A step of a request: what it reads and stamps stays in range.           *)
LEMMA TypeServe ==
  ASSUME TypeInv, NEW s \in Slot, Serve(s), ~Pass(s)
  PROVE  TypeInv'
<1> USE DEF TypeInv, Goto, Stage
<1>1. UNCHANGED <<no, rest, row>>
  BY DEF Serve, Load, Check, Refuse, FailOpen, Leave, Succeed, IncrFirst,
         IncrLater, Expire, IncrRaises, ExpireRaises, clock
<1>2. /\ count' \in [Bucket -> Nat] /\ counted' \in [Bucket -> Nat]
      /\ left' \in [Bucket -> Nat]
  <2>1. \A b \in Bucket : Incremented(b) => /\ count' \in [Bucket -> Nat]
                                            /\ counted' \in [Bucket -> Nat]
    BY DEF Incremented
  <2>2. \A b \in Bucket : Expired(b) => left' \in [Bucket -> Nat]
    BY BucketParts, QuotaAssumption DEF Expired
  <2>3. at[s] # "idle" => QuotaKey(s) \in Bucket
    OBVIOUS
  <2>4. CASE at[s] = "incr" /\ Incremented(QuotaKey(s)) /\ UNCHANGED left
    BY <2>1, <2>3, <2>4
  <2>5. CASE UNCHANGED <<count, counted>> /\ at[s] # "idle" /\ Expired(QuotaKey(s))
    BY <2>2, <2>3, <2>5
  <2>6. CASE UNCHANGED <<count, counted, left>>
    BY <2>6
  <2> QED
    BY <2>4, <2>5, <2>6
    DEF Serve, Load, Check, Refuse, FailOpen, Leave, Succeed, IncrFirst,
        IncrLater, Expire, IncrRaises, ExpireRaises, redis, aux
<1>3. at' \in [Slot -> Stage]
  BY DEF Serve, Load, Check, Refuse, FailOpen, Leave, Succeed, IncrFirst,
         IncrLater, Expire, IncrRaises, ExpireRaises, End
<1>4. /\ DOMAIN req' = Slot
      /\ \A t \in Slot : t # s => req'[t] = req[t] /\ at'[t] = at[t]
  BY DEF Serve, Load, Check, Refuse, FailOpen, Leave, Succeed, IncrFirst,
         IncrLater, Expire, IncrRaises, ExpireRaises, End, Stamp
<1>5. at'[s] # "idle" => /\ req'[s] \in Read /\ QuotaKey(s)' \in Bucket
                         /\ req'[s].no <= no[req'[s].period]
  <2>1. CASE Load(s)
    <3>1. PICK k \in Key :
            /\ row[k].limit # None /\ row[k].period # None
            /\ req'[s] = [key |-> k, limit |-> row[k].limit,
                          period |-> row[k].period, no |-> no[row[k].period]]
      BY <2>1 DEF Load
    <3>2. row[k].limit \in Limits /\ row[k].period \in Period
      BY <3>1 DEF Row
    <3>3. req'[s] \in Read /\ no[row[k].period] \in Nat
          /\ no[row[k].period] \in 0..LastNo[row[k].period]
      BY <3>1, <3>2 DEF Read
    <3> QED
      BY <3>1, <3>2, <3>3, BucketOf DEF QuotaKey
  <2>2. CASE Succeed(s)
    <3>1. /\ req[s] \in Read /\ no[req[s].period] \in Nat
          /\ no[req[s].period] \in 0..LastNo[req[s].period]
      BY <2>2 DEF Succeed, Read
    <3>2. req'[s] = [req[s] EXCEPT !.no = no[req[s].period]]
      BY <2>2 DEF Succeed, Stamp
    <3>3. /\ req'[s] \in Read /\ req'[s].no = no[req[s].period]
          /\ req'[s].key = req[s].key /\ req'[s].period = req[s].period
      BY <3>1, <3>2 DEF Read
    <3> QED
      BY <3>1, <3>3, BucketOf DEF QuotaKey, Read
  <2>3. CASE ~Load(s) /\ ~Succeed(s)
    <3>1. at'[s] # "idle" => at[s] # "idle" /\ req' = req
      BY <2>3 DEF Serve, Check, Refuse, FailOpen, Leave, IncrFirst,
                  IncrLater, Expire, IncrRaises, ExpireRaises, End
    <3> QED
      BY <3>1 DEF QuotaKey
  <2> QED
    BY <2>1, <2>2, <2>3
<1> QED
  BY <1>1, <1>2, <1>3, <1>4, <1>5 DEF QuotaKey

LEMMA CounterStep == CounterInv /\ [Next]_vars => CounterInv'
<1> SUFFICES ASSUME CounterInv, [Next]_vars PROVE CounterInv'
  OBVIOUS
<1>0. TypeInv
  BY DEF CounterInv
<1>1. CASE UNCHANGED vars
  <2>1. TypeInv'
    BY <1>0, <1>1 DEF TypeInv, vars, clock, redis, aux, QuotaKey
  <2> QED
    BY <1>1, <2>1, CounterFrame DEF vars, redis, aux
<1>2. ASSUME NEW s \in Slot, Serve(s) PROVE CounterInv'
  <2>1. CASE Pass(s)
    BY <1>1, <2>1 DEF Pass
  <2>2. CASE ~Pass(s)
    <3>0. TypeInv'
      BY <1>0, <1>2, <2>2, TypeServe
    <3>1. at[s] # "idle" =>
            /\ QuotaKey(s) \in Bucket /\ QuotaKey(s).no <= no[QuotaKey(s).period]
      BY <1>0 DEF TypeInv, QuotaKey
    <3>2. CASE \/ Load(s) \/ Check(s) \/ Refuse(s) \/ FailOpen(s)
               \/ Leave(s) \/ Succeed(s)
      BY <3>0, <3>2, CounterFrame
      DEF Load, Check, Refuse, FailOpen, Leave, Succeed, redis, aux
    <3>3. CASE IncrFirst(s) \/ IncrLater(s)
      BY <3>0, <3>1, <3>3, CounterIncremented DEF IncrFirst, IncrLater
    <3>4. CASE IncrRaises(s)
      BY <3>0, <3>1, <3>4, CounterIncremented, CounterFrame DEF IncrRaises
    <3>5. CASE Expire(s) \/ ExpireRaises(s)
      BY <3>0, <3>1, <3>5, CounterExpired, CounterFrame DEF Expire, ExpireRaises, aux
    <3> QED
      BY <1>2, <2>2, <3>2, <3>3, <3>4, <3>5 DEF Serve
  <2> QED
    BY <2>1, <2>2
<1>3. ASSUME NEW k \in Key, UpdateQuota(k) PROVE CounterInv'
  <2>1. row' \in [Key -> Row]
    BY <1>0, <1>3 DEF UpdateQuota, TypeInv, Row
  <2>2. TypeInv'
    BY <1>0, <1>3, <2>1 DEF TypeInv, UpdateQuota, clock, redis, QuotaKey
  <2> QED
    BY <1>3, <2>2, CounterFrame DEF UpdateQuota, redis
<1>4. CASE Crash
  <2>1. TypeInv'
    BY <1>0, <1>4 DEF TypeInv, Crash, clock, redis, Stage
  <2> QED
    BY <1>4, <2>1, CounterFrame DEF Crash, redis
<1>5. CASE Tick
  BY <1>0, <1>5, TypeTick, CounterTick
<1> QED
  BY <1>1, <1>2, <1>3, <1>4, <1>5 DEF Next

(* However late an EXPIRE comes and whoever creates a counter, it misses   *)
(* no increment while its period lasts, for all TTLs that are no shorter   *)
(* than their periods.  (tracker.py increment_quota, period_ttl)           *)
THEOREM IncrementsKept == Spec => []NoCountLost
<1>1. CounterInv => NoCountLost
  BY DEF CounterInv, NoCountLost, Kept
<1> QED
  BY <1>1, CounterInit, CounterStep, PTL DEF Spec

-----------------------------------------------------------------------------
(***************************************************************************)
(* Refusals.  A counter in Redis never shows more than was counted on it,  *)
(* and what was counted is never taken back.                               *)
(***************************************************************************)
RefusalInv == CounterInv /\ RefusedWhenUsedUp

LEMMA CountedGrows ==
  ASSUME CounterInv, [Next]_vars
  PROVE  \A b \in Bucket : counted'[b] \in Nat /\ counted'[b] >= counted[b]
<1>1. counted \in [Bucket -> Nat]
  BY DEF CounterInv, TypeInv
<1>2. ASSUME NEW c \in Bucket, Incremented(c)
      PROVE  \A b \in Bucket : counted'[b] \in Nat /\ counted'[b] >= counted[b]
  BY <1>1, <1>2 DEF Incremented
<1>3. CASE \E s \in Slot : IncrFirst(s) \/ IncrLater(s)
  BY <1>2, <1>3 DEF IncrFirst, IncrLater, CounterInv, TypeInv
<1>4. CASE \E s \in Slot : IncrRaises(s)
  BY <1>1, <1>2, <1>4 DEF IncrRaises, CounterInv, TypeInv
<1>5. CASE UNCHANGED counted
  BY <1>1, <1>5
<1> QED
  BY <1>3, <1>4, <1>5
  DEF Next, vars, aux, Serve, Pass, Load, Check, Refuse, FailOpen, Leave,
      Succeed, Expire, ExpireRaises, UpdateQuota, Crash, Tick

LEMMA RefusalStep == RefusalInv /\ [Next]_vars => RefusalInv'
<1> SUFFICES ASSUME RefusalInv, [Next]_vars PROVE RefusedWhenUsedUp'
  BY CounterStep DEF RefusalInv
<1> USE DEF RefusalInv
<1> SUFFICES ASSUME NEW s \in Slot, at'[s] = "refused"
             PROVE  counted'[QuotaKey(s)'] >= req'[s].limit
  BY DEF RefusedWhenUsedUp
<1>0. TypeInv
  BY DEF CounterInv
<1>1. CASE Refuse(s)
  <2>1. /\ QuotaKey(s) \in Bucket /\ req' = req /\ counted' = counted
        /\ count[QuotaKey(s)] >= req[s].limit /\ req[s].limit \in Int
    BY <1>0, <1>1, QuotaAssumption DEF Refuse, TypeInv, aux, Read
  <2>2. /\ count[QuotaKey(s)] \in Nat /\ counted[QuotaKey(s)] \in Nat
        /\ count[QuotaKey(s)] <= counted[QuotaKey(s)]
    BY <1>0, <2>1 DEF CounterInv, TypeInv, Alive
  <2> QED
    BY <2>1, <2>2 DEF QuotaKey
<1>2. CASE ~Refuse(s)
  <2>1. at[s] = "refused" /\ req'[s] = req[s]
    BY <1>0, <1>2
    DEF Next, vars, Serve, Pass, Load, Check, Refuse, FailOpen, Leave, Succeed,
        IncrFirst, IncrLater, Expire, IncrRaises, ExpireRaises, UpdateQuota,
        Crash, Tick, Goto, Stamp, End, TypeInv
  <2>2. /\ QuotaKey(s) \in Bucket /\ req[s].limit \in Int
        /\ counted[QuotaKey(s)] \in Nat /\ counted[QuotaKey(s)] >= req[s].limit
    BY <1>0, <2>1, QuotaAssumption DEF RefusedWhenUsedUp, TypeInv, Read
  <2> QED
    BY <2>1, <2>2, CountedGrows DEF QuotaKey
<1> QED
  BY <1>1, <1>2

(* A request is refused only when the limit it read was used up on its key *)
(* in its period, whatever expires, raises, crashes or is changed.         *)
(* (tracker.py check_quota, quota_key)                                     *)
THEOREM RefusalsEarned == Spec => []RefusedWhenUsedUp
<1>1. Init => RefusalInv
  BY CounterInit DEF Init, RefusalInv, RefusedWhenUsedUp
<1>2. RefusalInv => RefusedWhenUsedUp
  BY DEF RefusalInv
<1> QED
  BY <1>1, <1>2, RefusalStep, PTL DEF Spec

-----------------------------------------------------------------------------
(***************************************************************************)
(* Expiry.  Only the request whose INCR creates a counter sends EXPIRE, so *)
(* a counter without a TTL has such a request, or its EXPIRE was lost.     *)
(***************************************************************************)
Pending(b) == \E s \in Slot : at[s] = "expire" /\ QuotaKey(s) = b

ExpiryInv == CounterInv /\ CountersExpire

LEMMA ExpiryStep == ExpiryInv /\ [Next]_vars => ExpiryInv'
<1> SUFFICES ASSUME ExpiryInv, [Next]_vars,
                    NEW b \in Bucket, count'[b] > 0, left'[b] = 0
             PROVE  b \in leaked' \/ Pending(b)'
  BY CounterStep DEF ExpiryInv, CountersExpire, Pending
<1>0. /\ TypeInv /\ Alive(b)
      /\ count[b] > 0 /\ left[b] = 0 => b \in leaked \/ Pending(b)
  BY DEF ExpiryInv, CounterInv, CountersExpire, Pending
<1>a. count[b] \in Nat /\ left[b] \in Nat
  BY <1>0 DEF TypeInv
<1>1. ASSUME UNCHANGED <<count, left>>, leaked \subseteq leaked',
             \A t \in Slot : at[t] = "expire" =>
               \/ at'[t] = "expire" /\ req'[t] = req[t]
               \/ QuotaKey(t) \in leaked'
      PROVE  b \in leaked' \/ Pending(b)'
  BY <1>0, <1>1 DEF Pending, QuotaKey
<1>2. ASSUME NEW s \in Slot, Serve(s) PROVE b \in leaked' \/ Pending(b)'
  <2>0. /\ \A t \in Slot : t # s => at'[t] = at[t] /\ req'[t] = req[t]
        /\ ~Pass(s) => leaked \subseteq leaked'
    BY <1>0, <1>2
    DEF TypeInv, Serve, Pass, vars, aux, Load, Check, Refuse, FailOpen, Leave,
        Succeed, IncrFirst, IncrLater, Expire, IncrRaises, ExpireRaises, Goto,
        Stamp, End
  <2>1. CASE Pass(s)
    BY <1>1, <2>1 DEF Pass, vars, redis, aux
  <2>2. CASE \/ Load(s) \/ Check(s) \/ Refuse(s) \/ FailOpen(s)
             \/ Leave(s) \/ Succeed(s)
    <3>1. UNCHANGED <<count, left, leaked>> /\ at[s] # "expire"
      BY <2>2 DEF Load, Check, Refuse, FailOpen, Leave, Succeed, redis, aux
    <3> QED
      BY <1>1, <2>0, <3>1
  <2>3. CASE IncrFirst(s) \/ IncrLater(s)
    <3>1. /\ at[s] = "incr" /\ QuotaKey(s) \in Bucket
          /\ UNCHANGED <<left, leaked>> /\ Incremented(QuotaKey(s))
      BY <1>0, <2>3 DEF IncrFirst, IncrLater, TypeInv
    <3>2. CASE QuotaKey(s) # b \/ count[b] > 0
      <4>1. count[b] > 0 /\ left[b] = 0
        BY <1>0, <3>1, <3>2 DEF Incremented, TypeInv
      <4> QED
        BY <1>0, <2>0, <3>1, <4>1 DEF Pending, QuotaKey
    <3>3. CASE QuotaKey(s) = b /\ count[b] = 0
      BY <1>0, <2>3, <3>3 DEF IncrFirst, IncrLater, Goto, TypeInv, Pending, QuotaKey
    <3> QED
      BY <1>a, <3>2, <3>3
  <2>4. CASE IncrRaises(s)
    <3>1. at[s] = "incr" /\ QuotaKey(s) \in Bucket /\ UNCHANGED left
      BY <1>0, <2>4 DEF IncrRaises, TypeInv
    <3>2. CASE count[b] > 0
      BY <1>0, <2>0, <2>4, <3>1, <3>2 DEF Pending, QuotaKey, IncrRaises
    <3>3. CASE count[b] = 0
      BY <1>0, <2>4, <3>1, <3>3 DEF IncrRaises, Incremented, TypeInv
    <3> QED
      BY <1>a, <3>2, <3>3
  <2>5. CASE Expire(s) \/ ExpireRaises(s)
    <3>1. at[s] = "expire" /\ QuotaKey(s) \in Bucket /\ UNCHANGED count
      BY <1>0, <2>5 DEF Expire, ExpireRaises, TypeInv
    <3>2. CASE Expired(QuotaKey(s)) /\ QuotaKey(s) = b
      <4>1. left'[b] = PeriodTTL[b.period]
        BY <1>0, <3>1, <3>2 DEF Expired, TypeInv
      <4>2. PeriodTTL[b.period] > 0
        BY <1>0, BucketParts, QuotaAssumption DEF TypeInv
      <4> QED
        BY <4>1, <4>2
    <3>3. CASE Expired(QuotaKey(s)) /\ QuotaKey(s) # b
      <4>1. left'[b] = left[b]
        BY <1>0, <3>1, <3>3 DEF Expired, TypeInv
      <4> QED
        BY <1>0, <2>0, <2>5, <3>1, <3>3, <4>1
        DEF Pending, QuotaKey, Expire, ExpireRaises, aux
    <3>4. CASE ~Expired(QuotaKey(s))
      <4>1. UNCHANGED left /\ leaked' = leaked \cup {QuotaKey(s)}
        BY <2>5, <3>4 DEF Expire, ExpireRaises
      <4> QED
        BY <1>1, <2>0, <3>1, <4>1
    <3> QED
      BY <3>2, <3>3, <3>4
  <2> QED
    BY <1>2, <2>1, <2>2, <2>3, <2>4, <2>5 DEF Serve
<1>3. CASE UNCHANGED vars
  BY <1>1, <1>3 DEF vars, redis, aux
<1>4. ASSUME NEW k \in Key, UpdateQuota(k) PROVE b \in leaked' \/ Pending(b)'
  BY <1>1, <1>4 DEF UpdateQuota, redis
<1>5. CASE Crash
  BY <1>1, <1>5 DEF Crash, redis
<1>6. CASE Tick
  <2>1. count[b] > 0 /\ left[b] = 0
    BY <1>0, <1>a, <1>6 DEF Tick, Alive
  <2> QED
    BY <1>0, <1>6, <2>1 DEF Tick, aux, Pending, QuotaKey
<1> QED
  BY <1>2, <1>3, <1>4, <1>5, <1>6 DEF Next

(* A counter that never expires is one whose EXPIRE was lost: no order of  *)
(* the increments leaves it without.  (tracker.py increment_quota)         *)
THEOREM CountersAreTemporary == Spec => []CountersExpire
<1>1. Init => ExpiryInv
  BY CounterInit DEF Init, ExpiryInv, CountersExpire
<1>2. ExpiryInv => CountersExpire
  BY DEF ExpiryInv
<1> QED
  BY <1>1, <1>2, ExpiryStep, PTL DEF Spec

-----------------------------------------------------------------------------
(***************************************************************************)
(* Overshoot.  A request is due on a counter once nothing is left between  *)
(* it and the increment: after its check, or, if it checks on an earlier   *)
(* counter of a key that is not closed, even before.  An admission by the  *)
(* counter itself starts from less than the limit, an admission by an      *)
(* earlier one adds nobody that was not due already.                       *)
(***************************************************************************)
Coming(b) ==
  {s \in Slot :
     \/ /\ at[s] = "call" /\ req[s].key = b.key /\ req[s].period = b.period
        /\ no[b.period] <= b.no
     \/ at[s] = "incr" /\ QuotaKey(s) = b}

Earlier(b) ==
  {s \in Slot : /\ at[s] = "check" /\ req[s].key = b.key
                /\ req[s].period = b.period /\ req[s].no < b.no}

Due(b) == IF top[b.key] > 0 THEN Coming(b) \cup Earlier(b) ELSE Coming(b)

Most(b) == IF top[b.key] > 0 THEN top[b.key] - 1 + Cardinality(Slot) ELSE 0

Margin(b) == counted[b] + Cardinality(Due(b)) <= Most(b) + unchecked

(* No limit in use, of a row or of a request, is above the largest.        *)
LimitsBelow ==
  /\ top \in [Key -> Int]
  /\ \A k \in Key : row[k].limit # None => row[k].limit <= top[k]
  /\ \A s \in Slot : at[s] = "check" => req[s].limit <= top[req[s].key]

OverInv ==
  CounterInv /\ LimitsBelow /\ unchecked \in Nat /\ \A b \in Bucket : Margin(b)

LEMMA DueFinite ==
  ASSUME NEW b \in Bucket
  PROVE  /\ IsFiniteSet(Due(b)) /\ Cardinality(Due(b)) \in Nat
         /\ Cardinality(Slot) \in Nat /\ Cardinality(Slot) >= 1
         /\ Cardinality(Due(b)) <= Cardinality(Slot)
<1>1. Due(b) \in SUBSET Slot
  BY DEF Due, Coming, Earlier
<1>2. Cardinality(Slot) # 0
  BY QuotaAssumption, FS_EmptySet
<1> QED
  BY <1>1, <1>2, QuotaAssumption, FS_Subset, FS_CardinalityType

LEMMA DueFiniteNext ==
  ASSUME NEW b \in Bucket
  PROVE  /\ IsFiniteSet(Due(b)') /\ Cardinality(Due(b)') \in Nat
         /\ Cardinality(Due(b)') <= Cardinality(Slot)
<1>1. Due(b)' \in SUBSET Slot
  BY DEF Due, Coming, Earlier
<1> QED
  BY <1>1, QuotaAssumption, FS_Subset, FS_CardinalityType

LEMMA OverTypes ==
  ASSUME OverInv, NEW b \in Bucket
  PROVE  /\ counted[b] \in Nat /\ count[b] \in Nat /\ unchecked \in Nat
         /\ top[b.key] \in Int /\ Most(b) \in Int /\ no[b.period] \in Nat
         /\ b.no \in Nat
BY BucketParts, DueFinite, QuotaAssumption
DEF OverInv, CounterInv, TypeInv, LimitsBelow, Most

LEMMA OverInit == Init => OverInv
<1> SUFFICES ASSUME Init PROVE OverInv
  OBVIOUS
<1>1. LimitsBelow
  <2>1. \A k \in Key : row[k].limit # None => row[k].limit \in Int
    BY QuotaAssumption DEF Init, Row
  <2> QED
    BY <2>1 DEF Init, LimitsBelow
<1>2. ASSUME NEW b \in Bucket PROVE Margin(b)
  <2>1. Due(b) = {}
    BY DEF Init, Due, Coming, Earlier
  <2>2. Cardinality(Due(b)) = 0
    BY <2>1, FS_EmptySet
  <2>3. top[b.key] \in Int
    BY <1>1, BucketParts DEF LimitsBelow
  <2> QED
    BY <2>2, <2>3, DueFinite DEF Init, Margin, Most
<1> QED
  BY <1>1, <1>2, CounterInit DEF Init, OverInv

(* Who is due does not grow.                                               *)
LEMMA DueShrinks ==
  ASSUME OverInv, NEW b \in Bucket, Due(b)' \subseteq Due(b),
         counted'[b] = counted[b], UNCHANGED <<unchecked, top>>
  PROVE  Margin(b)'
<1>1. Cardinality(Due(b)') <= Cardinality(Due(b))
  BY DueFinite, FS_Subset
<1> QED
  BY <1>1, OverTypes, DueFinite, DueFiniteNext DEF OverInv, Margin, Most

(* A step of one slot makes nobody else due.                               *)
LEMMA DueOfOthers ==
  ASSUME OverInv, NEW s \in Slot, NEW b \in Bucket, UNCHANGED <<no, top>>,
         \A t \in Slot : t # s => at'[t] = at[t] /\ req'[t] = req[t]
  PROVE  \A t \in Slot : t # s /\ t \in Due(b)' => t \in Due(b)
BY DEF Due, Coming, Earlier, QuotaKey

LEMMA LimitsStep == ASSUME OverInv, [Next]_vars PROVE LimitsBelow'
<1> USE DEF LimitsBelow
<1>0. TypeInv /\ LimitsBelow
  BY DEF OverInv, CounterInv
<1>1. ASSUME NEW s \in Slot, Load(s) PROVE LimitsBelow'
  BY <1>0, <1>1 DEF Load, aux, Goto, TypeInv
<1>2. ASSUME NEW s \in Slot, Serve(s), ~Load(s) PROVE LimitsBelow'
  BY <1>0, <1>2
  DEF Serve, Pass, vars, aux, Check, Refuse, FailOpen, Leave, Succeed, IncrFirst,
      IncrLater, Expire, IncrRaises, ExpireRaises, Goto, Stamp, End, TypeInv
<1>3. ASSUME NEW k \in Key, UpdateQuota(k) PROVE LimitsBelow'
  <2>1. PICK l \in Limits \cup {None}, p \in Period \cup {None} :
          /\ row' = [row EXCEPT ![k] = [limit |-> IF l = None THEN @.limit ELSE l,
                                        period |-> IF p = None THEN @.period ELSE p]]
          /\ top' = [top EXCEPT ![k] = IF l # None /\ l > @ THEN l ELSE @]
    BY <1>3 DEF UpdateQuota
  <2>2. l # None => l \in Int
    BY QuotaAssumption
  <2>3. \A j \in Key : row[j].limit # None => row[j].limit \in Int
    BY <1>0, QuotaAssumption DEF TypeInv, Row
  <2>4. \A j \in Key : top[j] \in Int
    BY <1>0
  <2>5. top' \in [Key -> Int] /\ \A j \in Key : top'[j] >= top[j]
    BY <1>0, <2>1, <2>2, <2>4
  <2>6. \A j \in Key : row'[j].limit # None => row'[j].limit <= top'[j]
    BY <1>0, <2>1, <2>2, <2>3, <2>4, <2>5 DEF TypeInv
  <2>7. ASSUME NEW s \in Slot, at'[s] = "check"
        PROVE  req'[s].limit <= top'[req'[s].key]
    <3>1. at[s] = "check" /\ req'[s] = req[s]
      BY <1>3, <2>7 DEF UpdateQuota
    <3>2. req[s].key \in Key /\ req[s].limit \in Int
      BY <1>0, <3>1, QuotaAssumption DEF TypeInv, Read
    <3>3. top[req[s].key] \in Int /\ top'[req[s].key] \in Int
          /\ top'[req[s].key] >= top[req[s].key] /\ req[s].limit <= top[req[s].key]
      BY <1>0, <2>5, <3>1, <3>2
    <3> QED
      BY <3>1, <3>2, <3>3
  <2> QED
    BY <2>5, <2>6, <2>7
<1>4. CASE Crash
  BY <1>0, <1>4 DEF Crash, TypeInv
<1>5. CASE Tick
  BY <1>0, <1>5 DEF Tick, aux
<1>6. CASE UNCHANGED vars
  BY <1>0, <1>6 DEF vars, aux
<1> QED
  BY <1>1, <1>2, <1>3, <1>4, <1>5, <1>6 DEF Next

(* A request that gets past the counter b itself found less than the limit *)
(* on it; one that is due on b without having read it was so before.       *)
LEMMA MarginCheck ==
  ASSUME OverInv, NEW s \in Slot, Check(s), NEW b \in Bucket
  PROVE  Margin(b)'
<1>0. /\ TypeInv /\ at[s] = "check" /\ req' = req /\ req[s] \in Read
      /\ UNCHANGED <<no, counted, unchecked, top>>
      /\ \A t \in Slot : t # s => at'[t] = at[t]
  BY DEF OverInv, CounterInv, TypeInv, Check, Goto, clock, aux
<1>1. \A t \in Slot : t # s /\ t \in Due(b)' => t \in Due(b)
  BY <1>0, DueOfOthers
<1>2. CASE s \notin Due(b)' \/ s \in Due(b)
  <2>1. Due(b)' \subseteq Due(b)
    BY <1>1, <1>2 DEF Due, Coming, Earlier
  <2> QED
    BY <1>0, <2>1, DueShrinks
<1>3. CASE s \in Due(b)' /\ s \notin Due(b)
  <2>1. at'[s] = "call"
    BY <1>0 DEF Check, Goto, TypeInv
  <2>2. /\ req[s].key = b.key /\ req[s].period = b.period
        /\ no[b.period] <= b.no
    BY <1>0, <1>3, <2>1 DEF Due, Coming, Earlier
  <2>3. /\ req[s].no \in Nat /\ req[s].no <= no[b.period]
        /\ req[s].limit \in Int /\ req[s].limit <= top[b.key]
        /\ QuotaKey(s) \in Bucket
    BY <1>0, <2>2, QuotaAssumption DEF TypeInv, Read, OverInv, LimitsBelow
  <2>4. count[QuotaKey(s)] \in Nat /\ count[QuotaKey(s)] < top[b.key]
    BY <1>0, <2>3, BucketParts DEF Check, TypeInv, OverInv, LimitsBelow
  <2>5. top[b.key] > 0
    BY <2>4, OverTypes
  <2>6. req[s].no = b.no
    <3>1. ~(req[s].no < b.no)
      BY <1>0, <1>3, <2>2, <2>5 DEF Due, Earlier
    <3> QED
      BY <2>2, <2>3, <3>1, OverTypes
  <2>7. QuotaKey(s) = b
    BY <2>2, <2>6, BucketFields DEF QuotaKey
  <2>8. Current(b)
    BY <2>2, <2>3, <2>6, OverTypes DEF Current
  <2>9. counted[b] < top[b.key]
    BY <2>4, <2>7, <2>8 DEF OverInv, CounterInv, Kept
  <2> QED
    BY <1>0, <2>5, <2>9, OverTypes, DueFinite, DueFiniteNext DEF Margin, Most
<1> QED
  BY <1>2, <1>3

LEMMA MarginIncremented ==
  ASSUME OverInv, NEW s \in Slot, at[s] = "incr", Incremented(QuotaKey(s)),
         at'[s] \in {"idle", "expire"},
         UNCHANGED <<no, unchecked, top>>, NEW b \in Bucket,
         \A t \in Slot : t # s => at'[t] = at[t] /\ req'[t] = req[t]
  PROVE  Margin(b)'
<1>1. \A t \in Slot : t # s /\ t \in Due(b)' => t \in Due(b)
  BY DueOfOthers
<1>2. s \notin Due(b)'
  BY DEF Due, Coming, Earlier
<1>3. Due(b)' \subseteq Due(b) \ {s}
  BY <1>1, <1>2 DEF Due, Coming, Earlier
<1>4. CASE QuotaKey(s) = b
  <2>1. s \in Due(b)
    BY <1>4 DEF Due, Coming
  <2>2. Cardinality(Due(b) \ {s}) = Cardinality(Due(b)) - 1
        /\ IsFiniteSet(Due(b) \ {s})
    BY <2>1, DueFinite, FS_RemoveElement
  <2>3. Cardinality(Due(b)') <= Cardinality(Due(b)) - 1
    BY <1>3, <2>2, FS_Subset
  <2>4. counted'[b] = counted[b] + 1
    BY <1>4 DEF Incremented, OverInv, CounterInv, TypeInv
  <2> QED
    BY <2>3, <2>4, OverTypes, DueFinite, DueFiniteNext DEF OverInv, Margin, Most
<1>5. CASE QuotaKey(s) # b
  <2>1. counted'[b] = counted[b]
    BY <1>5 DEF Incremented, OverInv, CounterInv, TypeInv
  <2> QED
    BY <1>3, <2>1, DueShrinks
<1> QED
  BY <1>4, <1>5

LEMMA MarginServe ==
  ASSUME OverInv, NEW s \in Slot, Serve(s), NEW b \in Bucket
  PROVE  Margin(b)'
<1>0. TypeInv
  BY DEF OverInv, CounterInv
<1>1. CASE Pass(s)
  BY <1>1, DueShrinks DEF Pass, vars, clock, redis, aux, Due, Coming, Earlier, QuotaKey
<1>2. CASE Load(s)
  <2>1. /\ UNCHANGED <<counted, unchecked, top, no>> /\ at'[s] = "check"
        /\ \A t \in Slot : t # s => at'[t] = at[t] /\ req'[t] = req[t]
    BY <1>0, <1>2 DEF Load, aux, clock, Goto, TypeInv
  <2>2. CASE s \in Due(b)'
    <3>1. /\ top[b.key] > 0 /\ req'[s].period = b.period /\ req'[s].no < b.no
      BY <2>1, <2>2 DEF Due, Coming, Earlier
    <3>2. req'[s].no = no[req'[s].period]
      BY <1>0, <1>2 DEF Load, TypeInv
    <3>3. counted[b] = 0
      BY <3>1, <3>2, OverTypes DEF OverInv, CounterInv, Unused
    <3> QED
      BY <2>1, <3>1, <3>3, OverTypes, DueFinite, DueFiniteNext DEF Margin, Most
  <2>3. CASE s \notin Due(b)'
    <3>1. Due(b)' \subseteq Due(b)
      BY <2>1, <2>3, DueOfOthers DEF Due, Coming, Earlier
    <3> QED
      BY <2>1, <3>1, DueShrinks
  <2> QED
    BY <2>2, <2>3
<1>3. CASE Check(s)
  BY <1>3, MarginCheck
<1>4. CASE FailOpen(s)
  <2>1. /\ UNCHANGED <<counted, top, no>> /\ unchecked' = unchecked + 1
        /\ \A t \in Slot : t # s => at'[t] = at[t] /\ req'[t] = req[t]
    BY <1>0, <1>4 DEF FailOpen, clock, Goto, TypeInv
  <2>2. Due(b)' \subseteq Due(b) \cup {s}
    BY <2>1, DueOfOthers DEF Due, Coming, Earlier
  <2>3. /\ IsFiniteSet(Due(b) \cup {s})
        /\ Cardinality(Due(b) \cup {s}) \in Nat
        /\ Cardinality(Due(b) \cup {s}) <= Cardinality(Due(b)) + 1
    <3>1. /\ IsFiniteSet(Due(b)) /\ Cardinality(Due(b)) \in Nat
      BY DueFinite
    <3>2. /\ IsFiniteSet(Due(b) \cup {s})
          /\ Cardinality(Due(b) \cup {s}) =
               IF s \in Due(b) THEN Cardinality(Due(b)) ELSE Cardinality(Due(b)) + 1
      BY <3>1, FS_AddElement
    <3> QED
      BY <3>1, <3>2
  <2>4. Cardinality(Due(b)') <= Cardinality(Due(b)) + 1
    BY <2>2, <2>3, FS_Subset, DueFinite, DueFiniteNext
  <2> QED
    BY <2>1, <2>4, OverTypes, DueFinite, DueFiniteNext DEF OverInv, Margin, Most
<1>5. CASE Refuse(s) \/ Leave(s) \/ Expire(s) \/ ExpireRaises(s)
  <2>1. /\ UNCHANGED <<counted, unchecked, top, no>>
        /\ at'[s] \in {"idle", "refused"}
        /\ \A t \in Slot : t # s => at'[t] = at[t] /\ req'[t] = req[t]
    BY <1>0, <1>5
    DEF Refuse, Leave, Expire, ExpireRaises, aux, clock, Goto, End, TypeInv
  <2>2. Due(b)' \subseteq Due(b)
    BY <2>1, DueOfOthers DEF Due, Coming, Earlier
  <2> QED
    BY <2>1, <2>2, DueShrinks
<1>6. CASE Succeed(s)
  <2>1. /\ UNCHANGED <<counted, unchecked, top, no>>
        /\ at[s] = "call" /\ at'[s] = "incr" /\ req[s] \in Read
        /\ req'[s] = [req[s] EXCEPT !.no = no[req[s].period]]
        /\ \A t \in Slot : t # s => at'[t] = at[t] /\ req'[t] = req[t]
    BY <1>0, <1>6 DEF Succeed, Stamp, aux, clock, Goto, TypeInv
  <2>2. ASSUME s \in Due(b)' PROVE s \in Due(b)
    <3>1. QuotaKey(s)' = b
      BY <2>1, <2>2 DEF Due, Coming, Earlier
    <3>2. req[s].key = b.key /\ req[s].period = b.period /\ b.no = no[b.period]
      BY <2>1, <3>1 DEF QuotaKey, Read
    <3> QED
      BY <2>1, <3>2, OverTypes DEF Due, Coming
  <2>3. Due(b)' \subseteq Due(b)
    BY <2>1, <2>2, DueOfOthers DEF Due, Coming, Earlier
  <2> QED
    BY <2>1, <2>3, DueShrinks
<1>7. CASE IncrFirst(s) \/ IncrLater(s) \/ IncrRaises(s)
  <2>1. /\ at[s] = "incr" /\ UNCHANGED <<no, unchecked, top>>
        /\ at'[s] \in {"idle", "expire"}
        /\ \A t \in Slot : t # s => at'[t] = at[t] /\ req'[t] = req[t]
    BY <1>0, <1>7 DEF IncrFirst, IncrLater, IncrRaises, clock, Goto, End, TypeInv
  <2>2. CASE Incremented(QuotaKey(s))
    BY <2>1, <2>2, MarginIncremented
  <2>3. CASE UNCHANGED counted
    <3>1. Due(b)' \subseteq Due(b)
      BY <2>1, DueOfOthers DEF Due, Coming, Earlier
    <3> QED
      BY <2>1, <2>3, <3>1, DueShrinks
  <2> QED
    BY <1>7, <2>2, <2>3 DEF IncrFirst, IncrLater, IncrRaises
<1> QED
  BY <1>1, <1>2, <1>3, <1>4, <1>5, <1>6, <1>7 DEF Serve

(* The first limit above 0 finds a counter of unchecked requests only.     *)
LEMMA MarginUpdate ==
  ASSUME OverInv, NEW k \in Key, UpdateQuota(k), NEW b \in Bucket
  PROVE  Margin(b)'
<1>1. UNCHANGED <<no, at, req, counted, unchecked>>
  BY DEF UpdateQuota, clock
<1>2. /\ top[b.key] \in Int /\ top'[b.key] \in Int /\ top'[b.key] >= top[b.key]
  <2>1. PICK l \in Limits \cup {None} :
          top' = [top EXCEPT ![k] = IF l # None /\ l > @ THEN l ELSE @]
    BY DEF UpdateQuota
  <2>2. l # None => l \in Int
    BY QuotaAssumption
  <2>3. top \in [Key -> Int] /\ b.key \in Key
    BY BucketParts DEF OverInv, LimitsBelow
  <2> QED
    BY <2>1, <2>2, <2>3
<1>3. CASE top[b.key] > 0 \/ ~(top'[b.key] > 0)
  <2>1. Due(b)' = Due(b)
    BY <1>1, <1>2, <1>3 DEF Due, Coming, Earlier, QuotaKey
  <2>2. Most(b)' >= Most(b) /\ Most(b)' \in Int
    BY <1>2, <1>3, DueFinite DEF Most
  <2> QED
    BY <1>1, <2>1, <2>2, OverTypes, DueFinite DEF OverInv, Margin
<1>4. CASE ~(top[b.key] > 0) /\ top'[b.key] > 0
  <2>1. counted[b] <= unchecked
    BY <1>4, OverTypes, DueFinite DEF OverInv, Margin, Most
  <2> QED
    BY <1>1, <1>2, <1>4, <2>1, OverTypes, DueFinite, DueFiniteNext DEF Margin, Most
<1> QED
  BY <1>3, <1>4

LEMMA OverStep == OverInv /\ [Next]_vars => OverInv'
<1> SUFFICES ASSUME OverInv, [Next]_vars PROVE OverInv'
  OBVIOUS
<1>1. CounterInv' /\ LimitsBelow'
  BY CounterStep, LimitsStep DEF OverInv
<1>2. unchecked' \in Nat
  BY DEF OverInv, Next, vars, aux, Serve, Pass, Load, Check, Refuse, FailOpen,
         Leave, Succeed, IncrFirst, IncrLater, Expire, IncrRaises, ExpireRaises,
         UpdateQuota, Crash, Tick
<1>3. ASSUME NEW b \in Bucket PROVE Margin(b)'
  <2>1. CASE Crash
    <3>1. Due(b)' = {}
      BY <2>1 DEF Crash, Due, Coming, Earlier
    <3> QED
      BY <2>1, <3>1, DueShrinks DEF Crash
  <2>2. CASE Tick
    <3>1. /\ UNCHANGED <<counted, unchecked, top, at, req>>
          /\ no[b.period] \in Nat /\ no'[b.period] \in Nat
          /\ no'[b.period] >= no[b.period] /\ b.no \in Nat
      BY <2>2, OverTypes, BucketParts DEF Tick, aux
    <3>2. Due(b)' \subseteq Due(b)
      BY <3>1 DEF Due, Coming, Earlier, QuotaKey
    <3> QED
      BY <3>1, <3>2, DueShrinks
  <2>3. CASE UNCHANGED vars
    BY <2>3, DueShrinks DEF vars, clock, aux, Due, Coming, Earlier, QuotaKey
  <2> QED
    BY <2>1, <2>2, <2>3, MarginServe, MarginUpdate DEF Next
<1> QED
  BY <1>1, <1>2, <1>3 DEF OverInv

(* A period's counter exceeds the largest limit its key has had by less    *)
(* than the requests served at a time, and those let through unchecked,    *)
(* whenever midnight falls and limits change.  (proxy.py quota pre-check;  *)
(* tracker.py check_quota, increment_quota)                                *)
THEOREM OvershootLimited == Spec => []OvershootBounded
<1>1. OverInv => OvershootBounded
  <2> SUFFICES ASSUME OverInv, NEW b \in Bucket, counted[b] > unchecked
               PROVE  counted[b] < top[b.key] + Cardinality(Slot) + unchecked
    BY DEF OvershootBounded
  <2>1. counted[b] + Cardinality(Due(b)) <= Most(b) + unchecked
    BY DEF OverInv, Margin
  <2> QED
    BY <2>1, OverTypes, DueFinite DEF Most
<1> QED
  BY <1>1, OverInit, OverStep, PTL DEF Spec

-----------------------------------------------------------------------------
(* The rest of the types: what bounds TTLs and the auxiliary counters.     *)
RestTypes ==
  /\ req \in [Slot -> Read \cup {None}]
  /\ \A b \in Bucket : left[b] <= PeriodTTL[b.period]
  /\ leaked \subseteq Bucket
  /\ faults \in 0..MaxFaults /\ updates \in 0..MaxUpdates
  /\ requests \in 0..MaxRequests
  /\ unchecked <= faults

LEMMA RestServe ==
  ASSUME OverInv, RestTypes, NEW s \in Slot, Serve(s)
  PROVE  RestTypes'
<1>0. TypeInv /\ unchecked \in Nat
  BY DEF OverInv, CounterInv
<1>1. CASE Pass(s)
  BY <1>1 DEF RestTypes, Pass, vars, redis, aux, bounds
<1>2. CASE ~Pass(s)
  <2>1. at'[s] # "idle" => req'[s] \in Read
    BY <1>0, <1>2, TypeServe DEF TypeInv
  <2>2. /\ \A t \in Slot : t # s => at'[t] = at[t] /\ req'[t] = req[t]
        /\ at'[s] = "idle" => req'[s] = None
    BY <1>0, <1>2
    DEF TypeInv, Serve, Load, Check, Refuse, FailOpen, Leave, Succeed,
        IncrFirst, IncrLater, Expire, IncrRaises, ExpireRaises, Goto, Stamp, End
  <2>3. \A b \in Bucket : left'[b] <= PeriodTTL[b.period]
    <3>1. \A c \in Bucket : Expired(c) =>
            \A b \in Bucket : left'[b] <= PeriodTTL[b.period]
      BY <1>0, BucketParts, QuotaAssumption DEF Expired, RestTypes, TypeInv
    <3>2. CASE UNCHANGED left
      BY <3>2 DEF RestTypes
    <3>3. CASE at[s] = "expire" /\ Expired(QuotaKey(s))
      BY <1>0, <3>1, <3>3 DEF TypeInv
    <3> QED
      BY <1>2, <3>2, <3>3
      DEF Serve, Load, Check, Refuse, FailOpen, Leave, Succeed, IncrFirst,
          IncrLater, Expire, IncrRaises, ExpireRaises, redis
  <2>4. leaked' \subseteq Bucket
    BY <1>0, <1>2
    DEF TypeInv, RestTypes, Serve, Load, Check, Refuse, FailOpen, Leave, Succeed,
        IncrFirst, IncrLater, Expire, IncrRaises, ExpireRaises, aux
  <2>5. /\ faults' \in 0..MaxFaults /\ updates' \in 0..MaxUpdates
        /\ requests' \in 0..MaxRequests /\ unchecked' <= faults'
    BY <1>0, <1>2, QuotaAssumption
    DEF RestTypes, Serve, Load, Check, Refuse, FailOpen, Leave, Succeed, Fault,
        IncrFirst, IncrLater, Expire, IncrRaises, ExpireRaises, aux, bounds
  <2>6. req' \in [Slot -> Read \cup {None}]
    <3>1. req' = [t \in Slot |-> req'[t]]
      <4>0. req = [t \in Slot |-> req[t]]
        BY DEF RestTypes
      <4>1. CASE Load(s)
        BY <1>0, <4>1 DEF TypeInv, Load
      <4>2. CASE Succeed(s)
        BY <1>0, <4>2 DEF TypeInv, Succeed, Stamp
      <4>3. CASE End(s)
        BY <1>0, <4>3 DEF TypeInv, End
      <4>4. CASE UNCHANGED req
        BY <4>0, <4>4
      <4> QED
        BY <1>2, <4>1, <4>2, <4>3, <4>4
        DEF Serve, Check, Refuse, FailOpen, Leave, IncrFirst, IncrLater, Expire,
            IncrRaises, ExpireRaises
    <3>2. \A t \in Slot : req'[t] \in Read \cup {None}
      BY <2>1, <2>2 DEF RestTypes
    <3> QED
      BY <3>1, <3>2
  <2> QED
    BY <2>3, <2>4, <2>5, <2>6 DEF RestTypes
<1> QED
  BY <1>1, <1>2

LEMMA RestStep ==
  ASSUME OverInv, RestTypes, [Next]_vars
  PROVE  RestTypes'
<1>0. TypeInv /\ unchecked \in Nat
  BY DEF OverInv, CounterInv
<1>1. ASSUME NEW k \in Key, UpdateQuota(k) PROVE RestTypes'
  BY <1>1, QuotaAssumption DEF UpdateQuota, RestTypes, redis
<1>2. CASE Crash
  BY <1>0, <1>2, QuotaAssumption
  DEF Crash, Fault, TypeInv, RestTypes, redis
<1>3. CASE Tick
  <2>1. \A b \in Bucket : left'[b] <= PeriodTTL[b.period]
    BY <1>0, <1>3, BucketParts, QuotaAssumption DEF Tick, TypeInv, RestTypes
  <2> QED
    BY <1>3, <2>1 DEF Tick, RestTypes, aux, bounds
<1>4. CASE UNCHANGED vars
  BY <1>4 DEF vars, redis, aux, bounds, RestTypes
<1> QED
  BY <1>1, <1>2, <1>3, <1>4, RestServe DEF Next

(* Every counter in use belongs to a period that has begun, and its TTL is *)
(* that of its period.  (tracker.py quota_key, period_ttl)                 *)
THEOREM TypeCorrect == Spec => []TypeOK
<1>1. Init => RestTypes
  <2>1. Init => \A b \in Bucket : left[b] <= PeriodTTL[b.period]
    BY BucketParts, QuotaAssumption DEF Init
  <2> QED
    BY <2>1, QuotaAssumption DEF Init, RestTypes
<1>2. OverInv /\ RestTypes => TypeOK
  <2> SUFFICES ASSUME OverInv, RestTypes PROVE TypeOK
    OBVIOUS
  <2>1. \A b \in Bucket : left[b] \in 0..PeriodTTL[b.period]
    BY BucketParts, QuotaAssumption DEF OverInv, CounterInv, TypeInv, RestTypes
  <2>2. unchecked \in 0..MaxFaults
    BY QuotaAssumption DEF OverInv, RestTypes
  <2> QED
    BY <2>1, <2>2
    DEF TypeOK, OverInv, CounterInv, LimitsBelow, TypeInv, RestTypes
<1> QED
  BY <1>1, <1>2, OverInit, OverStep, RestStep, PTL DEF Spec

=============================================================================
