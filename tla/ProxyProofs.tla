---------------------------- MODULE ProxyProofs ----------------------------
(***************************************************************************)
(* How far the quota counter can overshoot its limit, that proxy() keeps   *)
(* the protocol of the deduplication, and what the cache holds and the     *)
(* quota counts, for every set of requests and keys, every limit, TTL and  *)
(* size of the connection pool, and holds of any length; and with this,    *)
(* what DedupProofs says of the deduplication as said of the whole path.   *)
(***************************************************************************)
EXTENDS Proxy, FiniteSetTheorems, TLAPS

(***************************************************************************)
(* used alone says nothing of the requests that have passed the check and  *)
(* will count later, so the induction bounds both together.  What stops    *)
(* the sum from growing is that an admitted request holds a connection.    *)
(***************************************************************************)
StageOK ==
  /\ at \in [Request -> Stage]
  /\ used \in Nat
  /\ unchecked \subseteq {r \in Request : at[r] \notin {"new", "pool", "quota"}}

PoolBound == Cardinality(Connected) <= PoolSize

SumBound ==
  used + Cardinality(Admitted) < Limit + PoolSize + Cardinality(unchecked)

QuotaInv == StageOK /\ PoolBound /\ SumBound

(* Every set of requests is finite, and its cardinality a number.          *)
LEMMA SubsetFinite ==
  ASSUME NEW S \in SUBSET Request
  PROVE  IsFiniteSet(S) /\ Cardinality(S) \in Nat
BY ProxyAssumption, FS_Subset, FS_CardinalityType

(* One more request, or one fewer.                                         *)
LEMMA AddOne ==
  ASSUME NEW S \in SUBSET Request, NEW r \in Request, r \notin S
  PROVE  Cardinality(S \cup {r}) = Cardinality(S) + 1
BY SubsetFinite, FS_AddElement

LEMMA RemoveOne ==
  ASSUME NEW S \in SUBSET Request, NEW r \in S
  PROVE  Cardinality(S \ {r}) = Cardinality(S) - 1
BY SubsetFinite, FS_RemoveElement

LEMMA Smaller ==
  ASSUME NEW S \in SUBSET Request, NEW T \in SUBSET S
  PROVE  Cardinality(T) <= Cardinality(S)
BY SubsetFinite, FS_Subset

LEMMA QuotaInit == Init => QuotaInv
<1> SUFFICES ASSUME Init PROVE QuotaInv
  OBVIOUS
<1>1. StageOK
  BY DEF Init, StageOK, Stage
<1>2. Connected = {} /\ Admitted = {} /\ unchecked = {} /\ used = 0
  BY DEF Init, Connected, Admitted
<1> QED
  BY <1>1, <1>2, FS_EmptySet, ProxyAssumption
  DEF QuotaInv, PoolBound, SumBound

(* A step that moves requests on without admitting any, and counts nothing.*)
LEMMA QuotaFrame ==
  ASSUME QuotaInv, StageOK', Connected' \subseteq Connected,
         Admitted' \subseteq Admitted, used' = used \/ used' = 0,
         unchecked' = unchecked
  PROVE  QuotaInv'
<1>1. Connected \in SUBSET Request /\ Admitted \in SUBSET Request
  BY DEF Connected, Admitted
<1>2. /\ Cardinality(Connected') <= Cardinality(Connected)
      /\ Cardinality(Admitted') <= Cardinality(Admitted)
  BY <1>1, Smaller
<1>3. /\ Cardinality(Connected) \in Nat /\ Cardinality(Connected') \in Nat
      /\ Cardinality(Admitted) \in Nat /\ Cardinality(Admitted') \in Nat
      /\ Cardinality(unchecked) \in Nat /\ used \in Nat
  BY <1>1, SubsetFinite DEF QuotaInv, StageOK
<1>4. PoolBound'
  BY <1>2, <1>3, ProxyAssumption DEF QuotaInv, PoolBound
<1>5. SumBound'
  BY <1>2, <1>3, ProxyAssumption DEF QuotaInv, SumBound
<1> QED
  BY <1>4, <1>5 DEF QuotaInv

(* Where a single request goes.                                            *)
LEMMA MoveOne ==
  ASSUME StageOK, NEW r \in Request, NEW l \in Stage, Goto(r, l),
         used' \in Nat, unchecked' = unchecked,
         l \notin {"new", "pool", "quota"} \/ at[r] \in {"new", "pool", "quota"}
  PROVE  /\ StageOK'
         /\ l \notin {"new", "pool", "done", "lost"} =>
              Connected' = Connected \cup {r}
         /\ l \in {"new", "pool", "done", "lost"} =>
              Connected' = Connected \ {r}
         /\ l \in {"cache", "dedup", "fill", "count"} =>
              Admitted' = Admitted \cup {r}
         /\ l \notin {"cache", "dedup", "fill", "count"} =>
              Admitted' = Admitted \ {r}
<1>1. /\ at' \in [Request -> Stage] /\ at'[r] = l
      /\ \A s \in Request : s # r => at'[s] = at[s]
  BY DEF StageOK, Goto
<1> QED
  BY <1>1 DEF StageOK, Connected, Admitted

(* A request that ends, its connection with it.                            *)
LEMMA QuotaDone ==
  ASSUME QuotaInv, NEW r \in Request, Goto(r, "done"),
         UNCHANGED <<used, unchecked>>
  PROVE  QuotaInv'
<1>1. /\ StageOK' /\ Connected' = Connected \ {r}
      /\ Admitted' = Admitted \ {r}
  BY MoveOne DEF QuotaInv, StageOK, Stage
<1> QED
  BY <1>1, QuotaFrame

(* An admitted request that goes on towards the increment.                 *)
LEMMA QuotaOnward ==
  ASSUME QuotaInv, NEW r \in Request, NEW l \in {"dedup", "fill", "count"},
         Goto(r, l), at[r] \in {"cache", "dedup", "fill"},
         UNCHANGED <<used, unchecked>>
  PROVE  QuotaInv'
<1>1. /\ StageOK' /\ Connected' = Connected \cup {r}
      /\ Admitted' = Admitted \cup {r}
  BY MoveOne DEF QuotaInv, StageOK, Stage
<1>2. r \in Connected /\ r \in Admitted
  BY DEF Connected, Admitted
<1> QED
  BY <1>1, <1>2, QuotaFrame

LEMMA StageConnect ==
  ASSUME QuotaInv, NEW r \in Request, Connect(r)
  PROVE  QuotaInv'
<1>1. /\ StageOK' /\ Connected' = Connected \cup {r}
      /\ Admitted' = Admitted \ {r}
  BY MoveOne DEF Connect, QuotaInv, StageOK, Stage, quota
<1>2. r \notin Connected /\ r \notin Admitted
  BY DEF Connect, Connected, Admitted
<1>3. Connected \in SUBSET Request
  BY DEF Connected
<1>4. PoolBound'
  BY <1>1, <1>2, <1>3, AddOne, SubsetFinite, ProxyAssumption
  DEF Connect, PoolBound
<1>5. SumBound'
  BY <1>1, <1>2 DEF Connect, QuotaInv, SumBound, quota
<1> QED
  BY <1>1, <1>4, <1>5 DEF QuotaInv

(* The check: whoever is admitted below the limit shares the pool with all *)
(* the others still to count.                                              *)
LEMMA StageAdmit ==
  ASSUME QuotaInv, NEW r \in Request, Admit(r)
  PROVE  QuotaInv'
<1>1. /\ StageOK' /\ Connected' = Connected \cup {r}
      /\ Admitted' = Admitted \cup {r}
  BY MoveOne DEF Admit, QuotaInv, StageOK, Stage, quota
<1>2. r \in Connected
  BY DEF Admit, Connected
<1>3. Connected' = Connected
  BY <1>1, <1>2
<1>4. Connected' \in SUBSET Request /\ Admitted' \in SUBSET Connected'
  BY DEF Connected, Admitted
<1>5. /\ Cardinality(Admitted') <= Cardinality(Connected')
      /\ Cardinality(Admitted') \in Nat /\ Cardinality(Connected') \in Nat
  BY <1>4, Smaller, SubsetFinite
<1>6. Cardinality(unchecked) \in Nat /\ used \in Nat
  BY SubsetFinite DEF QuotaInv, StageOK
<1>7. PoolBound'
  BY <1>3 DEF QuotaInv, PoolBound
<1>8. SumBound'
  BY <1>5, <1>6, <1>7, ProxyAssumption DEF Admit, PoolBound, SumBound, quota
<1> QED
  BY <1>1, <1>7, <1>8 DEF QuotaInv

LEMMA StageFailOpen ==
  ASSUME QuotaInv, NEW r \in Request, FailOpen(r)
  PROVE  QuotaInv'
<1>1. /\ at' \in [Request -> Stage] /\ at'[r] = "cache" /\ at[r] = "quota"
      /\ \A s \in Request : s # r => at'[s] = at[s]
  BY DEF FailOpen, QuotaInv, StageOK, Stage, Goto
<1>2. /\ StageOK' /\ Connected' = Connected
      /\ Admitted' = Admitted \cup {r} /\ r \notin Admitted
  BY <1>1 DEF FailOpen, QuotaInv, StageOK, Connected, Admitted
<1>3. unchecked' = unchecked \cup {r} /\ r \notin unchecked
  BY <1>1 DEF FailOpen, QuotaInv, StageOK
<1>4. Admitted \in SUBSET Request /\ unchecked \in SUBSET Request
  BY DEF Admitted, QuotaInv, StageOK
<1>5. /\ Cardinality(Admitted') = Cardinality(Admitted) + 1
      /\ Cardinality(unchecked') = Cardinality(unchecked) + 1
  BY <1>2, <1>3, <1>4, AddOne
<1>6. /\ Cardinality(Admitted) \in Nat /\ Cardinality(unchecked) \in Nat
      /\ used \in Nat /\ used' = used
  BY <1>4, SubsetFinite DEF FailOpen, QuotaInv, StageOK
<1>7. SumBound'
  BY <1>5, <1>6, ProxyAssumption DEF QuotaInv, SumBound
<1> QED
  BY <1>2, <1>7 DEF QuotaInv, PoolBound

(* The increment takes a request from those still to count.                *)
LEMMA StageCount ==
  ASSUME QuotaInv, NEW r \in Request, Count(r)
  PROVE  QuotaInv'
<1>1. /\ StageOK' /\ Connected' = Connected \cup {r}
      /\ Admitted' = Admitted \ {r}
  BY MoveOne DEF Count, QuotaInv, StageOK, Stage
<1>2. r \in Connected /\ r \in Admitted
  BY DEF Count, Connected, Admitted
<1>3. Admitted \in SUBSET Request
  BY DEF Admitted
<1>4. Cardinality(Admitted') = Cardinality(Admitted) - 1
  BY <1>1, <1>2, <1>3, RemoveOne
<1>5. /\ Cardinality(Admitted) \in Nat /\ Cardinality(unchecked) \in Nat
      /\ used \in Nat /\ used' = used + 1 /\ unchecked' = unchecked
  BY <1>3, SubsetFinite DEF Count, QuotaInv, StageOK
<1>6. SumBound'
  BY <1>4, <1>5, ProxyAssumption DEF QuotaInv, SumBound
<1>7. Connected' = Connected
  BY <1>1, <1>2
<1> QED
  BY <1>1, <1>6, <1>7 DEF QuotaInv, PoolBound

LEMMA QuotaStep == QuotaInv /\ [Next]_vars => QuotaInv'
<1> SUFFICES ASSUME QuotaInv, [Next]_vars PROVE QuotaInv'
  OBVIOUS
<1>1. CASE UNCHANGED <<at, used, unchecked>>
  BY <1>1, QuotaFrame DEF QuotaInv, StageOK, Connected, Admitted
<1>2. ASSUME NEW r \in Request, Arrive(r) PROVE QuotaInv'
  <2>1. /\ StageOK' /\ Connected' = Connected \ {r}
        /\ Admitted' = Admitted \ {r}
    BY <1>2, MoveOne DEF Arrive, QuotaInv, StageOK, Stage, quota
  <2> QED
    BY <1>2, <2>1, QuotaFrame DEF Arrive, quota
<1>3. ASSUME NEW r \in Request, Before(r) PROVE QuotaInv'
  <2>1. CASE Connect(r)
    BY <2>1, StageConnect
  <2>2. CASE Admit(r)
    BY <2>2, StageAdmit
  <2>3. CASE PoolTimeout(r) \/ Refuse(r) \/ CacheHit(r)
    BY <2>3, QuotaDone DEF PoolTimeout, Refuse, CacheHit, quota
  <2>4. CASE CacheMiss(r)
    BY <2>4, QuotaOnward DEF CacheMiss, quota
  <2> QED
    BY <1>3, <2>1, <2>2, <2>3, <2>4 DEF Before
<1>4. ASSUME NEW r \in Request, Within(r) PROVE QuotaInv'
  <2>1. CASE InDedup(r)
    BY <1>1, <2>1 DEF InDedup, quota
  <2>2. CASE LeaveDedup(r)
    BY <2>2, QuotaDone DEF LeaveDedup, quota
  <2>3. CASE VendorAnswers(r) \/ Fill(r) \/ Publish(r)
    BY <2>3, QuotaOnward DEF VendorAnswers, Fill, Publish, quota
  <2>4. CASE Count(r)
    BY <2>4, StageCount
  <2> QED
    BY <1>4, <2>1, <2>2, <2>3, <2>4 DEF Within
<1>9. ASSUME NEW r \in Request, RedisRaises(r) PROVE QuotaInv'
  <2>1. CASE FailOpen(r)
    BY <2>1, StageFailOpen
  <2>2. CASE CacheRaises(r)
    BY <2>2, QuotaDone DEF CacheRaises, quota
  <2>3. CASE DedupRaises(r)
    <3>1. UNCHANGED <<used, unchecked>> /\ (UNCHANGED at \/ Goto(r, "done"))
      BY <2>3 DEF DedupRaises, quota
    <3> QED
      BY <1>1, <3>1, QuotaDone
  <2>4. CASE FillRaises(r)
    BY <2>4, QuotaOnward DEF FillRaises, quota
  <2>5. CASE CountRaises(r)
    <3>1. /\ Goto(r, "exit") /\ UNCHANGED <<used, unchecked>>
          /\ at[r] = "count"
      BY <2>5 DEF CountRaises, quota
    <3>2. /\ StageOK' /\ Connected' = Connected \cup {r}
          /\ Admitted' = Admitted \ {r}
      BY <3>1, MoveOne DEF QuotaInv, StageOK, Stage
    <3>3. r \in Connected
      BY <3>1 DEF Connected
    <3> QED
      BY <3>1, <3>2, <3>3, QuotaFrame
  <2> QED
    BY <1>9, <2>1, <2>2, <2>3, <2>4, <2>5 DEF RedisRaises
<1>5. CASE NewPeriod
  BY <1>5, QuotaFrame DEF NewPeriod, QuotaInv, StageOK, Connected, Admitted
<1>6. CASE Crash
  <2>1. at' = [r \in Request |-> IF at[r] # "new" /\ ~Over(r)
                                 THEN "lost" ELSE at[r]]
    BY <1>6 DEF Crash
  <2>2. UNCHANGED <<used, unchecked>>
    BY <1>6 DEF Crash, quota
  <2>3. StageOK'
    BY <2>1, <2>2 DEF QuotaInv, StageOK, Stage, Over
  <2>4. Connected' \subseteq Connected /\ Admitted' \subseteq Admitted
    BY <2>1 DEF Connected, Admitted, Over
  <2> QED
    BY <2>2, <2>3, <2>4, QuotaFrame
<1>7. CASE (\E r \in Request : SubscribeTakesEffect(r)) \/ Tick
  BY <1>1, <1>7 DEF SubscribeTakesEffect, Tick, quota
<1>8. CASE UNCHANGED vars
  BY <1>1, <1>8 DEF vars, quota
<1> QED
  BY <1>2, <1>3, <1>4, <1>5, <1>6, <1>7, <1>8, <1>9 DEF Next

(* The counter stays below the limit plus the size of the connection pool, *)
(* plus one for every request let through because Redis failed the check;  *)
(* neither crashes nor a period's end add to it.  (proxy.py:195 and 309)   *)
THEOREM QuotaOvershoot == Spec => []OvershootBounded
<1>1. QuotaInv => OvershootBounded
  <2> SUFFICES ASSUME QuotaInv PROVE OvershootBounded
    OBVIOUS
  <2>1. Admitted \in SUBSET Request
    BY DEF Admitted
  <2>2. /\ Cardinality(Admitted) \in Nat /\ Cardinality(unchecked) \in Nat
        /\ used \in Nat
    BY <2>1, SubsetFinite DEF QuotaInv, StageOK
  <2> QED
    BY <2>2, ProxyAssumption DEF QuotaInv, SumBound, OvershootBounded
<1> QED
  BY <1>1, QuotaInit, QuotaStep, PTL DEF Spec

-----------------------------------------------------------------------------
LEMMA DedupStep == [Next]_vars => [D!Next]_dedup
<1> SUFFICES ASSUME [Next]_vars PROVE D!Next \/ UNCHANGED dedup
  OBVIOUS
<1>1. ASSUME NEW r \in Request, Arrive(r) PROVE UNCHANGED dedup
  BY <1>1 DEF Arrive
<1>2. ASSUME NEW r \in Request, Before(r) PROVE D!Next \/ UNCHANGED dedup
  <2>1. CASE CacheMiss(r)
    BY <2>1 DEF CacheMiss, D!Next
  <2> QED
    BY <1>2, <2>1 DEF Before, Connect, PoolTimeout, Admit, Refuse, CacheHit
<1>3. ASSUME NEW r \in Request, Within(r) \/ RedisRaises(r)
      PROVE  D!Next \/ UNCHANGED dedup
  <2>1. CASE Fill(r) \/ Count(r) \/ CountRaises(r) \/ FailOpen(r)
               \/ CacheRaises(r)
    BY <2>1 DEF Fill, Count, CountRaises, FailOpen, CacheRaises
  <2>2. CASE InDedup(r) \/ LeaveDedup(r) \/ VendorAnswers(r)
               \/ Publish(r)
    <3>1. D!Coroutine(r)
      BY <2>2 DEF InDedup, LeaveDedup, VendorAnswers, Publish,
                  D!Coroutine, D!Holder, D!Waiter
    <3> QED
      BY <3>1 DEF D!Next
  <2>3. CASE DedupRaises(r) \/ FillRaises(r)
    <3>1. D!Coroutine(r)
      BY <2>3 DEF DedupRaises, FillRaises, D!Coroutine, D!RedisRaises
    <3> QED
      BY <3>1 DEF D!Next
  <2> QED
    BY <1>3, <2>1, <2>2, <2>3 DEF Within, RedisRaises
<1>4. ASSUME NEW r \in Request, SubscribeTakesEffect(r) PROVE D!Next
  BY <1>4 DEF SubscribeTakesEffect, D!Next
<1>5. CASE NewPeriod
  BY <1>5 DEF NewPeriod
<1>6. CASE Tick
  BY <1>6 DEF Tick, D!Next
<1>7. CASE Crash
  BY <1>7 DEF Crash, D!Next
<1>8. CASE UNCHANGED vars
  BY <1>8 DEF vars
<1> QED
  BY <1>1, <1>2, <1>3, <1>4, <1>5, <1>6, <1>7, <1>8 DEF Next

(* proxy() drives the deduplication only by steps Dedup allows, whatever   *)
(* it does in between, so the theorems of DedupProofs hold of the composed *)
(* system too.  (proxy.py 245-341)                                         *)
THEOREM ImplementsDedup == Spec => UsesDedup
<1>1. Init => D!Init
  BY DEF Init
<1>2. [Next]_vars => [D!Next]_dedup
  BY DedupStep
<1>3. UNCHANGED dedup => UNCHANGED D!vars
  BY DEF dedup, D!vars, D!redis, D!waiter, D!result
<1> QED
  BY <1>1, <1>2, <1>3, PTL DEF Spec, UsesDedup, D!Safety

-----------------------------------------------------------------------------
(***************************************************************************)
(* What the cache holds and what the quota counts, for every set of        *)
(* requests and keys, every TTL and holds of any length.                   *)
(*                                                                         *)
(* Both follow the responses to their source: a request whose own vendor   *)
(* call succeeded is past the call, so it never becomes a waiter whose     *)
(* source is another's.                                                    *)
(***************************************************************************)
Past == {"store", "publish", "release", "done", "lost"}

OwnInv ==
  /\ pc \in [Request -> D!PC]
  /\ source = [r \in Request |-> source[r]]
  /\ \A r \in Request : source[r] = r => pc[r] \in Past
  /\ \A r \in Request : pc[r] \in {"store", "publish"} => source[r] = r

Succeeded == {r \in Request : source[r] = r}
SucceededStays == Succeeded \subseteq Succeeded'

LEMMA OwnInit == Init => OwnInv
BY ProxyAssumption DEF Init, D!Init, OwnInv, D!PC

(* The source of a response is fixed when the vendor answers, or when a    *)
(* waiter gets it; all other steps of Dedup leave it.                      *)
LEMMA OwnStep == OwnInv /\ [D!Next]_dedup => OwnInv' /\ SucceededStays
<1> SUFFICES ASSUME OwnInv, [D!Next]_dedup PROVE OwnInv' /\ SucceededStays
  OBVIOUS
<1> USE DEF OwnInv, SucceededStays, Succeeded, Past, D!PC, D!HoldPC, D!WaitPC,
            D!Goto, D!result
<1>1. ASSUME NEW r \in Request, D!Arrive(r) PROVE OwnInv' /\ SucceededStays
  BY <1>1 DEF D!Arrive
<1>2. ASSUME NEW r \in Request, D!Holder(r) PROVE OwnInv' /\ SucceededStays
  <2>1. CASE D!VendorAnswers(r)
    BY <2>1 DEF D!VendorAnswers
  <2>2. CASE D!WinLock(r) \/ D!VendorFails(r)
    BY <2>2 DEF D!WinLock, D!VendorFails
  <2>3. CASE D!StoreResult(r) \/ D!Publish(r) \/ D!Release(r)
    BY <2>3 DEF D!StoreResult, D!Publish, D!Release
  <2> QED
    BY <1>2, <2>1, <2>2, <2>3 DEF D!Holder
<1>3. ASSUME NEW r \in Request, D!Waiter(r) PROVE OwnInv' /\ SucceededStays
  <2>1. CASE D!FindStored(r)
    BY <2>1 DEF D!FindStored
  <2>2. CASE D!Receive(r)
    BY <2>2 DEF D!Receive
  <2>3. CASE D!LoseLock(r) \/ D!Subscribe(r) \/ D!StartWait(r) \/ D!TimeOut(r)
    BY <2>3 DEF D!LoseLock, D!Subscribe, D!StartWait, D!TimeOut
  <2> QED
    BY <1>3, <2>1, <2>2, <2>3 DEF D!Waiter
<1>4. ASSUME NEW r \in Request, D!RedisRaises(r)
      PROVE OwnInv' /\ SucceededStays
  BY <1>4 DEF D!RedisRaises, D!AcquireRaises, D!StoreRaises, D!PublishRaises,
     D!ReleaseRaises, D!WaitRaises, D!Fail
<1>5. ASSUME NEW r \in Request, D!SubscribeTakesEffect(r)
      PROVE OwnInv' /\ SucceededStays
  BY <1>5 DEF D!SubscribeTakesEffect
<1>6. CASE D!Crash
  BY <1>6 DEF D!Crash
<1>7. CASE D!Tick
  BY <1>7 DEF D!Tick
<1>8. CASE UNCHANGED dedup
  BY <1>8 DEF dedup
<1> QED
  BY <1>1, <1>2, <1>3, <1>4, <1>5, <1>6, <1>7, <1>8 DEF D!Next, D!Coroutine

-----------------------------------------------------------------------------
Counted == {r \in Succeeded : at[r] \in {"exit", "done", "lost"}}

SourceInv ==
  /\ OwnInv
  /\ want \in [Request -> Key] /\ at \in [Request -> Stage]
  /\ cached \in [Key -> Request \cup {None}] /\ used \in Nat
  /\ \A r \in Request : at[r] \in {"fill", "count"} => source[r] = r
  /\ CacheHoldsSuccess
  /\ used <= Cardinality(Counted)

LEMMA SourceInit == Init => SourceInv
<1> SUFFICES ASSUME Init PROVE SourceInv
  OBVIOUS
<1>1. OwnInv
  BY OwnInit
<1>2. Counted \in SUBSET Request
  BY DEF Counted, Succeeded
<1>3. used <= Cardinality(Counted)
  BY <1>2, SubsetFinite DEF Init
<1> QED
  BY <1>1, <1>3 DEF Init, SourceInv, Stage, CacheHoldsSuccess

(* A step that counts nothing: requests that have ended stay where they    *)
(* are, or are lost.                                                       *)
LEMMA SourceFrame ==
  ASSUME SourceInv, OwnInv', SucceededStays,
         want' = want, at' \in [Request -> Stage],
         \A r \in Request :
           at[r] \in {"exit", "done", "lost"}
             => at'[r] \in {"exit", "done", "lost"},
         \A r \in Request : at'[r] \in {"fill", "count"} => r \in Succeeded',
         cached' \in [Key -> Request \cup {None}],
         \A k \in Key : \/ cached'[k] \in {None, cached[k]}
                        \/ cached'[k] \in Succeeded /\ want[cached'[k]] = k,
         used' \in {used, 0}
  PROVE  SourceInv'
<1>1. Counted \subseteq Counted' /\ Counted' \in SUBSET Request
  BY DEF Counted, SucceededStays, Succeeded
<1>2. Cardinality(Counted) <= Cardinality(Counted')
  BY <1>1, Smaller
<1>3. Cardinality(Counted) \in Nat /\ Cardinality(Counted') \in Nat
  BY <1>1, SubsetFinite
<1>4. used' \in Nat /\ used' <= Cardinality(Counted')
  BY <1>2, <1>3 DEF SourceInv
<1>5. CacheHoldsSuccess'
  BY DEF SourceInv, CacheHoldsSuccess, SucceededStays, Succeeded
<1> QED
  BY <1>4, <1>5 DEF SourceInv, Succeeded

(* A step of one request that leaves the cache and the counter alone.      *)
LEMMA SourceMove ==
  ASSUME SourceInv, OwnInv', SucceededStays, NEW r \in Request,
         UNCHANGED <<want, cache, used>>,
         \/ UNCHANGED at
         \/ /\ at[r] \notin {"exit", "done", "lost"}
            /\ \/ Goto(r, "pool") \/ Goto(r, "quota")
               \/ Goto(r, "cache") \/ Goto(r, "dedup")
         \/ Goto(r, "exit") \/ Goto(r, "done")
         \/ /\ at[r] \notin {"exit", "done", "lost"}
            /\ r \in Succeeded'
            /\ Goto(r, "fill") \/ Goto(r, "count")
  PROVE  SourceInv'
<1>1. at' \in [Request -> Stage]
  BY DEF SourceInv, Goto, Stage
<1>2. \A s \in Request : s # r => at'[s] = at[s]
  BY DEF SourceInv, Goto
<1>3. \/ at'[r] = at[r]
      \/ /\ at[r] \notin {"exit", "done", "lost"}
         /\ at'[r] \notin {"fill", "count"}
      \/ at'[r] \in {"exit", "done"}
      \/ at[r] \notin {"exit", "done", "lost"} /\ r \in Succeeded'
  BY DEF SourceInv, Goto
<1>4. \A s \in Request : s \in Succeeded => s \in Succeeded'
  BY DEF SucceededStays
<1>5. \A s \in Request : at[s] \in {"fill", "count"} => s \in Succeeded
  BY DEF SourceInv, Succeeded
<1> QED
  BY <1>1, <1>2, <1>3, <1>4, <1>5, SourceFrame DEF SourceInv, cache

LEMMA SourceFill ==
  ASSUME SourceInv, OwnInv', SucceededStays, NEW r \in Request,
         Fill(r) \/ FillRaises(r)
  PROVE  SourceInv'
<1>1. /\ at[r] = "fill" /\ Goto(r, "dedup")
      /\ want' = want /\ used' = used
      /\ Cached(r) \/ UNCHANGED <<cached, fresh>>
  BY DEF Fill, FillRaises, quota
<1>2. at' \in [Request -> Stage] /\ at'[r] = "dedup"
      /\ \A s \in Request : s # r => at'[s] = at[s]
  BY <1>1 DEF SourceInv, Goto, Stage
<1>3. r \in Succeeded /\ want[r] \in Key
  BY <1>1 DEF SourceInv, Succeeded
<1>4. /\ cached' \in [Key -> Request \cup {None}]
      /\ \A k \in Key : \/ cached'[k] = cached[k]
                        \/ (cached'[k] = r /\ k = want[r])
  BY <1>1, <1>3 DEF SourceInv, Cached
<1>5. \A s \in Request : at'[s] \in {"fill", "count"} => s \in Succeeded'
  BY <1>2 DEF SourceInv, Succeeded, SucceededStays
<1> QED
  BY <1>1, <1>2, <1>3, <1>4, <1>5, SourceFrame

LEMMA SourceCount ==
  ASSUME SourceInv, OwnInv', SucceededStays, NEW r \in Request, Count(r)
  PROVE  SourceInv'
<1>1. /\ at[r] = "count" /\ used' = used + 1
      /\ UNCHANGED <<want, cached, source>>
      /\ at' \in [Request -> Stage] /\ at'[r] = "exit"
      /\ \A s \in Request : s # r => at'[s] = at[s]
  BY DEF Count, SourceInv, Goto, Stage, dedup, cache
<1>2. r \in Succeeded /\ r \notin Counted
  BY <1>1 DEF SourceInv, Succeeded, Counted
<1>3. Counted' = Counted \cup {r}
  BY <1>1, <1>2 DEF Counted, Succeeded
<1>4. Counted \in SUBSET Request
  BY DEF Counted, Succeeded
<1>5. Cardinality(Counted') = Cardinality(Counted) + 1
  BY <1>2, <1>3, <1>4, AddOne
<1>6. Cardinality(Counted) \in Nat
  BY <1>4, SubsetFinite
<1>7. used' \in Nat /\ used' <= Cardinality(Counted')
  BY <1>1, <1>5, <1>6 DEF SourceInv
<1> QED
  BY <1>1, <1>7 DEF SourceInv, CacheHoldsSuccess

LEMMA SourceStep == SourceInv /\ [Next]_vars => SourceInv'
<1> SUFFICES ASSUME SourceInv, [Next]_vars PROVE SourceInv'
  OBVIOUS
<1>1. OwnInv' /\ SucceededStays
  BY OwnStep, DedupStep DEF SourceInv
<1>2. ASSUME NEW r \in Request, Arrive(r) \/ Before(r) PROVE SourceInv'
  BY <1>1, <1>2, SourceMove
  DEF Arrive, Before, Connect, PoolTimeout, Admit, Refuse, CacheHit, CacheMiss,
      quota
<1>3. ASSUME NEW r \in Request, Within(r) PROVE SourceInv'
  <2>1. CASE InDedup(r) \/ LeaveDedup(r)
    BY <1>1, <2>1, SourceMove DEF InDedup, LeaveDedup, quota
  <2>2. CASE VendorAnswers(r)
    <3>1. r \in Succeeded'
      BY <2>2 DEF VendorAnswers, D!VendorAnswers, Succeeded, SourceInv, OwnInv
    <3> QED
      BY <1>1, <2>2, <3>1, SourceMove DEF VendorAnswers, quota
  <2>3. CASE Publish(r)
    <3>1. r \in Succeeded'
      BY <1>1, <2>3
      DEF Publish, D!Publish, Succeeded, SucceededStays, SourceInv, OwnInv
    <3> QED
      BY <1>1, <2>3, <3>1, SourceMove DEF Publish, quota
  <2>4. CASE Fill(r)
    BY <1>1, <2>4, SourceFill
  <2>5. CASE Count(r)
    BY <1>1, <2>5, SourceCount
  <2> QED
    BY <1>3, <2>1, <2>2, <2>3, <2>4, <2>5 DEF Within
<1>4. ASSUME NEW r \in Request, RedisRaises(r) PROVE SourceInv'
  <2>1. CASE FillRaises(r)
    BY <1>1, <2>1, SourceFill
  <2>2. CASE FailOpen(r) \/ CacheRaises(r) \/ DedupRaises(r) \/ CountRaises(r)
    BY <1>1, <2>2, SourceMove
    DEF FailOpen, CacheRaises, DedupRaises, CountRaises, quota
  <2> QED
    BY <1>4, <2>1, <2>2 DEF RedisRaises
<1>5. ASSUME NEW r \in Request, SubscribeTakesEffect(r) PROVE SourceInv'
  BY <1>1, <1>5, SourceMove DEF SubscribeTakesEffect, quota
<1>6. CASE NewPeriod
  BY <1>1, <1>6, SourceFrame
  DEF NewPeriod, SourceInv, cache, Succeeded, SucceededStays
<1>7. CASE Tick
  <2>1. /\ cached' \in [Key -> Request \cup {None}]
        /\ \A k \in Key : cached'[k] \in {None, cached[k]}
        /\ UNCHANGED <<want, at, used>>
    BY <1>7 DEF Tick, SourceInv, quota
  <2> QED
    BY <1>1, <2>1, SourceFrame DEF SourceInv, Succeeded, SucceededStays
<1>8. CASE Crash
  <2>1. /\ at' = [r \in Request |-> IF at[r] # "new" /\ ~Over(r)
                                   THEN "lost" ELSE at[r]]
        /\ UNCHANGED <<want, cached, used>>
    BY <1>8 DEF Crash, cache, quota
  <2>2. /\ at' \in [Request -> Stage]
        /\ \A r \in Request : /\ at[r] \in {"exit", "done", "lost"}
                                => at'[r] \in {"exit", "done", "lost"}
                             /\ at'[r] \notin {"fill", "count"}
    BY <2>1 DEF SourceInv, Stage, Over
  <2> QED
    BY <1>1, <2>1, <2>2, SourceFrame DEF SourceInv
<1>9. CASE UNCHANGED vars
  BY <1>1, <1>9, SourceFrame
  DEF vars, cache, quota, SourceInv, Succeeded, SucceededStays
<1> QED
  BY <1>2, <1>3, <1>4, <1>5, <1>6, <1>7, <1>8, <1>9 DEF Next

(* What the cache holds is a successful response for the same key, however *)
(* fills, expiry, waiters, failures and crashes interleave.                *)
(* (proxy.py cache check and fill; response_cache.py)                      *)
THEOREM CachedSuccess == Spec => []CacheHoldsSuccess
<1>1. SourceInv => CacheHoldsSuccess
  BY DEF SourceInv
<1> QED
  BY <1>1, SourceInit, SourceStep, PTL DEF Spec

(* The counter never exceeds the number of requests whose own vendor call  *)
(* succeeded.  (proxy.py 294-331)                                          *)
THEOREM CountedOnce == Spec => []CountsOwnSuccess
<1>1. SourceInv => CountsOwnSuccess
  <2> SUFFICES ASSUME SourceInv PROVE CountsOwnSuccess
    OBVIOUS
  <2>1. Counted = {r \in Request : /\ source[r] = r
                                   /\ at[r] \in {"exit", "done", "lost"}}
    BY DEF Counted, Succeeded
  <2> QED
    BY <2>1 DEF SourceInv, CountsOwnSuccess
<1> QED
  BY <1>1, SourceInit, SourceStep, PTL DEF Spec

-----------------------------------------------------------------------------
(***************************************************************************)
(* What DedupProofs proves of Dedup holds of the proxy path: Path is the   *)
(* same instance as D, with the theorems, whose assumptions on the         *)
(* constants are part of ProxyAssumption.                                  *)
(***************************************************************************)
Path == INSTANCE DedupProofs

LEMMA DedupConstants ==
  /\ LockTTL \in Nat \ {0} /\ ResultTTL \in Nat \ {0}
  /\ WaitTimeout \in Nat /\ MaxHold \in Nat
  /\ None \notin Request /\ None \notin Key
  BY ProxyAssumption

(* The instances agree, action by action.                                  *)
LEMMA PathNext == D!Next => Path!Next
<1> SUFFICES ASSUME D!Next PROVE Path!Next
  OBVIOUS
<1> USE DEF D!redis, Path!redis, D!waiter, Path!waiter, D!result, Path!result,
            D!Goto, Path!Goto
<1>1. ASSUME NEW r \in Request, D!Arrive(r) \/ D!SubscribeTakesEffect(r)
      PROVE  Path!Next
  BY <1>1 DEF D!Arrive, Path!Arrive, D!SubscribeTakesEffect,
     Path!SubscribeTakesEffect, Path!Next
<1>2. ASSUME NEW r \in Request, D!Holder(r) PROVE Path!Next
  <2>1. Path!Holder(r)
    BY <1>2
    DEF D!Holder, Path!Holder, D!WinLock, Path!WinLock, D!SetNX, Path!SetNX,
        D!VendorAnswers, Path!VendorAnswers, D!VendorFails, Path!VendorFails,
        D!StoreResult, Path!StoreResult, D!Publish, Path!Publish, D!Delivered,
        Path!Delivered, D!Release, Path!Release
  <2> QED
    BY <2>1 DEF Path!Next, Path!Coroutine
<1>3. ASSUME NEW r \in Request, D!Waiter(r) PROVE Path!Next
  <2>1. Path!Waiter(r)
    BY <1>3
    DEF D!Waiter, Path!Waiter, D!LoseLock, Path!LoseLock, D!Subscribe,
        Path!Subscribe, D!FindStored, Path!FindStored, D!StartWait,
        Path!StartWait, D!Receive, Path!Receive, D!TimeOut, Path!TimeOut,
        D!Hangup, Path!Hangup
  <2> QED
    BY <2>1 DEF Path!Next, Path!Coroutine
<1>4. ASSUME NEW r \in Request, D!RedisRaises(r) PROVE Path!Next
  <2>1. Path!RedisRaises(r)
    BY <1>4
    DEF D!RedisRaises, Path!RedisRaises, D!AcquireRaises, Path!AcquireRaises,
        D!SetNX, Path!SetNX, D!StoreRaises, Path!StoreRaises,
        D!PublishRaises, Path!PublishRaises, D!Delivered, Path!Delivered,
        D!ReleaseRaises, Path!ReleaseRaises, D!WaitRaises, Path!WaitRaises,
        D!WaitPC, Path!WaitPC, D!Fail, Path!Fail, D!Hangup, Path!Hangup
  <2> QED
    BY <2>1 DEF Path!Next, Path!Coroutine
<1>5. CASE D!Crash
  BY <1>5 DEF D!Crash, Path!Crash, D!Active, Path!Active, Path!Next
<1>6. CASE D!Tick
  BY <1>6 DEF D!Tick, Path!Tick, D!Minus1, Path!Minus1, D!Holding,
     Path!Holding, D!HoldPC, Path!HoldPC, Path!Next
<1> QED
  BY <1>1, <1>2, <1>3, <1>4, <1>5, <1>6 DEF D!Next, D!Coroutine

LEMMA OnPath == Spec => Path!Safety
<1>1. D!Init => Path!Init
  BY DEF D!Init, Path!Init
<1>2. [D!Next]_(D!vars) => [Path!Next]_(Path!vars)
  BY PathNext
  DEF D!vars, Path!vars, D!redis, Path!redis, D!waiter, Path!waiter, D!result,
      Path!result
<1> QED
  BY <1>1, <1>2, ImplementsDedup, PTL DEF UsesDedup, D!Safety, Path!Safety

(* On the proxy path with its cache, quota and connection pool, two vendor *)
(* calls for one key are under way together only after a hold of the lock  *)
(* outlasted its TTL.  (proxy.py 245-341)                                  *)
THEOREM OneCallOnPath == Spec => []D!SingleFlightUnlessOverrun
<1>1. Path!SingleFlightUnlessOverrun => D!SingleFlightUnlessOverrun
  BY DEF Path!SingleFlightUnlessOverrun, D!SingleFlightUnlessOverrun,
     Path!Holding, D!Holding, Path!HoldPC, D!HoldPC, Path!Overrun, D!Overrun
<1>2. Path!Safety => []Path!SingleFlightUnlessOverrun
  BY DedupConstants, Path!OneFlightPerKey
<1> QED
  BY <1>1, <1>2, OnPath, PTL

(* If no hold lasts as long as the lock, dedup.py:5 is true of the path.   *)
THEOREM OneCallWhenTimely ==
  MaxHold < LockTTL => (Spec => []D!SingleFlight)
<1> SUFFICES ASSUME MaxHold < LockTTL PROVE Spec => []D!SingleFlight
  OBVIOUS
<1>1. Path!SingleFlight => D!SingleFlight
  BY DEF Path!SingleFlight, D!SingleFlight, Path!Holding, D!Holding,
     Path!HoldPC, D!HoldPC
<1>2. Path!Safety => []Path!SingleFlight
  BY DedupConstants, Path!SingleFlightWhenTimely
<1> QED
  BY <1>1, <1>2, OnPath, PTL

(* No waiter of the proxy path misses the publication, and none is given   *)
(* the response to a failed call or to another key.                        *)
THEOREM WaitersOnPath == Spec => [](D!NoLostWakeup /\ D!SharedResponses)
<1>1. Path!NoLostWakeup => D!NoLostWakeup
  BY DEF Path!NoLostWakeup, D!NoLostWakeup
<1>2. Path!SharedResponses => D!SharedResponses
  BY DEF Path!SharedResponses, D!SharedResponses
<1>3. Path!Safety => []Path!NoLostWakeup
  BY DedupConstants, Path!NoPublicationMissed
<1>4. Path!Safety => []Path!SharedResponses
  BY DedupConstants, Path!ResponsesOfTheKey
<1> QED
  BY <1>1, <1>2, <1>3, <1>4, OnPath, PTL

(* The proxy path, seen as requests that ask, call and settle, shares one  *)
(* call among the requests of a key.                                       *)
THEOREM PathSharesCalls == Spec => Path!SharesCalls
<1>1. Path!Safety => Path!SharesCalls
  BY DedupConstants, Path!ImplementsSharedCalls
<1> QED
  BY <1>1, OnPath, PTL

-----------------------------------------------------------------------------
FreshOK == fresh \in [Key -> 0..CacheTTL]

LEMMA FreshStep == FreshOK /\ [Next]_vars => FreshOK'
<1> SUFFICES ASSUME FreshOK, [Next]_vars PROVE FreshOK'
  OBVIOUS
<1> USE ProxyAssumption DEF FreshOK
<1>1. CASE UNCHANGED fresh
  BY <1>1
<1>2. ASSUME NEW r \in Request, Fill(r) \/ FillRaises(r) PROVE FreshOK'
  BY <1>2 DEF Fill, FillRaises, Cached
<1>3. ASSUME NEW r \in Request, Arrive(r) \/ Before(r) PROVE UNCHANGED fresh
  BY <1>3 DEF Arrive, Before, Connect, PoolTimeout, Admit, Refuse, CacheHit,
     CacheMiss, cache
<1>4. ASSUME NEW r \in Request, Within(r), ~Fill(r) PROVE UNCHANGED fresh
  BY <1>4 DEF Within, InDedup, LeaveDedup, VendorAnswers, Publish, Count, cache
<1>5. ASSUME NEW r \in Request, RedisRaises(r), ~FillRaises(r)
      PROVE  UNCHANGED fresh
  BY <1>5 DEF RedisRaises, FailOpen, CacheRaises, DedupRaises, CountRaises,
     cache
<1>6. ASSUME NEW r \in Request, SubscribeTakesEffect(r) PROVE UNCHANGED fresh
  BY <1>6 DEF SubscribeTakesEffect, cache
<1>7. CASE Tick
  <2>1. \A n \in 0..CacheTTL : D!Minus1(n) \in 0..CacheTTL
    BY DEF D!Minus1
  <2> QED
    BY <1>7, <2>1 DEF Tick
<1>8. CASE NewPeriod \/ Crash \/ UNCHANGED vars
  BY <1>1, <1>8 DEF NewPeriod, Crash, vars, cache
<1> QED
  BY <1>1, <1>2, <1>3, <1>4, <1>5, <1>6, <1>7, <1>8 DEF Next

(* Type correctness, with that of the deduplication on the path.           *)
THEOREM TypeCorrect == Spec => []TypeOK
<1>1. Init => FreshOK
  BY ProxyAssumption DEF Init, FreshOK
<1>2. Path!TypeOK => D!TypeOK
  BY DEF Path!TypeOK, D!TypeOK, Path!PC, D!PC, Path!HoldPC, D!HoldPC,
     Path!WaitPC, D!WaitPC
<1>3. Path!Safety => []Path!TypeOK
  BY DedupConstants, Path!TypeCorrect
<1>4. D!TypeOK /\ SourceInv /\ StageOK /\ FreshOK => TypeOK
  BY DEF SourceInv, StageOK, FreshOK, TypeOK
<1>5. QuotaInv => StageOK
  BY DEF QuotaInv
<1> QED
  BY <1>1, <1>2, <1>3, <1>4, <1>5, OnPath, QuotaInit, QuotaStep, SourceInit,
     SourceStep, FreshStep, PTL
  DEF Spec
=============================================================================
