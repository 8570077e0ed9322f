------------------------------- MODULE Proxy -------------------------------
(***************************************************************************)
(* A synchronous request through src/gateway/routes/proxy.py: database     *)
(* connection, quota check, response cache, deduplication and vendor call, *)
(* cache fill, publication, quota increment.  The requests modelled are    *)
(* those of one vendor whose API key has a quota.                          *)
(*                                                                         *)
(* The deduplication is module Dedup, composed by sharing its variables:   *)
(* proxy() drives the coroutine of a request through it, and adds its own  *)
(* steps between the vendor's answer and the publication (fill) and        *)
(* between the publication and the release of the lock (count).            *)
(***************************************************************************)
EXTENDS Naturals, FiniteSets

CONSTANTS Request, Key, None, LockTTL, ResultTTL, WaitTimeout, MaxHold,
          CacheTTL,   \* what resolve_ttl gives; 0 stores nothing
          Limit,      \* quota_limit of the vendor's API key
          PoolSize    \* db_pool_size + db_max_overflow

ASSUME ProxyAssumption ==
  /\ LockTTL \in Nat \ {0} /\ ResultTTL \in Nat \ {0}
  /\ WaitTimeout \in Nat /\ MaxHold \in Nat
  /\ CacheTTL \in Nat /\ Limit \in Nat /\ PoolSize \in Nat \ {0}
  /\ IsFiniteSet(Request) /\ None \notin Request /\ None \notin Key

VARIABLES pc, key, lock, stored, ttl, sub, inbox, left, age, status,
          source      \* the variables of Dedup

VARIABLES want,       \* cache and dedup key of a request
          at,         \* where proxy() stands
          cached,     \* whose response the cache holds for a key
          fresh,      \* seconds left of the cache entry
          used,       \* quota counter of the current period
          unchecked   \* auxiliary: let through because the check raised

D == INSTANCE Dedup

dedup == <<pc, key, lock, stored, ttl, sub, inbox, left, age, status, source>>
cache == <<cached, fresh>>
quota == <<used, unchecked>>
vars == <<dedup, want, at, cache, quota>>

Stage == {"new", "pool", "quota", "cache", "dedup", "fill", "count", "exit",
          "done", "lost"}

TypeOK ==
  /\ D!TypeOK
  /\ want \in [Request -> Key]
  /\ at \in [Request -> Stage]
  /\ cached \in [Key -> Request \cup {None}]
  /\ fresh \in [Key -> 0..CacheTTL]
  /\ used \in Nat
  /\ unchecked \subseteq Request

Init ==
  /\ D!Init
  /\ want \in [Request -> Key]
  /\ at = [r \in Request |-> "new"]
  /\ cached = [k \in Key |-> None]
  /\ fresh = [k \in Key |-> 0]
  /\ used = 0
  /\ unchecked = {}

-----------------------------------------------------------------------------
Goto(r, l) == at' = [at EXCEPT ![r] = l]

Over(r) == at[r] \in {"done", "lost"}

(* The requests whose session holds a connection: from the first query to  *)
(* the closing of the session, after the response.                         *)
Connected == {r \in Request : at[r] \notin {"new", "pool", "done", "lost"}}

(* Past the quota check, the increment still ahead.                        *)
Admitted == {r \in Request : at[r] \in {"cache", "dedup", "fill", "count"}}

-----------------------------------------------------------------------------
(* Faulty variants of the actions below, which the properties must refute. *)

(* check_quota compares with <=.                                           *)
AdmitAtLimit(r) ==
  /\ at[r] = "quota"
  /\ used <= Limit
  /\ Goto(r, "cache")
  /\ UNCHANGED <<dedup, want, cache, quota>>

(* A response from the cache is counted too.                               *)
CacheHitCounted(r) ==
  /\ at[r] = "cache"
  /\ cached[want[r]] # None
  /\ Goto(r, "count")
  /\ UNCHANGED <<dedup, want, cache, quota>>

(* Every response is cached, whatever its status.                          *)
VendorAnswersAny(r) ==
  /\ at[r] = "dedup"
  /\ D!VendorAnswers(r) \/ D!VendorFails(r)
  /\ Goto(r, "fill")
  /\ UNCHANGED <<want, cache, quota>>

(* The TTL of set_cached is not the resolved one.                          *)
CachedLonger(r) ==
  /\ cached' = [cached EXCEPT ![want[r]] = r]
  /\ fresh' = [fresh EXCEPT ![want[r]] = CacheTTL + 1]

(* A failing set_cached leaves the block without releasing the lock.       *)
FillRaisesUnreleased(r) ==
  /\ at[r] = "fill"
  /\ D!Fail(r, "done")
  /\ Goto(r, "done")
  /\ UNCHANGED <<want, cache, quota, key, lock, stored, ttl, sub, inbox,
                 left, age>>

-----------------------------------------------------------------------------
(* The request is authenticated and its vendor resolved.                   *)
Arrive(r) ==
  /\ at[r] = "new"
  /\ Goto(r, "pool")
  /\ UNCHANGED <<dedup, want, cache, quota>>

(* The endpoint lookup takes a connection from the pool; the API key is    *)
(* read on the same one.                                                   *)
Connect(r) ==
  /\ at[r] = "pool"
  /\ Cardinality(Connected) < PoolSize
  /\ Goto(r, "quota")
  /\ UNCHANGED <<dedup, want, cache, quota>>

(* db_pool_timeout runs out before a connection comes free: 500.           *)
PoolTimeout(r) ==
  /\ at[r] = "pool"
  /\ Cardinality(Connected) >= PoolSize
  /\ Goto(r, "done")
  /\ UNCHANGED <<dedup, want, cache, quota>>

(* check_quota: the counter is below the limit.                            *)
Admit(r) ==
  /\ at[r] = "quota"
  /\ used < Limit
  /\ Goto(r, "cache")
  /\ UNCHANGED <<dedup, want, cache, quota>>

(* 429.                                                                    *)
Refuse(r) ==
  /\ at[r] = "quota"
  /\ used >= Limit
  /\ Goto(r, "done")
  /\ UNCHANGED <<dedup, want, cache, quota>>

(* check_quota raises: allowed = True.                                     *)
FailOpen(r) ==
  /\ at[r] = "quota"
  /\ unchecked' = unchecked \cup {r}
  /\ Goto(r, "cache")
  /\ UNCHANGED <<dedup, want, cache, used>>

CacheHit(r) ==
  /\ at[r] = "cache"
  /\ cached[want[r]] # None
  /\ Goto(r, "done")
  /\ UNCHANGED <<dedup, want, cache, quota>>

(* The request goes on to dedup_context; the cache is not read again.      *)
CacheMiss(r) ==
  /\ at[r] = "cache"
  /\ cached[want[r]] = None
  /\ D!Arrive(r) /\ key'[r] = want[r]
  /\ Goto(r, "dedup")
  /\ UNCHANGED <<want, cache, quota>>

(* get_cached raises: 500.                                                 *)
CacheRaises(r) ==
  /\ at[r] = "cache"
  /\ Goto(r, "done")
  /\ UNCHANGED <<dedup, want, cache, quota>>

-----------------------------------------------------------------------------
(* The steps of the request inside dedup_context.                          *)
InDedup(r) ==
  /\ at[r] = "dedup"
  /\ \/ D!WinLock(r) \/ D!LoseLock(r) \/ D!VendorFails(r)
     \/ D!StoreResult(r) \/ D!Subscribe(r) \/ D!StartWait(r)
  /\ UNCHANGED <<want, at, cache, quota>>

(* Those that leave it, and with it proxy().                               *)
LeaveDedup(r) ==
  /\ at[r] \in {"dedup", "exit"}
  /\ D!Release(r) \/ D!FindStored(r) \/ D!Receive(r) \/ D!TimeOut(r)
  /\ Goto(r, "done")
  /\ UNCHANGED <<want, cache, quota>>

(* A Redis command of dedup.py raises: the lock is still released after a  *)
(* failed publication, any other failure ends the request with 500.        *)
DedupRaises(r) ==
  /\ \/ /\ at[r] = "dedup"
        /\ D!StoreRaises(r) \/ D!PublishRaises(r)
        /\ UNCHANGED at
     \/ /\ at[r] \in {"dedup", "exit"}
        /\ D!AcquireRaises(r) \/ D!ReleaseRaises(r) \/ D!WaitRaises(r)
        /\ Goto(r, "done")
  /\ UNCHANGED <<want, cache, quota>>

(* 2xx: the cache comes before the publication.                            *)
VendorAnswers(r) ==
  /\ at[r] = "dedup"
  /\ D!VendorAnswers(r)
  /\ Goto(r, "fill")
  /\ UNCHANGED <<want, cache, quota>>

(* What set_cached leaves in the cache.                                    *)
Cached(r) ==
  IF CacheTTL = 0 THEN UNCHANGED <<cached, fresh>>
  ELSE /\ cached' = [cached EXCEPT ![want[r]] = r]
       /\ fresh' = [fresh EXCEPT ![want[r]] = CacheTTL]

Fill(r) ==
  /\ at[r] = "fill"
  /\ Cached(r)
  /\ Goto(r, "dedup")
  /\ UNCHANGED <<dedup, want, quota>>

(* set_cached raises: the block is left without publication or increment.  *)
FillRaises(r) ==
  /\ at[r] = "fill"
  /\ CacheTTL > 0
  /\ Cached(r) \/ UNCHANGED <<cached, fresh>>
  /\ D!StoreRaises(r) /\ UNCHANGED <<stored, ttl>>
  /\ Goto(r, "dedup")
  /\ UNCHANGED <<want, quota>>

(* dedup_publish is through; the increment is next, the lock still held.   *)
Publish(r) ==
  /\ at[r] = "dedup"
  /\ D!Publish(r)
  /\ Goto(r, "count")
  /\ UNCHANGED <<want, cache, quota>>

(* increment_quota counts in the bucket of this moment.                    *)
Count(r) ==
  /\ at[r] = "count"
  /\ used' = used + 1
  /\ Goto(r, "exit")
  /\ UNCHANGED <<dedup, want, cache, unchecked>>

(* It raises before the INCR is executed: logged, the response stands.     *)
CountRaises(r) ==
  /\ at[r] = "count"
  /\ Goto(r, "exit")
  /\ UNCHANGED <<dedup, want, cache, quota>>

-----------------------------------------------------------------------------
SubscribeTakesEffect(r) ==
  /\ D!SubscribeTakesEffect(r)
  /\ UNCHANGED <<want, at, cache, quota>>

(* period_bucket names a new bucket, whose counter does not exist.         *)
NewPeriod ==
  /\ used' = 0
  /\ UNCHANGED <<dedup, want, at, cache, unchecked>>

Tick ==
  /\ D!Tick
  /\ fresh' = [k \in Key |-> D!Minus1(fresh[k])]
  /\ cached' = [k \in Key |-> IF fresh[k] <= 1 THEN None ELSE cached[k]]
  /\ UNCHANGED <<want, at, quota>>

(* The process dies with every request in it.                              *)
Crash ==
  /\ \E r \in Request : at[r] # "new" /\ ~Over(r)
  /\ at' = [r \in Request |-> IF at[r] # "new" /\ ~Over(r)
                              THEN "lost" ELSE at[r]]
  /\ \/ D!Crash
     \/ /\ \A r \in Request : ~D!Active(r)
        /\ UNCHANGED dedup
  /\ UNCHANGED <<want, cache, quota>>

-----------------------------------------------------------------------------
Before(r) ==
  \/ Connect(r) \/ PoolTimeout(r) \/ Admit(r) \/ Refuse(r)
  \/ CacheHit(r) \/ CacheMiss(r)

Within(r) ==
  \/ InDedup(r) \/ LeaveDedup(r) \/ VendorAnswers(r) \/ Fill(r)
  \/ Publish(r) \/ Count(r)

RedisRaises(r) ==
  \/ FailOpen(r) \/ CacheRaises(r) \/ DedupRaises(r) \/ FillRaises(r)
  \/ CountRaises(r)

Next ==
  \/ \E r \in Request :
       Arrive(r) \/ Before(r) \/ Within(r) \/ RedisRaises(r)
       \/ SubscribeTakesEffect(r)
  \/ NewPeriod \/ Tick \/ Crash

(* The event loop runs every ready coroutine, a request gets a connection  *)
(* or a pool timeout, and time passes.  Of Redis and the vendor it is an   *)
(* assumption that they answer or break the connection: cache/redis.py     *)
(* sets no socket_timeout, and httpx limits each phase of a call, not the  *)
(* whole.  Nothing makes Redis raise.                                      *)
Fairness ==
  WF_vars(Tick) /\ \A r \in Request : WF_vars(Before(r) \/ Within(r))

Spec == Init /\ [][Next]_vars /\ Fairness

-----------------------------------------------------------------------------
(* The requests checked before the counter moved overshoot the limit, but  *)
(* by no more than the connection pool lets through at once, and by those  *)
(* let through unchecked.  (proxy.py check_quota ... increment_quota)      *)
OvershootBounded == used < Limit + PoolSize + Cardinality(unchecked)

(* Only the request that made a successful vendor call is counted, and     *)
(* once: no cache hit, no waiter, no failure.  (proxy.py 294-331)          *)
CountsOwnSuccess ==
  used <= Cardinality({r \in Request : /\ source[r] = r
                                       /\ at[r] \in {"exit", "done", "lost"}})

(* What the cache holds is a 2xx response to a request with the same key.  *)
(* (proxy.py cache check and fill; response_cache.py)                      *)
CacheHoldsSuccess ==
  \A k \in Key : LET s == cached[k] IN
    s # None => want[s] = k /\ source[s] = s

(* Seen through Dedup's variables, proxy() uses the deduplication as its   *)
(* protocol demands.  (proxy.py 245-341)                                   *)
UsesDedup == D!Safety

(* A request that has entered ends, even when the pool is full of requests *)
(* that wait for another's response, which may never come: the waiters'    *)
(* deadline sees to that.  (proxy.py, session.py, dedup_wait)              *)
RequestEnds(r) == at[r] = "pool" ~> Over(r)
=============================================================================
