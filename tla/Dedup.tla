------------------------------- MODULE Dedup -------------------------------
(***************************************************************************)
(* The request deduplication of src/gateway/cache/dedup.py: a Redis lock   *)
(* per dedup key, a stored result, and a pub/sub channel on which the      *)
(* request that won the lock hands its vendor response to the others.      *)
(*                                                                         *)
(* A request enters once, so its identity also names the vendor call it    *)
(* makes.  Time is kept as countdowns (TTLs, the waiter's deadline) and as *)
(* the age of a hold; Tick is one unit of time.  Redis executes one        *)
(* command at a time, so every command is one step and the coroutines      *)
(* interleave between commands.                                            *)
(***************************************************************************)
EXTENDS Naturals

CONSTANTS Request,      \* requests that reach dedup_context, each once
          Key,          \* dedup keys
          None,         \* no key, no request
          LockTTL,      \* _LOCK_TTL_SECONDS
          ResultTTL,    \* _RESULT_TTL_SECONDS
          WaitTimeout,  \* the timeout of dedup_wait
          MaxHold       \* longest time a request spends inside the lock

ASSUME DedupAssumption ==
  /\ LockTTL \in Nat \ {0} /\ ResultTTL \in Nat \ {0}
  /\ WaitTimeout \in Nat /\ MaxHold \in Nat
  /\ None \notin Request /\ None \notin Key

VARIABLES pc,      \* where the coroutine of a request stands
          key,     \* its dedup key
          lock,    \* seconds left of the lock of a key, 0 when there is none
          stored,  \* whose response is under the result key
          ttl,     \* seconds left of the stored result
          sub,     \* the subscription of a waiter, as Redis sees it
          inbox,   \* first message on that subscription
          left,    \* seconds left until the waiter's deadline
          age,     \* how long a request has held, or held, the lock
          status,  \* how the request ended
          source   \* whose vendor call produced the response it got

redis == <<lock, stored, ttl>>
waiter == <<sub, inbox, left>>
result == <<status, source>>
vars == <<pc, key, redis, waiter, age, result>>

HoldPC == {"call", "store", "publish", "release"}
WaitPC == {"subscribe", "check", "wait"}
PC == {"idle", "acquire", "done", "lost"} \cup HoldPC \cup WaitPC

TypeOK ==
  /\ pc \in [Request -> PC]
  /\ key \in [Request -> Key \cup {None}]
  /\ lock \in [Key -> 0..LockTTL]
  /\ stored \in [Key -> Request \cup {None}]
  /\ ttl \in [Key -> 0..ResultTTL]
  /\ sub \in [Request -> {"off", "sent", "on", "late"}]
  /\ inbox \in [Request -> Request \cup {None}]
  /\ left \in [Request -> 0..WaitTimeout]
  /\ age \in [Request -> Nat]
  /\ status \in [Request -> {"none", "ok", "error", "timeout", "failed"}]
  /\ source \in [Request -> Request \cup {None}]

Init ==
  /\ pc = [r \in Request |-> "idle"]
  /\ key = [r \in Request |-> None]
  /\ lock = [k \in Key |-> 0]
  /\ stored = [k \in Key |-> None]
  /\ ttl = [k \in Key |-> 0]
  /\ sub = [r \in Request |-> "off"]
  /\ inbox = [r \in Request |-> None]
  /\ left = [r \in Request |-> 0]
  /\ age = [r \in Request |-> 0]
  /\ status = [r \in Request |-> "none"]
  /\ source = [r \in Request |-> None]

-----------------------------------------------------------------------------
Holding(r) == pc[r] \in HoldPC
Over(r) == pc[r] \in {"done", "lost"}
Active(r) == pc[r] \notin {"idle", "done", "lost"}
Goto(r, l) == pc' = [pc EXCEPT ![r] = l]

(* What SET NX leaves under the lock key: an existing lock is untouched.   *)
SetNX(k) == IF lock[k] = 0 THEN [lock EXCEPT ![k] = LockTTL] ELSE lock

(* Who has an unread message once r has published: a waiter of the key     *)
(* that Redis counts as subscribed.  Only the first message matters, the   *)
(* waiter leaves with it.                                                  *)
Delivered(r) ==
  [s \in Request |-> IF /\ key[s] = key[r]
                        /\ sub[s] \in {"on", "late"}
                        /\ inbox[s] = None
                     THEN r ELSE inbox[s]]

(* A waiter leaves dedup_wait: unsubscribe and aclose in its finally.      *)
Hangup(r) ==
  /\ sub' = [sub EXCEPT ![r] = "off"]
  /\ inbox' = [inbox EXCEPT ![r] = None]
  /\ left' = [left EXCEPT ![r] = 0]

-----------------------------------------------------------------------------
(* Faulty variants of the actions below, which the properties must refute. *)

(* SET without NX.                                                         *)
WinLockWithoutNX(r) ==
  /\ pc[r] = "acquire"
  /\ lock' = [lock EXCEPT ![key[r]] = LockTTL]
  /\ age' = [age EXCEPT ![r] = 0]
  /\ Goto(r, "call")
  /\ UNCHANGED <<key, stored, ttl, waiter, result>>

(* An error response is published like a 2xx one.                          *)
VendorErrorPublished(r) ==
  /\ pc[r] = "call"
  /\ status' = [status EXCEPT ![r] = "error"]
  /\ Goto(r, "store")
  /\ UNCHANGED <<key, redis, waiter, age, source>>

(* The result outlives its TTL.                                            *)
StoreResultLonger(r) ==
  /\ pc[r] = "store"
  /\ stored' = [stored EXCEPT ![key[r]] = r]
  /\ ttl' = [ttl EXCEPT ![key[r]] = LockTTL + ResultTTL]
  /\ Goto(r, "publish")
  /\ UNCHANGED <<key, lock, waiter, age, result>>

(* The PUBLISH is forgotten: waiters could only poll the result key.       *)
PublishForgotten(r) ==
  /\ pc[r] = "publish"
  /\ Goto(r, "release")
  /\ UNCHANGED <<key, redis, waiter, age, result>>

(* A holder whose call failed waits for another's response instead.        *)
VendorFailsThenWaits(r) ==
  /\ pc[r] = "call"
  /\ Goto(r, "subscribe")
  /\ UNCHANGED <<key, redis, waiter, age, result>>

-----------------------------------------------------------------------------
(* A request reaches dedup_context with the key make_dedup_key gave it.    *)
Arrive(r) ==
  /\ pc[r] = "idle"
  /\ \E k \in Key : key' = [key EXCEPT ![r] = k]
  /\ Goto(r, "acquire")
  /\ UNCHANGED <<redis, waiter, age, result>>

(* SET key "1" NX EX: the lock names no owner.                             *)
WinLock(r) ==
  /\ pc[r] = "acquire"
  /\ lock[key[r]] = 0
  /\ lock' = SetNX(key[r])
  /\ age' = [age EXCEPT ![r] = 0]
  /\ Goto(r, "call")
  /\ UNCHANGED <<key, stored, ttl, waiter, result>>

LoseLock(r) ==
  /\ pc[r] = "acquire"
  /\ lock[key[r]] > 0
  /\ Goto(r, "subscribe")
  /\ UNCHANGED <<key, redis, waiter, age, result>>

(* The vendor answers 2xx: the caller goes on to dedup_publish.            *)
VendorAnswers(r) ==
  /\ pc[r] = "call"
  /\ status' = [status EXCEPT ![r] = "ok"]
  /\ source' = [source EXCEPT ![r] = r]
  /\ Goto(r, "store")
  /\ UNCHANGED <<key, redis, waiter, age>>

(* The vendor answers another status or the call raises: nothing is        *)
(* published and the block is left.                                        *)
VendorFails(r) ==
  /\ pc[r] = "call"
  /\ status' = [status EXCEPT ![r] = "error"]
  /\ Goto(r, "release")
  /\ UNCHANGED <<key, redis, waiter, age, source>>

(* First half of dedup_publish: SET result EX.                             *)
StoreResult(r) ==
  /\ pc[r] = "store"
  /\ stored' = [stored EXCEPT ![key[r]] = r]
  /\ ttl' = [ttl EXCEPT ![key[r]] = ResultTTL]
  /\ Goto(r, "publish")
  /\ UNCHANGED <<key, lock, waiter, age, result>>

(* Second half: PUBLISH reaches the subscriptions of this moment.          *)
Publish(r) ==
  /\ pc[r] = "publish"
  /\ inbox' = Delivered(r)
  /\ Goto(r, "release")
  /\ UNCHANGED <<key, redis, sub, left, age, result>>

(* The finally of dedup_context deletes the key, whoever set it last.      *)
Release(r) ==
  /\ pc[r] = "release"
  /\ lock' = [lock EXCEPT ![key[r]] = 0]
  /\ Goto(r, "done")
  /\ UNCHANGED <<key, stored, ttl, waiter, age, result>>

-----------------------------------------------------------------------------
(* pubsub.subscribe writes SUBSCRIBE on a connection of its own; the reply *)
(* is only read (and ignored) by the polling loop, so the GET that follows *)
(* on another connection may overtake it.                                  *)
Subscribe(r) ==
  /\ pc[r] = "subscribe"
  /\ sub' = [sub EXCEPT ![r] = "sent"]
  /\ Goto(r, "check")
  /\ UNCHANGED <<key, redis, inbox, left, age, result>>

(* Redis executes the SUBSCRIBE; "late" when the GET has come first.       *)
SubscribeTakesEffect(r) ==
  /\ sub[r] = "sent"
  /\ sub' = [sub EXCEPT ![r] = IF pc[r] = "check" THEN "on" ELSE "late"]
  /\ UNCHANGED <<pc, key, redis, inbox, left, age, result>>

(* GET of the result key finds a response: it is returned at once.         *)
FindStored(r) ==
  /\ pc[r] = "check"
  /\ stored[key[r]] # None
  /\ status' = [status EXCEPT ![r] = "ok"]
  /\ source' = [source EXCEPT ![r] = stored[key[r]]]
  /\ Hangup(r)
  /\ Goto(r, "done")
  /\ UNCHANGED <<key, redis, age>>

(* It finds nothing: the deadline is set and the polling begins.           *)
StartWait(r) ==
  /\ pc[r] = "check"
  /\ stored[key[r]] = None
  /\ left' = [left EXCEPT ![r] = WaitTimeout]
  /\ Goto(r, "wait")
  /\ UNCHANGED <<key, redis, sub, inbox, age, result>>

(* get_message returns the message.                                        *)
Receive(r) ==
  /\ pc[r] = "wait"
  /\ inbox[r] # None
  /\ status' = [status EXCEPT ![r] = "ok"]
  /\ source' = [source EXCEPT ![r] = inbox[r]]
  /\ Hangup(r)
  /\ Goto(r, "done")
  /\ UNCHANGED <<key, redis, age>>

(* remaining <= 0 at the head of the loop, even when a message has come in *)
(* since the last poll: None, and the caller answers 504.                  *)
TimeOut(r) ==
  /\ pc[r] = "wait"
  /\ left[r] = 0
  /\ status' = [status EXCEPT ![r] = "timeout"]
  /\ Hangup(r)
  /\ Goto(r, "done")
  /\ UNCHANGED <<key, redis, age, source>>

-----------------------------------------------------------------------------
(* A Redis command raises.  It may have been executed all the same: only   *)
(* the reply is certain to be missing.                                     *)
Fail(r, l) ==
  /\ status' = [status EXCEPT ![r] = "failed"]
  /\ Goto(r, l)
  /\ UNCHANGED source

(* _acquire_lock raises before the try: nothing will delete the lock.      *)
AcquireRaises(r) ==
  /\ pc[r] = "acquire"
  /\ lock' \in {lock, SetNX(key[r])}
  /\ Fail(r, "done")
  /\ UNCHANGED <<key, stored, ttl, waiter, age>>

(* dedup_publish raises in the block: the finally still runs.              *)
StoreRaises(r) ==
  /\ pc[r] = "store"
  /\ \/ UNCHANGED <<stored, ttl>>
     \/ /\ stored' = [stored EXCEPT ![key[r]] = r]
        /\ ttl' = [ttl EXCEPT ![key[r]] = ResultTTL]
  /\ Fail(r, "release")
  /\ UNCHANGED <<key, lock, waiter, age>>

PublishRaises(r) ==
  /\ pc[r] = "publish"
  /\ inbox' \in {inbox, Delivered(r)}
  /\ Fail(r, "release")
  /\ UNCHANGED <<key, redis, sub, left, age>>

(* _release_lock raises in the finally: the response is lost, and the lock *)
(* stays until it expires unless the DEL was executed.                     *)
ReleaseRaises(r) ==
  /\ pc[r] = "release"
  /\ lock' \in {lock, [lock EXCEPT ![key[r]] = 0]}
  /\ Fail(r, "done")
  /\ UNCHANGED <<key, stored, ttl, waiter, age>>

(* subscribe, GET, get_message or unsubscribe raises in dedup_wait.        *)
WaitRaises(r) ==
  /\ pc[r] \in WaitPC
  /\ Fail(r, "done")
  /\ Hangup(r)
  /\ UNCHANGED <<key, redis, age>>

RedisRaises(r) ==
  \/ AcquireRaises(r) \/ StoreRaises(r) \/ PublishRaises(r)
  \/ ReleaseRaises(r) \/ WaitRaises(r)

(* The process dies with every request in it; what Redis holds stays.      *)
Crash ==
  /\ \E r \in Request : Active(r)
  /\ pc' = [r \in Request |-> IF Active(r) THEN "lost" ELSE pc[r]]
  /\ sub' = [r \in Request |-> "off"]
  /\ inbox' = [r \in Request |-> None]
  /\ left' = [r \in Request |-> 0]
  /\ UNCHANGED <<key, redis, age, result>>

(* One unit of time.  A request spends at most MaxHold inside the lock.    *)
Minus1(n) == IF n = 0 THEN 0 ELSE n - 1

(* A faulty Tick: `remaining` is worked out once, before the polling loop. *)
TickDeadlineStands ==
  /\ \A r \in Request : Holding(r) => age[r] < MaxHold
  /\ lock' = [k \in Key |-> Minus1(lock[k])]
  /\ ttl' = [k \in Key |-> Minus1(ttl[k])]
  /\ stored' = [k \in Key |-> IF ttl[k] <= 1 THEN None ELSE stored[k]]
  /\ age' = [r \in Request |-> IF Holding(r) THEN age[r] + 1 ELSE age[r]]
  /\ UNCHANGED <<pc, key, sub, inbox, left, result>>

Tick ==
  /\ \A r \in Request : Holding(r) => age[r] < MaxHold
  /\ lock' = [k \in Key |-> Minus1(lock[k])]
  /\ ttl' = [k \in Key |-> Minus1(ttl[k])]
  /\ stored' = [k \in Key |-> IF ttl[k] <= 1 THEN None ELSE stored[k]]
  /\ left' = [r \in Request |-> Minus1(left[r])]
  /\ age' = [r \in Request |-> IF Holding(r) THEN age[r] + 1 ELSE age[r]]
  /\ UNCHANGED <<pc, key, sub, inbox, result>>

-----------------------------------------------------------------------------
Holder(r) ==
  \/ WinLock(r) \/ VendorAnswers(r) \/ VendorFails(r)
  \/ StoreResult(r) \/ Publish(r) \/ Release(r)

Waiter(r) ==
  \/ LoseLock(r) \/ Subscribe(r) \/ FindStored(r) \/ StartWait(r)
  \/ Receive(r) \/ TimeOut(r)

Coroutine(r) == Holder(r) \/ Waiter(r) \/ RedisRaises(r)

Next ==
  \/ \E r \in Request : Arrive(r) \/ Coroutine(r) \/ SubscribeTakesEffect(r)
  \/ Crash
  \/ Tick

Safety == Init /\ [][Next]_vars

-----------------------------------------------------------------------------
Overrun(k) == \E t \in Request : key[t] = k /\ age[t] >= LockTTL

(* Two requests hold the lock of one key at once only when some request    *)
(* has held it past its TTL: neither crashes, nor lost replies, nor the    *)
(* ownerless DEL can bring two vendor calls about by themselves.           *)
(* (dedup.py _acquire_lock, _release_lock, dedup_context)                  *)
SingleFlightUnlessOverrun ==
  \A r, s \in Request :
    Holding(r) /\ Holding(s) /\ key[r] = key[s] /\ r # s => Overrun(key[r])

(* A waiter whose subscription was in place when it looked for a stored    *)
(* result misses no publication: while it has no message, the stored       *)
(* result is either absent or one whose publication has not happened yet   *)
(* (or never will).  (dedup.py dedup_publish, dedup_wait)                  *)
NoLostWakeup ==
  \A r \in Request :
    pc[r] = "wait" /\ sub[r] = "on" /\ inbox[r] = None
    => LET s == stored[key[r]] IN
       s = None \/ pc[s] \in {"publish", "lost"} \/ status[s] = "failed"

(* A waiter never gets the response of a call that failed, that is still   *)
(* under way, or that was made for another key, and none answers without a *)
(* response.  (dedup.py dedup_publish; proxy.py non-2xx branch)            *)
SharedResponses ==
  \A r \in Request :
    /\ status[r] = "ok" => source[r] # None
    /\ source[r] # None =>
         /\ key[source[r]] = key[r]
         /\ status[source[r]] # "error" /\ pc[source[r]] # "call"

-----------------------------------------------------------------------------
(* dedup.py:5 says that all other requests receive the result without      *)
(* making a redundant vendor call: one flight per key.                     *)
SingleFlight ==
  \A r, s \in Request :
    Holding(r) /\ Holding(s) /\ key[r] = key[s] => r = s
=============================================================================
