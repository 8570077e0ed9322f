---------------------------- MODULE DedupProofs ----------------------------
(***************************************************************************)
(* Theorems about Dedup for every set of requests and keys and every value *)
(* of the TTLs and of MaxHold.                                             *)
(***************************************************************************)
EXTENDS DedupRefinement, TLAPS

(***************************************************************************)
(* Type correctness.                                                       *)
(***************************************************************************)

(* The helpers keep the types of what they update.                         *)
LEMMA Minus1Type ==
  ASSUME NEW m \in Nat, NEW n \in 0..m
  PROVE  Minus1(n) \in 0..m
BY DEF Minus1

LEMMA SetNXType ==
  ASSUME TypeOK, NEW k \in Key
  PROVE  SetNX(k) \in [Key -> 0..LockTTL]
BY DedupAssumption DEF TypeOK, SetNX

LEMMA DeliveredType ==
  ASSUME TypeOK, NEW r \in Request
  PROVE  Delivered(r) \in [Request -> Request \cup {None}]
BY DEF TypeOK, Delivered

(* A request past its arrival has a key.  Arrive is what establishes it,   *)
(* and the other steps read key[r] as a key.                               *)
KeyKnown ==
  \A r \in Request : /\ pc[r] = "idle" => key[r] = None
                     /\ pc[r] # "idle" => key[r] \in Key

TypeInv == TypeOK /\ KeyKnown

LEMMA TypeInit == Init => TypeInv
BY DedupAssumption DEF Init, TypeInv, TypeOK, KeyKnown, PC

LEMMA TypeStep == TypeInv /\ [Next]_vars => TypeInv'
<1> SUFFICES ASSUME TypeOK, KeyKnown, [Next]_vars PROVE TypeOK' /\ KeyKnown'
  BY DEF TypeInv
<1> USE DEF vars, redis, waiter, result, KeyKnown
<1>1. CASE UNCHANGED vars
  BY <1>1 DEF TypeOK
<1>2. ASSUME NEW r \in Request, Arrive(r) PROVE TypeOK' /\ KeyKnown'
  BY <1>2 DEF TypeOK, Arrive, Goto, PC
<1>3. ASSUME NEW r \in Request, Holder(r) PROVE TypeOK' /\ KeyKnown'
  <2>1. CASE WinLock(r)
    <3>1. key[r] \in Key
      BY <2>1 DEF WinLock
    <3> QED
      BY <2>1, <3>1, SetNXType DEF TypeOK, WinLock, Goto, PC, HoldPC
  <2>2. CASE VendorAnswers(r)
    BY <2>2 DEF TypeOK, VendorAnswers, Goto, PC, HoldPC
  <2>3. CASE VendorFails(r)
    BY <2>3 DEF TypeOK, VendorFails, Goto, PC, HoldPC
  <2>4. CASE StoreResult(r)
    BY <2>4, DedupAssumption DEF TypeOK, StoreResult, Goto, PC, HoldPC
  <2>5. CASE Publish(r)
    BY <2>5, DeliveredType DEF TypeOK, Publish, Goto, PC, HoldPC
  <2>6. CASE Release(r)
    BY <2>6, DedupAssumption DEF TypeOK, Release, Goto, PC
  <2> QED
    BY <1>3, <2>1, <2>2, <2>3, <2>4, <2>5, <2>6 DEF Holder
<1>4. ASSUME NEW r \in Request, Waiter(r) PROVE TypeOK' /\ KeyKnown'
  <2>1. CASE LoseLock(r)
    BY <2>1 DEF TypeOK, LoseLock, Goto, PC, WaitPC
  <2>2. CASE Subscribe(r)
    BY <2>2 DEF TypeOK, Subscribe, Goto, PC, WaitPC
  <2>3. CASE FindStored(r)
    <3>1. key[r] \in Key
      BY <2>3 DEF FindStored
    <3> QED
      BY <2>3, <3>1, DedupAssumption DEF TypeOK, FindStored, Goto, Hangup, PC
  <2>4. CASE StartWait(r)
    BY <2>4, DedupAssumption DEF TypeOK, StartWait, Goto, PC, WaitPC
  <2>5. CASE Receive(r)
    BY <2>5, DedupAssumption DEF TypeOK, Receive, Goto, Hangup, PC
  <2>6. CASE TimeOut(r)
    BY <2>6, DedupAssumption DEF TypeOK, TimeOut, Goto, Hangup, PC
  <2> QED
    BY <1>4, <2>1, <2>2, <2>3, <2>4, <2>5, <2>6 DEF Waiter
<1>5. ASSUME NEW r \in Request, RedisRaises(r) PROVE TypeOK' /\ KeyKnown'
  <2>1. CASE AcquireRaises(r)
    <3>1. key[r] \in Key
      BY <2>1 DEF AcquireRaises
    <3>2. lock' \in [Key -> 0..LockTTL]
      BY <2>1, <3>1, SetNXType DEF AcquireRaises, TypeOK
    <3> QED
      BY <2>1, <3>2 DEF TypeOK, AcquireRaises, Fail, Goto, PC
  <2>2. CASE StoreRaises(r)
    <3>1. /\ stored' \in [Key -> Request \cup {None}]
          /\ ttl' \in [Key -> 0..ResultTTL]
      BY <2>2, DedupAssumption DEF TypeOK, StoreRaises
    <3> QED
      BY <2>2, <3>1 DEF TypeOK, StoreRaises, Fail, Goto, PC, HoldPC
  <2>3. CASE PublishRaises(r)
    <3>1. inbox' \in [Request -> Request \cup {None}]
      BY <2>3, DeliveredType DEF TypeOK, PublishRaises
    <3> QED
      BY <2>3, <3>1 DEF TypeOK, PublishRaises, Fail, Goto, PC, HoldPC
  <2>4. CASE ReleaseRaises(r)
    <3>1. lock' \in [Key -> 0..LockTTL]
      BY <2>4, DedupAssumption DEF TypeOK, ReleaseRaises
    <3> QED
      BY <2>4, <3>1 DEF TypeOK, ReleaseRaises, Fail, Goto, PC
  <2>5. CASE WaitRaises(r)
    BY <2>5, DedupAssumption DEF TypeOK, WaitRaises, Fail, Goto, Hangup, PC, WaitPC
  <2> QED
    BY <1>5, <2>1, <2>2, <2>3, <2>4, <2>5 DEF RedisRaises
<1>6. ASSUME NEW r \in Request, SubscribeTakesEffect(r)
      PROVE  TypeOK' /\ KeyKnown'
  BY <1>6 DEF TypeOK, SubscribeTakesEffect
<1>7. CASE Crash
  BY <1>7, DedupAssumption DEF TypeOK, Crash, Active, PC
<1>8. CASE Tick
  <2>1. lock' \in [Key -> 0..LockTTL]
    BY <1>8, DedupAssumption, Minus1Type DEF TypeOK, Tick
  <2>2. ttl' \in [Key -> 0..ResultTTL]
    BY <1>8, DedupAssumption, Minus1Type DEF TypeOK, Tick
  <2>3. left' \in [Request -> 0..WaitTimeout]
    BY <1>8, DedupAssumption, Minus1Type DEF TypeOK, Tick
  <2>4. age' \in [Request -> Nat]
    BY <1>8 DEF TypeOK, Tick
  <2>5. stored' \in [Key -> Request \cup {None}]
    BY <1>8 DEF TypeOK, Tick
  <2> QED
    BY <1>8, <2>1, <2>2, <2>3, <2>4, <2>5 DEF TypeOK, Tick
<1> QED
  BY <1>1, <1>2, <1>3, <1>4, <1>5, <1>6, <1>7, <1>8 DEF Next, Coroutine

(* Every variable keeps its type, whatever Redis, the vendor or a crash    *)
(* does to the requests.  (dedup.py, all operations)                       *)
THEOREM TypeCorrect == Safety => []TypeOK
<1>1. TypeInv => TypeOK
  BY DEF TypeInv
<1> QED
  BY <1>1, TypeInit, TypeStep, PTL DEF Safety

-----------------------------------------------------------------------------
(***************************************************************************)
(* At most one flight per key, unless a hold has outlived the lock's TTL.  *)
(* By itself the property is not inductive: nothing in it keeps a second   *)
(* request from winning.  What does is that the lock of a holder whose key *)
(* was never overrun has exactly LockTTL minus its age left.               *)
(***************************************************************************)
LockMatchesAge ==
  \A r \in Request :
    Holding(r) /\ ~Overrun(key[r]) => lock[key[r]] = LockTTL - age[r]

NotYet(r) == pc[r] \in {"idle", "acquire"}

FreshAge == \A r \in Request : NotYet(r) => age[r] = 0

FlightInv ==
  TypeInv /\ FreshAge /\ LockMatchesAge /\ SingleFlightUnlessOverrun

(* A holder of a key never overrun still finds its lock in Redis.          *)
LEMMA HolderHasLock ==
  ASSUME FlightInv, NEW r \in Request, Holding(r), ~Overrun(key[r])
  PROVE  key[r] \in Key /\ lock[key[r]] > 0 /\ lock[key[r]] = LockTTL - age[r]
<1>1. key[r] \in Key
  BY DEF FlightInv, TypeInv, KeyKnown, Holding, HoldPC
<1>2. age[r] < LockTTL /\ age[r] \in Nat
  BY DedupAssumption DEF FlightInv, TypeInv, TypeOK, Overrun
<1> QED
  BY <1>1, <1>2, DedupAssumption DEF FlightInv, LockMatchesAge

(* A step that leaves the holders, their locks, ages and keys alone keeps  *)
(* the invariant; this is every step but the few that follow.              *)
LEMMA FlightFrame ==
  ASSUME FlightInv, TypeInv',
         \A r \in Request : NotYet(r)' => NotYet(r),
         \A r \in Request : Holding(r)' => Holding(r),
         \A r \in Request : Holding(r)' /\ ~Overrun(key[r])
                             => lock'[key[r]] = lock[key[r]],
         UNCHANGED <<key, age>>
  PROVE  FlightInv'
BY DEF FlightInv, FreshAge, LockMatchesAge, SingleFlightUnlessOverrun, Overrun

LEMMA FlightInit == Init => FlightInv
BY TypeInit DEF Init, FlightInv, FreshAge, LockMatchesAge,
   SingleFlightUnlessOverrun, Holding, HoldPC

LEMMA FlightArrive ==
  ASSUME FlightInv, TypeInv', NEW r \in Request, Arrive(r)
  PROVE  FlightInv'
<1>1. PICK k \in Key : key' = [key EXCEPT ![r] = k]
  BY DEF Arrive
<1>2. \A s \in Request : Holding(s)' => Holding(s) /\ s # r /\ key'[s] = key[s]
  BY <1>1 DEF FlightInv, TypeInv, TypeOK, Arrive, Goto, Holding, HoldPC
<1>3. \A s \in Request : Holding(s)' => key[s] \in Key
  BY <1>2 DEF FlightInv, TypeInv, KeyKnown, Holding, HoldPC
<1>4. \A l \in Key : Overrun(l) => Overrun(l)'
  <2> SUFFICES ASSUME NEW l \in Key, NEW t \in Request,
                      key[t] = l, age[t] >= LockTTL
               PROVE  Overrun(l)'
    BY DEF Overrun
  <2>1. t # r
    BY DedupAssumption DEF FlightInv, TypeInv, KeyKnown, Arrive
  <2> QED
    BY <1>1, <2>1 DEF FlightInv, TypeInv, TypeOK, Arrive, Overrun
<1>5. UNCHANGED <<lock, age>>
  BY DEF Arrive, redis
<1>6. FreshAge'
  BY DEF FlightInv, TypeInv, TypeOK, FreshAge, NotYet, Arrive, Goto
<1> QED
  BY <1>2, <1>3, <1>4, <1>5, <1>6
  DEF FlightInv, LockMatchesAge, SingleFlightUnlessOverrun

(* Winning needs an absent lock, which no holder of that key has.          *)
LEMMA FlightWinLock ==
  ASSUME FlightInv, TypeInv', NEW r \in Request, WinLock(r)
  PROVE  FlightInv'
<1>1. key' = key /\ key[r] \in Key
  BY DEF WinLock, FlightInv, TypeInv, KeyKnown
<1>2. /\ lock' = [lock EXCEPT ![key[r]] = LockTTL]
      /\ age' = [age EXCEPT ![r] = 0] /\ pc' = [pc EXCEPT ![r] = "call"]
  BY DEF WinLock, SetNX, Goto
<1>3. \A s \in Request : s # r => (Holding(s)' <=> Holding(s))
  BY <1>2 DEF FlightInv, TypeInv, TypeOK, Holding, HoldPC
<1>4. \A s \in Request : s # r => age'[s] = age[s]
  BY <1>2 DEF FlightInv, TypeInv, TypeOK
<1>5. \A s \in Request : Holding(s) /\ key[s] = key[r] => Overrun(key[r])
  BY HolderHasLock DEF WinLock
<1>6. age[r] = 0
  BY DEF WinLock, FlightInv, FreshAge, NotYet
<1>7. age' = age
  BY <1>2, <1>6 DEF FlightInv, TypeInv, TypeOK
<1>8. FreshAge'
  BY <1>2, <1>7 DEF FlightInv, TypeInv, TypeOK, FreshAge, NotYet
<1>9. LockMatchesAge'
  <2> SUFFICES ASSUME NEW s \in Request, Holding(s)', ~Overrun(key[s])
               PROVE  lock'[key[s]] = LockTTL - age[s]
    BY <1>1, <1>7 DEF LockMatchesAge, Overrun
  <2>1. CASE s = r
    BY <1>1, <1>2, <1>6, <2>1, DedupAssumption DEF FlightInv, TypeInv, TypeOK
  <2>2. CASE s # r
    <3>1. Holding(s) /\ key[s] # key[r]
      BY <1>3, <1>5, <2>2
    <3> QED
      BY <1>2, <3>1, HolderHasLock DEF FlightInv, TypeInv, TypeOK
  <2> QED
    BY <2>1, <2>2
<1>10. SingleFlightUnlessOverrun'
  BY <1>1, <1>3, <1>5, <1>7
  DEF FlightInv, SingleFlightUnlessOverrun, Overrun
<1> QED
  BY <1>8, <1>9, <1>10 DEF FlightInv

(* The ownerless DEL of a holder whose key was never overrun can only hit  *)
(* its own lock.                                                           *)
LEMMA FlightRelease ==
  ASSUME FlightInv, TypeInv', NEW r \in Request, pc[r] = "release",
         pc' = [pc EXCEPT ![r] = "done"], UNCHANGED <<key, age>>,
         lock' = [lock EXCEPT ![key[r]] = 0] \/ lock' = lock
  PROVE  FlightInv'
<1>1. \A s \in Request : Holding(s)' => Holding(s) /\ s # r
  BY DEF FlightInv, TypeInv, TypeOK, Holding, HoldPC
<1>2. \A s \in Request : NotYet(s)' => NotYet(s)
  BY DEF FlightInv, TypeInv, TypeOK, NotYet
<1>3. \A s \in Request : Holding(s)' /\ ~Overrun(key[s]) => key[s] # key[r]
  BY <1>1 DEF FlightInv, SingleFlightUnlessOverrun, Holding, HoldPC
<1>4. \A s \in Request : Holding(s)' /\ ~Overrun(key[s])
                          => lock'[key[s]] = lock[key[s]]
  BY <1>1, <1>3 DEF FlightInv, TypeInv, TypeOK, KeyKnown, Holding, HoldPC
<1> QED
  BY <1>1, <1>2, <1>4, FlightFrame

(* Ageing: a holder stays in step with its lock until the TTL is used up.  *)
LEMMA FlightTick ==
  ASSUME FlightInv, TypeInv', Tick
  PROVE  FlightInv'
<1>1. UNCHANGED <<pc, key>>
  BY DEF Tick
<1>2. /\ \A s \in Request :
           age'[s] = IF Holding(s) THEN age[s] + 1 ELSE age[s]
      /\ \A k \in Key : lock'[k] = Minus1(lock[k])
  BY DEF Tick
<1>3. \A s \in Request : age[s] \in Nat
  BY DEF FlightInv, TypeInv, TypeOK
<1>4. \A k : Overrun(k) => Overrun(k)'
  BY <1>1, <1>2, <1>3, DedupAssumption DEF Overrun
<1>5. FreshAge'
  BY <1>1, <1>2 DEF FlightInv, FreshAge, NotYet, Holding, HoldPC
<1>6. LockMatchesAge'
  <2> SUFFICES ASSUME NEW s \in Request, Holding(s), ~Overrun(key[s])'
               PROVE  lock'[key[s]] = LockTTL - age'[s]
    BY <1>1 DEF LockMatchesAge, Holding
  <2>1. /\ key[s] \in Key /\ lock[key[s]] > 0
        /\ lock[key[s]] = LockTTL - age[s]
    BY <1>4, <1>1, HolderHasLock DEF Overrun
  <2>2. age'[s] = age[s] + 1 /\ lock'[key[s]] = Minus1(lock[key[s]])
    BY <1>2, <2>1
  <2>3. lock[key[s]] \in Nat
    BY <2>1, DedupAssumption DEF FlightInv, TypeInv, TypeOK
  <2> QED
    BY <1>3, <2>1, <2>2, <2>3, DedupAssumption DEF Minus1
<1>7. SingleFlightUnlessOverrun'
  BY <1>1, <1>4 DEF FlightInv, SingleFlightUnlessOverrun, Holding
<1> QED
  BY <1>5, <1>6, <1>7 DEF FlightInv

LEMMA FlightStep == FlightInv /\ [Next]_vars => FlightInv'
<1> SUFFICES ASSUME FlightInv, [Next]_vars PROVE FlightInv'
  OBVIOUS
<1>0. TypeInv'
  BY TypeStep DEF FlightInv
<1> USE DEF Goto, Holding, HoldPC, NotYet
<1>1. CASE UNCHANGED vars
  BY <1>0, <1>1, FlightFrame DEF vars, redis
<1>2. ASSUME NEW r \in Request, Arrive(r) PROVE FlightInv'
  BY <1>0, <1>2, FlightArrive
<1>3. ASSUME NEW r \in Request, Holder(r) PROVE FlightInv'
  <2>1. CASE WinLock(r)
    BY <1>0, <2>1, FlightWinLock
  <2>2. CASE VendorAnswers(r) \/ VendorFails(r) \/ StoreResult(r) \/ Publish(r)
    <3>1. /\ UNCHANGED <<key, age, lock>>
          /\ \A s \in Request : NotYet(s)' => NotYet(s)
          /\ \A s \in Request : Holding(s)' => Holding(s)
      BY <2>2 DEF FlightInv, TypeInv, TypeOK, VendorAnswers, VendorFails,
                  StoreResult, Publish, redis
    <3> QED
      BY <1>0, <3>1, FlightFrame
  <2>3. CASE Release(r)
    BY <1>0, <2>3, FlightRelease DEF Release
  <2> QED
    BY <1>3, <2>1, <2>2, <2>3 DEF Holder
<1>4. ASSUME NEW r \in Request, Waiter(r) PROVE FlightInv'
  <2>1. /\ UNCHANGED <<key, age, lock>>
        /\ \A s \in Request : NotYet(s)' => NotYet(s)
        /\ \A s \in Request : Holding(s)' => Holding(s)
    BY <1>4 DEF FlightInv, TypeInv, TypeOK, Waiter, LoseLock, Subscribe,
                FindStored, StartWait, Receive, TimeOut, redis
  <2> QED
    BY <1>0, <2>1, FlightFrame
<1>5. ASSUME NEW r \in Request, RedisRaises(r) PROVE FlightInv'
  <2>1. CASE AcquireRaises(r)
    <3>1. key[r] \in Key
      BY <2>1 DEF FlightInv, TypeInv, KeyKnown, AcquireRaises
    <3>2. \A s \in Request : Holding(s) /\ ~Overrun(key[s])
                             => lock'[key[s]] = lock[key[s]]
      BY <2>1, <3>1, HolderHasLock
      DEF FlightInv, TypeInv, TypeOK, AcquireRaises, SetNX
    <3>3. /\ UNCHANGED <<key, age>>
          /\ \A s \in Request : NotYet(s)' => NotYet(s)
          /\ \A s \in Request : Holding(s)' => Holding(s)
      BY <2>1 DEF FlightInv, TypeInv, TypeOK, AcquireRaises, Fail
    <3> QED
      BY <1>0, <3>2, <3>3, FlightFrame
  <2>2. CASE StoreRaises(r) \/ PublishRaises(r) \/ WaitRaises(r)
    <3>1. /\ UNCHANGED <<key, age, lock>>
          /\ \A s \in Request : NotYet(s)' => NotYet(s)
          /\ \A s \in Request : Holding(s)' => Holding(s)
      BY <2>2 DEF FlightInv, TypeInv, TypeOK, StoreRaises, PublishRaises,
                  WaitRaises, WaitPC, Fail, redis
    <3> QED
      BY <1>0, <3>1, FlightFrame
  <2>3. CASE ReleaseRaises(r)
    BY <1>0, <2>3, FlightRelease DEF ReleaseRaises, Fail
  <2> QED
    BY <1>5, <2>1, <2>2, <2>3 DEF RedisRaises
<1>6. ASSUME NEW r \in Request, SubscribeTakesEffect(r) PROVE FlightInv'
  BY <1>0, <1>6, FlightFrame DEF SubscribeTakesEffect, redis
<1>7. CASE Crash
  <2>1. /\ UNCHANGED <<key, age, lock>>
        /\ \A s \in Request : NotYet(s)' => NotYet(s)
        /\ \A s \in Request : Holding(s)' => Holding(s)
    BY <1>7 DEF Crash, Active, redis
  <2> QED
    BY <1>0, <2>1, FlightFrame
<1>8. CASE Tick
  BY <1>0, <1>8, FlightTick
<1> QED
  BY <1>1, <1>2, <1>3, <1>4, <1>5, <1>6, <1>7, <1>8 DEF Next, Coroutine

(* Whatever the interleaving, the crashes and the lost replies, two        *)
(* requests hold the lock of one key at once only after some request has   *)
(* held it for LockTTL or longer.  (dedup.py _acquire_lock, _release_lock) *)
THEOREM OneFlightPerKey == Safety => []SingleFlightUnlessOverrun
<1>1. FlightInv => SingleFlightUnlessOverrun
  BY DEF FlightInv
<1> QED
  BY <1>1, FlightInit, FlightStep, PTL DEF Safety

-----------------------------------------------------------------------------
(***************************************************************************)
(* What dedup.py promises, under the condition that makes it true: if no   *)
(* request can spend LockTTL inside the block, each key has one flight.    *)
(***************************************************************************)
AgeBounded == \A r \in Request : age[r] <= MaxHold

LEMMA AgeStep == FlightInv /\ AgeBounded /\ [Next]_vars => AgeBounded'
<1> SUFFICES ASSUME FlightInv, AgeBounded, [Next]_vars PROVE AgeBounded'
  OBVIOUS
<1>1. age \in [Request -> Nat] /\ MaxHold \in Nat
  BY DedupAssumption DEF FlightInv, TypeInv, TypeOK
<1>2. CASE Tick
  BY <1>1, <1>2 DEF Tick, AgeBounded
<1>3. CASE \E r \in Request : WinLock(r)
  BY <1>1, <1>3 DEF WinLock, AgeBounded
<1>4. CASE UNCHANGED age
  BY <1>4 DEF AgeBounded
<1> QED
  BY <1>2, <1>3, <1>4
  DEF Next, vars, Arrive, Coroutine, Holder, VendorAnswers, VendorFails,
      StoreResult, Publish, Release, Waiter, LoseLock, Subscribe, FindStored,
      StartWait, Receive, TimeOut, RedisRaises, AcquireRaises, StoreRaises,
      PublishRaises, ReleaseRaises, WaitRaises, SubscribeTakesEffect, Crash

(* When every hold ends before the lock expires, no redundant vendor call  *)
(* is made.  (dedup.py:5, for vendors that answer within the lock's TTL)   *)
THEOREM SingleFlightWhenTimely ==
  MaxHold < LockTTL => (Safety => []SingleFlight)
<1> SUFFICES ASSUME MaxHold < LockTTL PROVE Safety => []SingleFlight
  OBVIOUS
<1>1. Init => AgeBounded
  <2>1. 0 <= MaxHold
    BY DedupAssumption
  <2>2. Init => \A r \in Request : age[r] = 0
    BY DEF Init
  <2> QED
    BY <2>1, <2>2 DEF AgeBounded
<1>2. FlightInv /\ AgeBounded => SingleFlight
  <2> SUFFICES ASSUME FlightInv, AgeBounded,
                      NEW r \in Request, NEW s \in Request,
                      Holding(r), Holding(s), key[r] = key[s]
               PROVE  r = s
    BY DEF SingleFlight
  <2>1. ~Overrun(key[r])
    BY DedupAssumption DEF Overrun, AgeBounded, FlightInv, TypeInv, TypeOK
  <2> QED
    BY <2>1 DEF FlightInv, SingleFlightUnlessOverrun
<1> QED
  BY <1>1, <1>2, FlightInit, FlightStep, AgeStep, PTL DEF Safety
-----------------------------------------------------------------------------
(***************************************************************************)
(* Whose response a request gets.  SharedResponses speaks of requests; to  *)
(* be inductive it must follow the response through Redis as well: what is *)
(* stored under a key or waits in an inbox came from a call for that key,  *)
(* and only a request past its call can store and publish.                 *)
(***************************************************************************)
Answered(s, k) == s \in Request /\ source[s] = s /\ key[s] = k

CarriesAnswers ==
  /\ \A r \in Request : source[r] # None => Answered(source[r], key[r])
  /\ \A r \in Request : inbox[r] # None => Answered(inbox[r], key[r])
  /\ \A k \in Key : stored[k] # None => Answered(stored[k], k)
  /\ \A r \in Request : pc[r] \in {"store", "publish"} => source[r] = r

Unanswered(r) == pc[r] \in {"idle", "acquire", "call"} \cup WaitPC

AnswerAndStatus ==
  \A r \in Request :
    /\ Unanswered(r) => source[r] = None /\ status[r] = "none"
    /\ status[r] = "ok" => source[r] # None
    /\ source[r] # None => status[r] # "error"

SourceInv == TypeInv /\ CarriesAnswers /\ AnswerAndStatus

LEMMA SourceInit == Init => SourceInv
BY TypeInit DEF Init, SourceInv, CarriesAnswers, AnswerAndStatus, Answered

LEMMA SourceShared == SourceInv => SharedResponses
BY DEF SourceInv, CarriesAnswers, AnswerAndStatus, Answered, Unanswered,
       SharedResponses

(* Steps that give no answer, and move no answer through Redis but by      *)
(* dropping it.                                                            *)
AnswersKept ==
  /\ UNCHANGED <<key, source>>
  /\ \A r \in Request : inbox'[r] \in {inbox[r], None}
  /\ \A k \in Key : stored'[k] \in {stored[k], None}
  /\ \A r \in Request : pc'[r] \in {"store", "publish"} =>
                           pc[r] \in {"store", "publish"}
  /\ \A r \in Request : Unanswered(r)' => Unanswered(r) /\ status'[r] = status[r]
  /\ \A r \in Request : status'[r] = "error" /\ source[r] # None
                           => status[r] = "error"
  /\ \A r \in Request : status'[r] = "ok" => status[r] = "ok"

LEMMA SourceFrame ==
  ASSUME SourceInv, TypeInv', AnswersKept
  PROVE  SourceInv'
BY DEF AnswersKept, SourceInv, CarriesAnswers, AnswerAndStatus, Answered,
       TypeInv, TypeOK

LEMMA SourceStep == SourceInv /\ [Next]_vars => SourceInv'
<1> SUFFICES ASSUME SourceInv, [Next]_vars PROVE SourceInv'
  OBVIOUS
<1>0. TypeInv' /\ TypeInv
  BY TypeStep DEF SourceInv
<1> USE DEF Goto, TypeInv, TypeOK, WaitPC, Unanswered
<1>1. CASE UNCHANGED vars
  <2>1. AnswersKept
    BY <1>1 DEF AnswersKept, vars, redis, waiter, result, PC
  <2> QED
    BY <1>0, <2>1, SourceFrame
<1>2. ASSUME NEW r \in Request, Arrive(r) PROVE SourceInv'
  <2>1. source[r] = None /\ \A s \in Request : s # r => key'[s] = key[s]
    BY <1>0, <1>2 DEF Arrive, SourceInv, AnswerAndStatus
  <2>2. \A s, k : Answered(s, k) => Answered(s, k)'
    BY <2>1, <1>2, DedupAssumption DEF Answered, Arrive, result
  <2>3. inbox[r] = None
    <3>1. key[r] \notin Key
      BY <1>0, <1>2, DedupAssumption DEF Arrive, KeyKnown
    <3>2. \A s \in Request : key[s] = None => source[s] = None
      BY <1>0, DedupAssumption DEF KeyKnown, SourceInv, AnswerAndStatus
    <3> QED
      BY <1>0, <1>2, <3>2, DedupAssumption
      DEF Arrive, KeyKnown, SourceInv, CarriesAnswers, Answered
  <2> QED
    BY <1>0, <1>2, <2>1, <2>2, <2>3
    DEF Arrive, redis, waiter, result, SourceInv, CarriesAnswers, AnswerAndStatus
<1>3. ASSUME NEW r \in Request, Holder(r) PROVE SourceInv'
  <2>1. CASE WinLock(r) \/ VendorFails(r) \/ Release(r)
    <3>1. AnswersKept
      BY <1>0, <2>1 DEF AnswersKept, WinLock, VendorFails, Release, redis, waiter,
           result, SourceInv, AnswerAndStatus
    <3> QED
      BY <1>0, <3>1, SourceFrame
  <2>2. CASE VendorAnswers(r)
    <3>1. \A s, k : Answered(s, k) => Answered(s, k)'
      BY <1>0, <2>2 DEF Answered, VendorAnswers
    <3>2. Answered(r, key[r])'
      BY <1>0, <2>2 DEF Answered, VendorAnswers
    <3> QED
      BY <1>0, <2>2, <3>1, <3>2, DedupAssumption
      DEF VendorAnswers, redis, waiter, SourceInv, CarriesAnswers, AnswerAndStatus
  <2>3. CASE StoreResult(r)
    <3>1. source[r] = r /\ \A s, k : Answered(s, k) <=> Answered(s, k)'
      BY <2>3 DEF SourceInv, CarriesAnswers, StoreResult, Answered, result
    <3> QED
      BY <1>0, <2>3, <3>1
      DEF StoreResult, waiter, result, SourceInv, CarriesAnswers, AnswerAndStatus,
          Answered
  <2>4. CASE Publish(r)
    <3>1. source[r] = r /\ \A s, k : Answered(s, k) <=> Answered(s, k)'
      BY <2>4 DEF SourceInv, CarriesAnswers, Publish, Answered, result
    <3> QED
      BY <1>0, <2>4, <3>1
      DEF Publish, Delivered, redis, result, SourceInv, CarriesAnswers,
          AnswerAndStatus, Answered
  <2> QED
    BY <1>3, <2>1, <2>2, <2>3, <2>4 DEF Holder
<1>4. ASSUME NEW r \in Request, Waiter(r) PROVE SourceInv'
  <2>1. CASE LoseLock(r) \/ Subscribe(r) \/ StartWait(r) \/ TimeOut(r)
    <3>1. AnswersKept
      BY <1>0, <2>1 DEF AnswersKept, LoseLock, Subscribe, StartWait, TimeOut, Hangup,
           redis, waiter, result
    <3> QED
      BY <1>0, <3>1, SourceFrame
  <2>2. ASSUME NEW s \in Request, Answered(s, key[r]), s # r,
               source' = [source EXCEPT ![r] = s],
               status' = [status EXCEPT ![r] = "ok"],
               pc' = [pc EXCEPT ![r] = "done"],
               inbox' = [inbox EXCEPT ![r] = None],
               UNCHANGED <<key, stored>>, source[r] = None
        PROVE  SourceInv'
    <3>1. \A t, k : Answered(t, k) => Answered(t, k)'
      BY <1>0, <2>2, DedupAssumption DEF Answered
    <3> QED
      BY <1>0, <2>2, <3>1, DedupAssumption
      DEF SourceInv, CarriesAnswers, AnswerAndStatus
  <2>3. CASE FindStored(r)
    <3>1. key[r] \in Key /\ source[r] = None
      BY <1>0, <2>3 DEF FindStored, KeyKnown, SourceInv, AnswerAndStatus
    <3>2. Answered(stored[key[r]], key[r]) /\ stored[key[r]] # r
      BY <2>3, <3>1, DedupAssumption DEF FindStored, SourceInv, CarriesAnswers, Answered
    <3> QED
      BY <2>2, <2>3, <3>1, <3>2 DEF FindStored, Hangup, redis, Answered
  <2>4. CASE Receive(r)
    <3>1. source[r] = None
      BY <1>0, <2>4 DEF Receive, SourceInv, AnswerAndStatus
    <3>2. Answered(inbox[r], key[r]) /\ inbox[r] # r
      BY <2>4, <3>1, DedupAssumption DEF Receive, SourceInv, CarriesAnswers, Answered
    <3> QED
      BY <2>2, <2>4, <3>1, <3>2 DEF Receive, Hangup, redis, Answered
  <2> QED
    BY <1>4, <2>1, <2>3, <2>4 DEF Waiter
<1>5. ASSUME NEW r \in Request, RedisRaises(r) PROVE SourceInv'
  <2>1. CASE AcquireRaises(r) \/ ReleaseRaises(r) \/ WaitRaises(r)
    <3>1. AnswersKept
      BY <1>0, <2>1 DEF AnswersKept, AcquireRaises, ReleaseRaises, WaitRaises, Fail,
           Hangup, redis, waiter
    <3> QED
      BY <1>0, <3>1, SourceFrame
  <2>2. CASE StoreRaises(r)
    <3>1. source[r] = r /\ \A s, k : Answered(s, k) <=> Answered(s, k)'
      BY <2>2 DEF SourceInv, CarriesAnswers, StoreRaises, Fail, Answered
    <3> QED
      BY <1>0, <2>2, <3>1
      DEF StoreRaises, Fail, waiter, SourceInv, CarriesAnswers, AnswerAndStatus,
          Answered
  <2>3. CASE PublishRaises(r)
    <3>1. source[r] = r /\ \A s, k : Answered(s, k) <=> Answered(s, k)'
      BY <2>3 DEF SourceInv, CarriesAnswers, PublishRaises, Fail, Answered
    <3> QED
      BY <1>0, <2>3, <3>1
      DEF PublishRaises, Delivered, Fail, redis, SourceInv, CarriesAnswers,
          AnswerAndStatus, Answered
  <2> QED
    BY <1>5, <2>1, <2>2, <2>3 DEF RedisRaises
<1>6. ASSUME NEW r \in Request, SubscribeTakesEffect(r) PROVE SourceInv'
  <2>1. AnswersKept
    BY <1>0, <1>6 DEF AnswersKept, SubscribeTakesEffect, redis, result
  <2> QED
    BY <1>0, <2>1, SourceFrame
<1>7. CASE Crash
  <2>1. AnswersKept
    BY <1>0, <1>7 DEF AnswersKept, Crash, Active, redis, result
  <2> QED
    BY <1>0, <2>1, SourceFrame
<1>8. CASE Tick
  <2>1. AnswersKept
    BY <1>0, <1>8 DEF AnswersKept, Tick, result
  <2> QED
    BY <1>0, <2>1, SourceFrame
<1> QED
  BY <1>1, <1>2, <1>3, <1>4, <1>5, <1>6, <1>7, <1>8 DEF Next, Coroutine

(* No request is answered with the response of a call that failed, is      *)
(* under way or was made for another key, whatever expires, raises or      *)
(* crashes on the way.  (dedup.py dedup_publish, dedup_wait)               *)
THEOREM ResponsesOfTheKey == Safety => []SharedResponses
BY SourceInit, SourceStep, SourceShared, PTL DEF Safety
-----------------------------------------------------------------------------
(***************************************************************************)
(* Why no waiter misses its message.  What is stored under a key has been  *)
(* published to it, or is about to be, or never will; who has failed does  *)
(* not publish any more.                                                   *)
(***************************************************************************)
Unpublished(s) == pc[s] \in {"publish", "lost"} \/ status[s] = "failed"

Missing(r) == pc[r] = "wait" /\ sub[r] = "on" /\ inbox[r] = None

Told(r) == stored[key[r]] = None \/ Unpublished(stored[key[r]])

FailedOver ==
  \A r \in Request : status[r] = "failed" => pc[r] \in {"release", "done", "lost"}

WakeInv == SourceInv /\ NoLostWakeup /\ FailedOver

LEMMA WakeIs == NoLostWakeup <=> \A r \in Request : Missing(r) => Told(r)
BY DEF NoLostWakeup, Missing, Told, Unpublished

LEMMA WakeIsNext == NoLostWakeup' <=> \A r \in Request : Missing(r)' => Told(r)'
BY DEF NoLostWakeup, Missing, Told, Unpublished

LEMMA WakeInit == Init => WakeInv
BY SourceInit DEF Init, WakeInv, NoLostWakeup, FailedOver

LEMMA FailedStep == TypeInv /\ FailedOver /\ [Next]_vars => FailedOver'
<1> SUFFICES ASSUME TypeInv, FailedOver, [Next]_vars PROVE FailedOver'
  OBVIOUS
<1> USE DEF TypeInv, TypeOK, FailedOver, Goto
<1>1. CASE UNCHANGED vars
  BY <1>1 DEF vars, result
<1>2. ASSUME NEW r \in Request, Arrive(r) PROVE FailedOver'
  BY <1>2 DEF Arrive, result
<1>3. ASSUME NEW r \in Request, Holder(r) PROVE FailedOver'
  BY <1>3 DEF Holder, WinLock, VendorAnswers, VendorFails, StoreResult, Publish,
       Release, result
<1>4. ASSUME NEW r \in Request, Waiter(r) PROVE FailedOver'
  BY <1>4 DEF Waiter, LoseLock, Subscribe, FindStored, StartWait, Receive,
       TimeOut, result
<1>5. ASSUME NEW r \in Request, RedisRaises(r) PROVE FailedOver'
  BY <1>5 DEF RedisRaises, AcquireRaises, StoreRaises, PublishRaises,
       ReleaseRaises, WaitRaises, Fail
<1>6. ASSUME NEW r \in Request, SubscribeTakesEffect(r) PROVE FailedOver'
  BY <1>6 DEF SubscribeTakesEffect, result
<1>7. CASE Crash
  BY <1>7 DEF Crash, Active, result
<1>8. CASE Tick
  BY <1>8 DEF Tick, result
<1> QED
  BY <1>1, <1>2, <1>3, <1>4, <1>5, <1>6, <1>7, <1>8 DEF Next, Coroutine

(* A step that stores nothing, publishes nothing, and lets nobody begin to *)
(* miss a message.                                                         *)
WakeKept ==
  /\ \A k \in Key : stored'[k] \in {stored[k], None}
  /\ \A r \in Request : Missing(r)' => Missing(r) /\ key'[r] = key[r]
  /\ \A r \in Request : Unpublished(r) => Unpublished(r)'

LEMMA WakeFrame ==
  ASSUME TypeOK, NoLostWakeup, KeyKnown', WakeKept
  PROVE  NoLostWakeup'
<1> SUFFICES ASSUME NEW r \in Request, Missing(r)' PROVE Told(r)'
  BY WakeIsNext
<1>1. Missing(r) /\ key'[r] = key[r] /\ key[r] \in Key
  BY DEF WakeKept, KeyKnown, Missing
<1>2. stored'[key[r]] \in {stored[key[r]], None}
  BY <1>1 DEF WakeKept
<1>3. Told(r)
  BY <1>1, WakeIs
<1>4. stored[key[r]] \in Request \cup {None}
  BY <1>1 DEF TypeOK
<1> QED
  BY <1>1, <1>2, <1>3, <1>4 DEF WakeKept, Told, Unpublished

LEMMA WakeStep == WakeInv /\ [Next]_vars => WakeInv'
<1> SUFFICES ASSUME WakeInv, [Next]_vars PROVE NoLostWakeup'
  BY SourceStep, FailedStep DEF WakeInv, SourceInv
<1>0. /\ TypeInv /\ TypeOK /\ KeyKnown /\ KeyKnown' /\ NoLostWakeup
      /\ FailedOver /\ CarriesAnswers
  BY TypeStep DEF WakeInv, SourceInv, TypeInv
<1>a. ASSUME WakeKept PROVE NoLostWakeup'
  BY <1>0, <1>a, WakeFrame
<1> USE DEF Goto, TypeOK, WakeKept, Missing, Unpublished
<1>1. CASE UNCHANGED vars
  BY <1>a, <1>1 DEF vars, redis, waiter, result
<1>2. ASSUME NEW r \in Request, Arrive(r) PROVE NoLostWakeup'
  BY <1>0, <1>a, <1>2 DEF Arrive, redis, waiter, result
<1>3. ASSUME NEW r \in Request, WinLock(r) \/ VendorAnswers(r) \/ VendorFails(r)
                                 \/ Release(r)
      PROVE  NoLostWakeup'
  BY <1>0, <1>a, <1>3
  DEF WinLock, VendorAnswers, VendorFails, Release, redis, waiter, result, FailedOver
(* What is stored is stored by one that will publish it, or has failed.    *)
<1>4. ASSUME NEW r \in Request, StoreResult(r) \/ StoreRaises(r)
      PROVE  NoLostWakeup'
  <2>1. Unpublished(r)'
    BY <1>0, <1>4 DEF StoreResult, StoreRaises, Fail, result
  <2>2. \A k \in Key : stored'[k] \in {stored[k], r}
    BY <1>0, <1>4 DEF StoreResult, StoreRaises
  <2>3. \A s \in Request : /\ Missing(s)' => Missing(s) /\ key'[s] = key[s]
                           /\ Unpublished(s) => Unpublished(s)'
    BY <1>0, <1>4 DEF StoreResult, StoreRaises, Fail, waiter, result
  <2> SUFFICES ASSUME NEW s \in Request, Missing(s)' PROVE Told(s)'
    BY WakeIsNext
  <2>4. Missing(s) /\ key'[s] = key[s] /\ key[s] \in Key
    BY <1>0, <2>3 DEF KeyKnown
  <2>5. CASE stored'[key[s]] = r
    BY <2>1, <2>4, <2>5 DEF Told
  <2>6. CASE stored'[key[s]] = stored[key[s]]
    <3>1. stored[key[s]] \in Request \cup {None} /\ Told(s)
      BY <1>0, <2>4, WakeIs
    <3> QED
      BY <2>3, <2>4, <2>6, <3>1 DEF Told
  <2> QED
    BY <2>2, <2>4, <2>5, <2>6
(* What is published reaches all that subscribed to its key.               *)
<1>5. ASSUME NEW r \in Request, Publish(r) \/ PublishRaises(r)
      PROVE  NoLostWakeup'
  <2>1. \A s \in Request : s # r /\ Unpublished(s) => Unpublished(s)'
    BY <1>0, <1>5 DEF Publish, PublishRaises, Fail, result
  <2>2. UNCHANGED <<stored, key, sub>>
    BY <1>5 DEF Publish, PublishRaises, redis
  <2>3. \A s \in Request : inbox[s] # None => inbox'[s] # None
    BY <1>0, <1>5, DedupAssumption DEF Publish, PublishRaises, Delivered
  <2>4. \A s \in Request : Missing(s)' => Missing(s)
    BY <1>0, <1>5, <2>2, <2>3 DEF Publish, PublishRaises, Fail
  <2> SUFFICES ASSUME NEW s \in Request, Missing(s)' PROVE Told(s)'
    BY WakeIsNext
  <2>5. Missing(s) /\ key[s] \in Key /\ stored[key[s]] \in Request \cup {None}
    BY <1>0, <2>2, <2>4 DEF KeyKnown
  <2>6. Told(s)
    BY <1>0, <2>5, WakeIs
  <2>7. CASE stored[key[s]] = r
    <3>1. key[r] = key[s]
      BY <1>0, <2>5, <2>7, DedupAssumption DEF CarriesAnswers, Answered
    <3>2. CASE Publish(r)
      BY <1>0, <2>5, <3>1, <3>2, DedupAssumption DEF Publish, Delivered
    <3>3. CASE PublishRaises(r)
      BY <1>0, <2>2, <2>7, <3>3 DEF PublishRaises, Fail, Told
    <3> QED
      BY <1>5, <3>2, <3>3
  <2> QED
    BY <2>1, <2>2, <2>5, <2>6, <2>7 DEF Told
<1>6. ASSUME NEW r \in Request, Waiter(r) PROVE NoLostWakeup'
  <2>1. CASE LoseLock(r)
    BY <1>0, <1>a, <2>1 DEF LoseLock, redis, waiter, result
  <2>2. CASE Subscribe(r)
    BY <1>0, <1>a, <2>2 DEF Subscribe, redis, result
  <2>3. CASE FindStored(r) \/ Receive(r) \/ TimeOut(r)
    BY <1>0, <1>a, <2>3 DEF FindStored, Receive, TimeOut, Hangup, redis, FailedOver
  <2>4. CASE StartWait(r)
    BY <1>0, <2>4 DEF StartWait, redis, result, NoLostWakeup
  <2> QED
    BY <1>6, <2>1, <2>2, <2>3, <2>4 DEF Waiter
<1>7. ASSUME NEW r \in Request, AcquireRaises(r) \/ ReleaseRaises(r) \/ WaitRaises(r)
      PROVE  NoLostWakeup'
  BY <1>0, <1>a, <1>7
  DEF AcquireRaises, ReleaseRaises, WaitRaises, Fail, Hangup, redis, waiter
<1>8. ASSUME NEW r \in Request, SubscribeTakesEffect(r) PROVE NoLostWakeup'
  BY <1>0, <1>a, <1>8 DEF SubscribeTakesEffect, redis, result
<1>9. CASE Crash
  BY <1>0, <1>a, <1>9 DEF Crash, Active, redis, result
<1>10. CASE Tick
  BY <1>0, <1>a, <1>10 DEF Tick, result
<1> QED
  BY <1>1, <1>2, <1>3, <1>4, <1>5, <1>6, <1>7, <1>8, <1>9, <1>10
  DEF Next, Coroutine, Holder, RedisRaises

(* A waiter whose subscription was in place before it looked for a stored  *)
(* result misses no publication, whatever raises, expires or crashes.      *)
(* (dedup.py dedup_publish, dedup_wait)                                    *)
THEOREM NoPublicationMissed == Safety => []NoLostWakeup
<1>1. WakeInv => NoLostWakeup
  BY DEF WakeInv
<1> QED
  BY <1>1, WakeInit, WakeStep, PTL DEF Safety
-----------------------------------------------------------------------------
(***************************************************************************)
(* Dedup implements SharedCalls.  FlightInv lets a call begin, SourceInv   *)
(* lets a response be shared; the steps inside the block and Redis's own   *)
(* are stutters, and the passing of time may make calls late.              *)
(***************************************************************************)
LateSame == LateKeys' = LateKeys

LEMMA Places ==
  /\ Place("idle") = "idle" /\ Place("call") = "calling"
  /\ \A l \in {"acquire"} \cup WaitPC : Place(l) = "asking"
  /\ \A l \in {"store", "publish", "release"} : Place(l) = "settled"
  /\ Place("done") = "ended" /\ Place("lost") = "gone"
BY DEF Place, WaitPC

(* A coroutine's step moves its own state only.                            *)
LEMMA SharedMove ==
  ASSUME TypeOK, NEW r \in Request, NEW l, Goto(r, l)
  PROVE  /\ SharedState[r] = Place(pc[r])
         /\ SharedState' = [SharedState EXCEPT ![r] = Place(l)]
BY DEF TypeOK, Goto, SharedState

LEMMA SharedStill ==
  ASSUME TypeOK, NEW r \in Request, NEW l, Goto(r, l), Place(l) = Place(pc[r])
  PROVE  SharedState' = SharedState
BY DEF TypeOK, Goto, SharedState

LEMMA LateUnchanged ==
  ASSUME UNCHANGED <<key, age>>
  PROVE  LateSame
BY DEF LateSame, LateKeys, Overrun

LEMMA SharedStutter ==
  ASSUME UNCHANGED <<pc, key, source, age>>
  PROVE  UNCHANGED Shared!vars
BY LateUnchanged DEF Shared!vars, SharedState, LateSame

LEMMA SharedInit == Init => Shared!Init
<1> SUFFICES ASSUME Init PROVE Shared!Init
  OBVIOUS
<1>1. LateKeys = {}
  BY DedupAssumption DEF Init, LateKeys, Overrun
<1>2. SharedState = [r \in Request |-> "idle"]
  BY Places DEF Init, SharedState
<1> QED
  BY <1>1, <1>2 DEF Init, Shared!Init

LEMMA SharedStep ==
  ASSUME FlightInv, SourceInv, [Next]_vars
  PROVE  [Shared!Next]_(Shared!vars)
<1>0. TypeOK /\ TypeInv
  BY DEF SourceInv, TypeInv
<1> DEFINE Mapped == [Shared!Next]_(Shared!vars)
<1>a. ASSUME UNCHANGED <<pc, key, source, age>> PROVE Mapped
  BY <1>a, SharedStutter
<1> HIDE DEF Mapped
<1>1. CASE UNCHANGED vars
  <2>1. UNCHANGED <<pc, key, source, age>>
    BY <1>1 DEF vars, result
  <2> QED
    BY <2>1, SharedStutter DEF Mapped
<1>2. ASSUME NEW r \in Request, Arrive(r) PROVE Mapped
  <2>1. /\ SharedState[r] = "idle"
        /\ SharedState' = [SharedState EXCEPT ![r] = "asking"]
    BY <1>0, <1>2, SharedMove, Places DEF Arrive, WaitPC
  <2>2. LateSame
    <3>1. age[r] < LockTTL /\ age' = age
      BY <1>2, DedupAssumption DEF Arrive, FlightInv, FreshAge, NotYet
    <3>2. \A t \in Request : t # r => key'[t] = key[t]
      BY <1>0, <1>2 DEF Arrive, TypeOK
    <3> QED
      BY <1>0, <3>1, <3>2, DedupAssumption DEF LateSame, LateKeys, Overrun, TypeOK
  <2>3. Shared!Ask(r)
    BY <1>2, <2>1, <2>2 DEF Shared!Ask, Shared!Move, Arrive, result, LateSame
  <2> QED
    BY <2>3 DEF Mapped, Shared!Next
<1>3. ASSUME NEW r \in Request, Holder(r) PROVE Mapped
  <2>1. CASE WinLock(r)
    <3>1. /\ SharedState[r] = "asking"
          /\ SharedState' = [SharedState EXCEPT ![r] = "calling"]
      BY <1>0, <2>1, SharedMove, Places DEF WinLock, WaitPC
    <3>2. LateSame
      <4>1. age' = age
        BY <1>0, <2>1 DEF WinLock, FlightInv, FreshAge, NotYet, TypeOK
      <4> QED
        BY <2>1, <4>1, LateUnchanged DEF WinLock
    <3>3. \A s \in Request : Shared!InFlight(s) <=> Holding(s)
      BY <1>0, Places DEF Shared!InFlight, SharedState, Holding, HoldPC, TypeOK, PC
    <3>4. key[r] \in LateKeys \/ \A s \in Request : Holding(s) => key[s] # key[r]
      <4>1. key[r] \in Key /\ lock[key[r]] = 0
        BY <1>0, <2>1 DEF WinLock, TypeInv, KeyKnown
      <4>2. \A s \in Request : Holding(s) /\ key[s] = key[r] => Overrun(key[r])
        BY <4>1, HolderHasLock
      <4> QED
        BY <4>1, <4>2 DEF LateKeys
    <3>5. Shared!BeginCall(r)
      BY <2>1, <3>1, <3>2, <3>3, <3>4
      DEF Shared!BeginCall, Shared!Move, WinLock, result, LateSame
    <3> QED
      BY <3>5 DEF Mapped, Shared!Next
  <2>2. CASE VendorAnswers(r)
    <3>1. /\ SharedState[r] = "calling"
          /\ SharedState' = [SharedState EXCEPT ![r] = "settled"]
      BY <1>0, <2>2, SharedMove, Places DEF VendorAnswers, WaitPC
    <3>2. Shared!CallSucceeds(r)
      BY <2>2, <3>1, LateUnchanged
      DEF Shared!CallSucceeds, Shared!Move, VendorAnswers, LateSame
    <3> QED
      BY <3>2 DEF Mapped, Shared!Next
  <2>3. CASE VendorFails(r)
    <3>1. /\ SharedState[r] = "calling"
          /\ SharedState' = [SharedState EXCEPT ![r] = "settled"]
      BY <1>0, <2>3, SharedMove, Places DEF VendorFails, WaitPC
    <3>2. Shared!CallFails(r)
      BY <2>3, <3>1, LateUnchanged
      DEF Shared!CallFails, Shared!Move, VendorFails, LateSame
    <3> QED
      BY <3>2 DEF Mapped, Shared!Next
  <2>4. CASE StoreResult(r) \/ Publish(r)
    <3>1. SharedState' = SharedState
      BY <1>0, <2>4, SharedStill, Places DEF StoreResult, Publish, WaitPC
    <3> QED
      BY <2>4, <3>1, LateUnchanged
      DEF Mapped, Shared!vars, StoreResult, Publish, result, LateSame
  <2>5. CASE Release(r)
    <3>1. /\ SharedState[r] = "settled"
          /\ SharedState' = [SharedState EXCEPT ![r] = "ended"]
      BY <1>0, <2>5, SharedMove, Places DEF Release, WaitPC
    <3>2. Shared!Leave(r)
      BY <2>5, <3>1, LateUnchanged
      DEF Shared!Leave, Shared!Move, Release, result, LateSame
    <3> QED
      BY <3>2 DEF Mapped, Shared!Next
  <2> QED
    BY <1>3, <2>1, <2>2, <2>3, <2>4, <2>5 DEF Holder
<1>4. ASSUME NEW r \in Request, Waiter(r) PROVE Mapped
  <2>1. CASE LoseLock(r) \/ Subscribe(r) \/ StartWait(r)
    <3>1. SharedState' = SharedState
      BY <1>0, <2>1, SharedStill, Places DEF LoseLock, Subscribe, StartWait, WaitPC
    <3> QED
      BY <2>1, <3>1, LateUnchanged
      DEF Mapped, Shared!vars, LoseLock, Subscribe, StartWait, result, LateSame
  <2>2. CASE FindStored(r) \/ Receive(r) \/ TimeOut(r)
    <3>1. /\ SharedState[r] = "asking"
          /\ SharedState' = [SharedState EXCEPT ![r] = "ended"]
      BY <1>0, <2>2, SharedMove, Places DEF FindStored, Receive, TimeOut, WaitPC
    <3>2. UNCHANGED <<key, age>> /\ LateSame
      BY <2>2, LateUnchanged DEF FindStored, Receive, TimeOut
    <3>3. CASE FindStored(r) \/ Receive(r)
      <4>1. PICK s \in Request : Answered(s, key[r])
                                 /\ source' = [source EXCEPT ![r] = s]
        <5>1. key[r] \in Key
          BY <1>0, <3>3 DEF FindStored, Receive, TypeInv, KeyKnown
        <5> QED
          BY <3>3, <5>1 DEF FindStored, Receive, SourceInv, CarriesAnswers, Answered
      <4>2. Shared!Share(r)
        BY <3>1, <3>2, <4>1 DEF Shared!Share, Shared!Move, Answered, LateSame
      <4> QED
        BY <4>2 DEF Mapped, Shared!Next
    <3>4. CASE TimeOut(r)
      <4>1. Shared!GiveUp(r)
        BY <3>1, <3>2, <3>4 DEF Shared!GiveUp, Shared!Move, TimeOut, LateSame
      <4> QED
        BY <4>1 DEF Mapped, Shared!Next
    <3> QED
      BY <2>2, <3>3, <3>4
  <2> QED
    BY <1>4, <2>1, <2>2 DEF Waiter
<1>5. ASSUME NEW r \in Request, RedisRaises(r) PROVE Mapped
  <2>1. CASE AcquireRaises(r) \/ WaitRaises(r)
    <3>1. /\ SharedState[r] = "asking"
          /\ SharedState' = [SharedState EXCEPT ![r] = "ended"]
      BY <1>0, <2>1, SharedMove, Places DEF AcquireRaises, WaitRaises, Fail, WaitPC
    <3>2. Shared!GiveUp(r)
      BY <2>1, <3>1, LateUnchanged
      DEF Shared!GiveUp, Shared!Move, AcquireRaises, WaitRaises, Fail, LateSame
    <3> QED
      BY <3>2 DEF Mapped, Shared!Next
  <2>2. CASE StoreRaises(r) \/ PublishRaises(r)
    <3>1. SharedState' = SharedState
      BY <1>0, <2>2, SharedStill, Places DEF StoreRaises, PublishRaises, Fail, WaitPC
    <3> QED
      BY <2>2, <3>1, LateUnchanged
      DEF Mapped, Shared!vars, StoreRaises, PublishRaises, Fail, LateSame
  <2>3. CASE ReleaseRaises(r)
    <3>1. /\ SharedState[r] = "settled"
          /\ SharedState' = [SharedState EXCEPT ![r] = "ended"]
      BY <1>0, <2>3, SharedMove, Places DEF ReleaseRaises, Fail, WaitPC
    <3>2. Shared!Leave(r)
      BY <2>3, <3>1, LateUnchanged
      DEF Shared!Leave, Shared!Move, ReleaseRaises, Fail, LateSame
    <3> QED
      BY <3>2 DEF Mapped, Shared!Next
  <2> QED
    BY <1>5, <2>1, <2>2, <2>3 DEF RedisRaises
<1>6. ASSUME NEW r \in Request, SubscribeTakesEffect(r) PROVE Mapped
  BY <1>6, <1>a DEF SubscribeTakesEffect, result
<1>7. CASE Crash
  <2>1. SharedState' = [r \in Request |->
                          IF Shared!Begun(r) THEN "gone" ELSE SharedState[r]]
    <3>1. \A r \in Request : Active(r) <=> Shared!Begun(r)
      BY <1>0, Places
      DEF Active, SharedState, Shared!Begun, TypeOK, PC, HoldPC, WaitPC
    <3> QED
      BY <1>0, <1>7, <3>1, Places DEF Crash, SharedState, TypeOK
  <2>2. Shared!Crash
    BY <1>7, <2>1, LateUnchanged DEF Crash, Shared!Crash, result, LateSame
  <2> QED
    BY <2>2 DEF Mapped, Shared!Next
<1>8. CASE Tick
  <2> DEFINE R == {r \in Request : Holding(r) /\ age'[r] >= LockTTL}
  <2>1. R \subseteq {r \in Request : Shared!InFlight(r)}
    BY <1>0, Places DEF Shared!InFlight, SharedState, Holding, HoldPC, TypeOK, PC
  <2>2. \A r \in Request : key[r] \in Key \/ ~Holding(r)
    BY <1>0 DEF TypeInv, KeyKnown, Holding, HoldPC
  <2>3. LateKeys' = LateKeys \cup {key[r] : r \in R}
    <3>1. key' = key /\ \A r \in Request :
                         age'[r] = IF Holding(r) THEN age[r] + 1 ELSE age[r]
      BY <1>8 DEF Tick
    <3>2. LockTTL \in Nat /\ \A r \in Request : age[r] \in Nat
      BY <1>0, DedupAssumption DEF TypeOK
    <3>3. \A r \in Request :
            age'[r] >= LockTTL <=> age[r] >= LockTTL \/ r \in R
      BY <3>1, <3>2
    <3> QED
      BY <2>2, <3>1, <3>3 DEF LateKeys, Overrun
  <2>4. Shared!RunLate
    <3>1. SharedState' = SharedState
      BY <1>8 DEF Tick, SharedState
    <3> QED
      BY <1>8, <2>1, <2>3, <3>1 DEF Shared!RunLate, Tick, result
  <2> QED
    BY <2>4 DEF Mapped, Shared!Next
<1> QED
  BY <1>1, <1>2, <1>3, <1>4, <1>5, <1>6, <1>7, <1>8 DEF Next, Coroutine, Mapped

(* Lock, stored result and channel together implement the sharing of one   *)
(* call: every step of Dedup is one of SharedCalls or changes nothing of   *)
(* it.  (dedup.py dedup_context, dedup_publish, dedup_wait)                *)
THEOREM ImplementsSharedCalls == Safety => SharesCalls
<1>1. FlightInv /\ SourceInv /\ [Next]_vars => [Shared!Next]_(Shared!vars)
  BY SharedStep
<1> QED
  BY <1>1, SharedInit, FlightInit, FlightStep, SourceInit, SourceStep, PTL
  DEF Safety, SharesCalls, Shared!Spec
=============================================================================
