------------------------ MODULE ResponseCacheProofs ------------------------
(***************************************************************************)
(* Theorems about ResponseCache for every number of requests, all keys,    *)
(* vendors and TTLs, and pages of any kind.                                *)
(***************************************************************************)
EXTENDS ResponseCache, FiniteSetTheorems, TLAPS

(* The part of the types the theorems need.                                *)
TypeInv ==
  /\ left \in [Key -> Nat] /\ \A k \in Key : left[k] <= MaxTTL
  /\ at \in [Slot -> {"idle", "call", "fill"}]
  /\ DOMAIN key = Slot /\ \A s \in Slot : at[s] # "idle" => key[s] \in Key
  /\ ttl \in [Slot -> Int] /\ \A s \in Slot : ttl[s] <= MaxTTL
  /\ age \in [Slot -> Nat] /\ \A s \in Slot : age[s] <= MaxAge
  /\ outdated \subseteq Key /\ before \subseteq outdated
  /\ carrying \subseteq Filling
  /\ since \in Nat

(* Why a flush leaves nothing from before it: what was there is either     *)
(* still owed by SCAN or on the page about to be deleted.                  *)
WalkInv ==
  /\ stage = "scan" => before \subseteq todo
  /\ stage = "delete" => /\ before \subseteq todo \cup page
                         /\ last => todo = {}
  /\ stage = "done" => before = {}

(* Why what survives expires: an answer in hand is at least as old as the  *)
(* flush, and as old as MaxAge when it is stored.                          *)
AgeInv ==
  /\ \A s \in carrying : since <= age[s]
  /\ \A k \in outdated : since + left[k] <= MaxAge + MaxTTL

LEMMA TypeInit == Init => TypeInv /\ WalkInv /\ AgeInv
BY ResponseCacheAssumption DEF Init, TypeInv, WalkInv, AgeInv, Filling

LEMMA TypeStep == TypeInv /\ [Next]_vars => TypeInv'
<1> SUFFICES ASSUME TypeInv, [Next]_vars PROVE TypeInv'
  OBVIOUS
<1>0. MaxTTL \in Nat /\ MaxAge \in Nat
  BY ResponseCacheAssumption
<1>1. CASE UNCHANGED vars
  BY <1>1 DEF TypeInv, vars, request, flush, aux, Filling
<1>2. ASSUME NEW s \in Slot, Serve(s) PROVE TypeInv'
  <2>1. CASE Hit(s)
    BY <1>1, <2>1 DEF Hit
  <2>2. ASSUME NEW k \in Key, Miss(s, k) PROVE TypeInv'
    <3>1. PICK v \in VendorTTL, o \in Override :
            ttl' = [ttl EXCEPT ![s] = ResolveTTL(v, o)]
      BY <2>2 DEF Miss
    <3>2. ResolveTTL(v, o) \in Int /\ ResolveTTL(v, o) <= MaxTTL
      BY ResponseCacheAssumption DEF ResolveTTL
    <3> QED
      BY <1>2, <2>2, <3>1, <3>2 DEF Miss, TypeInv, aux, Filling
  <2>3. CASE Answer(s)
    BY <1>2, <2>3 DEF Answer, TypeInv, aux, Filling
  <2>4. CASE Store(s)
    BY <1>0, <1>2, <2>4 DEF Store, End, TypeInv, Filling
  <2>5. CASE Leave(s)
    BY <1>0, <1>2, <2>5 DEF Leave, End, TypeInv, Filling
  <2> QED
    BY <1>2, <2>1, <2>2, <2>3, <2>4, <2>5 DEF Serve
<1>3. ASSUME NEW vs, BeginFlush(vs) PROVE TypeInv'
  BY <1>3 DEF BeginFlush, TypeInv, request, Matching, Cached, Filling
<1>4. CASE Scan
  BY <1>4 DEF Scan, TypeInv, request, aux, Filling
<1>5. ASSUME Deleted, UNCHANGED <<request, carrying, since, inHand>> PROVE TypeInv'
  BY <1>0, <1>5 DEF Deleted, Gone, TypeInv, request, Filling
<1>6. CASE Delete
  BY <1>5, <1>6 DEF Delete
<1>7. CASE FlushRaises
  <2>1. CASE Deleted
    BY <1>5, <1>7, <2>1 DEF FlushRaises
  <2>2. CASE UNCHANGED <<left, before, outdated, todo>>
    BY <1>7, <2>2 DEF FlushRaises, TypeInv, request, Filling
  <2> QED
    BY <1>7, <2>1, <2>2 DEF FlushRaises
<1>8. CASE Tick
  <2>1. left' \in [Key -> Nat] /\ \A k \in Key : left'[k] <= MaxTTL
    BY <1>0, <1>8 DEF Tick, TypeInv
  <2>2. age' \in [Slot -> Nat] /\ \A s \in Slot : age'[s] <= MaxAge
    BY <1>0, <1>8 DEF Tick, TypeInv, Filling
  <2> QED
    BY <1>0, <1>8, <2>1, <2>2 DEF Tick, Gone, TypeInv, Filling
<1> QED
  BY <1>1, <1>2, <1>3, <1>4, <1>6, <1>7, <1>8 DEF Next, Flush

(* The rest of the types: what the flush holds, and that what it has left  *)
(* to do and what it counts as outdated are entries.                       *)
FlushTypes ==
  /\ key \in [Slot -> Key \cup {None}]
  /\ stage \in {"none", "scan", "delete", "done", "failed"}
  /\ scope \subseteq Vendor /\ page \subseteq Key /\ last \in BOOLEAN
  /\ todo \subseteq before /\ outdated \subseteq Cached
  /\ since <= MaxAge + MaxTTL + 1

LEMMA FlushTypesStep == TypeInv /\ FlushTypes /\ [Next]_vars => FlushTypes'
<1> SUFFICES ASSUME TypeInv, FlushTypes, [Next]_vars PROVE FlushTypes'
  OBVIOUS
<1>0. MaxTTL \in Nat /\ MaxAge \in Nat
  BY ResponseCacheAssumption
<1> USE DEF FlushTypes, Cached
<1>1. CASE UNCHANGED vars
  BY <1>1 DEF vars, request, flush, aux
<1>2. ASSUME NEW s \in Slot, Serve(s) PROVE FlushTypes'
  <2>1. CASE Hit(s)
    BY <1>1, <2>1 DEF Hit
  <2>2. ASSUME NEW k \in Key, Miss(s, k) PROVE FlushTypes'
    BY <2>2 DEF Miss, flush, aux
  <2>3. CASE Answer(s)
    BY <2>3 DEF Answer, flush, aux
  <2>4. CASE Store(s)
    <3>1. key[s] \in Key
      BY <1>2, <2>4 DEF Store, TypeInv
    <3>2. \A k \in Key : left'[k] = IF k = key[s] THEN ttl[s] ELSE left[k]
      BY <2>4 DEF Store, TypeInv
    <3>3. outdated' \subseteq Cached'
      BY <1>2, <2>4, <3>1, <3>2 DEF Store
    <3> QED
      BY <2>4, <3>3 DEF Store, End
  <2>5. CASE Leave(s)
    BY <2>5 DEF Leave, End, flush
  <2> QED
    BY <1>2, <2>1, <2>2, <2>3, <2>4, <2>5 DEF Serve
<1>3. ASSUME NEW vs \in SUBSET Vendor, BeginFlush(vs) PROVE FlushTypes'
  <2>1. last' \in BOOLEAN
    BY <1>3, Zenon DEF BeginFlush
  <2> QED
    BY <1>0, <1>3, <2>1 DEF BeginFlush, request, Matching
<1>4. CASE Scan
  <2>1. PICK ks \in SUBSET Matching(scope), final \in BOOLEAN :
          /\ todo' = todo \ ks /\ page' = ks /\ last' = Ends(ks, final)
          /\ stage' \in {"delete", "done", "scan"}
    BY <1>4 DEF Scan
  <2>2. last' \in BOOLEAN
    BY <2>1, Zenon DEF Ends
  <2> QED
    BY <1>4, <2>1, <2>2 DEF Scan, request, aux, Matching
<1>5. ASSUME Deleted, UNCHANGED <<key, scope, since>>, page' = {},
             stage' \in {"done", "scan", "failed"}, UNCHANGED last
      PROVE  FlushTypes'
  BY <1>5 DEF Deleted, Gone, TypeInv
<1>6. CASE Delete
  BY <1>5, <1>6 DEF Delete, request
<1>7. CASE FlushRaises
  <2>1. CASE Deleted
    BY <1>5, <1>7, <2>1 DEF FlushRaises, request
  <2>2. CASE UNCHANGED <<left, before, outdated, todo>>
    BY <1>7, <2>2 DEF FlushRaises, request
  <2> QED
    BY <1>7, <2>1, <2>2 DEF FlushRaises
<1>8. CASE Tick
  <2>1. outdated' \subseteq Cached'
    BY <1>8 DEF Tick, Gone, TypeInv
  <2>2. since' <= MaxAge + MaxTTL + 1
    BY <1>0, <1>8 DEF Tick, TypeInv
  <2> QED
    BY <1>8, <2>1, <2>2 DEF Tick, Gone
<1> QED
  BY <1>1, <1>2, <1>3, <1>4, <1>6, <1>7, <1>8 DEF Next, Flush

(* Whatever else happens, keys leave before and todo together.             *)
LEMMA WalkKept ==
  ASSUME WalkInv, NEW ks, before' = before \ ks, todo' = todo \ ks,
         UNCHANGED <<stage, page, last>>
  PROVE  WalkInv'
BY DEF WalkInv

LEMMA WalkStep == WalkInv /\ [Next]_vars => WalkInv'
<1> SUFFICES ASSUME WalkInv, [Next]_vars PROVE WalkInv'
  OBVIOUS
<1>1. ASSUME UNCHANGED <<before, todo, stage, page, last>> PROVE WalkInv'
  BY <1>1 DEF WalkInv
<1>2. ASSUME NEW s \in Slot, Serve(s) PROVE WalkInv'
  <2>1. CASE Store(s)
    BY <2>1, WalkKept DEF Store
  <2> QED
    BY <1>1, <1>2, <2>1 DEF Serve, Hit, Miss, Answer, Leave, vars, flush, aux
<1>3. ASSUME NEW vs, BeginFlush(vs) PROVE WalkInv'
  BY <1>3 DEF BeginFlush, WalkInv
<1>4. CASE Scan
  BY <1>4 DEF Scan, Ends, aux, WalkInv
<1>5. CASE Delete
  BY <1>5 DEF Delete, Deleted, Gone, WalkInv
<1>6. CASE FlushRaises
  BY <1>6 DEF FlushRaises, WalkInv
<1>7. CASE Tick
  BY <1>7, WalkKept DEF Tick, Gone
<1> QED
  BY <1>1, <1>2, <1>3, <1>4, <1>5, <1>6, <1>7 DEF Next, Flush, vars, flush, aux

(* When a flush is reported done, nothing stored before it began is left,  *)
(* whatever was stored and expired in between and however SCAN cuts its    *)
(* pages.  (response_cache.py _delete_by_pattern)                          *)
THEOREM FlushComplete == Spec => []FlushedGone
<1>1. WalkInv => FlushedGone
  BY DEF WalkInv, FlushedGone
<1> QED
  BY <1>1, TypeInit, WalkStep, PTL DEF Spec

LEMMA AgeStep == TypeInv /\ AgeInv /\ [Next]_vars => AgeInv'
<1> SUFFICES ASSUME TypeInv, AgeInv, [Next]_vars PROVE AgeInv'
  OBVIOUS
<1>0. MaxTTL \in Nat /\ MaxAge \in Nat
  BY ResponseCacheAssumption
<1>1. ASSUME UNCHANGED <<carrying, age, outdated, left, since>> PROVE AgeInv'
  BY <1>1 DEF AgeInv
<1>2. ASSUME NEW s \in Slot, Serve(s) PROVE AgeInv'
  <2>1. CASE Store(s)
    <3>1. \A t \in carrying' : age'[t] = age[t]
      BY <1>2, <2>1 DEF Store, End, TypeInv, Filling
    <3>2. ASSUME NEW k \in outdated' PROVE since' + left'[k] <= MaxAge + MaxTTL
      <4>1. CASE s \in carrying /\ k = key[s]
        <5>1. since <= MaxAge /\ left'[k] = ttl[s] /\ ttl[s] <= MaxTTL
          BY <1>0, <1>2, <2>1, <4>1 DEF Store, TypeInv, AgeInv, Filling
        <5> QED
          BY <1>0, <1>2, <2>1, <5>1 DEF Store, TypeInv
      <4>2. CASE k \in outdated /\ k # key[s]
        BY <2>1, <4>2 DEF Store, TypeInv, AgeInv
      <4> QED
        BY <2>1, <4>1, <4>2 DEF Store
    <3> QED
      BY <2>1, <3>1, <3>2 DEF Store, End, AgeInv
  <2>2. CASE Leave(s)
    BY <1>2, <2>2 DEF Leave, End, TypeInv, AgeInv, Filling
  <2> QED
    BY <1>1, <1>2, <2>1, <2>2 DEF Serve, Hit, Miss, Answer, vars, request, aux
<1>3. ASSUME NEW vs, BeginFlush(vs) PROVE AgeInv'
  BY <1>0, <1>3
  DEF BeginFlush, request, TypeInv, AgeInv, Matching, Cached, Filling
<1>4. CASE Scan
  BY <1>1, <1>4 DEF Scan, request, aux
<1>5. ASSUME Deleted, UNCHANGED <<request, carrying, since, inHand>> PROVE AgeInv'
  BY <1>5 DEF Deleted, Gone, TypeInv, AgeInv, request
<1>6. CASE Delete
  BY <1>5, <1>6 DEF Delete
<1>7. CASE FlushRaises
  BY <1>1, <1>5, <1>7 DEF FlushRaises, request
<1>8. CASE Tick
  <2>1. \A s \in carrying' : since' <= age'[s]
    BY <1>0, <1>8 DEF Tick, TypeInv, AgeInv, Filling
  <2>2. \A k \in outdated' : since' + left'[k] <= MaxAge + MaxTTL
    BY <1>0, <1>8 DEF Tick, Gone, TypeInv, AgeInv
  <2> QED
    BY <2>1, <2>2 DEF AgeInv
<1> QED
  BY <1>1, <1>2, <1>3, <1>4, <1>6, <1>7, <1>8 DEF Next, Flush, vars, request, aux

(* An answer from before a flush is served for the longest TTL and a       *)
(* request's delay after it at most.  (response_cache.py set_cached)       *)
THEOREM OutdatedTemporary == Spec => []OutdatedExpire
<1>1. AgeInv => OutdatedExpire
  BY DEF AgeInv, OutdatedExpire
<1> QED
  BY <1>1, TypeInit, TypeStep, AgeStep, PTL DEF Spec

-----------------------------------------------------------------------------
(* Outdated answers stored since the flush began; each has used up one of  *)
(* the requests that carried one.                                          *)
Late == outdated \ before

LateInv ==
  /\ carrying \subseteq Slot
  /\ IsFiniteSet(Late) /\ inHand \in Nat
  /\ Cardinality(Late) + Cardinality(carrying) <= inHand

LEMMA SlotsFinite ==
  ASSUME NEW S \in SUBSET Slot
  PROVE  IsFiniteSet(S) /\ Cardinality(S) \in Nat
BY ResponseCacheAssumption, FS_Subset, FS_CardinalityType

LEMMA LateInit == Init => LateInv
<1> SUFFICES ASSUME Init PROVE LateInv
  OBVIOUS
<1>1. Late = {} /\ carrying = {} /\ inHand = 0
  BY DEF Init, Late
<1>2. IsFiniteSet(Late) /\ Cardinality(Late) = 0 /\ Cardinality(carrying) = 0
  BY <1>1, FS_EmptySet
<1> QED
  BY <1>1, <1>2 DEF LateInv

LEMMA LateShrinks ==
  ASSUME LateInv, Late' \subseteq Late, carrying' \subseteq carrying,
         inHand' = inHand
  PROVE  LateInv'
<1>1. /\ IsFiniteSet(Late') /\ Cardinality(Late') <= Cardinality(Late)
      /\ Cardinality(Late) \in Nat /\ Cardinality(Late') \in Nat
  BY FS_Subset, FS_CardinalityType DEF LateInv
<1>2. carrying \subseteq Slot
  BY DEF LateInv
<1>3. IsFiniteSet(carrying) /\ Cardinality(carrying) \in Nat
  BY <1>2, SlotsFinite
<1>4. Cardinality(carrying') <= Cardinality(carrying)
  BY <1>3, FS_Subset
<1>5. carrying' \subseteq Slot /\ Cardinality(carrying') \in Nat
  BY <1>2, SlotsFinite
<1> QED
  BY <1>1, <1>3, <1>4, <1>5 DEF LateInv

LEMMA LateStores ==
  ASSUME LateInv, NEW s \in carrying, NEW k, Late' \subseteq Late \cup {k},
         carrying' = carrying \ {s}, inHand' = inHand
  PROVE  LateInv'
<1>1. IsFiniteSet(Late) /\ carrying \subseteq Slot
  BY DEF LateInv
<1>2. /\ IsFiniteSet(Late \cup {k}) /\ Cardinality(Late) \in Nat
      /\ Cardinality(Late \cup {k}) <= Cardinality(Late) + 1
  <2>1. IsFiniteSet(Late \cup {k}) /\ Cardinality(Late) \in Nat
    BY <1>1, FS_AddElement, FS_CardinalityType
  <2>2. CASE k \in Late
    <3>1. Late \cup {k} = Late
      BY <2>2
    <3>2. Cardinality(Late \cup {k}) = Cardinality(Late)
      BY <3>1
    <3> QED
      BY <2>1, <3>2
  <2>3. CASE k \notin Late
    <3>1. Cardinality(Late \cup {k}) = Cardinality(Late) + 1
      BY <1>1, <2>3, FS_AddElement
    <3> QED
      BY <2>1, <3>1
  <2> QED
    BY <2>2, <2>3
<1>3. /\ IsFiniteSet(Late') /\ Cardinality(Late') \in Nat
      /\ Cardinality(Late') <= Cardinality(Late \cup {k})
  BY <1>2, FS_Subset, FS_CardinalityType
<1>4. IsFiniteSet(carrying) /\ Cardinality(carrying) \in Nat
  BY <1>1, SlotsFinite
<1>5. Cardinality(carrying') = Cardinality(carrying) - 1
  BY <1>4, FS_RemoveElement
<1>6. Cardinality(Late \cup {k}) \in Nat
  BY <1>2, FS_CardinalityType
<1> QED
  BY <1>1, <1>2, <1>3, <1>4, <1>5, <1>6 DEF LateInv

LEMMA LateStep == TypeInv /\ LateInv /\ [Next]_vars => LateInv'
<1> SUFFICES ASSUME TypeInv, LateInv, [Next]_vars PROVE LateInv'
  OBVIOUS
<1>1. ASSUME UNCHANGED <<before, outdated, carrying, inHand>> PROVE LateInv'
  BY <1>1, LateShrinks DEF Late
<1>2. ASSUME NEW s \in Slot, Serve(s) PROVE LateInv'
  <2>1. CASE Store(s) /\ s \in carrying
    <3>1. /\ Late' \subseteq Late \cup {key[s]} /\ carrying' = carrying \ {s}
          /\ inHand' = inHand
      BY <2>1 DEF Store, End, Late
    <3> QED
      BY <2>1, <3>1, LateStores
  <2>2. CASE Store(s) /\ s \notin carrying
    <3>1. /\ Late' \subseteq Late /\ carrying' \subseteq carrying
          /\ inHand' = inHand
      BY <2>2 DEF Store, End, Late
    <3> QED
      BY <3>1, LateShrinks
  <2>3. CASE Leave(s)
    <3>1. /\ Late' \subseteq Late /\ carrying' \subseteq carrying
          /\ inHand' = inHand
      BY <2>3 DEF Leave, End, Late
    <3> QED
      BY <3>1, LateShrinks
  <2> QED
    BY <1>1, <1>2, <2>1, <2>2, <2>3 DEF Serve, Hit, Miss, Answer, vars, aux
<1>3. ASSUME NEW vs, BeginFlush(vs) PROVE LateInv'
  <2>1. Late' = {} /\ carrying' \subseteq Slot
    BY <1>3 DEF BeginFlush, Late, Filling
  <2>2. inHand' = Cardinality(carrying') /\ Cardinality(carrying') \in Nat
    BY <1>3, <2>1, SlotsFinite DEF BeginFlush
  <2> QED
    BY <2>1, <2>2, FS_EmptySet DEF LateInv
<1>4. CASE Scan
  BY <1>1, <1>4 DEF Scan, aux
<1>5. ASSUME NEW ks, Gone(ks), UNCHANGED <<carrying, inHand>> PROVE LateInv'
  <2>1. Late' \subseteq Late
    BY <1>5 DEF Gone, Late
  <2> QED
    BY <1>5, <2>1, LateShrinks
<1>6. CASE Delete
  BY <1>5, <1>6 DEF Delete, Deleted
<1>7. CASE FlushRaises
  BY <1>1, <1>5, <1>7 DEF FlushRaises, Deleted
<1>8. CASE Tick
  BY <1>5, <1>8 DEF Tick
<1> QED
  BY <1>1, <1>2, <1>3, <1>4, <1>6, <1>7, <1>8 DEF Next, Flush, vars, aux

(* What a flush leaves behind it are answers that requests had in hand     *)
(* when it began, one for each of them at most.  (response_cache.py        *)
(* flush_vendor, set_cached)                                               *)
THEOREM SurvivorsFew == Spec => []FewOutdated
<1>1. WalkInv /\ TypeInv /\ LateInv => FewOutdated
  BY DEF WalkInv, TypeInv, LateInv, Late, FewOutdated
<1> QED
  BY <1>1, TypeInit, TypeStep, WalkStep, LateInit, LateStep, PTL DEF Spec

-----------------------------------------------------------------------------
(* Every variable keeps its type; no entry has more than the longest TTL.  *)
(* (response_cache.py set_cached, resolve_ttl, _delete_by_pattern)         *)
THEOREM TypeCorrect == Spec => []TypeOK
<1>1. Init => FlushTypes
  <2>1. Init => last \in BOOLEAN
    BY Zenon DEF Init
  <2> QED
    BY <2>1, ResponseCacheAssumption DEF Init, FlushTypes, Cached
<1>2. TypeInv /\ FlushTypes /\ LateInv => TypeOK
  BY ResponseCacheAssumption DEF TypeInv, FlushTypes, LateInv, TypeOK
<1>3. Init => TypeInv
  BY TypeInit
<1> QED
  BY <1>1, <1>2, <1>3, TypeStep, FlushTypesStep, LateInit, LateStep, PTL
     DEF Spec
=============================================================================
