--------------------------- MODULE ResponseCache ---------------------------
(***************************************************************************)
(* The response cache of src/gateway/cache/response_cache.py under its two *)
(* users: proxied requests, which look a key up and, after a miss and a    *)
(* 2xx answer of the vendor, store the answer; and the administrator, who  *)
(* flushes the entries of one vendor or of all.                            *)
(*                                                                         *)
(* A flush is not atomic: it walks the keys with SCAN and deletes what     *)
(* each page names, while requests store and entries expire.  Of SCAN the  *)
(* model assumes what Redis promises: keys that exist from the first call  *)
(* to the last are returned; which other keys are, on which page and how   *)
(* often, is open, and a page may be empty.                                *)
(***************************************************************************)
EXTENDS Integers, FiniteSets

CONSTANTS Slot,        \* requests served at a time
          Key, Vendor, None,
          Owner,       \* the vendor whose slug a cache key has
          VendorTTL,   \* values of vendors.cache_ttl_seconds
          Override,    \* values of vendor_endpoints.cache_ttl_override
          MaxTTL,      \* the longest TTL they give
          MaxAge       \* bound: time from a vendor's answer to its SET

(* resolve_ttl: the endpoint's override wins, though it be 0.              *)
ResolveTTL(v, o) == IF o # None THEN o ELSE v

ASSUME ResponseCacheAssumption ==
  /\ IsFiniteSet(Slot) /\ Owner \in [Key -> Vendor]
  /\ VendorTTL \subseteq Int /\ Override \subseteq Int \cup {None}
  /\ None \notin Int /\ MaxTTL \in Nat /\ MaxAge \in Nat
  /\ \A v \in VendorTTL, o \in Override : ResolveTTL(v, o) <= MaxTTL

VARIABLES left,      \* time until an entry expires; 0 when there is none
          at,        \* where the request of a slot stands
          key, ttl,  \* its cache key and resolved TTL
          age,       \* time since the vendor answered it
          stage,     \* where the flush stands
          scope,     \* the vendors it is for
          page,      \* keys SCAN has just returned
          last,      \* the cursor is 0: that was the last page
          todo,      \* keys SCAN has still to return
          before,    \* auxiliary: entries stored before the flush began
          outdated,  \* auxiliary: entries with an answer from before that
          carrying,  \* auxiliary: slots with such an answer not yet stored
          since,     \* auxiliary: time since the flush began
          inHand     \* auxiliary: how many slots carried an answer then

request == <<at, key, ttl, age>>
flush == <<stage, scope, page, last, todo>>
aux == <<before, outdated, carrying, since, inHand>>
vars == <<left, request, flush, aux>>

Cached == {k \in Key : left[k] > 0}
Filling == {s \in Slot : at[s] = "fill"}

(* The keys cache:{slug}:*, or cache:* for all vendors.                    *)
Matching(vs) == {k \in Cached : Owner[k] \in vs}

TypeOK ==
  /\ left \in [Key -> 0..MaxTTL]
  /\ at \in [Slot -> {"idle", "call", "fill"}]
  /\ key \in [Slot -> Key \cup {None}]
  /\ \A s \in Slot : at[s] # "idle" => key[s] \in Key
  /\ ttl \in [Slot -> Int] /\ \A s \in Slot : ttl[s] <= MaxTTL
  /\ age \in [Slot -> 0..MaxAge]
  /\ stage \in {"none", "scan", "delete", "done", "failed"}
  /\ scope \subseteq Vendor
  /\ page \subseteq Key /\ last \in BOOLEAN
  /\ todo \subseteq before /\ before \subseteq outdated
  /\ outdated \subseteq Cached /\ carrying \subseteq Filling
  /\ since \in 0..(MaxAge + MaxTTL + 1) /\ inHand \in Nat

Init ==
  /\ left = [k \in Key |-> 0]
  /\ at = [s \in Slot |-> "idle"]
  /\ key = [s \in Slot |-> None]
  /\ ttl = [s \in Slot |-> 0]
  /\ age = [s \in Slot |-> 0]
  /\ stage = "none" /\ scope = {} /\ page = {} /\ last = FALSE /\ todo = {}
  /\ before = {} /\ outdated = {} /\ carrying = {} /\ since = 0 /\ inHand = 0

-----------------------------------------------------------------------------
(* The request of a slot is over; what it had goes with it.                *)
End(s) ==
  /\ at' = [at EXCEPT ![s] = "idle"]
  /\ key' = [key EXCEPT ![s] = None]
  /\ ttl' = [ttl EXCEPT ![s] = 0]
  /\ age' = [age EXCEPT ![s] = 0]
  /\ carrying' = carrying \ {s}

(* Entries that expire or are deleted; SCAN owes them no longer.           *)
Gone(ks) ==
  /\ todo' = todo \ ks
  /\ before' = before \ ks
  /\ outdated' = outdated \ ks

(* DEL of a page, which may name keys that are gone or were stored anew.   *)
Deleted ==
  /\ left' = [k \in Key |-> IF k \in page THEN 0 ELSE left[k]]
  /\ Gone(page)

-----------------------------------------------------------------------------
(* Faulty variants of the definitions below, which the properties must     *)
(* refute.                                                                 *)

(* The first empty page ends the loop.                                     *)
StopAtEmptyPage(ks, final) == final \/ ks = {}

(* The DEL stands after the loop: only the last page is deleted.           *)
DeleteLastPage ==
  /\ stage = "delete"
  /\ IF last THEN Deleted ELSE UNCHANGED <<left, todo, before, outdated>>
  /\ page' = {}
  /\ stage' = IF last THEN "done" ELSE "scan"
  /\ UNCHANGED <<request, scope, last, carrying, since, inHand>>

(* The entry lives a unit longer than its TTL.                             *)
StoreRoundedUp(s) ==
  /\ at[s] = "fill" /\ ttl[s] > 0
  /\ left' = [left EXCEPT ![key[s]] = ttl[s] + 1]
  /\ Gone({key[s]})
  /\ End(s)
  /\ UNCHANGED <<stage, scope, page, last, since, inHand>>

(* A hit renews the entry, as GETEX would.                                 *)
HitRenewing(s) ==
  /\ at[s] = "idle"
  /\ \E k \in Cached : left' = [left EXCEPT ![k] = MaxTTL]
  /\ UNCHANGED <<request, flush, aux>>

-----------------------------------------------------------------------------
(* get_cached: a hit answers the request and changes nothing.              *)
Hit(s) ==
  /\ at[s] = "idle"
  /\ Cached # {}
  /\ UNCHANGED vars

(* A miss: the request will call the vendor.  Its endpoint's and vendor's  *)
(* TTLs were read before.                                                  *)
Miss(s, k) ==
  /\ at[s] = "idle"
  /\ left[k] = 0
  /\ at' = [at EXCEPT ![s] = "call"]
  /\ key' = [key EXCEPT ![s] = k]
  /\ \E v \in VendorTTL, o \in Override :
       ttl' = [ttl EXCEPT ![s] = ResolveTTL(v, o)]
  /\ UNCHANGED <<left, age, flush, aux>>

(* The vendor answers 2xx; the answer is then as old as this.              *)
Answer(s) ==
  /\ at[s] = "call"
  /\ at' = [at EXCEPT ![s] = "fill"]
  /\ UNCHANGED <<left, key, ttl, age, flush, aux>>

(* set_cached.                                                             *)
Store(s) ==
  /\ at[s] = "fill" /\ ttl[s] > 0
  /\ left' = [left EXCEPT ![key[s]] = ttl[s]]
  /\ todo' = todo \ {key[s]}
  /\ before' = before \ {key[s]}
  /\ outdated' = IF s \in carrying THEN outdated \cup {key[s]}
                                   ELSE outdated \ {key[s]}
  /\ End(s)
  /\ UNCHANGED <<stage, scope, page, last, since, inHand>>

(* The request ends without storing: another answer than 2xx, an answer    *)
(* shared by deduplication, a TTL of 0, a SET that raises, a crash.        *)
Leave(s) ==
  /\ at[s] # "idle"
  /\ End(s)
  /\ UNCHANGED <<left, flush, before, outdated, since, inHand>>

-----------------------------------------------------------------------------
(* DELETE /admin/vendors/{id}/cache for one vendor, /admin/cache for all.  *)
BeginFlush(vs) ==
  /\ stage \notin {"scan", "delete"}
  /\ stage' = "scan" /\ scope' = vs
  /\ page' = {} /\ last' = FALSE
  /\ todo' = Matching(vs) /\ before' = Matching(vs) /\ outdated' = Matching(vs)
  /\ carrying' = {s \in Filling : Owner[key[s]] \in vs}
  /\ since' = 0 /\ inHand' = Cardinality(carrying')
  /\ UNCHANGED <<left, request>>

(* Whether the loop ends after a page.                                     *)
Ends(ks, final) == final

(* One SCAN.                                                               *)
Scan ==
  /\ stage = "scan"
  /\ \E ks \in SUBSET Matching(scope), final \in BOOLEAN :
       /\ final => todo \subseteq ks
       /\ todo' = todo \ ks
       /\ page' = ks
       /\ last' = Ends(ks, final)
       /\ stage' = IF ks # {} THEN "delete"
                   ELSE IF Ends(ks, final) THEN "done" ELSE "scan"
  /\ UNCHANGED <<left, request, scope, aux>>

Delete ==
  /\ stage = "delete"
  /\ Deleted
  /\ page' = {}
  /\ stage' = IF last THEN "done" ELSE "scan"
  /\ UNCHANGED <<request, scope, last, carrying, since, inHand>>

(* SCAN or DEL raises, the DEL executed or not, or the process dies: the   *)
(* administrator gets no answer, or a 500.                                 *)
FlushRaises ==
  /\ stage \in {"scan", "delete"}
  /\ \/ UNCHANGED <<left, before, outdated, todo>>
     \/ stage = "delete" /\ Deleted
  /\ stage' = "failed" /\ page' = {}
  /\ UNCHANGED <<request, scope, last, carrying, since, inHand>>

(* One unit of time.                                                       *)
Tick ==
  /\ \A s \in Filling : age[s] < MaxAge
  /\ age' = [s \in Slot |-> IF at[s] = "fill" THEN age[s] + 1 ELSE age[s]]
  /\ left' = [k \in Key |-> IF left[k] = 0 THEN 0 ELSE left[k] - 1]
  /\ Gone({k \in Key : left[k] <= 1})
  /\ since' = IF since > MaxAge + MaxTTL THEN since ELSE since + 1
  /\ UNCHANGED <<at, key, ttl, stage, scope, page, last, carrying, inHand>>

-----------------------------------------------------------------------------
Serve(s) ==
  \/ Hit(s) \/ Answer(s) \/ Store(s) \/ Leave(s)
  \/ \E k \in Key : Miss(s, k)

Flush ==
  \/ BeginFlush(Vendor) \/ \E v \in Vendor : BeginFlush({v})
  \/ Scan \/ Delete \/ FlushRaises

Next == (\E s \in Slot : Serve(s)) \/ Flush \/ Tick

Spec == Init /\ [][Next]_vars

-----------------------------------------------------------------------------
(* Once the administrator is told that the cache is flushed, no entry that *)
(* was there when the flush began is still there, wherever stores and      *)
(* expiries fell between its pages.  (response_cache.py                    *)
(* _delete_by_pattern; admin/routes.py flush_vendor_cache)                 *)
FlushedGone == stage = "done" => before = {}

(* Outdated answers may be stored behind the flush, but no more of them    *)
(* than requests for the flushed vendors had in hand when it began, ...    *)
(* (response_cache.py flush_vendor, set_cached)                            *)
FewOutdated ==
  stage = "done" => Cardinality(outdated) + Cardinality(carrying) <= inHand

(* ... and, flushed or not, none outlives the flush's beginning by more    *)
(* than the longest TTL and the time between an answer and its SET.        *)
(* (response_cache.py set_cached, resolve_ttl)                             *)
OutdatedExpire == \A k \in outdated : since + left[k] <= MaxAge + MaxTTL
=============================================================================
