-------------------------------- MODULE Jwks --------------------------------
(***************************************************************************)
(* The authentication of requests that carry a JWT: get_current_user of    *)
(* src/gateway/auth/dependencies.py on its JWT path, with the issuer's key *)
(* set, which jwt.py caches in the process.                                *)
(*                                                                         *)
(* Refreshes are not serialised: every request fetches for itself, and     *)
(* what stands between two awaits is one step.  A signature is good if the *)
(* key is the signer's; the other checks of a token's claims read no state *)
(* and are left out.                                                       *)
(*                                                                         *)
(* Key has the keys update() can take in: those with a kid.  It skips the  *)
(* others, and a JWT that one of them has signed fares like that of a key  *)
(* that is not published.                                                  *)
(***************************************************************************)
EXTENDS Naturals

CONSTANTS Request,    \* names of the requests in progress
          Key,        \* the issuer's signing keys, named by their kid
          FirstKey,   \* the one it starts with
          KeysTTL,    \* jwks_cache_ttl_seconds
          MaxFetch    \* longest time from an answer to its use

ASSUME JwksAssumption ==
  FirstKey \in Key /\ KeysTTL \in Nat /\ MaxFetch \in Nat

VARIABLES published,  \* keys in the issuer's JWKS
          gone,       \* how long ago a key was retired plus one, or 0
          keys,       \* _cache.keys
          idle,       \* time since _cache.fetched_at
          dark,       \* auxiliary: how long the cache of this process has
                      \* been empty while a key was published
          at,         \* where a request stands
          signer,     \* the key that signed its JWT
          blind,      \* requests whose JWT names no kid
          early,      \* requests whose key was published when they came
          got,        \* the key set in the issuer's answer
          age         \* time since the answer

issuer == <<published, gone>>
cache == <<keys, idle, dark>>
token == <<signer, blind, early>>
answer == <<got, age>>
vars == <<issuer, cache, at, token, answer>>

Horizon == KeysTTL + MaxFetch + 2    \* later times are all the same
Stage == {"new", "fetch", "fetched", "force", "forced",
          "accepted", "refused", "error"}
Asked == {"fetch", "force"}
Answered == {"fetched", "forced"}
Ended == {"accepted", "refused", "error"}

TypeOK ==
  /\ published \subseteq Key /\ keys \subseteq Key
  /\ gone \in [Key -> 0..Horizon]
  /\ \A k \in published : gone[k] = 0
  /\ idle \in 0..KeysTTL + 1
  /\ dark \in [Key -> 0..Horizon]
  /\ at \in [Request -> Stage]
  /\ signer \in [Request -> Key]
  /\ blind \subseteq Request /\ early \subseteq Request
  /\ got \in [Request -> SUBSET Key]
  /\ age \in [Request -> 0..MaxFetch]

(* fetched_at = 0.0 on the clock of monotonic(), the host's uptime.        *)
Init ==
  /\ published = {FirstKey} /\ gone = [k \in Key |-> 0]
  /\ keys = {} /\ idle \in 0..KeysTTL + 1 /\ dark = [k \in Key |-> 0]
  /\ at = [r \in Request |-> "new"]
  /\ signer = [r \in Request |-> FirstKey]
  /\ blind = {} /\ early = {}
  /\ got = [r \in Request |-> {}] /\ age = [r \in Request |-> 0]

-----------------------------------------------------------------------------
Goto(r, l) == at' = [at EXCEPT ![r] = l]
Stale == idle > KeysTTL

(* The cached keys are K from now on.                                      *)
Holds(K) ==
  /\ keys' = K
  /\ dark' = IF K = {} THEN dark ELSE [k \in Key |-> 0]

(* What get_signing_key finds in the keys K for a token signed with k,     *)
(* which names no kid if b, and what the signature's check then says.      *)
Search(r, k, b, K) ==
  \/ K = {} /\ Goto(r, "refused")
  \/ k \in K /\ Goto(r, "accepted")
  \/ b /\ K \ {k} # {} /\ Goto(r, "refused")
  \/ ~b /\ K # {} /\ k \notin K /\ Goto(r, "force")

(* A faulty Forced: the new keys are added to the cached ones.             *)
ForcedKeepsCache(r) ==
  /\ at[r] = "forced"
  /\ Holds(keys \cup got[r]) /\ idle' = 0
  /\ Goto(r, IF signer[r] \in got[r] THEN "accepted" ELSE "refused")
  /\ UNCHANGED <<issuer, token, answer>>

(* A faulty Fetched: the set counts as older than any.                     *)
FetchedUndated(r) ==
  /\ at[r] = "fetched"
  /\ Holds(got[r]) /\ idle' = KeysTTL + 2
  /\ Search(r, signer[r], r \in blind, got[r])
  /\ UNCHANGED <<issuer, token, answer>>

(* A faulty UpdateRaises: fetched_at is set before the keys are read.      *)
UpdateRaisesDated(r) ==
  /\ at[r] \in Answered
  /\ \E K \in SUBSET got[r] : Holds(K)
  /\ idle' = 0
  /\ Goto(r, "error")
  /\ UNCHANGED <<issuer, token, answer>>

-----------------------------------------------------------------------------
(* A JWT comes on a key set that counts as stale, or as fresh.             *)
Enter(r, k, b) ==
  /\ at[r] = "new"
  /\ signer' = [signer EXCEPT ![r] = k]
  /\ blind' = IF b THEN blind \cup {r} ELSE blind
  /\ early' = IF k \in published THEN early \cup {r} ELSE early
  /\ \/ Stale /\ Goto(r, "fetch")
     \/ ~Stale /\ Search(r, k, b, keys)
  /\ UNCHANGED <<issuer, cache, answer>>

(* The issuer answers with the key set it publishes.                       *)
IssuerAnswers(r) ==
  /\ at[r] \in Asked
  /\ got' = [got EXCEPT ![r] = published]
  /\ age' = [age EXCEPT ![r] = 0]
  /\ Goto(r, IF at[r] = "fetch" THEN "fetched" ELSE "forced")
  /\ UNCHANGED <<issuer, cache, token>>

(* update() runs to its end: the answer replaces the cached set, whatever  *)
(* came in between.                                                        *)
Fetched(r) ==
  /\ at[r] = "fetched"
  /\ Holds(got[r]) /\ idle' = 0
  /\ Search(r, signer[r], r \in blind, got[r])
  /\ UNCHANGED <<issuer, token, answer>>

(* The forced refresh for an unknown kid, once.                            *)
Forced(r) ==
  /\ at[r] = "forced"
  /\ Holds(got[r]) /\ idle' = 0
  /\ Goto(r, IF signer[r] \in got[r] THEN "accepted" ELSE "refused")
  /\ UNCHANGED <<issuer, token, answer>>

(* The fetch raises, and nothing catches it.                               *)
FetchRaises(r) ==
  /\ at[r] \in Asked \cup Answered
  /\ Goto(r, "error")
  /\ UNCHANGED <<issuer, cache, token, answer>>

(* The answer has a key that jwk.construct refuses, or is no JWKS at all:  *)
(* update() raises, after it has emptied the cache and put in some of the  *)
(* keys, those before the bad one.  fetched_at stays what it was.          *)
UpdateRaises(r) ==
  /\ at[r] \in Answered
  /\ \E K \in SUBSET got[r] : Holds(K)
  /\ Goto(r, "error")
  /\ UNCHANGED <<issuer, idle, token, answer>>

(* The response is sent; the name is free for the next request.            *)
Leave(r) ==
  /\ at[r] \in Ended
  /\ Goto(r, "new")
  /\ signer' = [signer EXCEPT ![r] = FirstKey]
  /\ blind' = blind \ {r} /\ early' = early \ {r}
  /\ got' = [got EXCEPT ![r] = {}] /\ age' = [age EXCEPT ![r] = 0]
  /\ UNCHANGED <<issuer, cache>>

-----------------------------------------------------------------------------
(* The issuer publishes a key, and retires it for good.                    *)
Publish(k) ==
  /\ k \notin published /\ gone[k] = 0
  /\ published' = published \cup {k}
  /\ UNCHANGED <<gone, cache, at, token, answer>>

Retire(k) ==
  /\ k \in published
  /\ published' = published \ {k}
  /\ gone' = [gone EXCEPT ![k] = 1]
  /\ dark' = [dark EXCEPT ![k] = 0]
  /\ UNCHANGED <<keys, idle, at, token, answer>>

(* The process ends and another one starts, on this host or a new one.     *)
Restart ==
  /\ keys' = {} /\ idle' \in 0..KeysTTL + 1 /\ dark' = [k \in Key |-> 0]
  /\ at' = [r \in Request |-> IF at[r] = "new" THEN "new" ELSE "error"]
  /\ UNCHANGED <<issuer, token, answer>>

Plus1(n, max) == IF n < max THEN n + 1 ELSE max

Tick ==
  /\ \A r \in Request : at[r] \in Answered => age[r] < MaxFetch
  /\ gone' = [k \in Key |-> IF gone[k] = 0 THEN 0 ELSE Plus1(gone[k], Horizon)]
  /\ idle' = Plus1(idle, KeysTTL + 1)
  /\ dark' = [k \in Key |-> IF keys = {} /\ k \in published
                             THEN Plus1(dark[k], Horizon) ELSE 0]
  /\ age' = [r \in Request |-> IF at[r] \in Answered THEN age[r] + 1 ELSE 0]
  /\ UNCHANGED <<published, keys, at, token, got>>

-----------------------------------------------------------------------------
Next ==
  \/ \E r \in Request :
       \/ \E k \in Key, b \in BOOLEAN : Enter(r, k, b)
       \/ IssuerAnswers(r) \/ Fetched(r) \/ Forced(r)
       \/ FetchRaises(r) \/ UpdateRaises(r) \/ Leave(r)
  \/ \E k \in Key : Publish(k) \/ Retire(k)
  \/ Restart \/ Tick

Spec == Init /\ [][Next]_vars

-----------------------------------------------------------------------------
Becomes(r, l) == at[r] # l /\ at'[r] = l

(* A retired key signs nothing that is accepted later than the cache's     *)
(* lifetime and a fetch after its retirement, although refreshes overlap   *)
(* and an older key set may replace a newer one.                           *)
(* (jwt.py get_signing_key, JWKSCache.update)                              *)
RetiredKeyRefused ==
  [][\A r \in Request : Becomes(r, "accepted")
       => gone[signer'[r]] <= KeysTTL + MaxFetch + 1]_vars

(* A JWT that names a key published before it came, and still published,   *)
(* is refused only by an empty cache that counts as fresh, and no process  *)
(* goes on like this for longer than the cache's lifetime and a fetch:     *)
(* whether it has just started, an update has stopped half-way, or the     *)
(* issuer had no keys, and whatever overlapping refreshes put in between.  *)
(* (jwt.py is_stale, update, get_signing_key with its forced refresh)      *)
NamedKeyFound ==
  [][\A r \in early' \ blind' :
       signer'[r] \in published /\ Becomes(r, "refused")
         => /\ at[r] = "new" /\ keys = {}
            /\ dark[signer'[r]] <= KeysTTL + MaxFetch]_vars

=============================================================================
