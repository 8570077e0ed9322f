----------------------------- MODULE AuthProofs -----------------------------
(***************************************************************************)
(* Proofs about the two paths of get_current_user, Jwks and PortalTokens.  *)
(*                                                                         *)
(* JWTs.  An answer in flight is at most its age behind the issuer, the    *)
(* cached set at most the longest age and the time since it was stored,    *)
(* and a key published when a request came is in every answer the request  *)
(* gets as long as the issuer keeps the key.  An empty cache that counts   *)
(* as fresh has been empty, under a published key, for at most the time    *)
(* since it was dated and the longest age: updates that stop half-way do   *)
(* not date it anew, and one that ends with no keys had an answer from     *)
(* before the key.                                                         *)
(*                                                                         *)
(* Portal tokens.  The answer a request carries is at most its age behind  *)
(* the portal, and a validation in Redis at most the longest age and the   *)
(* time the entry has been there.                                          *)
(***************************************************************************)
EXTENDS Jwks, PortalTokens, TLAPS

AnswerDated ==
  \A r \in Request :
    at[r] \in Answered => \A k \in got[r] : gone[k] <= age[r] + 1

CacheDated == ~Stale => \A k \in keys : gone[k] <= idle + MaxFetch + 1

EarlyKnown ==
  \A r \in Request :
    /\ at[r] = "new" => r \notin early
    /\ r \in early => signer[r] \in published \/ gone[signer[r]] > 0
    /\ r \in early /\ at[r] \in Answered /\ signer[r] \in published
         => signer[r] \in got[r]

DarkDated ==
  /\ \A k \in Key : keys # {} \/ k \notin published => dark[k] = 0
  /\ \A r \in Request : at[r] \in Answered
       => \A k \in published \ got[r] : dark[k] <= age[r]
  /\ keys = {} /\ ~Stale => \A k \in Key : dark[k] <= idle + MaxFetch

JwksInv == TypeOK /\ AnswerDated /\ CacheDated /\ EarlyKnown /\ DarkDated

LEMMA JwksInitially == Init => JwksInv
  BY JwksAssumption DEF Init, JwksInv, TypeOK, AnswerDated, CacheDated,
     EarlyKnown, DarkDated, Answered, Horizon, Stage

(* Where the search of a key can take a request.                           *)
LEMMA SearchGoes ==
  ASSUME TypeOK, NEW r \in Request, NEW k \in Key, NEW b \in BOOLEAN,
         NEW K \in SUBSET Key, Search(r, k, b, K)
  PROVE  \E l \in {"accepted", "refused", "force"} :
           /\ Goto(r, l)
           /\ l = "accepted" => k \in K
           /\ l = "refused" => K = {} \/ b
  BY DEF Search

LEMMA FetchedGoes ==
  ASSUME TypeOK, NEW r \in Request, Fetched(r)
  PROVE  \E l \in {"accepted", "refused", "force"} :
           /\ Goto(r, l)
           /\ l = "accepted" => signer[r] \in got[r]
           /\ l = "refused" => got[r] = {} \/ r \in blind
  BY DEF Fetched, Search

LEMMA JwksStep == JwksInv /\ [Next]_vars => JwksInv'
<1> SUFFICES ASSUME JwksInv, [Next]_vars PROVE JwksInv'
  OBVIOUS
<1> USE JwksAssumption DEF JwksInv, TypeOK, AnswerDated, CacheDated,
        EarlyKnown, DarkDated, Stale, Horizon, Stage, Asked, Answered, Ended,
        Goto, Holds, issuer, cache, token, answer
<1>1. ASSUME NEW r \in Request, NEW k \in Key, NEW b \in BOOLEAN,
             Enter(r, k, b)
      PROVE JwksInv'
  <2>1. PICK l \in {"accepted", "refused", "force", "fetch"} : Goto(r, l)
    BY <1>1, SearchGoes DEF Enter
  <2> QED
    BY <1>1, <2>1 DEF Enter
<1>2. ASSUME NEW r \in Request, IssuerAnswers(r) PROVE JwksInv'
  BY <1>2 DEF IssuerAnswers
<1>3. ASSUME NEW r \in Request, Fetched(r) PROVE JwksInv'
  <2>1. PICK l \in {"accepted", "refused", "force"} : Goto(r, l)
    BY <1>3, FetchedGoes
  <2> QED
    BY <1>3, <2>1 DEF Fetched
<1>4. ASSUME NEW r \in Request, Forced(r) PROVE JwksInv'
  BY <1>4 DEF Forced
<1>5. ASSUME NEW r \in Request, FetchRaises(r) PROVE JwksInv'
  BY <1>5 DEF FetchRaises
<1>6. ASSUME NEW r \in Request, UpdateRaises(r) PROVE JwksInv'
  BY <1>6 DEF UpdateRaises
<1>7. ASSUME NEW r \in Request, Leave(r) PROVE JwksInv'
  BY <1>7 DEF Leave
<1>8. ASSUME NEW k \in Key, Publish(k) PROVE JwksInv'
  BY <1>8 DEF Publish
<1>9. ASSUME NEW k \in Key, Retire(k) PROVE JwksInv'
  BY <1>9 DEF Retire
<1>10. CASE Restart
  <2>1. TypeOK'
    BY <1>10 DEF Restart
  <2>2. \A r \in Request : at'[r] \in {"new", "error"}
    BY <1>10 DEF Restart
  <2>3. AnswerDated' /\ CacheDated' /\ EarlyKnown'
    BY <1>10, <2>2 DEF Restart
  <2>4. \A k \in Key : dark'[k] = 0
    BY <1>10 DEF Restart
  <2>5. DarkDated'
    BY <2>1, <2>2, <2>4
  <2> QED
    BY <2>1, <2>3, <2>5
<1>11. CASE Tick
  BY <1>11 DEF Tick, Plus1
<1>12. CASE UNCHANGED vars
  BY <1>12 DEF vars
<1> QED
  BY <1>1, <1>2, <1>3, <1>4, <1>5, <1>6, <1>7, <1>8, <1>9, <1>10, <1>11, <1>12
     DEF Next

(* Type correctness, for every set of requests and keys and all timeouts.  *)
THEOREM TypeCorrect == Spec => []TypeOK
<1>1. Spec => []JwksInv
  BY JwksInitially, JwksStep, PTL DEF Spec
<1>2. JwksInv => TypeOK
  BY DEF JwksInv
<1> QED
  BY <1>1, <1>2, PTL

-----------------------------------------------------------------------------
(* A JWT is decided on entering, on the answer of the first fetch or on    *)
(* that of the forced one.                                                 *)
LEMMA Decided ==
  ASSUME JwksInv, [Next]_vars, NEW r \in Request,
         at'[r] \in {"accepted", "refused"}, at'[r] # at[r]
  PROVE  \/ \E k \in Key, b \in BOOLEAN : Enter(r, k, b)
         \/ Fetched(r) \/ Forced(r)
<1> USE DEF JwksInv, TypeOK, Goto
<1>1. PICK q \in Request : \/ \E k \in Key, b \in BOOLEAN : Enter(q, k, b)
                           \/ Fetched(q) \/ Forced(q)
  BY DEF Next, IssuerAnswers, FetchRaises, UpdateRaises, Leave, Publish, Retire, Restart,
     Tick, vars
<1>2. at' = [at EXCEPT ![q] = at'[q]]
  <2>1. ASSUME NEW k \in Key, NEW b \in BOOLEAN, Enter(q, k, b)
        PROVE \E l \in Stage : Goto(q, l)
    BY <2>1, SearchGoes DEF Enter, Stage
  <2>2. Fetched(q) => \E l \in Stage : Goto(q, l)
    BY FetchedGoes DEF Stage
  <2>3. Forced(q) => \E l \in Stage : Goto(q, l)
    BY DEF Forced, Stage
  <2> QED
    BY <1>1, <2>1, <2>2, <2>3
<1>3. q = r
  BY <1>2
<1> QED
  BY <1>1, <1>3

LEMMA AcceptedInTime ==
  ASSUME JwksInv, [Next]_vars, NEW r \in Request, Becomes(r, "accepted")
  PROVE  gone[signer'[r]] <= KeysTTL + MaxFetch + 1
<1> USE JwksAssumption DEF JwksInv, TypeOK, AnswerDated, CacheDated, Stale,
        Horizon, Answered, Goto, Becomes
<1>1. ASSUME NEW k \in Key, NEW b \in BOOLEAN, Enter(r, k, b)
      PROVE gone[signer'[r]] <= KeysTTL + MaxFetch + 1
  <2>1. ~Stale /\ k \in keys
    BY <1>1, SearchGoes DEF Enter
  <2> QED
    BY <1>1, <2>1 DEF Enter
<1>2. CASE Fetched(r)
  <2>1. signer[r] \in got[r]
    BY <1>2, FetchedGoes
  <2> QED
    BY <1>2, <2>1 DEF Fetched, token
<1>3. CASE Forced(r)
  BY <1>3 DEF Forced, token
<1> QED
  BY <1>1, <1>2, <1>3, Decided

(* A retired key signs nothing that is accepted later than a lifetime of   *)
(* the cache and a fetch.                                                  *)
THEOREM RetirementBounded == Spec => RetiredKeyRefused
<1>1. JwksInv /\ [Next]_vars
        => [\A r \in Request : Becomes(r, "accepted")
              => gone[signer'[r]] <= KeysTTL + MaxFetch + 1]_vars
  BY AcceptedInTime
<1>2. Spec => []JwksInv
  BY JwksInitially, JwksStep, PTL DEF Spec
<1> QED
  BY <1>1, <1>2, PTL DEF Spec, RetiredKeyRefused

-----------------------------------------------------------------------------
LEMMA RefusedOnlyUnasked ==
  ASSUME JwksInv, [Next]_vars, NEW r \in early' \ blind',
         signer'[r] \in published, Becomes(r, "refused")
  PROVE  /\ at[r] = "new" /\ keys = {}
         /\ dark[signer'[r]] <= KeysTTL + MaxFetch
<1> USE DEF JwksInv, TypeOK, EarlyKnown, Answered, Goto, Becomes
<1>0. r \in Request
  BY JwksStep DEF TypeOK
<1>1. ASSUME NEW k \in Key, NEW b \in BOOLEAN, Enter(r, k, b)
      PROVE /\ at[r] = "new" /\ keys = {}
            /\ dark[signer'[r]] <= KeysTTL + MaxFetch
  <2>1. ~b
    BY <1>1 DEF Enter
  <2>2. signer'[r] = k
    BY <1>0, <1>1 DEF Enter
  <2>3. at[r] = "new" /\ keys = {} /\ ~Stale
    BY <1>0, <1>1, <2>1, SearchGoes DEF Enter
  <2> QED
    BY <2>2, <2>3, JwksAssumption DEF DarkDated, Stale
<1>2. ~Fetched(r)
  <2> SUFFICES ASSUME Fetched(r) PROVE FALSE
    OBVIOUS
  <2>1. r \in early /\ r \notin blind /\ signer[r] \in published
    BY DEF Fetched, token
  <2>2. signer[r] \in got[r]
    BY <1>0, <2>1 DEF Fetched
  <2> QED
    BY <1>0, <2>1, <2>2, FetchedGoes DEF Fetched
<1>3. ~Forced(r)
  BY <1>0 DEF Forced, token
<1> QED
  BY <1>0, <1>1, <1>2, <1>3, Decided

(* A JWT of a published key is refused only by an empty cache, and for no  *)
(* longer than a lifetime and a fetch, whatever the other requests and the *)
(* updates that stop half-way do to the cache meanwhile.                   *)
THEOREM PublishedKeyFound == Spec => NamedKeyFound
<1>1. JwksInv /\ [Next]_vars
        => [\A r \in early' \ blind' :
              signer'[r] \in published /\ Becomes(r, "refused")
                => /\ at[r] = "new" /\ keys = {}
                   /\ dark[signer'[r]] <= KeysTTL + MaxFetch]_vars
  BY RefusedOnlyUnasked
<1>2. Spec => []JwksInv
  BY JwksInitially, JwksStep, PTL DEF Spec
<1> QED
  BY <1>1, <1>2, PTL DEF Spec, NamedKeyFound

-----------------------------------------------------------------------------
(* Portal tokens.                                                          *)
PortalDated ==
  \A r \in Bearer : /\ stage[r] = "valid" => revoked <= since[r] + 1
                    /\ stage[r] = "invalid" => revoked > 0
EntryDated == entry = "valid" => revoked + left <= TokenTTL + MaxAnswer + 1

PortalInv == PortalTypeOK /\ PortalDated /\ EntryDated /\ OnlyRevokedDenied

LEMMA PortalInitially == PortalInit => PortalInv
  BY PortalAssumption
  DEF PortalInit, PortalInv, PortalTypeOK, PortalDated, EntryDated,
      OnlyRevokedDenied, PortalHorizon, PortalStage

LEMMA PortalStep == PortalInv /\ [PortalNext]_portalVars => PortalInv'
<1> SUFFICES ASSUME PortalInv, [PortalNext]_portalVars PROVE PortalInv'
  OBVIOUS
<1> USE PortalAssumption DEF PortalInv, PortalTypeOK, PortalDated, EntryDated,
        OnlyRevokedDenied, PortalHorizon, NegativeTTL, PortalStage,
        PortalAnswered, Asking, PortalEnded, PortalGoto
<1>1. ASSUME NEW r \in Bearer, PortalEnter(r) PROVE PortalInv'
  BY <1>1 DEF PortalEnter, redis
<1>2. ASSUME NEW r \in Bearer, PortalAnswers(r) PROVE PortalInv'
  BY <1>2 DEF PortalAnswers, redis
<1>3. ASSUME NEW r \in Bearer, Store(r) PROVE PortalInv'
  BY <1>3 DEF Store, SetValid, SetInvalid
<1>4. ASSUME NEW r \in Bearer, PortalFails(r) PROVE PortalInv'
  BY <1>4 DEF PortalFails, redis
<1>5. ASSUME NEW r \in Bearer, Raises(r) PROVE PortalInv'
  BY <1>5 DEF Raises, SetValid, SetInvalid, redis
<1>6. ASSUME NEW r \in Bearer, PortalLeave(r) PROVE PortalInv'
  BY <1>6 DEF PortalLeave, redis
<1>7. CASE Revoke
  BY <1>7 DEF Revoke, redis
<1>8. CASE PortalTick
  BY <1>8 DEF PortalTick
<1>9. CASE UNCHANGED portalVars
  BY <1>9 DEF portalVars, redis
<1> QED
  BY <1>1, <1>2, <1>3, <1>4, <1>5, <1>6, <1>7, <1>8, <1>9 DEF PortalNext

(* Type correctness, for all timeouts and every set of requests.           *)
THEOREM PortalTypeCorrect == PortalSpec => []PortalTypeOK
<1>1. PortalSpec => []PortalInv
  BY PortalInitially, PortalStep, PTL DEF PortalSpec
<1>2. PortalInv => PortalTypeOK
  BY DEF PortalInv
<1> QED
  BY <1>1, <1>2, PTL

(* Only a revoked token has a cached refusal.                              *)
THEOREM DeniedOnlyRevoked == PortalSpec => []OnlyRevokedDenied
<1>1. PortalSpec => []PortalInv
  BY PortalInitially, PortalStep, PTL DEF PortalSpec
<1>2. PortalInv => OnlyRevokedDenied
  BY DEF PortalInv
<1> QED
  BY <1>1, <1>2, PTL

(* A request is accepted by a validation in Redis, which still has a time  *)
(* to live, or by its own answer.                                          *)
LEMMA PortalAccepts ==
  ASSUME PortalInv, [PortalNext]_portalVars, NEW r \in Bearer,
         stage[r] # "accepted", stage'[r] = "accepted"
  PROVE  revoked <= TokenTTL + MaxAnswer
<1> USE PortalAssumption DEF PortalInv, PortalTypeOK, PortalDated, EntryDated,
        PortalHorizon, PortalStage, PortalGoto
<1>1. PICK q \in Bearer : PortalEnter(q) \/ Store(q)
  BY DEF PortalNext, PortalAnswers, PortalFails, Raises, PortalLeave, Revoke,
     PortalTick, portalVars
<1>2. q = r
  BY <1>1 DEF PortalEnter, Store
<1>3. CASE PortalEnter(r)
  BY <1>3 DEF PortalEnter
<1>4. CASE Store(r)
  BY <1>4 DEF Store
<1> QED
  BY <1>1, <1>2, <1>3, <1>4

(* A revoked token is accepted for at most the lifetime of an entry and a  *)
(* fetch, however the requests that validate it overlap.                   *)
THEOREM RevocationBounded == PortalSpec => RevokedTokenRefused
<1>1. PortalInv /\ [PortalNext]_portalVars
        => [\A r \in Bearer : stage[r] # "accepted" /\ stage'[r] = "accepted"
              => revoked <= TokenTTL + MaxAnswer]_portalVars
  BY PortalAccepts
<1>2. PortalSpec => []PortalInv
  BY PortalInitially, PortalStep, PTL DEF PortalSpec
<1> QED
  BY <1>1, <1>2, PTL DEF PortalSpec, RevokedTokenRefused
=============================================================================
