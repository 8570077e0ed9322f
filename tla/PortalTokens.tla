---------------------------- MODULE PortalTokens ----------------------------
(***************************************************************************)
(* The authentication of requests that carry one portal token:             *)
(* get_current_user of src/gateway/auth/dependencies.py on its portal      *)
(* path, PortalTokenValidator.validate (portal_tokens.py) with the result  *)
(* it keeps in Redis, which the requests of all gateway processes share.   *)
(* It is the other path of get_current_user besides Jwks, and its names    *)
(* are kept apart from those of Jwks, so that one module can extend both.  *)
(***************************************************************************)
EXTENDS Naturals

CONSTANTS Bearer,     \* names of the requests in progress
          TokenTTL,   \* portal_token_cache_ttl
          Brief,      \* the 10 s of a negative result
          MaxAnswer   \* longest time from the portal's answer to the SET

ASSUME PortalAssumption ==
  TokenTTL \in Nat \ {0} /\ Brief \in Nat \ {0} /\ MaxAnswer \in Nat

VARIABLES revoked,    \* how long ago the token was revoked plus one, or 0
          entry,      \* its entry in Redis
          left,       \* the entry's time to live
          stage,      \* where a request stands
          since       \* time since the portal's answer

redis == <<entry, left>>
portalVars == <<revoked, redis, stage, since>>

PortalHorizon == TokenTTL + MaxAnswer + 1    \* later times are all the same
NegativeTTL == IF TokenTTL < Brief THEN TokenTTL ELSE Brief
PortalStage ==
  {"new", "ask", "valid", "invalid", "accepted", "refused", "error"}
PortalAnswered == {"valid", "invalid"}
Asking == {"ask"} \cup PortalAnswered
PortalEnded == {"accepted", "refused", "error"}

PortalTypeOK ==
  /\ revoked \in 0..PortalHorizon
  /\ entry \in {"none", "valid", "invalid"}
  /\ entry = "none" => left = 0
  /\ entry = "valid" => left \in 1..TokenTTL
  /\ entry = "invalid" => left \in 1..NegativeTTL
  /\ stage \in [Bearer -> PortalStage]
  /\ since \in [Bearer -> 0..MaxAnswer]

PortalInit ==
  /\ revoked = 0
  /\ entry = "none" /\ left = 0
  /\ stage = [r \in Bearer |-> "new"]
  /\ since = [r \in Bearer |-> 0]

-----------------------------------------------------------------------------
PortalGoto(r, l) == stage' = [stage EXCEPT ![r] = l]
SetValid == entry' = "valid" /\ left' = TokenTTL

(* A faulty SetInvalid: a refusal is kept as long as a success.            *)
SetInvalidLonger == entry' = "invalid" /\ left' = TokenTTL

SetInvalid == entry' = "invalid" /\ left' = NegativeTTL

(* Faulty variants of PortalEnter and PortalFails, which the properties    *)
(* must refute: a read renews the entry; a failed call is taken for a      *)
(* refusal of the token.                                                   *)
PortalEnterRenews(r) ==
  /\ stage[r] = "new"
  /\ \/ entry = "none" /\ PortalGoto(r, "ask") /\ UNCHANGED left
     \/ entry = "valid" /\ PortalGoto(r, "accepted") /\ left' = TokenTTL
     \/ entry = "invalid" /\ PortalGoto(r, "refused") /\ UNCHANGED left
  /\ UNCHANGED <<revoked, entry, since>>

PortalFailsStored(r) ==
  /\ stage[r] \in Asking
  /\ SetInvalid
  /\ PortalGoto(r, "refused")
  /\ UNCHANGED <<revoked, since>>

-----------------------------------------------------------------------------
(* GET: a hit decides.                                                     *)
PortalEnter(r) ==
  /\ stage[r] = "new"
  /\ \/ entry = "none" /\ PortalGoto(r, "ask")
     \/ entry = "valid" /\ PortalGoto(r, "accepted")
     \/ entry = "invalid" /\ PortalGoto(r, "refused")
  /\ UNCHANGED <<revoked, redis, since>>

(* A miss asks the portal.                                                 *)
PortalAnswers(r) ==
  /\ stage[r] = "ask"
  /\ since' = [since EXCEPT ![r] = 0]
  /\ PortalGoto(r, IF revoked = 0 THEN "valid" ELSE "invalid")
  /\ UNCHANGED <<revoked, redis>>

(* SET, over whatever another request has stored in between.               *)
Store(r) ==
  /\ \/ stage[r] = "valid" /\ SetValid /\ PortalGoto(r, "accepted")
     \/ stage[r] = "invalid" /\ SetInvalid /\ PortalGoto(r, "refused")
  /\ UNCHANGED <<revoked, since>>

(* An httpx error refuses the request and stores nothing.                  *)
PortalFails(r) ==
  /\ stage[r] \in Asking
  /\ PortalGoto(r, "refused")
  /\ UNCHANGED <<revoked, redis, since>>

(* What nothing catches: GET or SET raises, or a SET was executed and its  *)
(* reply is lost; the portal's answer is not JSON; the process ends.       *)
Raises(r) ==
  /\ stage[r] \in {"new"} \cup Asking
  /\ \/ UNCHANGED redis
     \/ stage[r] = "valid" /\ SetValid
     \/ stage[r] = "invalid" /\ SetInvalid
  /\ PortalGoto(r, "error")
  /\ UNCHANGED <<revoked, since>>

(* The response is sent; the name is free for the next request.            *)
PortalLeave(r) ==
  /\ stage[r] \in PortalEnded
  /\ PortalGoto(r, "new")
  /\ since' = [since EXCEPT ![r] = 0]
  /\ UNCHANGED <<revoked, redis>>

-----------------------------------------------------------------------------
Revoke ==
  /\ revoked = 0
  /\ revoked' = 1
  /\ UNCHANGED <<redis, stage, since>>

PortalTick ==
  /\ \A r \in Bearer : stage[r] \in PortalAnswered => since[r] < MaxAnswer
  /\ revoked' = IF revoked \in {0, PortalHorizon} THEN revoked ELSE revoked + 1
  /\ IF left > 1 THEN left' = left - 1 /\ UNCHANGED entry
                 ELSE left' = 0 /\ entry' = "none"
  /\ since' = [r \in Bearer |->
                 IF stage[r] \in PortalAnswered THEN since[r] + 1 ELSE 0]
  /\ UNCHANGED stage

-----------------------------------------------------------------------------
PortalNext ==
  \/ \E r \in Bearer :
       \/ PortalEnter(r) \/ PortalAnswers(r) \/ Store(r) \/ PortalFails(r)
       \/ Raises(r) \/ PortalLeave(r)
  \/ Revoke \/ PortalTick

PortalSpec == PortalInit /\ [][PortalNext]_portalVars

-----------------------------------------------------------------------------
(* A revoked token is accepted for no longer than the lifetime of a cached *)
(* validation and a fetch after its revocation, though validations         *)
(* answered before it may be stored after it, and over a refusal.          *)
(* (portal_tokens.py validate)                                             *)
RevokedTokenRefused ==
  [][\A r \in Bearer : stage[r] # "accepted" /\ stage'[r] = "accepted"
       => revoked <= TokenTTL + MaxAnswer]_portalVars

(* No failure of the portal or of Redis, at whatever step, makes the cache *)
(* refuse a token that is not revoked.  (portal_tokens.py validate)        *)
OnlyRevokedDenied == entry = "invalid" => revoked > 0
=============================================================================
