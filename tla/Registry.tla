------------------------------ MODULE Registry ------------------------------
(***************************************************************************)
(* The vendor registry of src/gateway/vendors/registry.py, as proxied      *)
(* requests, the admin's reload and the job worker use it, with the OAuth2 *)
(* adapters (adapters/oauth2.py) it builds and discards.                   *)
(*                                                                         *)
(* One vendor is modelled; its row in Postgres is a version number.  An    *)
(* asyncio coroutine is only interrupted at an await: what stands between  *)
(* two awaits is one step.  An adapter is named after the request that     *)
(* built it.                                                               *)
(***************************************************************************)
EXTENDS Naturals

CONSTANTS Request,     \* callers of the registry, each once
          None,
          Refresh,     \* refresh_interval
          MaxQuery,    \* longest time from the SELECT's snapshot to its use
          Life,        \* expires_in of the vendor's tokens
          Buffer,      \* _EXPIRY_BUFFER_SECONDS
          MaxFetch,    \* longest time from a token's issue to its arrival
          MaxVersion   \* bound on the admin's updates

ASSUME RegistryAssumption ==
  /\ Refresh \in Nat /\ MaxQuery \in Nat /\ Life \in Nat /\ Buffer \in Nat
  /\ MaxFetch \in Nat /\ MaxVersion \in Nat \ {0}
  /\ None \notin Request

VARIABLES row,       \* version of the vendor's row
          off,       \* versions that are not active
          gone,      \* how long ago a version ceased to be the row
          known,     \* version in the registry, 0 before the first load
          idle,      \* time since _last_loaded
          adapter,   \* the adapter in the registry's cache
          loader,    \* who holds the registry's lock
          at,        \* where a request stands
          admin,     \* requests that are the admin's reload
          ver,       \* version a request has read, or goes on with
          age,       \* time since its SELECT ran, or its token was issued
          use,       \* adapter it goes on with
          fetcher,   \* who holds an adapter's lock
          left,      \* time to _expires_at of an adapter, 0 without a token
          alive      \* time its token stays valid at the vendor

database == <<row, off, gone>>
registry == <<known, idle, adapter, loader>>
request == <<admin, ver, age, use>>
tokens == <<fetcher, left, alive>>
vars == <<database, registry, at, request, tokens>>

Version == 1..MaxVersion
Horizon == Refresh + MaxQuery + 1   \* times beyond it are all the same
Stage == {"new", "wait", "query", "rows", "ready", "tokenwait", "fetch",
          "issued", "done"}

TypeOK ==
  /\ row \in Version /\ off \subseteq Version
  /\ gone \in [Version -> 0..Horizon]
  /\ known \in 0..row /\ idle \in 0..Refresh + 1
  /\ adapter \in Request \cup {None} /\ loader \in Request \cup {None}
  /\ at \in [Request -> Stage]
  /\ admin \subseteq Request
  /\ ver \in [Request -> 0..row]
  /\ age \in [Request -> Nat]
  /\ use \in [Request -> Request \cup {None}]
  /\ fetcher \in [Request -> Request \cup {None}]
  /\ left \in [Request -> 0..Life] /\ alive \in [Request -> 0..Life]

(* _last_loaded = 0.0 on the clock of monotonic(), the host's uptime.      *)
Init ==
  /\ row = 1 /\ off = {}
  /\ gone = [v \in Version |-> 0]
  /\ known = 0 /\ idle \in 0..Refresh + 1
  /\ adapter = None /\ loader = None
  /\ at = [r \in Request |-> "new"] /\ admin = {}
  /\ ver = [r \in Request |-> 0] /\ age = [r \in Request |-> 0]
  /\ use = [r \in Request |-> None]
  /\ fetcher = [a \in Request |-> None]
  /\ left = [a \in Request |-> 0] /\ alive = [a \in Request |-> 0]

-----------------------------------------------------------------------------
Goto(r, l) == at' = [at EXCEPT ![r] = l]
Stale == idle > Refresh

(* A faulty Usable: the token is used to its very end.                     *)
UsableToTheEnd(a) == left[a] > 0

(* There is a token, and not _is_expired().                                *)
Usable(a) == left[a] > Buffer

(* registry.get and get_adapter, with no await in between, when the        *)
(* registry holds version v and adapter a: an unknown or inactive vendor   *)
(* ends the request, and so does a build_adapter that raises.              *)
Resolve(r, v, a) ==
  /\ ver' = [ver EXCEPT ![r] = v]
  /\ \/ /\ v = 0 \/ v \in off
        /\ Goto(r, "done")
        /\ adapter' = a
        /\ UNCHANGED use
     \/ /\ v > 0 /\ v \notin off
        /\ Goto(r, "ready")
        /\ adapter' = IF a = None THEN r ELSE a
        /\ use' = [use EXCEPT ![r] = adapter']
     \/ /\ v > 0 /\ v \notin off /\ a = None
        /\ Goto(r, "done")
        /\ adapter' = None
        /\ UNCHANGED use

-----------------------------------------------------------------------------
(* Faulty variants of the actions below, which the properties must refute. *)

(* SELECT and assignment are not under the lock.                           *)
LockShared(r) ==
  /\ at[r] = "wait"
  /\ loader' = r
  /\ Goto(r, "query")
  /\ UNCHANGED <<database, known, idle, adapter, request, tokens>>

(* The adapters outlive the configs they were built from.                  *)
LoadKeepsAdapter(r) ==
  /\ at[r] = "rows"
  /\ known' = ver[r] /\ idle' = 0
  /\ loader' = None
  /\ IF r \in admin THEN Goto(r, "done") /\ UNCHANGED <<adapter, ver, use>>
                    ELSE Resolve(r, ver[r], adapter)
  /\ admin' = admin \ {r}
  /\ UNCHANGED <<database, age, tokens>>

(* A load that fails counts as one.                                        *)
LoadRaisesCounted(r) ==
  /\ at[r] \in {"query", "rows"}
  /\ loader' = None /\ idle' = 0
  /\ Goto(r, "done")
  /\ UNCHANGED <<database, known, adapter, request, tokens>>

(* The token is not looked at again under the lock.                        *)
LockTokenUnchecked(r) ==
  /\ at[r] = "tokenwait" /\ fetcher[use[r]] = None
  /\ fetcher' = [fetcher EXCEPT ![use[r]] = r]
  /\ Goto(r, "fetch")
  /\ UNCHANGED <<database, registry, request, left, alive>>

(* The buffer is added to the lifetime.                                    *)
StoreTokenLonger(r) ==
  /\ at[r] = "issued"
  /\ left' = [left EXCEPT ![use[r]] = Life + Buffer]
  /\ fetcher' = [fetcher EXCEPT ![use[r]] = None]
  /\ Goto(r, "done")
  /\ UNCHANGED <<database, registry, request, alive>>

(* A fetch that fails keeps the adapter's lock.                            *)
FetchRaisesLocked(r) ==
  /\ at[r] \in {"fetch", "issued"}
  /\ Goto(r, "done")
  /\ UNCHANGED <<database, registry, request, tokens>>

-----------------------------------------------------------------------------
(* A proxied request that finds the registry fresh.                        *)
EnterFresh(r) ==
  /\ at[r] = "new" /\ ~Stale
  /\ Resolve(r, known, adapter)
  /\ UNCHANGED <<database, known, idle, loader, admin, age, tokens>>

(* The job worker does not ask.                                            *)
EnterJob(r) ==
  /\ at[r] = "new"
  /\ Resolve(r, known, adapter)
  /\ UNCHANGED <<database, known, idle, loader, admin, age, tokens>>

(* A proxied request that finds it stale: on to load(), for good.          *)
EnterStale(r) ==
  /\ at[r] = "new" /\ Stale
  /\ Goto(r, "wait")
  /\ UNCHANGED <<database, registry, request, tokens>>

(* POST /admin/config/reload.                                              *)
EnterAdmin(r) ==
  /\ at[r] = "new"
  /\ admin' = admin \cup {r}
  /\ Goto(r, "wait")
  /\ UNCHANGED <<database, registry, ver, age, use, tokens>>

(* async with self._lock.                                                  *)
Lock(r) ==
  /\ at[r] = "wait" /\ loader = None
  /\ loader' = r
  /\ Goto(r, "query")
  /\ UNCHANGED <<database, known, idle, adapter, request, tokens>>

(* Postgres runs the SELECT.                                               *)
Select(r) ==
  /\ at[r] = "query"
  /\ ver' = [ver EXCEPT ![r] = row]
  /\ age' = [age EXCEPT ![r] = 0]
  /\ Goto(r, "rows")
  /\ UNCHANGED <<database, registry, admin, use, tokens>>

(* Its rows replace the configs, every adapter goes, the lock is released, *)
(* and the caller goes on.                                                 *)
Load(r) ==
  /\ at[r] = "rows"
  /\ known' = ver[r] /\ idle' = 0
  /\ loader' = None
  /\ IF r \in admin THEN Goto(r, "done") /\ adapter' = None
                         /\ UNCHANGED <<ver, use>>
                    ELSE Resolve(r, ver[r], None)
  /\ admin' = admin \ {r}
  /\ UNCHANGED <<database, age, tokens>>

(* The SELECT raises: the lock is released, the registry as it was.        *)
LoadRaises(r) ==
  /\ at[r] \in {"query", "rows"}
  /\ loader' = None
  /\ Goto(r, "done")
  /\ UNCHANGED <<database, known, idle, adapter, request, tokens>>

-----------------------------------------------------------------------------
(* prepare_request with a usable token: it is sent at once.                *)
UseToken(r) ==
  /\ at[r] = "ready" /\ Usable(use[r])
  /\ Goto(r, "done")
  /\ UNCHANGED <<database, registry, request, tokens>>

NeedToken(r) ==
  /\ at[r] = "ready" /\ ~Usable(use[r])
  /\ Goto(r, "tokenwait")
  /\ UNCHANGED <<database, registry, request, tokens>>

(* The adapter's lock is free, and no other coroutine has refreshed.       *)
LockToken(r) ==
  /\ at[r] = "tokenwait" /\ fetcher[use[r]] = None
  /\ ~Usable(use[r])
  /\ fetcher' = [fetcher EXCEPT ![use[r]] = r]
  /\ Goto(r, "fetch")
  /\ UNCHANGED <<database, registry, request, left, alive>>

(* The re-check finds a token another coroutine has fetched.               *)
FindToken(r) ==
  /\ at[r] = "tokenwait" /\ fetcher[use[r]] = None
  /\ Usable(use[r])
  /\ Goto(r, "done")
  /\ UNCHANGED <<database, registry, request, tokens>>

(* The token endpoint issues a token.                                      *)
Issue(r) ==
  /\ at[r] = "fetch"
  /\ age' = [age EXCEPT ![r] = 0]
  /\ Goto(r, "issued")
  /\ UNCHANGED <<database, registry, admin, ver, use, tokens>>

(* It arrives, its lifetime counted from now, and is sent.                 *)
StoreToken(r) ==
  /\ at[r] = "issued"
  /\ left' = [left EXCEPT ![use[r]] = Life]
  /\ alive' = [alive EXCEPT ![use[r]] = IF age[r] < Life THEN Life - age[r]
                                                        ELSE 0]
  /\ fetcher' = [fetcher EXCEPT ![use[r]] = None]
  /\ Goto(r, "done")
  /\ UNCHANGED <<database, registry, request>>

(* The fetch raises: the lock goes to the next, which tries again.         *)
FetchRaises(r) ==
  /\ at[r] \in {"fetch", "issued"}
  /\ fetcher' = [fetcher EXCEPT ![use[r]] = None]
  /\ Goto(r, "done")
  /\ UNCHANGED <<database, registry, request, left, alive>>

-----------------------------------------------------------------------------
(* The admin commits a new content of the row, active or not.              *)
Update ==
  /\ row < MaxVersion
  /\ row' = row + 1
  /\ off' \in {off, off \cup {row + 1}}
  /\ UNCHANGED <<gone, registry, at, request, tokens>>

Minus1(n) == IF n = 0 THEN 0 ELSE n - 1
Plus1(n, max) == IF n < max THEN n + 1 ELSE max

Tick ==
  /\ \A r \in Request : /\ at[r] = "rows" => age[r] < MaxQuery
                        /\ at[r] = "issued" => age[r] < MaxFetch
  /\ gone' = [v \in Version |-> IF v < row THEN Plus1(gone[v], Horizon)
                                           ELSE gone[v]]
  /\ idle' = Plus1(idle, Refresh + 1)
  /\ age' = [r \in Request |-> IF at[r] \in {"rows", "issued"}
                               THEN age[r] + 1 ELSE 0]
  /\ left' = [a \in Request |-> Minus1(left[a])]
  /\ alive' = [a \in Request |-> Minus1(alive[a])]
  /\ UNCHANGED <<row, off, known, adapter, loader, at, admin, ver, use,
                 fetcher>>

-----------------------------------------------------------------------------
Loading(r) ==
  \/ EnterFresh(r) \/ EnterStale(r) \/ Lock(r) \/ Select(r) \/ Load(r)

Sending(r) ==
  \/ UseToken(r) \/ NeedToken(r) \/ LockToken(r) \/ FindToken(r)
  \/ Issue(r) \/ StoreToken(r)

Next ==
  \/ \E r \in Request :
       \/ Loading(r) \/ Sending(r) \/ EnterJob(r) \/ EnterAdmin(r)
       \/ LoadRaises(r) \/ FetchRaises(r)
  \/ Update \/ Tick

(* Both locks are asyncio.Lock, which wakes its waiters in turn.  That     *)
(* queries and token requests end is an assumption: httpx limits each      *)
(* phase of a request, and the pool only the wait for a connection.        *)
Fairness == \A r \in Request : WF_vars(Loading(r) \/ Sending(r))

Safety == Init /\ [][Next]_vars
Spec == Safety /\ Fairness

-----------------------------------------------------------------------------
(* While the registry does not count as stale, what it holds has been the  *)
(* row within the refresh interval and the time of a query: the interval   *)
(* is counted from the use of the rows, not from their snapshot.           *)
(* (registry.py load, reload_if_stale)                                     *)
StalenessBounded ==
  known > 0 /\ known # row /\ ~Stale => gone[known] <= Refresh + MaxQuery

(* However loads overlap, none puts an older row back in the place of a    *)
(* newer one.  (registry.py load, its lock around SELECT and assignment)   *)
NeverOlder == [][known' >= known]_vars

(* A config is only ever used with an adapter built from that version, and *)
(* the cached adapter is one of the config in the registry.                *)
(* (registry.py load, get_adapter; proxy.py 116-128)                       *)
AdapterOfConfig ==
  /\ adapter # None => ver[adapter] = known
  /\ \A r \in Request : use[r] # None => ver[use[r]] = ver[r]

(* However many requests find a token expired together, its adapter gets a *)
(* new one only when the last is within the buffer of its end.             *)
(* (oauth2.py _ensure_token, the second check under the lock)              *)
TokensSpaced ==
  [][\A r \in Request : StoreToken(r) => left[use[r]] <= Buffer]_vars

(* A token that is sent is still valid at the vendor, though its lifetime  *)
(* is counted from its arrival: the buffer outlasts the fetch.             *)
(* (oauth2.py _is_expired, _fetch_token)                                   *)
SentAlive ==
  [][\A r \in Request :
       UseToken(r) \/ FindToken(r) \/ StoreToken(r)
         => alive'[use[r]] > 0]_vars

(* A request that waits for a load or for a token ends or gets its config, *)
(* also when the one that holds the lock fails.  (registry.py load,        *)
(* oauth2.py _ensure_token)                                                *)
LocksPassOn(r) ==
  at[r] \in {"wait", "tokenwait"} ~> at[r] \in {"ready", "done"}
=============================================================================
