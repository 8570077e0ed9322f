--------------------------- MODULE RegistryProofs ---------------------------
(***************************************************************************)
(* Proofs about Registry, for every set of callers, all versions of the    *)
(* vendor's row and all intervals, lifetimes and delays.                   *)
(*                                                                         *)
(* The inductive invariant has one part per mechanism: the registry's lock *)
(* is held by the request that loads; an adapter is used after its builder *)
(* resolved the vendor, which freezes the version it was built from; what  *)
(* the holder of the lock has read is no older than what the registry has; *)
(* an adapter's lock is held by the request that fetches; and the end of a *)
(* token the adapter computes is late by no more than the fetch.           *)
(***************************************************************************)
EXTENDS Registry, TLAPS

(* An update of a function keeps its type.                                 *)
LEMMA Updated ==
  ASSUME NEW S, NEW T, NEW f \in [S -> T], NEW x, NEW y \in T
  PROVE  [f EXCEPT ![x] = y] \in [S -> T]
  OBVIOUS

LEMMA TypesInit == Init => TypeOK
  BY RegistryAssumption DEF Init, TypeOK, Version, Horizon, Stage

(* What resolving a vendor with version v and adapter a changes.           *)
LEMMA Resolving ==
  ASSUME TypeOK, NEW r \in Request, NEW v \in 0..row,
         NEW a \in Request \cup {None}, Resolve(r, v, a)
  PROVE  /\ at' \in [Request -> Stage]
         /\ ver' \in [Request -> 0..row]
         /\ use' \in [Request -> Request \cup {None}]
         /\ adapter' \in Request \cup {None}
<1> USE DEF TypeOK, Goto, Stage, Resolve
<1>1. adapter' \in {a, r, None}
  OBVIOUS
<1>2. use' = use \/ use' = [use EXCEPT ![r] = adapter']
  OBVIOUS
<1>3. at' = [at EXCEPT ![r] = "ready"] \/ at' = [at EXCEPT ![r] = "done"]
  OBVIOUS
<1>4. ver' = [ver EXCEPT ![r] = v]
  OBVIOUS
<1>5. /\ use \in [Request -> Request \cup {None}] /\ ver \in [Request -> 0..row]
      /\ at \in [Request -> Stage]
  OBVIOUS
<1>6. adapter' \in Request \cup {None}
  BY <1>1
<1>7. use' \in [Request -> Request \cup {None}]
  BY <1>2, <1>5, <1>6
<1>8. ver' \in [Request -> 0..row]
  BY <1>4, <1>5
<1> QED
  BY <1>3, <1>5, <1>6, <1>7, <1>8

LEMMA TypesStep == TypeOK /\ [Next]_vars => TypeOK'
<1> SUFFICES ASSUME TypeOK, [Next]_vars PROVE TypeOK'
  OBVIOUS
<1> USE RegistryAssumption
    DEF TypeOK, Version, Stage, Goto, database, registry, request, tokens
<1>1. ASSUME NEW r \in Request, EnterFresh(r) \/ EnterJob(r) PROVE TypeOK'
  <2>1. /\ Resolve(r, known, adapter)
        /\ UNCHANGED <<database, known, idle, loader, admin, age, tokens>>
    BY <1>1 DEF EnterFresh, EnterJob
  <2>2. /\ at' \in [Request -> Stage]
        /\ ver' \in [Request -> 0..row]
        /\ use' \in [Request -> Request \cup {None}]
        /\ adapter' \in Request \cup {None}
    BY <2>1, Resolving
  <2> QED
    BY <2>1, <2>2
<1>2. ASSUME NEW r \in Request, EnterStale(r) PROVE TypeOK'
  BY <1>2 DEF EnterStale
<1>3. ASSUME NEW r \in Request, EnterAdmin(r) PROVE TypeOK'
  BY <1>3 DEF EnterAdmin
<1>4. ASSUME NEW r \in Request, Lock(r) PROVE TypeOK'
  BY <1>4 DEF Lock
<1>5. ASSUME NEW r \in Request, Select(r) PROVE TypeOK'
  <2>1. ver' \in [Request -> 0..row]
    BY <1>5 DEF Select
  <2> QED
    BY <1>5, <2>1 DEF Select
<1>6. ASSUME NEW r \in Request, Load(r) PROVE TypeOK'
  <2>1. /\ known' \in 0..row /\ idle' \in 0..Refresh + 1
        /\ admin' \subseteq Request /\ loader' = None
    BY <1>6 DEF Load
  <2>2. /\ at' \in [Request -> Stage]
        /\ ver' \in [Request -> 0..row]
        /\ use' \in [Request -> Request \cup {None}]
        /\ adapter' \in Request \cup {None}
    <3>1. CASE r \in admin
      BY <1>6, <3>1 DEF Load
    <3>2. CASE r \notin admin
      <4>1. Resolve(r, ver[r], None) /\ ver[r] \in 0..row
        BY <1>6, <3>2 DEF Load
      <4> QED
        BY <4>1, Resolving
    <3> QED
      BY <3>1, <3>2
  <2> QED
    BY <1>6, <2>1, <2>2 DEF Load
<1>7. ASSUME NEW r \in Request, LoadRaises(r) PROVE TypeOK'
  BY <1>7 DEF LoadRaises
<1>8. ASSUME NEW r \in Request, UseToken(r) \/ NeedToken(r) \/ FindToken(r)
      PROVE TypeOK'
  BY <1>8 DEF UseToken, NeedToken, FindToken
<1>9. ASSUME NEW r \in Request, LockToken(r) PROVE TypeOK'
  BY <1>9 DEF LockToken
<1>10. ASSUME NEW r \in Request, Issue(r) PROVE TypeOK'
  BY <1>10 DEF Issue
<1>11. ASSUME NEW r \in Request, StoreToken(r) PROVE TypeOK'
  <2>1. left' \in [Request -> 0..Life]
    <3>1. left' = [left EXCEPT ![use[r]] = Life] /\ Life \in 0..Life
      BY <1>11 DEF StoreToken
    <3> QED
      BY <3>1, Updated
  <2>2. alive' \in [Request -> 0..Life]
    <3>1. PICK n \in 0..Life : alive' = [alive EXCEPT ![use[r]] = n]
      <4>1. age[r] \in Nat
        OBVIOUS
      <4>2. (IF age[r] < Life THEN Life - age[r] ELSE 0) \in 0..Life
        BY <4>1
      <4> QED
        BY <1>11, <4>2 DEF StoreToken
    <3> QED
      BY <3>1, Updated
  <2> QED
    BY <1>11, <2>1, <2>2 DEF StoreToken
<1>12. ASSUME NEW r \in Request, FetchRaises(r) PROVE TypeOK'
  BY <1>12 DEF FetchRaises
<1>13. CASE Update
  <2>1. row' \in Version /\ row' = row + 1 /\ row \in Nat
    BY <1>13 DEF Update
  <2>2. off' \subseteq Version
    BY <1>13, <2>1 DEF Update
  <2>3. known' \in 0..row' /\ ver' \in [Request -> 0..row']
    BY <1>13, <2>1 DEF Update
  <2> QED
    BY <1>13, <2>1, <2>2, <2>3 DEF Update
<1>14. CASE Tick
  <2>1. gone' \in [Version -> 0..Horizon]
    <3>1. Horizon \in Nat
      BY DEF Horizon
    <3>2. \A n \in 0..Horizon : Plus1(n, Horizon) \in 0..Horizon
      BY <3>1 DEF Plus1
    <3> QED
      BY <1>14, <3>2 DEF Tick
  <2>2. idle' \in 0..Refresh + 1
    BY <1>14 DEF Tick, Plus1
  <2>3. age' \in [Request -> Nat]
    <3>1. age' = [r \in Request |-> IF at[r] \in {"rows", "issued"}
                                    THEN age[r] + 1 ELSE 0]
      BY <1>14 DEF Tick
    <3>2. \A n \in Nat : n + 1 \in Nat
      OBVIOUS
    <3>3. \A r \in Request : age[r] + 1 \in Nat
      BY <3>2
    <3> QED
      BY <3>1, <3>3
  <2>4. left' \in [Request -> 0..Life] /\ alive' \in [Request -> 0..Life]
    <3>1. \A n \in 0..Life : Minus1(n) \in 0..Life
      BY DEF Minus1
    <3> QED
      BY <1>14, <3>1 DEF Tick
  <2> QED
    BY <1>14, <2>1, <2>2, <2>3, <2>4 DEF Tick
<1>15. CASE UNCHANGED vars
  BY <1>15 DEF vars
<1> QED
  BY <1>1, <1>2, <1>3, <1>4, <1>5, <1>6, <1>7, <1>8, <1>9, <1>10, <1>11, <1>12,
     <1>13, <1>14, <1>15
  DEF Next, Loading, Sending

(* The admin's updates only add versions; what a caller has read, the      *)
(* registry holds and a token has stays in range through every step.       *)
THEOREM TypeCorrect == Spec => []TypeOK
  BY TypesInit, TypesStep, PTL DEF Spec, Safety

-----------------------------------------------------------------------------
Resolved == {"ready", "tokenwait", "fetch", "issued", "done"}
Sender == {"ready", "tokenwait", "fetch", "issued"}
InLoad == {"query", "rows"}
Fetching == {"fetch", "issued"}

(* The registry's lock is held by the request that loads.                  *)
LoaderInv == \A r \in Request : loader = r <=> at[r] \in InLoad

(* Where resolving a vendor takes a request, and with which adapter.       *)
LEMMA ResolveGoes ==
  ASSUME TypeOK, NEW r \in Request, NEW v, NEW a, Resolve(r, v, a)
  PROVE  /\ ver' = [ver EXCEPT ![r] = v]
         /\ \/ /\ at' = [at EXCEPT ![r] = "ready"]
               /\ adapter' = IF a = None THEN r ELSE a
               /\ use' = [use EXCEPT ![r] = adapter']
            \/ /\ at' = [at EXCEPT ![r] = "done"]
               /\ adapter' = a /\ use' = use
  BY DEF Resolve, Goto

(* Where a load takes its caller: the cached adapter is new or none.       *)
LEMMA LoadGoes ==
  ASSUME TypeOK, NEW r \in Request, Load(r)
  PROVE  \/ /\ at' = [at EXCEPT ![r] = "ready"]
            /\ adapter' = r /\ use' = [use EXCEPT ![r] = r]
         \/ /\ at' = [at EXCEPT ![r] = "done"]
            /\ adapter' = None /\ use' = use
<1>1. r \in admin =>
        /\ at' = [at EXCEPT ![r] = "done"]
        /\ adapter' = None /\ use' = use
  BY DEF Load, Goto
<1>2. r \notin admin => Resolve(r, ver[r], None)
  BY DEF Load
<1> QED
  BY <1>1, <1>2, ResolveGoes

LEMMA LoadKeepsVersions ==
  ASSUME TypeOK, NEW r \in Request, Load(r) PROVE ver' = ver
<1>1. r \notin admin => Resolve(r, ver[r], None)
  BY DEF Load
<1>2. r \in admin => ver' = ver
  BY DEF Load
<1> QED
  BY <1>1, <1>2, ResolveGoes DEF TypeOK

(* Either moves nobody else.                                               *)
LEMMA OneGoes ==
  ASSUME TypeOK, NEW r \in Request,
         \/ \E v, a : Resolve(r, v, a)
         \/ Load(r)
  PROVE  /\ at'[r] \in {"ready", "done"}
         /\ \A q \in Request : q # r => at'[q] = at[q] /\ ver'[q] = ver[q]
<1>1. at \in [Request -> Stage] /\ ver \in [Request -> 0..row]
  BY DEF TypeOK
<1>2. at' = [at EXCEPT ![r] = "ready"] \/ at' = [at EXCEPT ![r] = "done"]
  BY ResolveGoes, LoadGoes
<1>3. ver' = ver \/ \E v : ver' = [ver EXCEPT ![r] = v]
  BY ResolveGoes, LoadKeepsVersions
<1> QED
  BY <1>1, <1>2, <1>3

LEMMA LoaderStep == TypeOK /\ LoaderInv /\ [Next]_vars => LoaderInv'
<1> SUFFICES ASSUME TypeOK, LoaderInv, [Next]_vars PROVE LoaderInv'
  OBVIOUS
<1> USE RegistryAssumption
    DEF TypeOK, LoaderInv, InLoad, Stage, Goto, database, registry, request,
        tokens
<1>1. ASSUME NEW r \in Request, EnterFresh(r) \/ EnterJob(r) PROVE LoaderInv'
  <2>1. /\ Resolve(r, known, adapter) /\ loader' = loader /\ at[r] = "new"
    BY <1>1 DEF EnterFresh, EnterJob
  <2> QED
    BY <2>1, ResolveGoes
<1>2. ASSUME NEW r \in Request, EnterStale(r) PROVE LoaderInv'
  BY <1>2 DEF EnterStale
<1>3. ASSUME NEW r \in Request, EnterAdmin(r) PROVE LoaderInv'
  BY <1>3 DEF EnterAdmin
<1>4. ASSUME NEW r \in Request, Lock(r) PROVE LoaderInv'
  BY <1>4 DEF Lock
<1>5. ASSUME NEW r \in Request, Select(r) PROVE LoaderInv'
  BY <1>5 DEF Select
<1>6. ASSUME NEW r \in Request, Load(r) PROVE LoaderInv'
  <2>1. loader' = None /\ at[r] = "rows"
    BY <1>6 DEF Load
  <2> QED
    BY <1>6, <2>1, LoadGoes
<1>7. ASSUME NEW r \in Request, LoadRaises(r) PROVE LoaderInv'
  BY <1>7 DEF LoadRaises
<1>8. ASSUME NEW r \in Request, Sending(r) \/ FetchRaises(r) PROVE LoaderInv'
  BY <1>8 DEF Sending, UseToken, NeedToken, FindToken, LockToken, Issue,
     StoreToken, FetchRaises
<1>9. CASE Update \/ Tick \/ UNCHANGED vars
  BY <1>9 DEF Update, Tick, vars
<1> QED
  BY <1>1, <1>2, <1>3, <1>4, <1>5, <1>6, <1>7, <1>8, <1>9 DEF Next, Loading

-----------------------------------------------------------------------------
(* An adapter's builder has resolved its vendor, which it does once.       *)
BuiltInv ==
  /\ adapter # None => at[adapter] \in Resolved
  /\ \A r \in Request : use[r] # None => /\ at[r] \in Resolved
                                        /\ at[use[r]] \in Resolved
  /\ \A r \in Request : at[r] \in Sender => use[r] # None

AdapterInv == BuiltInv /\ AdapterOfConfig

LEMMA AdapterStep == TypeOK /\ AdapterInv /\ [Next]_vars => AdapterInv'
<1> SUFFICES ASSUME TypeOK, AdapterInv, [Next]_vars PROVE AdapterInv'
  OBVIOUS
<1> USE RegistryAssumption
    DEF TypeOK, AdapterInv, BuiltInv, AdapterOfConfig, Resolved, Sender, Stage,
        Goto, database, registry, request, tokens
<1>1. ASSUME NEW r \in Request, EnterFresh(r) \/ EnterJob(r) PROVE AdapterInv'
  <2>1. /\ Resolve(r, known, adapter) /\ known' = known /\ at[r] = "new"
    BY <1>1 DEF EnterFresh, EnterJob
  <2> QED
    BY <2>1, ResolveGoes
<1>2. ASSUME NEW r \in Request, EnterStale(r) PROVE AdapterInv'
  BY <1>2 DEF EnterStale
<1>3. ASSUME NEW r \in Request, EnterAdmin(r) PROVE AdapterInv'
  BY <1>3 DEF EnterAdmin
<1>4. ASSUME NEW r \in Request, Lock(r) PROVE AdapterInv'
  BY <1>4 DEF Lock
<1>5. ASSUME NEW r \in Request, Select(r) PROVE AdapterInv'
  BY <1>5 DEF Select
<1>6. ASSUME NEW r \in Request, Load(r) PROVE AdapterInv'
  <2>1. known' = ver[r] /\ at[r] = "rows"
    BY <1>6 DEF Load
  <2> QED
    BY <1>6, <2>1, LoadGoes, LoadKeepsVersions
<1>7. ASSUME NEW r \in Request, LoadRaises(r) PROVE AdapterInv'
  BY <1>7 DEF LoadRaises
<1>8. ASSUME NEW r \in Request, Sending(r) \/ FetchRaises(r) PROVE AdapterInv'
  BY <1>8 DEF Sending, UseToken, NeedToken, FindToken, LockToken, Issue,
     StoreToken, FetchRaises
<1>9. CASE Update \/ Tick \/ UNCHANGED vars
  BY <1>9 DEF Update, Tick, vars
<1> QED
  BY <1>1, <1>2, <1>3, <1>4, <1>5, <1>6, <1>7, <1>8, <1>9 DEF Next, Loading

-----------------------------------------------------------------------------
(* Who holds the lock has read a version no older than the registry's,     *)
(* which was the row as its SELECT ran.                                    *)
RowsInv ==
  \A r \in Request : at[r] = "rows" =>
    /\ known <= ver[r] /\ ver[r] # 0
    /\ gone[ver[r]] <= age[r] /\ age[r] <= MaxQuery

GoneInv == \A v \in Version : v >= row => gone[v] = 0

KnownInv == known > 0 /\ ~Stale => gone[known] <= idle + MaxQuery

AgeInv == RowsInv /\ GoneInv /\ KnownInv

(* A unit of time adds at most one to how long ago a version went.         *)
LEMMA GoneByOne ==
  ASSUME TypeOK, Tick, NEW v \in Version
  PROVE  /\ gone[v] \in Nat /\ gone'[v] \in Nat
         /\ gone'[v] <= gone[v] + 1
<1>1. Horizon \in Nat
  BY RegistryAssumption DEF Horizon
<1>2. gone[v] \in 0..Horizon
  BY DEF TypeOK
<1>3. gone'[v] \in {gone[v], Plus1(gone[v], Horizon)}
  BY DEF Tick
<1> QED
  BY <1>1, <1>2, <1>3 DEF Plus1

(* A step that leaves the registry, the row and the ages alone.            *)
LEMMA AgeFrame ==
  ASSUME AgeInv, UNCHANGED <<row, gone, known, idle, age>>,
         \A r \in Request :
           at'[r] = "rows" => at[r] = "rows" /\ ver'[r] = ver[r]
  PROVE  AgeInv'
  BY DEF AgeInv, RowsInv, GoneInv, KnownInv, Stale

LEMMA AgeStep == TypeOK /\ LoaderInv /\ AgeInv /\ [Next]_vars => AgeInv'
<1> SUFFICES ASSUME TypeOK, LoaderInv, AgeInv, [Next]_vars PROVE AgeInv'
  OBVIOUS
<1> USE RegistryAssumption
    DEF TypeOK, LoaderInv, InLoad, AgeInv, RowsInv, GoneInv, KnownInv, Stale,
        Version, Stage, Goto, database, registry, request, tokens
<1>1. ASSUME NEW r \in Request, EnterFresh(r) \/ EnterJob(r) PROVE AgeInv'
  <2>1. /\ Resolve(r, known, adapter) /\ at[r] = "new"
        /\ UNCHANGED <<row, gone, known, idle, age>>
    BY <1>1 DEF EnterFresh, EnterJob
  <2>2. /\ at'[r] \in {"ready", "done"}
        /\ \A q \in Request : q # r => at'[q] = at[q] /\ ver'[q] = ver[q]
    BY <2>1, OneGoes
  <2> QED
    BY <2>1, <2>2, AgeFrame
<1>2. ASSUME NEW r \in Request,
             EnterStale(r) \/ EnterAdmin(r) \/ Lock(r) \/ LoadRaises(r)
      PROVE AgeInv'
  BY <1>2, AgeFrame DEF EnterStale, EnterAdmin, Lock, LoadRaises
<1>3. ASSUME NEW r \in Request, Select(r) PROVE AgeInv'
  BY <1>3 DEF Select
<1>4. ASSUME NEW r \in Request, Load(r) PROVE AgeInv'
  <2>1. /\ known' = ver[r] /\ idle' = 0 /\ at[r] = "rows"
        /\ UNCHANGED <<row, gone, age>>
    BY <1>4 DEF Load
  <2>2. RowsInv'
    <3>1. \A q \in Request : at[q] = "rows" => q = r
      BY <2>1
    <3>2. /\ at'[r] \in {"ready", "done"}
          /\ \A q \in Request : q # r => at'[q] = at[q] /\ ver'[q] = ver[q]
      BY <1>4, OneGoes
    <3> QED
      BY <3>1, <3>2
  <2>3. GoneInv'
    BY <2>1
  <2>4. KnownInv'
    BY <2>1
  <2> QED
    BY <2>2, <2>3, <2>4
<1>5. ASSUME NEW r \in Request, Issue(r) PROVE AgeInv'
  BY <1>5 DEF Issue
<1>6. ASSUME NEW r \in Request, Sending(r) \/ FetchRaises(r), ~Issue(r)
      PROVE  AgeInv'
  <2>1. /\ UNCHANGED <<row, gone, known, idle, ver, age>>
        /\ \E l \in Stage : l # "rows" /\ Goto(r, l)
    BY <1>6 DEF Sending, UseToken, NeedToken, FindToken, LockToken,
       StoreToken, FetchRaises
  <2> QED
    BY <2>1, AgeFrame
<1>7. CASE Update
  BY <1>7 DEF Update
<1>8. CASE Tick
  <2>0. \A v \in Version : /\ gone[v] \in Nat /\ gone'[v] \in Nat
                          /\ gone'[v] <= gone[v] + 1
    BY <1>8, GoneByOne
  <2>1. RowsInv'
    <3> SUFFICES ASSUME NEW r \in Request, at[r] = "rows"
                 PROVE  /\ known <= ver[r] /\ ver[r] # 0
                        /\ gone'[ver[r]] <= age'[r] /\ age'[r] <= MaxQuery
      BY <1>8 DEF Tick
    <3>1. age'[r] = age[r] + 1 /\ age[r] < MaxQuery
      BY <1>8 DEF Tick
    <3>2. ver[r] \in Version /\ gone'[ver[r]] <= gone[ver[r]] + 1
      BY <2>0
    <3>3. gone'[ver[r]] \in Nat /\ gone[ver[r]] \in Nat
      BY <2>0, <3>2
    <3> QED
      BY <3>1, <3>2, <3>3
  <2>2. GoneInv'
    BY <1>8 DEF Tick
  <2>3. KnownInv'
    <3> SUFFICES ASSUME known > 0, ~Stale'
                 PROVE  gone'[known] <= idle' + MaxQuery
      BY <1>8 DEF Tick
    <3>1. ~Stale /\ idle' = idle + 1
      BY <1>8 DEF Tick, Plus1
    <3>2. known \in Version /\ gone'[known] <= gone[known] + 1
      BY <2>0
    <3>3. gone'[known] \in Nat /\ gone[known] \in Nat
      BY <2>0, <3>2
    <3> QED
      BY <3>1, <3>2, <3>3
  <2> QED
    BY <2>1, <2>2, <2>3
<1>9. CASE UNCHANGED vars
  BY <1>9 DEF vars
<1> QED
  BY <1>1, <1>2, <1>3, <1>4, <1>5, <1>6, <1>7, <1>8, <1>9 DEF Next, Loading

-----------------------------------------------------------------------------
(* An adapter's lock is held by the one request that fetches its token,    *)
(* and the token the adapter has ends no later than the vendor says, but   *)
(* for the fetch.                                                          *)
FetcherInv ==
  \A r, a \in Request : fetcher[a] = r <=> at[r] \in Fetching /\ use[r] = a

TokenInv ==
  /\ \A r \in Request : at[r] \in Fetching => left[use[r]] <= Buffer
  /\ \A r \in Request : at[r] = "issued" => age[r] <= MaxFetch
  /\ \A a \in Request : left[a] <= alive[a] + MaxFetch

LEMMA FetcherStep ==
  TypeOK /\ BuiltInv /\ FetcherInv /\ [Next]_vars => FetcherInv'
<1> SUFFICES ASSUME TypeOK, BuiltInv, FetcherInv, [Next]_vars PROVE FetcherInv'
  OBVIOUS
<1> USE RegistryAssumption
    DEF TypeOK, FetcherInv, Fetching, BuiltInv, Resolved, Sender, Stage, Goto,
        database, registry, request, tokens
<1>1. ASSUME NEW r \in Request, EnterFresh(r) \/ EnterJob(r) PROVE FetcherInv'
  <2>1. /\ Resolve(r, known, adapter) /\ at[r] = "new" /\ fetcher' = fetcher
    BY <1>1 DEF EnterFresh, EnterJob
  <2> QED
    BY <2>1, ResolveGoes
<1>2. ASSUME NEW r \in Request,
             \/ EnterStale(r) \/ EnterAdmin(r) \/ Lock(r) \/ Select(r)
             \/ LoadRaises(r)
      PROVE FetcherInv'
  BY <1>2 DEF EnterStale, EnterAdmin, Lock, Select, LoadRaises
<1>3. ASSUME NEW r \in Request, Load(r) PROVE FetcherInv'
  <2>1. at[r] = "rows" /\ fetcher' = fetcher
    BY <1>3 DEF Load
  <2> QED
    BY <1>3, <2>1, LoadGoes
<1>4. ASSUME NEW r \in Request, UseToken(r) \/ NeedToken(r) \/ FindToken(r)
      PROVE FetcherInv'
  BY <1>4 DEF UseToken, NeedToken, FindToken
<1>5. ASSUME NEW r \in Request, LockToken(r) PROVE FetcherInv'
  BY <1>5 DEF LockToken
<1>6. ASSUME NEW r \in Request, Issue(r) PROVE FetcherInv'
  BY <1>6 DEF Issue
<1>7. ASSUME NEW r \in Request, StoreToken(r) \/ FetchRaises(r)
      PROVE FetcherInv'
  BY <1>7 DEF StoreToken, FetchRaises
<1>8. CASE Update \/ Tick \/ UNCHANGED vars
  BY <1>8 DEF Update, Tick, vars
<1> QED
  BY <1>1, <1>2, <1>3, <1>4, <1>5, <1>6, <1>7, <1>8 DEF Next, Loading, Sending

LEMMA TokenStep ==
  TypeOK /\ BuiltInv /\ FetcherInv /\ TokenInv /\ [Next]_vars => TokenInv'
<1> SUFFICES ASSUME TypeOK, BuiltInv, FetcherInv, TokenInv, [Next]_vars
             PROVE TokenInv'
  OBVIOUS
<1> USE RegistryAssumption
    DEF TypeOK, FetcherInv, TokenInv, Fetching, BuiltInv, Resolved, Sender,
        Stage, Goto, database, registry, request, tokens
<1>1. ASSUME NEW r \in Request, EnterFresh(r) \/ EnterJob(r) PROVE TokenInv'
  <2>1. /\ Resolve(r, known, adapter) /\ at[r] = "new"
        /\ UNCHANGED <<age, left, alive>>
    BY <1>1 DEF EnterFresh, EnterJob
  <2> QED
    BY <2>1, ResolveGoes
<1>2. ASSUME NEW r \in Request,
             \/ EnterStale(r) \/ EnterAdmin(r) \/ Lock(r) \/ Select(r)
             \/ LoadRaises(r)
      PROVE TokenInv'
  BY <1>2 DEF EnterStale, EnterAdmin, Lock, Select, LoadRaises
<1>3. ASSUME NEW r \in Request, Load(r) PROVE TokenInv'
  <2>1. at[r] = "rows" /\ UNCHANGED <<age, left, alive>>
    BY <1>3 DEF Load
  <2> QED
    BY <1>3, <2>1, LoadGoes
<1>4. ASSUME NEW r \in Request, UseToken(r) \/ NeedToken(r) \/ FindToken(r)
      PROVE TokenInv'
  BY <1>4 DEF UseToken, NeedToken, FindToken
<1>5. ASSUME NEW r \in Request, LockToken(r) PROVE TokenInv'
  <2>1. left[use[r]] <= Buffer
    BY <1>5 DEF LockToken, Usable
  <2> QED
    BY <1>5, <2>1 DEF LockToken
<1>6. ASSUME NEW r \in Request, Issue(r) PROVE TokenInv'
  BY <1>6 DEF Issue
<1>7. ASSUME NEW r \in Request, StoreToken(r) PROVE TokenInv'
  <2>1. use[r] \in Request /\ age[r] <= MaxFetch /\ at[r] = "issued"
    BY <1>7 DEF StoreToken
  <2>2. left'[use[r]] <= alive'[use[r]] + MaxFetch
    BY <1>7, <2>1 DEF StoreToken
  <2>3. \A a \in Request : a # use[r] => /\ left'[a] = left[a]
                                        /\ alive'[a] = alive[a]
    BY <1>7, <2>1 DEF StoreToken
  <2>4. \A q \in Request : q # r /\ at[q] \in Fetching => use[q] # use[r]
    BY <2>1
  <2>5. at' = [at EXCEPT ![r] = "done"] /\ use' = use /\ age' = age
    BY <1>7 DEF StoreToken
  <2> QED
    BY <2>2, <2>3, <2>4, <2>5
<1>8. ASSUME NEW r \in Request, FetchRaises(r) PROVE TokenInv'
  BY <1>8 DEF FetchRaises
<1>9. CASE Tick
  <2>1. \A a \in Request : /\ left'[a] = Minus1(left[a])
                          /\ alive'[a] = Minus1(alive[a])
    BY <1>9 DEF Tick
  <2>2. \A a \in Request : /\ left'[a] <= left[a] /\ left'[a] \in Nat
                          /\ left'[a] <= alive'[a] + MaxFetch
    BY <2>1 DEF Minus1
  <2>3. \A r \in Request : at[r] \in Fetching => left'[use[r]] <= Buffer
    BY <2>2
  <2>4. \A r \in Request : at[r] = "issued" => age'[r] <= MaxFetch
    BY <1>9 DEF Tick
  <2>5. at' = at /\ use' = use
    BY <1>9 DEF Tick
  <2> QED
    BY <2>2, <2>3, <2>4, <2>5
<1>10. CASE Update \/ UNCHANGED vars
  BY <1>10 DEF Update, vars
<1> QED
  BY <1>1, <1>2, <1>3, <1>4, <1>5, <1>6, <1>7, <1>8, <1>9, <1>10
  DEF Next, Loading, Sending

-----------------------------------------------------------------------------
RegistryInv ==
  TypeOK /\ LoaderInv /\ AdapterInv /\ AgeInv /\ FetcherInv /\ TokenInv

LEMMA RegistryInitially == Init => RegistryInv
<1> USE RegistryAssumption DEF Init
<1>1. Init => LoaderInv /\ AdapterInv /\ FetcherInv
  BY DEF LoaderInv, InLoad, AdapterInv, BuiltInv, AdapterOfConfig, Sender,
     FetcherInv, Fetching
<1>2. Init => AgeInv /\ TokenInv
  BY DEF AgeInv, RowsInv, GoneInv, KnownInv, TokenInv, Fetching
<1> QED
  BY <1>1, <1>2, TypesInit DEF RegistryInv

LEMMA RegistryStep == RegistryInv /\ [Next]_vars => RegistryInv'
  BY TypesStep, LoaderStep, AdapterStep, AgeStep, FetcherStep, TokenStep
  DEF RegistryInv, AdapterInv

LEMMA Invariant == Spec => []RegistryInv
  BY RegistryInitially, RegistryStep, PTL DEF Spec, Safety

(* A registry that does not count as stale lags behind the row by no more  *)
(* than the interval and a query, for all intervals and delays.            *)
THEOREM StalenessIsBounded == Spec => []StalenessBounded
<1>1. RegistryInv => StalenessBounded
  BY RegistryAssumption
  DEF RegistryInv, AgeInv, GoneInv, KnownInv, StalenessBounded, TypeOK, Stale,
      Version
<1> QED
  BY <1>1, Invariant, PTL

(* A request goes on with a config and the adapter that was built from it, *)
(* however loads, reloads and requests interleave.                         *)
THEOREM AdapterMatchesConfig == Spec => []AdapterOfConfig
<1>1. RegistryInv => AdapterOfConfig
  BY DEF RegistryInv, AdapterInv
<1> QED
  BY <1>1, Invariant, PTL

(* The registry never goes back to an older row.                           *)
THEOREM NoRollback == Spec => NeverOlder
<1>1. RegistryInv /\ [Next]_vars => [known' >= known]_vars
  <2> SUFFICES ASSUME RegistryInv, Next PROVE known' >= known
    OBVIOUS
  <2> USE DEF RegistryInv, TypeOK, AgeInv, RowsInv, database, registry
  <2>1. ASSUME NEW r \in Request, Load(r) PROVE known' >= known
    BY <2>1 DEF Load
  <2>2. ASSUME NEW r \in Request, Loading(r), ~Load(r) PROVE known' = known
    BY <2>2 DEF Loading, EnterFresh, EnterStale, Lock, Select
  <2>3. ASSUME NEW r \in Request,
               \/ Sending(r) \/ EnterJob(r) \/ EnterAdmin(r)
               \/ LoadRaises(r) \/ FetchRaises(r)
        PROVE known' = known
    BY <2>3 DEF Sending, UseToken, NeedToken, LockToken, FindToken, Issue,
       StoreToken, EnterJob, EnterAdmin, LoadRaises, FetchRaises
  <2>4. Update \/ Tick => known' = known
    BY DEF Update, Tick
  <2> QED
    BY <2>1, <2>2, <2>3, <2>4 DEF Next
<1> QED
  BY <1>1, Invariant, PTL DEF Spec, Safety, NeverOlder

(* Requests that find a token expired together fetch one.                  *)
THEOREM OneTokenAtATime == Spec => TokensSpaced
<1>1. RegistryInv /\ [Next]_vars
        => [\A r \in Request : StoreToken(r) => left[use[r]] <= Buffer]_vars
  BY DEF RegistryInv, TokenInv, Fetching, StoreToken
<1> QED
  BY <1>1, Invariant, PTL DEF Spec, Safety, TokensSpaced

LEMMA SendsAlive ==
  ASSUME MaxFetch <= Buffer, MaxFetch < Life, RegistryInv, NEW r \in Request,
         UseToken(r) \/ FindToken(r) \/ StoreToken(r)
  PROVE  alive'[use[r]] > 0
<1> USE RegistryAssumption
    DEF RegistryInv, TypeOK, TokenInv, AdapterInv, BuiltInv, Sender
<1>1. use[r] \in Request
  BY DEF UseToken, FindToken, StoreToken
<1>2. CASE UseToken(r) \/ FindToken(r)
  <2>1. left[use[r]] > Buffer /\ alive' = alive
    BY <1>2 DEF UseToken, FindToken, Usable, tokens
  <2> QED
    BY <1>1, <2>1
<1>3. CASE StoreToken(r)
  <2>1. age[r] <= MaxFetch
    BY <1>3 DEF StoreToken
  <2> QED
    BY <1>1, <1>3, <2>1 DEF StoreToken
<1> QED
  BY <1>2, <1>3

(* Where the fetch takes no longer than the buffer, and less than the life *)
(* of a token, every token sent is valid at the vendor.                    *)
THEOREM OnlyLiveTokensSent ==
  MaxFetch <= Buffer /\ MaxFetch < Life => (Spec => SentAlive)
<1> SUFFICES ASSUME MaxFetch <= Buffer, MaxFetch < Life
             PROVE  Spec => SentAlive
  OBVIOUS
<1>1. RegistryInv /\ [Next]_vars
        => [\A r \in Request :
              UseToken(r) \/ FindToken(r) \/ StoreToken(r)
                => alive'[use[r]] > 0]_vars
  BY SendsAlive
<1> QED
  BY <1>1, Invariant, PTL DEF Spec, Safety, SentAlive
=============================================================================
