------------------------------- MODULE Jobs -------------------------------
(***************************************************************************)
(* Asynchronous jobs: the 202 branch of src/gateway/routes/proxy.py, the   *)
(* background worker of src/gateway/jobs/manager.py, and as much of the    *)
(* vendor registry as decides whether the worker finds a job's vendor.     *)
(*                                                                         *)
(* Job rows are in Postgres and survive the process; the worker's task,    *)
(* its batch and the registry do not.  There is one process and one worker *)
(* (manager.py:205).  The row of a job's endpoint cannot go while the job  *)
(* refers to it, so the branch for a missing endpoint is left out.         *)
(***************************************************************************)
EXTENDS Naturals, FiniteSets

CONSTANTS Job,        \* jobs, each created once
          Vendor,
          None,
          Batch,      \* the LIMIT of the worker's query
          MaxFaults   \* bound on crashes and raised exceptions

ASSUME JobsAssumption ==
  Batch \in Nat \ {0} /\ MaxFaults \in Nat /\ None \notin Vendor \cup Job

VARIABLES status,    \* of the job rows
          vendor,    \* the vendor of a job
          callback,  \* jobs whose request carried X-Callback-URL
          active,    \* vendors active in the database
          known,     \* vendors in the registry
          at,        \* where the worker stands
          batch,     \* jobs fetched and not yet looked at
          cur,       \* the job being run
          outcome,   \* status the run has found, not yet committed
          calls,     \* auxiliary: vendor calls made for a job
          posts,     \* auxiliary: webhook posts made for a job
          faults     \* crashes and exceptions so far

rows == <<status, vendor, callback>>
registry == <<active, known>>
worker == <<at, batch, cur, outcome>>
effects == <<calls, posts>>
vars == <<rows, registry, worker, effects, faults>>

Ended == {"completed", "failed"}
Stage == {"down", "sleep", "batch", "claim", "resolve", "call", "commit",
          "webhook"}

TypeOK ==
  /\ status \in [Job -> {"none", "pending", "in_progress"} \cup Ended]
  /\ vendor \in [Job -> Vendor \cup {None}]
  /\ callback \subseteq Job
  /\ active \subseteq Vendor /\ known \subseteq Vendor
  /\ at \in Stage
  /\ batch \subseteq Job
  /\ cur \in Job \cup {None}
  /\ outcome \in Ended \cup {None}
  /\ calls \in [Job -> Nat] /\ posts \in [Job -> Nat]
  /\ faults \in 0..MaxFaults

Init ==
  /\ status = [j \in Job |-> "none"]
  /\ vendor = [j \in Job |-> None]
  /\ callback = {}
  /\ active = Vendor /\ known = {}
  /\ at = "sleep" /\ batch = {} /\ cur = None /\ outcome = None
  /\ calls = [j \in Job |-> 0] /\ posts = [j \in Job |-> 0]
  /\ faults = 0

-----------------------------------------------------------------------------
Up == at # "down"
Pending == {j \in Job : status[j] = "pending"}
SetStatus(j, s) == status' = [status EXCEPT ![j] = s]

(* The worker goes on to l, with its batch and job as they are.            *)
Goto(l) == at' = l /\ UNCHANGED <<batch, cur>>

(* run_job returns: on to the next job of the batch.                       *)
NextJob == at' = "batch" /\ cur' = None /\ UNCHANGED batch

-----------------------------------------------------------------------------
(* Faulty variants of the actions below, which the properties must refute. *)

(* in_progress is set on the row but not committed before the call.        *)
ClaimInMemory ==
  /\ at = "claim"
  /\ Goto("resolve")
  /\ UNCHANGED <<rows, registry, outcome, effects, faults>>

(* The except branch of the call leaves the status as it was.              *)
CallVendorUnfinished ==
  /\ at = "call"
  /\ calls' = [calls EXCEPT ![cur] = calls[cur] + 1]
  /\ outcome' \in {"completed", "in_progress"}
  /\ Goto("commit")
  /\ UNCHANGED <<rows, registry, posts, faults>>

(* The webhook is posted before the commit.                                *)
CallVendorThenWebhook ==
  /\ at = "call"
  /\ calls' = [calls EXCEPT ![cur] = calls[cur] + 1]
  /\ outcome' \in Ended
  /\ Goto(IF cur \in callback THEN "webhook" ELSE "commit")
  /\ UNCHANGED <<rows, registry, posts, faults>>

(* Whatever cuts off the webhook marks the job failed.                     *)
MaybeMarkedFailed ==
  \/ UNCHANGED status
  \/ at = "claim" /\ SetStatus(cur, "in_progress")
  \/ at = "commit" /\ SetStatus(cur, outcome)
  \/ at = "webhook" /\ SetStatus(cur, "failed")

(* An exception ends the worker's loop.                                    *)
WorkerRaisesForGood ==
  /\ at \in {"batch", "claim", "resolve", "commit"}
  /\ faults < MaxFaults /\ faults' = faults + 1
  /\ at' = "stopped" /\ batch' = {} /\ cur' = None /\ outcome' = None
  /\ UNCHANGED <<rows, registry, effects>>

-----------------------------------------------------------------------------
(* registry.load, from reload_if_stale of a proxied request or from the    *)
(* admin's reload.  The worker never calls it.                             *)
LoadRegistry ==
  /\ Up
  /\ known' = active
  /\ UNCHANGED <<rows, active, worker, effects, faults>>

(* The admin deactivates a vendor, or activates it again: only the row     *)
(* changes.                                                                *)
SetActive(v) ==
  /\ Up
  /\ active' = IF v \in active THEN active \ {v} ELSE active \cup {v}
  /\ UNCHANGED <<rows, known, worker, effects, faults>>

(* A request to an async endpoint of a vendor in the registry: 202.        *)
CreateJob(j) ==
  /\ Up
  /\ status[j] = "none"
  /\ SetStatus(j, "pending")
  /\ \E v \in known : vendor' = [vendor EXCEPT ![j] = v]
  /\ callback' \in {callback, callback \cup {j}}
  /\ UNCHANGED <<registry, worker, effects, faults>>

-----------------------------------------------------------------------------
(* SELECT ... WHERE status = 'pending' LIMIT Batch, in no given order.     *)
Poll ==
  /\ at = "sleep"
  /\ Pending # {}
  /\ batch' \in SUBSET Pending
  /\ \/ batch' = Pending /\ Cardinality(Pending) <= Batch
     \/ Cardinality(batch') = Batch
  /\ at' = "batch"
  /\ UNCHANGED <<rows, registry, cur, outcome, effects, faults>>

(* The next job of the batch, fetched again in a session of its own; one   *)
(* that is no longer pending (a second worker's) is skipped.               *)
Fetch(j) ==
  /\ at = "batch"
  /\ j \in batch
  /\ batch' = batch \ {j}
  /\ IF status[j] = "pending" THEN cur' = j /\ at' = "claim"
                              ELSE UNCHANGED <<cur, at>>
  /\ UNCHANGED <<rows, registry, outcome, effects, faults>>

Sleep ==
  /\ at = "batch" /\ batch = {}
  /\ at' = "sleep"
  /\ UNCHANGED <<rows, registry, batch, cur, outcome, effects, faults>>

(* run_job commits in_progress first.                                      *)
Claim ==
  /\ at = "claim"
  /\ SetStatus(cur, "in_progress")
  /\ Goto("resolve")
  /\ UNCHANGED <<vendor, callback, registry, outcome, effects, faults>>

(* The registry has the vendor, and its adapter builds.                    *)
Resolve ==
  /\ at = "resolve"
  /\ vendor[cur] \in known
  /\ Goto("call")
  /\ UNCHANGED <<rows, registry, outcome, effects, faults>>

(* It does not: failed, committed, and return, before the webhook.         *)
ResolveFails ==
  /\ at = "resolve"
  /\ vendor[cur] \notin known
  /\ SetStatus(cur, "failed")
  /\ NextJob
  /\ UNCHANGED <<vendor, callback, registry, outcome, effects, faults>>

(* The vendor is called; its answer, or the exception the call raises,     *)
(* decides the status, so far only in memory.                              *)
CallVendor ==
  /\ at = "call"
  /\ calls' = [calls EXCEPT ![cur] = calls[cur] + 1]
  /\ outcome' \in Ended
  /\ Goto("commit")
  /\ UNCHANGED <<rows, registry, posts, faults>>

Commit ==
  /\ at = "commit"
  /\ SetStatus(cur, outcome)
  /\ outcome' = None
  /\ IF cur \in callback THEN Goto("webhook") ELSE NextJob
  /\ UNCHANGED <<vendor, callback, registry, effects, faults>>

(* _fire_webhook: one POST, whose failure is logged.                       *)
FireWebhook ==
  /\ at = "webhook"
  /\ posts' = [posts EXCEPT ![cur] = posts[cur] + 1]
  /\ NextJob
  /\ UNCHANGED <<rows, registry, outcome, calls, faults>>

-----------------------------------------------------------------------------
(* What a commit that raises or is cut off may have left in the row.       *)
MaybeCommitted ==
  \/ UNCHANGED status
  \/ at = "claim" /\ SetStatus(cur, "in_progress")
  \/ at = "commit" /\ SetStatus(cur, outcome)

(* The request that is cut off may have reached the vendor, or the client. *)
MaybeSent ==
  \/ UNCHANGED effects
  \/ at = "call" /\ calls' = [calls EXCEPT ![cur] = calls[cur] + 1]
                 /\ UNCHANGED posts
  \/ at = "webhook" /\ posts' = [posts EXCEPT ![cur] = posts[cur] + 1]
                    /\ UNCHANGED calls

Forget == batch' = {} /\ cur' = None /\ outcome' = None

(* A query, a commit or build_adapter raises: nothing in run_job catches   *)
(* it, the rest of the batch is dropped and the loop sleeps.               *)
WorkerRaises ==
  /\ at \in {"batch", "claim", "resolve", "commit"}
  /\ faults < MaxFaults /\ faults' = faults + 1
  /\ MaybeCommitted
  /\ at' = "sleep" /\ Forget
  /\ UNCHANGED <<vendor, callback, registry, effects>>

(* The process dies or is shut down; the lifespan cancels the worker at    *)
(* its current await, which run_job does not catch either.                 *)
Crash ==
  /\ Up
  /\ faults < MaxFaults /\ faults' = faults + 1
  /\ MaybeCommitted /\ MaybeSent
  /\ at' = "down" /\ Forget
  /\ known' = {}
  /\ UNCHANGED <<vendor, callback, active>>

(* The lifespan starts the worker; it does not load the registry.          *)
Start ==
  /\ ~Up
  /\ at' = "sleep"
  /\ UNCHANGED <<rows, registry, batch, cur, outcome, effects, faults>>

-----------------------------------------------------------------------------
Worker ==      \* _worker_loop
  \/ Poll \/ (\E j \in Job : Fetch(j)) \/ Sleep
  \/ Claim \/ Resolve \/ ResolveFails \/ CallVendor \/ Commit \/ FireWebhook

Next ==
  \/ LoadRegistry
  \/ \E v \in Vendor : SetActive(v)
  \/ \E j \in Job : CreateJob(j)
  \/ Worker \/ WorkerRaises \/ Crash \/ Start

(* The worker's loop never ends by itself and polls every 5 s, and a       *)
(* stopped process is started again.  That vendor and webhook calls and    *)
(* queries end is an assumption: httpx limits each phase of a call.        *)
Fairness == WF_vars(Worker) /\ WF_vars(Start)

Safety == Init /\ [][Next]_vars
Spec == Safety /\ Fairness

-----------------------------------------------------------------------------
(* No job calls its vendor twice, whatever crashes or raises in between,   *)
(* and a completed one has called it.  (manager.py run_job,                *)
(* _process_pending_jobs)                                                  *)
AtMostOneCall ==
  \A j \in Job : calls[j] <= 1 /\ (status[j] = "completed" => calls[j] = 1)

(* A status a client has polled as final never changes again, and no job   *)
(* goes back to pending.  (manager.py run_job; routes/jobs.py poll_job)    *)
EndedIsFinal ==
  [][\A j \in Job :
       /\ status[j] \in Ended => status'[j] = status[j]
       /\ status'[j] = "pending" => status[j] \in {"none", "pending"}]_vars

(* The webhook is posted at most once, only to a job that asked for it,    *)
(* and only when the row already shows the result.  (manager.py:153-158)   *)
WebhookAfterCommit ==
  \A j \in Job : posts[j] > 0 =>
    posts[j] = 1 /\ j \in callback /\ status[j] \in Ended

(* Every job accepted with 202 is picked up, also after crashes and when   *)
(* an exception drops the batch it was in.  (manager.py _worker_loop)      *)
PendingIsTaken ==
  \A j \in Job : status[j] = "pending" ~> status[j] # "pending"

-----------------------------------------------------------------------------
(* The design (2026-04-06-api-gateway-design.md:301) says that the worker  *)
(* picks up the job, calls the vendor and updates the job's status: every  *)
(* accepted job ends.                                                      *)
JobEnds ==
  \A j \in Job : status[j] = "pending" ~> status[j] \in Ended

(* architecture-decisions.md:88 says that the registry is loaded from      *)
(* Postgres at startup: no job fails for want of a vendor that is active.  *)
ActiveVendorFound ==
  [][ResolveFails => vendor[cur] \notin active]_vars
=============================================================================
