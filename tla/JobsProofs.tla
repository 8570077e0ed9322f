---------------------------- MODULE JobsProofs ----------------------------
(***************************************************************************)
(* Theorems about Jobs for every set of jobs and vendors, every size of    *)
(* the worker's batch and every number of crashes and exceptions.          *)
(***************************************************************************)
EXTENDS Jobs, TLAPS

(***************************************************************************)
(* What the worker holds in memory while it runs a job, against what the   *)
(* job's row says and what has been sent for it.  A job not yet claimed    *)
(* has no effects; a claimed one is never claimed again, because its row   *)
(* has left pending for good.                                              *)
(***************************************************************************)
Types ==
  /\ status \in [Job -> {"none", "pending", "in_progress"} \cup Ended]
  /\ calls \in [Job -> Nat] /\ posts \in [Job -> Nat]
  /\ at \in Stage
  /\ batch \subseteq Job

Running ==
  at \in {"claim", "resolve", "call", "commit", "webhook"} => cur \in Job

Untouched ==
  \A j \in Job :
    /\ status[j] \in {"none", "pending"} => calls[j] = 0
    /\ status[j] \notin Ended => posts[j] = 0
    /\ status[j] = "completed" => calls[j] = 1
    /\ calls[j] <= 1 /\ posts[j] <= 1
    /\ posts[j] > 0 => j \in callback

AtCur ==
  /\ at = "claim" => status[cur] = "pending"
  /\ at \in {"resolve", "call"} => status[cur] = "in_progress" /\ calls[cur] = 0
  /\ at = "commit" => /\ status[cur] = "in_progress" /\ calls[cur] = 1
                      /\ outcome \in Ended
  /\ at = "webhook" => /\ status[cur] \in Ended /\ posts[cur] = 0
                       /\ cur \in callback

JobInv == Types /\ Running /\ Untouched /\ AtCur

LEMMA JobInit == Init => JobInv
BY DEF Init, JobInv, Types, Running, Untouched, AtCur, Stage, Ended

(* A step that leaves rows, effects and the job at hand alone.             *)
LEMMA JobFrame ==
  ASSUME JobInv, UNCHANGED <<status, calls, posts, callback>>,
         batch' \subseteq Job,
         \/ UNCHANGED <<at, cur, outcome>>
         \/ at' \in {"down", "sleep", "batch"}
  PROVE  JobInv'
BY DEF JobInv, Types, Running, Untouched, AtCur, Stage

(* The worker drops what it was doing, wherever it stood.                  *)
LEMMA JobDropped ==
  ASSUME JobInv, at \in Stage, MaybeCommitted, MaybeSent, Forget,
         at' \in {"down", "sleep"}, UNCHANGED callback
  PROVE  JobInv'
<1> USE DEF JobInv, Types, Running, Untouched, AtCur, Stage, Ended
<1>1. CASE UNCHANGED status
  <2>1. CASE UNCHANGED effects
    BY <1>1, <2>1 DEF Forget, effects
  <2>2. CASE /\ at = "call" /\ calls' = [calls EXCEPT ![cur] = calls[cur] + 1]
             /\ UNCHANGED posts
    BY <1>1, <2>2 DEF Forget
  <2>3. CASE /\ at = "webhook"
             /\ posts' = [posts EXCEPT ![cur] = posts[cur] + 1]
             /\ UNCHANGED calls
    BY <1>1, <2>3 DEF Forget
  <2> QED
    BY <2>1, <2>2, <2>3 DEF MaybeSent
<1>2. CASE at = "claim" /\ SetStatus(cur, "in_progress")
  <2>1. UNCHANGED effects
    BY <1>2 DEF MaybeSent
  <2> QED
    BY <1>2, <2>1 DEF Forget, SetStatus, effects
<1>3. CASE at = "commit" /\ SetStatus(cur, outcome)
  <2>1. UNCHANGED effects
    BY <1>3 DEF MaybeSent
  <2> QED
    BY <1>3, <2>1 DEF Forget, SetStatus, effects
<1> QED
  BY <1>1, <1>2, <1>3 DEF MaybeCommitted

LEMMA JobStep == JobInv /\ [Next]_vars => JobInv'
<1> SUFFICES ASSUME JobInv, [Next]_vars PROVE JobInv'
  OBVIOUS
<1>0. at \in Stage /\ batch \subseteq Job
  BY DEF JobInv, Types
<1>1. CASE UNCHANGED vars
  BY <1>0, <1>1, JobFrame DEF vars, rows, worker, effects
<1>2. CASE LoadRegistry
  BY <1>0, <1>2, JobFrame DEF LoadRegistry, rows, worker, effects
<1>3. ASSUME NEW v \in Vendor, SetActive(v) PROVE JobInv'
  BY <1>0, <1>3, JobFrame DEF SetActive, rows, worker, effects
<1>4. ASSUME NEW j \in Job, CreateJob(j) PROVE JobInv'
  BY <1>4 DEF CreateJob, SetStatus, worker, effects,
              JobInv, Types, Running, Untouched, AtCur, Stage, Ended
<1>5. CASE Worker
  <2> USE DEF JobInv, Types, Running, Untouched, AtCur, Stage, Ended
  <2>1. CASE Poll
    BY <2>1, JobFrame DEF Poll, Pending, rows, effects
  <2>2. ASSUME NEW j \in Job, Fetch(j) PROVE JobInv'
    BY <2>2 DEF Fetch, rows, effects
  <2>3. CASE Sleep
    BY <1>0, <2>3, JobFrame DEF Sleep, rows, effects
  <2>4. CASE Claim
    BY <2>4 DEF Claim, SetStatus, Goto, effects
  <2>5. CASE Resolve
    BY <2>5 DEF Resolve, Goto, rows, effects
  <2>6. CASE ResolveFails
    BY <2>6 DEF ResolveFails, SetStatus, NextJob, effects
  <2>7. CASE CallVendor
    BY <2>7 DEF CallVendor, Goto, rows
  <2>8. CASE Commit
    BY <2>8 DEF Commit, SetStatus, Goto, NextJob, effects
  <2>9. CASE FireWebhook
    BY <2>9 DEF FireWebhook, NextJob, rows
  <2> QED
    BY <1>5, <2>1, <2>2, <2>3, <2>4, <2>5, <2>6, <2>7, <2>8, <2>9 DEF Worker
<1>6. CASE WorkerRaises
  <2>1. MaybeSent
    BY <1>6 DEF WorkerRaises, MaybeSent
  <2> QED
    BY <1>0, <1>6, <2>1, JobDropped DEF WorkerRaises
<1>7. CASE Crash
  BY <1>0, <1>7, JobDropped DEF Crash
<1>8. CASE Start
  BY <1>0, <1>8, JobFrame DEF Start, rows, effects
<1> QED
  BY <1>1, <1>2, <1>3, <1>4, <1>5, <1>6, <1>7, <1>8 DEF Next

(* The rest of the types: the rows' other columns, the registry, the job   *)
(* at hand and its outcome.                                                *)
RestTypes ==
  /\ vendor \in [Job -> Vendor \cup {None}] /\ callback \subseteq Job
  /\ active \subseteq Vendor /\ known \subseteq Vendor
  /\ cur \in Job \cup {None} /\ outcome \in Ended \cup {None}
  /\ faults \in 0..MaxFaults

LEMMA RestStep == RestTypes /\ [Next]_vars => RestTypes'
<1> SUFFICES ASSUME RestTypes, [Next]_vars PROVE RestTypes'
  OBVIOUS
<1> USE DEF RestTypes, rows, registry, worker
<1>1. CASE UNCHANGED vars
  BY <1>1 DEF vars
<1>2. CASE LoadRegistry
  BY <1>2 DEF LoadRegistry
<1>3. ASSUME NEW v \in Vendor, SetActive(v) PROVE RestTypes'
  BY <1>3 DEF SetActive
<1>4. ASSUME NEW j \in Job, CreateJob(j) PROVE RestTypes'
  BY <1>4 DEF CreateJob
<1>5. CASE Worker
  <2>1. CASE Poll \/ Sleep \/ Claim \/ Resolve
    BY <2>1 DEF Poll, Sleep, Claim, Resolve, Goto
  <2>2. ASSUME NEW j \in Job, Fetch(j) PROVE RestTypes'
    BY <2>2 DEF Fetch
  <2>3. CASE ResolveFails \/ CallVendor
    BY <2>3 DEF ResolveFails, CallVendor, Goto, NextJob
  <2>4. CASE Commit \/ FireWebhook
    BY <2>4 DEF Commit, FireWebhook, Goto, NextJob
  <2> QED
    BY <1>5, <2>1, <2>2, <2>3, <2>4 DEF Worker
<1>6. CASE WorkerRaises \/ Crash
  BY <1>6, JobsAssumption DEF WorkerRaises, Crash, Forget
<1>7. CASE Start
  BY <1>7 DEF Start
<1> QED
  BY <1>1, <1>2, <1>3, <1>4, <1>5, <1>6, <1>7 DEF Next

(* Rows, registry and the worker's memory keep their types through crashes *)
(* and exceptions.  (manager.py run_job, worker_loop; routes/jobs.py)      *)
THEOREM TypeCorrect == Safety => []TypeOK
<1>1. Init => RestTypes
  BY JobsAssumption DEF Init, RestTypes
<1>2. JobInv /\ RestTypes => TypeOK
  BY DEF JobInv, Types, RestTypes, TypeOK
<1> QED
  BY <1>1, <1>2, JobInit, JobStep, RestStep, PTL DEF Safety

(* A vendor never sees the same job twice: the row leaves pending before   *)
(* the call, and nothing puts it back.  (manager.py:73 and 219)            *)
THEOREM CalledOnce == Safety => []AtMostOneCall
<1>1. JobInv => AtMostOneCall
  BY DEF JobInv, Untouched, AtMostOneCall
<1> QED
  BY <1>1, JobInit, JobStep, PTL DEF Safety

(* A client that receives the webhook and polls finds the job ended.       *)
(* (manager.py:153-158)                                                    *)
THEOREM WebhookOnceAndLate == Safety => []WebhookAfterCommit
<1>1. JobInv => WebhookAfterCommit
  BY DEF JobInv, Types, Untouched, WebhookAfterCommit
<1> QED
  BY <1>1, JobInit, JobStep, PTL DEF Safety

(* What a client has read as the final status stays.  (manager.py:64-153)  *)
THEOREM EndedStays == Safety => EndedIsFinal
<1> DEFINE Final ==
      \A j \in Job :
        /\ status[j] \in Ended => status'[j] = status[j]
        /\ status'[j] = "pending" => status[j] \in {"none", "pending"}
<1>1. JobInv /\ [Next]_vars => [Final]_vars
  <2> SUFFICES ASSUME JobInv, Next PROVE Final
    OBVIOUS
  <2> USE DEF JobInv, Types, Running, AtCur, Ended
  <2>1. CASE UNCHANGED status
    BY <2>1
  <2>2. ASSUME NEW j \in Job, CreateJob(j) PROVE Final
    BY <2>2 DEF CreateJob, SetStatus
  <2>3. CASE Claim
    BY <2>3 DEF Claim, SetStatus
  <2>4. CASE ResolveFails
    BY <2>4 DEF ResolveFails, SetStatus
  <2>5. CASE Commit
    BY <2>5 DEF Commit, SetStatus
  <2>6. CASE MaybeCommitted
    BY <2>6 DEF MaybeCommitted, SetStatus
  <2> QED
    BY <2>1, <2>2, <2>3, <2>4, <2>5, <2>6
    DEF Next, LoadRegistry, SetActive, Worker, Poll, Fetch, Sleep, Resolve,
        CallVendor, FireWebhook, WorkerRaises, Crash, Start, rows
<1>2. QED
  BY <1>1, JobInit, JobStep, PTL DEF Safety, EndedIsFinal
=============================================================================
