------------------------------ MODULE DeployState ------------------------------
(***************************************************************************)
(* What the deploy subsystem shares about ONE environment: the deployments *)
(* rows, the environment's desired env revision, the containers, the queue *)
(* rows of its jobs, and the rows of the runs table its deployments own.   *)
(* The modules DeployController, DeployInline and DeployWake add the       *)
(* actors; DeployEnvironment composes them.                                *)
(*                                                                         *)
(* Deployments are numbered in creation order, so the newest-first listing *)
(* of listByEnvironment is by decreasing number.                           *)
(***************************************************************************)
EXTENDS Naturals, FiniteSets

CONSTANTS
  MaxDep,        \* bound: deployments created in the environment
  MaxUserDep,    \* bound: those of them queued by users
  MaxRev,        \* bound: env revision bumps
  MaxAttempts,   \* max_attempts of the environment's jobs (3)
  MaxFailed,     \* MAX_FAILED_REPLACEMENTS (3)
  Request,       \* requests that wake or refresh the environment
  Boot,          \* the liveness sweep of the boot chain
  Run,           \* agent runs
  MaxCrash,      \* bound: restarts of the process
  MaxDbError,    \* bound: rejected database calls
  MaxInfraError, \* bound: container faults (a refused operation, a death)
  MaxFaults      \* bound: restarts, rejected calls and container faults in all

ASSUME StateAssumption ==
  /\ MaxDep \in Nat /\ MaxUserDep \in Nat /\ MaxRev \in Nat
  /\ MaxAttempts \in Nat \ {0}
  /\ MaxFailed \in Nat \ {0}
  /\ Boot \notin Request /\ "job" \notin Request \cup {Boot}
  /\ MaxCrash \in Nat /\ MaxDbError \in Nat /\ MaxInfraError \in Nat
  /\ MaxFaults \in Nat

Dep == 1 .. MaxDep
NoDep == 0
Rev == 0 .. MaxRev
Actor == Request \cup {Boot}

VARIABLES
  envRev,      \* environments.env_revision
  row,         \* the deployments rows, by creation number
  box,         \* the container of each deployment
  boxRev,      \* the env revision whose secrets the container was created with
  queued,      \* job rows that are queued
  running,     \* job rows that are running
  queueing,    \* queueDeploy calls between their row insert and their enqueue
  bumped,      \* an invalidation is between its bump and its enqueue
  exec,        \* the deployRelease call on each deployment
  lane,        \* the inline job of the worker
  req,         \* the wake, refresh and boot-sweep calls
  run,         \* the rows of the runs table
  phase,       \* the boot chain: sweep, requeue, env, booted
  crashes, dbErrors, infraErrors

rowVars   == <<envRev, row>>
boxVars   == <<box, boxRev>>
jobVars   == <<queued, running, queueing, bumped>>
actorVars == <<exec, lane, req>>
faultVars == <<crashes, dbErrors, infraErrors>>
vars == <<rowVars, boxVars, jobVars, actorVars, run, phase, faultVars>>

InFlight == {"pending", "building"}
RowStatus == {"none", "deleted", "live", "draining", "stopped", "failed"}
             \cup InFlight
Row == [status : RowStatus, weighted : BOOLEAN, url : BOOLEAN, rev : Rev]
Phase == {"sweep", "requeue", "env", "booted"}
NoRun == <<"none", NoDep>>
RunState == {"none", "running", "finished", "interrupted"} \X (0 .. MaxDep)
NoRow == [status |-> "none", weighted |-> FALSE, url |-> FALSE, rev |-> 0]

\* late: the drain deadline in the payload has passed.  Equal queued jobs are
\* one element: the copies would run one after the other.
JobKind == {"deploy", "drain", "cleanup", "reconcile"}
Job == [kind : JobKind, dep : 0 .. MaxDep, attempts : 0 .. MaxAttempts,
        late : BOOLEAN]
NewJob(k, d) == [kind |-> k, dep |-> d, attempts |-> 0, late |-> FALSE]
ReconcileJob == NewJob("reconcile", NoDep)

Exists(d) == row[d].status \notin {"none", "deleted"}
Live == {d \in Dep : row[d].status = "live"}
InFlightRows == {d \in Dep : row[d].status \in InFlight}
Newest(S) == CHOOSE d \in S : \A x \in S : x <= d

\* The number the next inserted row gets.
IsNext(d) == row[d].status = "none" /\ \A x \in 1 .. d - 1 : row[x].status # "none"

\* Seeded bug: no unique index.
SlotFreeAlways(d) == TRUE

\* The unique index deployments_env_inflight_uq accepts d in flight.
SlotFree(d) == InFlightRows \subseteq {d}

MayFault == crashes + dbErrors + infraErrors < MaxFaults
DbError == MayFault /\ dbErrors < MaxDbError /\ dbErrors' = dbErrors + 1
InfraError == /\ MayFault /\ infraErrors < MaxInfraError
              /\ infraErrors' = infraErrors + 1
NoFault == crashes = 0 /\ dbErrors = 0 /\ infraErrors = 0

\* An UPDATE by id: a deleted row stays deleted.
Update(d, patched) == IF Exists(d) THEN [row EXCEPT ![d] = patched] ELSE row

\* stopDeploymentInfra returned: stopped, or destroyed after a failed stop.
StopDeploymentInfra(d) ==
  /\ UNCHANGED boxRev
  /\ \/ /\ box' = [box EXCEPT ![d] = IF @ = "up" THEN "down" ELSE @]
        /\ UNCHANGED infraErrors
     \/ /\ box[d] = "up"
        /\ InfraError
        /\ box' = [box EXCEPT ![d] = "absent"]

\* stopDeploymentInfra threw: neither stop nor destroy took, or one did and the
\* health check after it was refused.
StopDeploymentInfraThrows(d) ==
  /\ InfraError
  /\ \E b \in {"up", "down", "absent"} :
       /\ box[d] # "up" => b = box[d]
       /\ box' = [box EXCEPT ![d] = b]
  /\ UNCHANGED boxRev

\* startWithProvenance returned a live instance with a URL; or it did not (the
\* container may run all the same, unhealthy), or the snapshot read before it was
\* rejected, which its callers take for the same.
StartBox(d) == /\ box[d] # "absent"
               /\ box' = [box EXCEPT ![d] = "up"]
               /\ UNCHANGED <<boxRev, dbErrors, infraErrors>>
StartBoxFails(d) ==
  /\ \/ box[d] = "absent" /\ UNCHANGED <<box, dbErrors, infraErrors>>
     \/ /\ box[d] # "absent" /\ InfraError
        /\ \E b \in {box[d], "up"} : box' = [box EXCEPT ![d] = b]
        /\ UNCHANGED dbErrors
     \/ DbError /\ UNCHANGED <<box, infraErrors>>
  /\ UNCHANGED boxRev

Destroy(d) == box' = [box EXCEPT ![d] = "absent"] /\ UNCHANGED boxRev

\* cleanupDeploymentContainer's decision.
MayDestroy(d) == \/ row[d].status = "failed"
                 \/ /\ row[d].status = "stopped"
                    /\ ~row[d].weighted
                    /\ Live \ {d} # {}

\* claimNext counts the attempt; planFailure requeues while attempts remain
\* (a parked job takes no further part and is left out).
Claimed(j) == [j EXCEPT !.attempts = IF @ < MaxAttempts THEN @ + 1 ELSE @]
Refailed(j) == IF j.attempts < MaxAttempts THEN {j} ELSE {}

=============================================================================
