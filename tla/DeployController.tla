---------------------------- MODULE DeployController ---------------------------
(***************************************************************************)
(* deploy/controller.server.ts: queueDeploy, and deployRelease as the      *)
(* pooled deploy_release / rollback_release jobs and the wake path run it: *)
(* take the row, resolve the environment, build and launch, cut over from  *)
(* the live siblings, audit, and hand the siblings to the drain watcher.   *)
(* exec[d] is the call working on deployment d.                            *)
(***************************************************************************)
EXTENDS DeployState

ExecPC == {"idle", "env", "take", "resolve", "launch", "siblings", "demote",
           "audit", "schedule", "abort", "fail", "ok", "failed", "threw"}

\* rev: the env revision to be recorded on the row, then the one whose secrets
\* were resolved.  sup: the live siblings found at the cutover; todo: those
\* still to demote, then to schedule.  by: who awaits it.
Exec == [pc : ExecPC, rev : Rev, todo : SUBSET Dep, sup : SUBSET Dep,
         by : {"job"} \cup Actor]

IdleExec == [pc |-> "idle", rev |-> 0, todo |-> {}, sup |-> {},
             by |-> "job"]

At(d, pc) == exec[d].pc = pc
Goto(d, pc) == exec' = [exec EXCEPT ![d].pc = pc]
Settled(d) == exec' = [exec EXCEPT ![d] = IdleExec]

DeployJob(d) == CHOOSE j \in running : j.kind = "deploy" /\ j.dep = d

---------------------------------------------------------------------------
(* queueDeploy: insert the pending row, then enqueue its job.              *)

InsertRow(d, status, rev) ==
  /\ IsNext(d) /\ SlotFree(d)
  /\ row' = [row EXCEPT ![d] = [status |-> status, weighted |-> TRUE,
                                url |-> FALSE, rev |-> rev]]

QueueDeploy(d) ==
  /\ d <= MaxUserDep
  /\ InsertRow(d, "pending", 0)
  /\ queueing' = queueing \cup {d}
  /\ UNCHANGED <<envRev, boxVars, queued, running, bumped, actorVars, run,
                 phase, faultVars>>

EnqueueDeploy(d) ==
  /\ d \in queueing
  /\ queued' = queued \cup {NewJob("deploy", d)}
  /\ queueing' = queueing \ {d}
  /\ UNCHANGED <<rowVars, boxVars, running, bumped, actorVars, run, phase,
                 faultVars>>

EnqueueDeployError(d) ==
  /\ d \in queueing
  /\ DbError
  /\ queueing' = queueing \ {d}
  /\ UNCHANGED <<rowVars, boxVars, queued, running, bumped, actorVars, run,
                 phase, crashes, infraErrors>>

---------------------------------------------------------------------------
(* deployRelease.                                                          *)

\* Steps that change no job, run or boot state.
ExecStep == UNCHANGED <<envRev, jobVars, lane, req, run, phase, crashes>>

BeginDeploy(d) ==
  /\ phase = "booted"
  /\ At(d, "idle")
  /\ \E j \in queued : /\ j.kind = "deploy" /\ j.dep = d
                       /\ queued' = queued \ {j}
                       /\ running' = running \cup {Claimed(j)}
  /\ Goto(d, "env")
  /\ UNCHANGED <<rowVars, boxVars, queueing, bumped, lane, req, run, phase,
                 faultVars>>

ReadEnv(d) == /\ At(d, "env")
              /\ exec' = [exec EXCEPT ![d].pc = "take", ![d].rev = envRev]
              /\ UNCHANGED <<row, boxVars, dbErrors, infraErrors>> /\ ExecStep

Taken(d) == [row EXCEPT ![d].status = "building", ![d].weighted = TRUE,
                        ![d].rev = exec[d].rev]

TakeRow(d) ==
  /\ At(d, "take")
  /\ Exists(d) /\ SlotFree(d)
  /\ row' = Taken(d)
  /\ Goto(d, "resolve")
  /\ UNCHANGED <<boxVars, dbErrors, infraErrors>> /\ ExecStep

\* The update violates the unique index, or returned no row: the call rejects
\* without touching the row.
TakeRowThrows(d) ==
  /\ At(d, "take")
  /\ ~(Exists(d) /\ SlotFree(d))
  /\ Goto(d, "threw")
  /\ UNCHANGED <<row, boxVars, dbErrors, infraErrors>> /\ ExecStep

\* A read rejects, one that runs beside the update included: the row is taken
\* all the same, or is not, and the call is over, outside its try block.
TakeRowError(d) ==
  /\ At(d, "take")
  /\ DbError
  /\ \/ UNCHANGED row
     \/ Exists(d) /\ SlotFree(d) /\ row' = Taken(d)
  /\ Goto(d, "threw")
  /\ UNCHANGED <<boxVars, infraErrors>> /\ ExecStep

\* Seeded bug: the live siblings are drained before the new one is up.
ResolveEnvDrainsFirst(d) ==
  /\ At(d, "resolve")
  /\ exec' = [exec EXCEPT ![d].pc = "launch", ![d].rev = envRev]
  /\ row' = [x \in Dep |-> IF x \in Live THEN [row[x] EXCEPT !.status = "draining"]
                                         ELSE row[x]]
  /\ UNCHANGED <<boxVars, dbErrors, infraErrors>> /\ ExecStep

ResolveEnv(d) ==
  /\ At(d, "resolve")
  /\ exec' = [exec EXCEPT ![d].pc = "launch", ![d].rev = envRev]
  /\ UNCHANGED <<row, boxVars, dbErrors, infraErrors>> /\ ExecStep

LaunchLive(d) ==
  /\ At(d, "launch")
  /\ box' = [box EXCEPT ![d] = "up"]
  /\ boxRev' = [boxRev EXCEPT ![d] = exec[d].rev]
  /\ exec' = [exec EXCEPT ![d].pc = "siblings", ![d].rev = 0]
  /\ UNCHANGED <<row, dbErrors, infraErrors>> /\ ExecStep

\* Preparation, build or launch throws, or the target answers a status other
\* than live: the container is as it was, gone, or left up.
LaunchFails(d) ==
  /\ At(d, "launch")
  /\ \E b \in {box[d], "absent", "up"} : box' = [box EXCEPT ![d] = b]
  /\ exec' = [exec EXCEPT ![d].pc = "abort", ![d].rev = 0]
  /\ UNCHANGED <<row, boxRev, dbErrors, infraErrors>> /\ ExecStep

ReadSiblings(d) ==
  /\ At(d, "siblings")
  /\ exec' = [exec EXCEPT ![d].pc = "demote", ![d].todo = Live \ {d},
                          ![d].sup = Live \ {d}]
  /\ UNCHANGED <<row, boxVars, dbErrors, infraErrors>> /\ ExecStep

Draining(x) == [row[x] EXCEPT !.status = "draining", !.weighted = FALSE]

Demote(d) ==
  /\ At(d, "demote")
  /\ \E x \in exec[d].todo :
       /\ row' = Update(x, Draining(x))
       /\ exec' = [exec EXCEPT ![d].todo = @ \ {x}]
  /\ UNCHANGED <<boxVars, dbErrors, infraErrors>> /\ ExecStep

\* One of the concurrent updates rejects; any of the others may land.
DemoteError(d) ==
  /\ At(d, "demote")
  /\ DbError
  /\ \E x \in exec[d].todo : \E landed \in SUBSET (exec[d].todo \ {x}) :
       row' = [y \in Dep |-> IF y \in landed /\ Exists(y) THEN Draining(y)
                                                          ELSE row[y]]
  /\ Goto(d, "abort")
  /\ UNCHANGED <<boxVars, infraErrors>> /\ ExecStep

\* Seeded bug: the env revision is recorded at the cutover.
PromoteStamps(d) ==
  /\ At(d, "demote")
  /\ exec[d].todo = {}
  /\ row' = Update(d, [row[d] EXCEPT !.status = "live", !.url = TRUE, !.rev = envRev])
  /\ Goto(d, "audit")
  /\ UNCHANGED <<boxVars, dbErrors, infraErrors>> /\ ExecStep

Promote(d) ==
  /\ At(d, "demote")
  /\ exec[d].todo = {}
  /\ row' = Update(d, [row[d] EXCEPT !.status = "live", !.url = TRUE])
  /\ Goto(d, "audit")
  /\ UNCHANGED <<boxVars, dbErrors, infraErrors>> /\ ExecStep

PromoteError(d) ==
  /\ At(d, "demote")
  /\ exec[d].todo = {}
  /\ DbError
  /\ Goto(d, "abort")
  /\ UNCHANGED <<row, boxVars, infraErrors>> /\ ExecStep

Audit(d) ==
  /\ At(d, "audit")
  /\ exec' = [exec EXCEPT ![d].pc = "schedule", ![d].todo = exec[d].sup]
  /\ UNCHANGED <<row, boxVars, dbErrors, infraErrors>> /\ ExecStep

AuditError(d) ==
  /\ At(d, "audit")
  /\ DbError
  /\ Goto(d, "abort")
  /\ UNCHANGED <<row, boxVars, infraErrors>> /\ ExecStep

\* scheduleDeploymentDrain is best-effort: a failed insert is only logged.
ScheduleDrain(d) ==
  /\ At(d, "schedule")
  /\ \E x \in exec[d].todo :
       /\ exec' = [exec EXCEPT ![d].todo = @ \ {x}]
       /\ \/ queued' = queued \cup {NewJob("drain", x)} /\ UNCHANGED dbErrors
          \/ DbError /\ UNCHANGED queued
  /\ UNCHANGED <<rowVars, boxVars, running, queueing, bumped, lane, req, run,
                 phase, crashes, infraErrors>>

Finish(d) == /\ At(d, "schedule") /\ exec[d].todo = {}
             /\ Goto(d, "ok")
             /\ UNCHANGED <<row, boxVars, dbErrors, infraErrors>> /\ ExecStep

\* cleanupNewDeploymentInfra swallows the error of a container that stays up.
AbortInfra(d) ==
  /\ At(d, "abort")
  /\ StopDeploymentInfra(d) \/ StopDeploymentInfraThrows(d)
  /\ Goto(d, "fail")
  /\ UNCHANGED <<row, dbErrors>> /\ ExecStep

\* Seeded bugs: the row keeps a non-terminal status, or takes the target's own.
FailRowPending(d) ==
  /\ At(d, "fail")
  /\ row' = Update(d, [row[d] EXCEPT !.status = "pending"])
  /\ Goto(d, "failed")
  /\ UNCHANGED <<boxVars, dbErrors, infraErrors>> /\ ExecStep
FailRowStarting(d) ==
  /\ At(d, "fail")
  /\ row' = Update(d, [row[d] EXCEPT !.status = "starting"])
  /\ Goto(d, "failed")
  /\ UNCHANGED <<boxVars, dbErrors, infraErrors>> /\ ExecStep

FailRow(d) ==
  /\ At(d, "fail")
  /\ row' = Update(d, [row[d] EXCEPT !.status = "failed"])
  /\ Goto(d, "failed")
  /\ UNCHANGED <<boxVars, dbErrors, infraErrors>> /\ ExecStep

\* The update is returned, not awaited, inside the try block as in its catch: a
\* rejection ends the call there, with the row as it was.
FailRowError(d) ==
  /\ At(d, "fail")
  /\ DbError
  /\ Goto(d, "threw")
  /\ UNCHANGED <<row, boxVars, infraErrors>> /\ ExecStep

---------------------------------------------------------------------------
(* The job around it (worker: execute, complete, fail).                    *)

JobStep == UNCHANGED <<rowVars, boxVars, queueing, bumped, lane, req, run,
                       phase, crashes, infraErrors>>

CompleteDeploy(d) == /\ At(d, "ok") /\ exec[d].by = "job"
                     /\ running' = running \ {DeployJob(d)}
                     /\ Settled(d)
                     /\ UNCHANGED <<queued, dbErrors>> /\ JobStep

CompleteDeployError(d) == /\ At(d, "ok") /\ exec[d].by = "job"
                          /\ DbError
                          /\ Goto(d, "threw")
                          /\ UNCHANGED <<queued, running>> /\ JobStep

\* A failed deployment is a job failure; the last attempt re-enters the env
\* reconciliation first (a rejected enqueue is one more failure).
DeployFailed(d) ==
  /\ At(d, "failed") /\ exec[d].by = "job"
  /\ \/ /\ queued' = IF DeployJob(d).attempts >= MaxAttempts
                     THEN queued \cup {ReconcileJob} ELSE queued
        /\ UNCHANGED dbErrors
     \/ /\ DeployJob(d).attempts >= MaxAttempts
        /\ DbError
        /\ UNCHANGED queued
  /\ Goto(d, "threw")
  /\ UNCHANGED running /\ JobStep

RetryDeploy(d) == /\ At(d, "threw") /\ exec[d].by = "job"
                  /\ running' = running \ {DeployJob(d)}
                  /\ queued' = queued \cup Refailed(DeployJob(d))
                  /\ Settled(d)
                  /\ UNCHANGED dbErrors /\ JobStep

\* The failure could not be recorded: the job row stays running.
RetryDeployError(d) == /\ At(d, "threw") /\ exec[d].by = "job"
                       /\ DbError
                       /\ Settled(d)
                       /\ UNCHANGED <<queued, running>> /\ JobStep

\* The environment page's clear button deletes the failed rows.
DeleteFailed ==
  /\ \E d \in Dep : row[d].status = "failed"
  /\ row' = [d \in Dep |-> IF row[d].status = "failed"
                           THEN [NoRow EXCEPT !.status = "deleted"] ELSE row[d]]
  /\ UNCHANGED <<envRev, boxVars, jobVars, actorVars, run, phase, faultVars>>

Execute(d) ==
  \/ BeginDeploy(d) \/ ReadEnv(d) \/ TakeRow(d) \/ TakeRowThrows(d) \/ TakeRowError(d)
  \/ ResolveEnv(d) \/ LaunchLive(d) \/ LaunchFails(d)
  \/ ReadSiblings(d) \/ Demote(d) \/ DemoteError(d)
  \/ Promote(d) \/ PromoteError(d) \/ Audit(d) \/ AuditError(d)
  \/ ScheduleDrain(d) \/ Finish(d)
  \/ AbortInfra(d) \/ FailRow(d) \/ FailRowError(d)
  \/ CompleteDeploy(d) \/ CompleteDeployError(d)
  \/ DeployFailed(d) \/ RetryDeploy(d) \/ RetryDeployError(d)

ControllerNext ==
  \/ DeleteFailed
  \/ \E d \in Dep : \/ QueueDeploy(d) \/ EnqueueDeploy(d) \/ EnqueueDeployError(d)
                    \/ Execute(d)
=============================================================================
