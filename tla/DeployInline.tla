------------------------------ MODULE DeployInline -----------------------------
(***************************************************************************)
(* The inline lane of the worker for one environment: the drain watcher    *)
(* (deploy/drain.server.ts), the container cleanup                         *)
(* (deploy/cleanup.server.ts) and the env reconciliation                   *)
(* (deploy/env-reconcile.server.ts), one job at a time; and, while the     *)
(* boot chain is at its env sweep, the same reconciliation without a job.  *)
(* Due jobs are claimed in any order (JobQueue has the order).             *)
(***************************************************************************)
EXTENDS DeployController

LanePC == {"idle", "drain", "count", "stop", "mark", "reap", "grace",
           "cleanup", "destroy", "read", "rows", "retry", "insert", "queue",
           "done", "threw"}

\* rev: the env revision the reconciliation read.  dep: the row it inserted.
Lane == [pc : LanePC, job : Job, rev : Rev, dep : 0 .. MaxDep]
IdleLane == [pc |-> "idle", job |-> ReconcileJob, rev |-> 0, dep |-> NoDep]

LaneAt(pc) == lane.pc = pc
LaneTo(pc) == lane' = [lane EXCEPT !.pc = pc]
Subject == lane.job.dep
Boots == phase = "env"

FirstStep == [drain |-> "drain", cleanup |-> "cleanup", reconcile |-> "read"]

\* Steps that change neither rows, containers nor jobs.
LaneStep == UNCHANGED <<envRev, row, boxVars, jobVars, exec, req, run, phase,
                        faultVars>>

ClaimInline ==
  /\ phase = "booted" /\ LaneAt("idle")
  /\ \E j \in queued :
       /\ j.kind # "deploy"
       /\ queued' = queued \ {j}
       /\ running' = running \cup {Claimed(j)}
       /\ lane' = [IdleLane EXCEPT !.pc = FirstStep[j.kind], !.job = Claimed(j)]
  /\ UNCHANGED <<rowVars, boxVars, queueing, bumped, exec, req, run, phase,
                 faultVars>>

\* Any database call of the job rejects: the job throws.
LaneDbError ==
  /\ lane.pc \in {"drain", "count", "mark", "cleanup", "read", "rows",
                  "retry", "insert", "queue"}
  /\ DbError
  /\ LaneTo("threw")
  /\ UNCHANGED <<rowVars, boxVars, jobVars, exec, req, run, phase, crashes,
                 infraErrors>>

---------------------------------------------------------------------------
(* drainDeployment.                                                        *)

ReadDrained ==
  /\ LaneAt("drain")
  /\ LaneTo(IF row[Subject].status = "draining" THEN "count" ELSE "done")
  /\ LaneStep

RunningRuns(d) == {r \in Run : run[r] = <<"running", d>>}

\* Seeded bug: a waiting tick does not schedule the next one.
DrainWaitsOnce ==
  /\ LaneAt("count")
  /\ RunningRuns(Subject) # {} /\ ~lane.job.late
  /\ LaneTo("done")
  /\ LaneStep

\* In-flight turns and time left: poll again.  The successor keeps the deadline.
DrainWaits ==
  /\ LaneAt("count")
  /\ RunningRuns(Subject) # {} /\ ~lane.job.late
  /\ queued' = queued \cup {NewJob("drain", Subject)}
  /\ LaneTo("done")
  /\ UNCHANGED <<rowVars, boxVars, running, queueing, bumped, exec, req, run,
                 phase, faultVars>>

\* Seeded bugs: the runs are not counted; the deadline is not looked at.
DrainOverAtOnce == /\ LaneAt("count")
                   /\ LaneTo("stop")
                   /\ LaneStep
DrainOverIdle == /\ LaneAt("count")
                 /\ RunningRuns(Subject) = {}
                 /\ LaneTo("stop")
                 /\ LaneStep

DrainOver == /\ LaneAt("count")
             /\ RunningRuns(Subject) = {} \/ lane.job.late
             /\ LaneTo("stop")
             /\ LaneStep

DrainStops ==
  /\ LaneAt("stop")
  /\ \/ StopDeploymentInfra(Subject) /\ LaneTo("mark")
     \/ StopDeploymentInfraThrows(Subject) /\ LaneTo("threw")
  /\ UNCHANGED <<rowVars, jobVars, exec, req, run, phase, crashes, dbErrors>>

MarkStopped ==
  /\ LaneAt("mark")
  /\ row' = Update(Subject, [row[Subject] EXCEPT !.status = "stopped",
                                                 !.weighted = FALSE])
  /\ LaneTo("reap")
  /\ UNCHANGED <<envRev, boxVars, jobVars, exec, req, run, phase, faultVars>>

\* failRunningByDeployment; its error is only logged.
ReapRuns ==
  /\ LaneAt("reap")
  /\ \/ /\ run' = [r \in Run |-> IF r \in RunningRuns(Subject)
                                 THEN <<"interrupted", Subject>> ELSE run[r]]
        /\ UNCHANGED dbErrors
     \/ DbError /\ UNCHANGED run
  /\ LaneTo("grace")
  /\ UNCHANGED <<rowVars, boxVars, jobVars, exec, req, phase, crashes, infraErrors>>

\* The delayed container cleanup, scheduled best-effort.
ScheduleCleanup ==
  /\ LaneAt("grace")
  /\ \/ queued' = queued \cup {NewJob("cleanup", Subject)} /\ UNCHANGED dbErrors
     \/ DbError /\ UNCHANGED queued
  /\ LaneTo("done")
  /\ UNCHANGED <<rowVars, boxVars, running, queueing, bumped, exec, req, run,
                 phase, crashes, infraErrors>>

\* The deadline in a waiting tick's payload passes.
Deadline ==
  /\ \E j \in queued : /\ j.kind = "drain" /\ ~j.late
                       /\ queued' = (queued \ {j}) \cup {[j EXCEPT !.late = TRUE]}
  /\ UNCHANGED <<rowVars, boxVars, running, queueing, bumped, actorVars, run,
                 phase, faultVars>>

---------------------------------------------------------------------------
(* cleanupDeploymentContainer.                                             *)

CheckCleanup == /\ LaneAt("cleanup")
                /\ LaneTo(IF MayDestroy(Subject) THEN "destroy" ELSE "done")
                /\ LaneStep

DestroyBox ==
  /\ LaneAt("destroy")
  /\ \/ Destroy(Subject) /\ LaneTo("done") /\ UNCHANGED infraErrors
     \/ InfraError /\ LaneTo("threw") /\ UNCHANGED boxVars
  /\ UNCHANGED <<rowVars, jobVars, exec, req, run, phase, crashes, dbErrors>>

---------------------------------------------------------------------------
(* reconcileEnvironmentEnv.                                                *)

StartSweep == /\ Boots /\ LaneAt("idle")
              /\ LaneTo("read")
              /\ LaneStep

ReadDesired == /\ LaneAt("read")
               /\ lane' = [lane EXCEPT !.pc = "rows", !.rev = envRev]
               /\ LaneStep

\* rows.find over the newest-first listing.
LiveRow == Newest(Live)
Current(rev) == Live # {} /\ row[LiveRow].rev >= rev
\* Seeded bug: any deploy in flight counts as the replacement.
CoveredByAny(rev) == InFlightRows # {}

Covered(rev) == \E d \in InFlightRows : row[d].rev >= rev
FailedAtRevision(rev) ==
  {d \in Dep : row[d].status = "failed" /\ row[d].rev >= rev /\ d > LiveRow}
Stalled(rev) == Cardinality(FailedAtRevision(rev)) >= MaxFailed

ReadRows ==
  /\ LaneAt("rows")
  /\ LaneTo(IF Current(lane.rev) \/ Covered(lane.rev) THEN "done"
            ELSE IF InFlightRows # {} THEN "retry"
            ELSE IF Live = {} \/ Stalled(lane.rev) THEN "done"
            ELSE "insert")
  /\ LaneStep

ReconcileLater ==
  /\ LaneAt("retry")
  /\ queued' = queued \cup {ReconcileJob}
  /\ LaneTo("done")
  /\ UNCHANGED <<rowVars, boxVars, running, queueing, bumped, exec, req, run,
                 phase, faultVars>>

ReconcileInserts ==
  /\ LaneAt("insert")
  /\ \E d \in Dep : /\ InsertRow(d, "pending", 0)
                   /\ lane' = [lane EXCEPT !.pc = "queue", !.dep = d]
  /\ UNCHANGED <<envRev, boxVars, jobVars, exec, req, run, phase, faultVars>>

\* A deploy got in between: the unique index rejects the row.
ReconcileInsertThrows == /\ LaneAt("insert")
                         /\ InFlightRows # {}
                         /\ LaneTo("threw")
                         /\ LaneStep

ReconcileEnqueues ==
  /\ LaneAt("queue")
  /\ queued' = queued \cup {NewJob("deploy", lane.dep)}
  /\ LaneTo("done")
  /\ UNCHANGED <<rowVars, boxVars, running, queueing, bumped, exec, req, run,
                 phase, faultVars>>

---------------------------------------------------------------------------
(* The job around it, or the end of the boot chain.                        *)

LaneEnds == UNCHANGED <<rowVars, boxVars, queueing, bumped, exec, req, run,
                        crashes, infraErrors>>

EndSweep == /\ Boots /\ lane.pc \in {"done", "threw"}
            /\ phase' = "booted"
            /\ lane' = IdleLane
            /\ UNCHANGED <<queued, running, dbErrors>> /\ LaneEnds

CompleteInline ==
  /\ ~Boots /\ LaneAt("done")
  /\ \/ /\ running' = running \ {lane.job}
        /\ lane' = IdleLane
        /\ UNCHANGED dbErrors
     \/ DbError /\ LaneTo("threw") /\ UNCHANGED running
  /\ UNCHANGED <<queued, phase>> /\ LaneEnds

RetryInline ==
  /\ ~Boots /\ LaneAt("threw")
  /\ \/ /\ running' = running \ {lane.job}
        /\ queued' = queued \cup Refailed(lane.job)
        /\ UNCHANGED dbErrors
     \/ DbError /\ UNCHANGED <<queued, running>>
  /\ lane' = IdleLane
  /\ UNCHANGED phase /\ LaneEnds

LaneNext ==
  \/ ClaimInline \/ LaneDbError
  \/ ReadDrained \/ DrainWaits \/ DrainOver \/ DrainStops \/ MarkStopped
  \/ ReapRuns \/ ScheduleCleanup
  \/ CheckCleanup \/ DestroyBox
  \/ StartSweep \/ ReadDesired \/ ReadRows \/ ReconcileLater
  \/ ReconcileInserts \/ ReconcileInsertThrows \/ ReconcileEnqueues
  \/ EndSweep \/ CompleteInline \/ RetryInline
=============================================================================
