--------------------------- MODULE DeployEnvironment ---------------------------
(***************************************************************************)
(* One environment under every actor that touches it: users queueing       *)
(* deploys, the worker's pool and inline lane, requests that wake or       *)
(* refresh it, credential changes that bump its revision, agent runs that  *)
(* start and end on its deployments, and restarts of the process with the  *)
(* boot chain that follows.                                                *)
(***************************************************************************)
EXTENDS DeployWake

TypeOK ==
  /\ envRev \in Rev
  /\ row \in [Dep -> Row]
  /\ box \in [Dep -> {"absent", "up", "down"}]
  /\ boxRev \in [Dep -> Rev]
  /\ queued \in SUBSET Job /\ running \in SUBSET Job
  /\ queueing \in SUBSET Dep
  /\ bumped \in BOOLEAN
  /\ exec \in [Dep -> Exec]
  /\ lane \in Lane
  /\ req \in [Actor -> Req]
  /\ run \in [Run -> RunState]
  /\ phase \in Phase
  /\ crashes \in 0 .. MaxCrash
  /\ dbErrors \in 0 .. MaxDbError
  /\ infraErrors \in 0 .. MaxInfraError

Init == /\ envRev = 0
        /\ row = [d \in Dep |-> NoRow]
        /\ box = [d \in Dep |-> "absent"]
        /\ boxRev = [d \in Dep |-> 0]
        /\ queued = {} /\ running = {} /\ queueing = {} /\ bumped = FALSE
        /\ exec = [d \in Dep |-> IdleExec]
        /\ lane = IdleLane
        /\ req = [w \in Actor |-> IdleReq]
        /\ run = [r \in Run |-> NoRun]
        /\ phase = "booted"
        /\ crashes = 0 /\ dbErrors = 0 /\ infraErrors = 0

---------------------------------------------------------------------------
\* invalidateAgentEnvironments: bump the desired revision, then enqueue.
Bump == /\ envRev < MaxRev /\ ~bumped
        /\ envRev' = envRev + 1
        /\ bumped' = TRUE
        /\ UNCHANGED <<row, boxVars, queued, running, queueing, actorVars, run,
                       phase, faultVars>>

Invalidate ==
  /\ bumped
  /\ bumped' = FALSE
  /\ \/ queued' = queued \cup {ReconcileJob} /\ UNCHANGED dbErrors
     \/ DbError /\ UNCHANGED queued
  /\ UNCHANGED <<rowVars, boxVars, running, queueing, actorVars, run, phase,
                 crashes, infraErrors>>

\* ingestRunStart inserts a running row only while the deployment is live; the
\* run ends with an event of its container.
RunStart(r) ==
  /\ run[r] = NoRun
  /\ \E d \in Live : box[d] = "up" /\ run' = [run EXCEPT ![r] = <<"running", d>>]
  /\ UNCHANGED <<rowVars, boxVars, jobVars, actorVars, phase, faultVars>>

RunFinish(r) ==
  /\ run[r][1] = "running" /\ box[run[r][2]] = "up"
  /\ run' = [run EXCEPT ![r] = <<"finished", run[r][2]>>]
  /\ UNCHANGED <<rowVars, boxVars, jobVars, actorVars, phase, faultVars>>

\* A container dies by itself, or is removed.
BoxDies == /\ InfraError
           /\ \E d \in Dep : \E b \in {"down", "absent"} :
                box[d] = "up" /\ box' = [box EXCEPT ![d] = b]
           /\ UNCHANGED <<rowVars, boxRev, jobVars, actorVars, run, phase,
                          crashes, dbErrors>>

\* The process dies, with the host's containers or without them.
Crash == /\ MayFault /\ crashes < MaxCrash
         /\ crashes' = crashes + 1
         /\ phase' = "sweep"
         /\ \/ UNCHANGED box
            \/ box' = [d \in Dep |-> IF box[d] = "up" THEN "down" ELSE box[d]]
         /\ queueing' = {} /\ bumped' = FALSE
         /\ exec' = [d \in Dep |-> IdleExec]
         /\ lane' = IdleLane
         /\ req' = [w \in Actor |-> IdleReq]
         /\ UNCHANGED <<rowVars, boxRev, queued, running, run, dbErrors, infraErrors>>

\* Seeded bug: the jobs a restart stranded are failed instead of requeued.
RequeueFails ==
  /\ phase = "requeue"
  /\ running' = {} /\ phase' = "env"
  /\ UNCHANGED <<rowVars, boxVars, queued, queueing, bumped, actorVars, run,
                 faultVars>>

\* The boot chain between the liveness sweep and the env sweep.
Requeue ==
  /\ phase = "requeue"
  /\ \/ /\ queued' = queued \cup running
        /\ running' = {}
        /\ phase' = "env"
        /\ UNCHANGED dbErrors
     \/ DbError /\ phase' = "booted" /\ UNCHANGED <<queued, running>>
  /\ UNCHANGED <<rowVars, boxVars, queueing, bumped, actorVars, run, crashes,
                 infraErrors>>

Next == \/ ControllerNext \/ LaneNext \/ WakeNext
        \/ Bump \/ Invalidate \/ Deadline \/ BoxDies \/ Crash \/ Requeue
        \/ \E r \in Run : RunStart(r) \/ RunFinish(r)

\* The worker's timers fire and what it awaits answers.  Due jobs are claimed
\* in runAt order (JobQueue!JobsSettle), so none is passed over for ever.  Time
\* does not stop: a drain's successive ticks, queued again and again, reach its
\* deadline (SF).
Fairness ==
  /\ WF_vars(LaneNext) /\ WF_vars(Requeue) /\ WF_vars(Invalidate)
  /\ SF_vars(Deadline)
  /\ \A d \in Dep : WF_vars(EnqueueDeploy(d)) /\ WF_vars(Execute(d))
  /\ \A w \in Actor : WF_vars(Serve(w))
  /\ WF_vars(Begin(Boot))

Spec == Init /\ [][Next]_vars /\ Fairness

---------------------------------------------------------------------------
(***************************************************************************)
(* Properties                                                              *)
(***************************************************************************)

\* At most one deployment of the environment is in flight, whoever queued it
\* (deployments_env_inflight_uq).
InflightUnique == Cardinality(InFlightRows) <= 1

\* Only one deployRelease at a time is between taking its row and its cutover,
\* though a user's deploy, a job retry and a wake may all be under way.
OneExecution ==
  crashes = 0 /\ dbErrors = 0 =>
    Cardinality({d \in Dep : exec[d].pc \in {"resolve", "launch", "siblings", "demote"}}) <= 1

HasJob(d) == \E j \in queued \cup running : j.kind = "deploy" /\ j.dep = d

Owned(d) == d \in queueing \/ lane.dep = d \/ exec[d].pc # "idle" \/ HasJob(d)
Wedged == \E d \in InFlightRows : ~Owned(d)

\* Whoever holds the in-flight slot is going to release it: the row has a job,
\* or a call is working on it.
SlotAlwaysOwned == crashes = 0 /\ dbErrors = 0 => ~Wedged

\* A superseded deployment is always being watched: some drain job will look at
\* it, or the cutover that demoted it has yet to schedule one.
DrainWatched ==
  NoFault =>
    \A d \in Dep :
      row[d].status = "draining" =>
        \/ \E j \in queued \cup running : j.kind = "drain" /\ j.dep = d
        \/ \E x \in Dep : d \in exec[x].sup

\* One live deployment per environment.
SingleLive == Cardinality(Live) <= 1

\* A deployment serves, or a cutover is about to promote its replacement.
Serving == Live # {} \/ \E d \in Dep : exec[d].pc = "demote" /\ exec[d].sup # {}

\* Failing, retried and concurrent deploys never leave an environment that was
\* serving without a serving deployment.
ServingContinuous == [][NoFault' /\ Serving => Serving']_vars

\* The environment as its slot and its service: the specification of what a
\* deploy may do to them, through retries, requests and faults.
Holder == IF InFlightRows = {} THEN NoDep ELSE Newest(InFlightRows)
Service == IF Live # {} THEN "up" ELSE IF Serving THEN "handover" ELSE "none"
Slot == INSTANCE EnvironmentSlot WITH Deployment <- Dep, None <- NoDep,
          slot <- Holder, service <- Service, calm <- NoFault
KeepsSlot == Slot!SlotSpec

\* A drain fails a run only from a tick whose deadline has passed: the run gate
\* closed when the row left live, so no run can start after the tick counted.
\* Excepted is a deployment that a request put back in service between the
\* drain's MarkStopped and its ReapRuns: its row is not stopped any more, or its
\* container is gone again.
InterruptedOnlyAfterDeadline ==
  [][\A r \in Run : (run'[r] # run[r] /\ run'[r][1] = "interrupted") =>
        \/ crashes + dbErrors > 0 \/ lane.job.late
        \/ /\ Request # {}
           /\ \/ infraErrors > 0 \/ row[Subject].status # "stopped"
              \/ box[Subject] = "absent"]_vars

\* A draining deployment is put back in service only by deploying it again: no
\* wake, refresh or boot sweep working from an older listing does it.
NoResurrection ==
  [][\A d \in Dep : row[d].status = "draining" /\ row'[d].status = "live"
                      => exec[d].pc = "demote"]_vars

\* A restart loses no deploy: while a row is in flight its job stays in the
\* queue, whatever the process was doing when it died.
DeployJobKept ==
  [][\A d \in InFlightRows \cap InFlightRows' :
       HasJob(d) /\ dbErrors' = 0 => HasJob(d)']_vars

\* The revision on a live row never promises newer credentials than its
\* container was created with, while no call is rejected and nothing restarts.
\* A rejected CompleteDeploy has a served deployment's job retried: its TakeRow
\* stamps the row, and a drain's MarkStopped with a wake can then put the older
\* container into service under that revision until the retry launches.
RevisionHonest ==
  crashes = 0 /\ dbErrors = 0 => \A d \in Live : boxRev[d] >= row[d].rev

\* The boot sweep leaves no current live row without its container: nothing is
\* routed to an instance that died with the host.  The row has its URL again,
\* unless a request has claimed it meanwhile and is about to write it.
SweepRestores ==
  phase \in {"requeue", "env"} /\ dbErrors + infraErrors = 0 =>
    \A d \in CurrentRows("live") :
      /\ box[d] = "up"
      /\ row[d].url \/ \E w \in Request : req[w].pc \in {"start", "settle"} /\ Of(w) = d

\* The claims of the comments, as they stand.

\* startWorker: requeueing the running jobs frees what a restart left at
\* pending or building.
BootFreesSlots == phase = "booted" /\ dbErrors = 0 /\ crashes > 0 => ~Wedged

\* The cutover: "a failed deploy never takes anything down".  A deployRelease
\* that records its deployment as failed leaves the environment serving if it
\* was about to supersede a live deployment.
NeverTakenDown ==
  [][\A d \in Dep : At(d, "fail") /\ exec'[d].pc = "failed" /\ exec[d].sup # {}
                      => Live' # {}]_vars

---------------------------------------------------------------------------
\* Liveness.

\* A deployment that has a job leaves pending and building.
DeploysSettle ==
  \A d \in Dep :
    (d \in InFlightRows /\ HasJob(d)) ~> (d \notin InFlightRows \/ dbErrors > 0)

\* A drain ends once its runs do, or at its deadline.
DrainsEnd ==
  \A d \in Dep :
    (row[d].status = "draining") ~>
      (row[d].status # "draining" \/ dbErrors + infraErrors + crashes > 0)

\* A live deployment behind the desired revision is replaced, or replacing it
\* failed as often as the reconciliation tolerates.
Behind == Live # {} /\ boxRev[LiveRow] < envRev
EnvConverges ==
  Behind ~> \/ ~Behind \/ Stalled(envRev)
            \/ dbErrors > 0 \/ Wedged
            \/ \E d \in Dep : row[d].status = "deleted"
=============================================================================
