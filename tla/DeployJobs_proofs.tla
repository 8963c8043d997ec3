---------------------------- MODULE DeployJobs_proofs ----------------------------
(***************************************************************************)
(* The types of an environment's state (TypeCorrect), and what ties the    *)
(* deploy jobs of the queue to the calls that work on their rows, so that  *)
(* no restart loses one (JobsNotLost).  Restarts, rejected calls and       *)
(* container faults are all allowed.                                       *)
(***************************************************************************)
EXTENDS DeployEnvironment_proofs, WellFoundedInduction

\* The parts of TypeOK.
RowsTyped == envRev \in Rev /\ row \in [Dep -> Row]
BoxesTyped == box \in [Dep -> {"absent", "up", "down"}] /\ boxRev \in [Dep -> Rev]
JobsTyped == /\ queued \in SUBSET Job /\ running \in SUBSET Job
             /\ queueing \in SUBSET Dep /\ bumped \in BOOLEAN
FaultsTyped == /\ crashes \in 0 .. MaxCrash /\ dbErrors \in 0 .. MaxDbError
               /\ infraErrors \in 0 .. MaxInfraError

DeployOf(j, d) == j.kind = "deploy" /\ j.dep = d

\* A call the worker runs has its job among the running ones, and the worker
\* runs none before the end of the boot chain.
Backed ==
  /\ \A d \in Dep : exec[d].pc # "idle" /\ exec[d].by = "job" =>
       phase = "booted" /\ \E j \in running : DeployOf(j, d)
  /\ lane.job.kind # "deploy"
  /\ req[Boot].pc # "idle" => phase = "sweep"

TypeInv ==
  /\ RowsTyped /\ BoxesTyped /\ JobsTyped /\ FaultsTyped
  /\ exec \in [Dep -> Exec] /\ lane \in Lane /\ req \in [Actor -> Req]
  /\ run \in [Run -> RunState] /\ phase \in Phase
  /\ Backed

---------------------------------------------------------------------------
(* The values steps write.                                                 *)

LEMMA NewestIn ==
  ASSUME NEW S \in SUBSET Dep, S # {}
  PROVE  Newest(S) \in S
<1>1. MaxDep \in Nat /\ \A d \in S : d \in Nat /\ d <= MaxDep
  BY StateAssumption DEF Dep
<1> DEFINE T == {MaxDep - d : d \in S}
<1>2. T \subseteq Nat /\ T # {}
  BY <1>1
<1>3. PICK t \in T : \A u \in T : <<u, t>> \notin OpToRel(<, Nat)
  BY <1>2, NatLessThanWellFounded, WFMin, Zenon
<1>4. \A u \in T : ~(u < t)
  BY <1>2, <1>3 DEF OpToRel
<1>5. PICK d \in S : t = MaxDep - d
  OBVIOUS
<1>6. ASSUME NEW x \in S PROVE x <= d
  <2>1. MaxDep - x \in T
    OBVIOUS
  <2>2. ~(MaxDep - x < MaxDep - d)
    BY <1>4, <1>5, <2>1
  <2> QED
    BY <1>1, <2>2
<1> QED
  BY <1>6 DEF Newest

LEMMA TypedValues ==
  ASSUME TypeInv
  PROVE  /\ \A d \in Dep : exec[d] \in Exec /\ row[d] \in Row
         /\ IdleExec \in Exec /\ IdleReq \in Req /\ IdleLane \in Lane /\ ReconcileJob \in Job
         /\ "job" \notin Actor /\ Boot \in Actor /\ 0 \in Rev /\ envRev \in Rev
         /\ MaxDep \in Nat /\ MaxAttempts \in Nat \ {0}
         /\ \A k \in JobKind : \A d \in 0 .. MaxDep : NewJob(k, d) \in Job
         /\ \A j \in queued \cup running : j \in Job
<1>1. MaxDep \in Nat /\ MaxAttempts \in Nat \ {0} /\ MaxRev \in Nat
      /\ "job" \notin Actor /\ Boot \in Actor
  BY StateAssumption DEF Actor
<1>2. 0 \in Rev /\ NoDep \in 0 .. MaxDep
  BY <1>1 DEF Rev, NoDep
<1>3. \A k \in JobKind : \A d \in 0 .. MaxDep : NewJob(k, d) \in Job
  BY <1>1 DEF NewJob, Job
<1>4. ReconcileJob \in Job
  BY <1>2, <1>3 DEF ReconcileJob, JobKind
<1>5. IdleExec \in Exec
  BY <1>2 DEF IdleExec, Exec, ExecPC
<1>6. IdleReq \in Req
  BY <1>2 DEF IdleReq, Req, ReqPC
<1>7. IdleLane \in Lane
  BY <1>2, <1>4 DEF IdleLane, Lane, LanePC
<1> QED
  BY <1>1, <1>2, <1>3, <1>4, <1>5, <1>6, <1>7 DEF TypeInv, RowsTyped, JobsTyped

LEMMA FaultTyped ==
  ASSUME FaultsTyped, crashes' = crashes,
         DbError \/ dbErrors' = dbErrors, InfraError \/ infraErrors' = infraErrors
  PROVE  FaultsTyped'
BY StateAssumption DEF FaultsTyped, DbError, InfraError

LEMMA JobsSucceed ==
  ASSUME NEW j \in Job
  PROVE  /\ Claimed(j) \in Job /\ Claimed(j).kind = j.kind /\ Claimed(j).dep = j.dep
         /\ Refailed(j) \in SUBSET Job
         /\ [j EXCEPT !.late = TRUE] \in Job
         /\ [j EXCEPT !.late = TRUE].kind = j.kind /\ [j EXCEPT !.late = TRUE].dep = j.dep
<1>1. MaxAttempts \in Nat /\ j.attempts \in 0 .. MaxAttempts
  BY StateAssumption DEF Job
<1>2. IF j.attempts < MaxAttempts THEN j.attempts + 1 \in 0 .. MaxAttempts
                                  ELSE j.attempts \in 0 .. MaxAttempts
  BY <1>1
<1> QED
  BY <1>1, <1>2 DEF Claimed, Refailed, Job

\* The job of a call the worker runs.
LEMMA HasDeployJob ==
  ASSUME TypeInv, NEW d \in Dep, exec[d].pc # "idle", exec[d].by = "job"
  PROVE  DeployJob(d) \in running /\ DeployOf(DeployJob(d), d) /\ DeployJob(d) \in Job
<1>1. \E j \in running : j.kind = "deploy" /\ j.dep = d
  BY DEF TypeInv, Backed, DeployOf
<1>2. DeployJob(d) \in running /\ DeployJob(d).kind = "deploy" /\ DeployJob(d).dep = d
  BY <1>1 DEF DeployJob
<1> QED
  BY <1>2 DEF TypeInv, JobsTyped, DeployOf

\* A statement against the table keeps its type.
LEMMA RowTyped ==
  ASSUME RowsTyped, NEW d, NEW r, d \in Dep => r \in Row, envRev' = envRev,
         row' = [row EXCEPT ![d] = r] \/ row' = Update(d, r) \/ UNCHANGED row
  PROVE  RowsTyped'
BY DEF RowsTyped, Update

---------------------------------------------------------------------------
(* deployRelease.                                                          *)

\* A step of a call that is under way.
LEMMA CallTyped ==
  ASSUME TypeInv, NEW d \in Dep, NEW q \in Exec, exec' = [exec EXCEPT ![d] = q],
         q.by = exec[d].by, exec[d].pc # "idle",
         UNCHANGED <<running, queueing, bumped, lane, req, run, phase>>, queued' \in SUBSET Job,
         RowsTyped', BoxesTyped', FaultsTyped'
  PROVE  TypeInv'
<1>1. exec' \in [Dep -> Exec]
  BY DEF TypeInv
<1>2. \A x \in Dep : exec'[x].pc # "idle" => exec[x].pc # "idle" /\ exec'[x].by = exec[x].by
  BY DEF TypeInv
<1>3. Backed'
  BY <1>2 DEF TypeInv, Backed
<1>4. JobsTyped'
  BY DEF TypeInv, JobsTyped
<1> QED
  BY <1>1, <1>3, <1>4 DEF TypeInv

\* The end of a call the worker runs; the other calls keep their jobs.
LEMMA CallEndTyped ==
  ASSUME TypeInv, NEW d \in Dep, exec[d].pc # "idle", exec[d].by = "job", Settled(d),
         running' \in {running, running \ {DeployJob(d)}}, queued' \in SUBSET Job,
         UNCHANGED <<rowVars, boxVars, queueing, bumped, lane, req, run, phase>>, FaultsTyped'
  PROVE  TypeInv'
<1>1. exec' \in [Dep -> Exec] /\ exec'[d].pc = "idle"
      /\ \A x \in Dep \ {d} : exec'[x] = exec[x]
  BY TypedValues DEF TypeInv, Settled, IdleExec
<1>2. DeployOf(DeployJob(d), d)
  BY HasDeployJob
<1>3. ASSUME NEW x \in Dep, exec'[x].pc # "idle", exec'[x].by = "job"
      PROVE  phase = "booted" /\ \E j \in running' : DeployOf(j, x)
  <2>1. x # d /\ exec[x].pc # "idle" /\ exec[x].by = "job"
    BY <1>1, <1>3
  <2>2. PICK j \in running : DeployOf(j, x) /\ phase = "booted"
    BY <2>1 DEF TypeInv, Backed
  <2>3. j # DeployJob(d)
    BY <1>2, <2>1, <2>2 DEF DeployOf
  <2> QED
    BY <2>2, <2>3
<1>4. Backed'
  BY <1>3 DEF TypeInv, Backed
<1>5. JobsTyped' /\ RowsTyped' /\ BoxesTyped'
  BY DEF TypeInv, JobsTyped, RowsTyped, BoxesTyped, rowVars, boxVars
<1> QED
  BY <1>1, <1>4, <1>5 DEF TypeInv

LEMMA StopTyped ==
  ASSUME BoxesTyped, NEW d, StopDeploymentInfra(d) \/ StopDeploymentInfraThrows(d)
  PROVE  BoxesTyped' /\ (InfraError \/ infraErrors' = infraErrors)
BY DEF BoxesTyped, StopDeploymentInfra, StopDeploymentInfraThrows, boxVars

LEMMA ExecuteTyped ==
  ASSUME TypeInv, NEW d \in Dep, Execute(d)
  PROVE  TypeInv'
<1>1. /\ exec \in [Dep -> Exec] /\ exec[d] \in Exec /\ envRev \in Rev /\ 0 \in Rev
      /\ RowsTyped /\ BoxesTyped /\ JobsTyped /\ FaultsTyped /\ row[d] \in Row
      /\ queued \in SUBSET Job /\ running \in SUBSET Job
  BY TypedValues DEF TypeInv, JobsTyped
<1> DEFINE Call(q) == /\ q \in Exec /\ q.by = exec[d].by
                      /\ exec' = [exec EXCEPT ![d] = q]
           Table == RowsTyped' /\ BoxesTyped' /\ FaultsTyped'
           Rest == UNCHANGED <<running, queueing, bumped, lane, req, run, phase>>
<1>2. ASSUME exec[d].pc # "idle", Table, Rest, queued' \in SUBSET Job, NEW q, Call(q)
      PROVE  TypeInv'
  BY <1>2, CallTyped
<1>3. ASSUME NEW pc \in ExecPC
      PROVE  Goto(d, pc) => Call([exec[d] EXCEPT !.pc = pc])
  BY <1>1 DEF Goto, Exec, ExecPC
<1>4. ExecStep /\ UNCHANGED row => RowsTyped' /\ Rest /\ queued' \in SUBSET Job
  BY <1>1 DEF ExecStep, RowsTyped, jobVars
<1>5. ExecStep /\ UNCHANGED <<row, boxVars, dbErrors, infraErrors>> => Table
  BY <1>1, <1>4, FaultTyped DEF ExecStep, BoxesTyped, boxVars
<1>6. ExecStep /\ UNCHANGED <<row, boxVars, infraErrors>> /\ DbError => Table
  BY <1>1, <1>4, FaultTyped DEF ExecStep, BoxesTyped, boxVars
<1>7. ExecStep => UNCHANGED <<envRev, crashes>> /\ Rest /\ queued' \in SUBSET Job
  BY <1>1 DEF ExecStep, jobVars
<1>8. ASSUME ExecStep, UNCHANGED <<boxVars, dbErrors, infraErrors>>, RowsTyped'
      PROVE  Table
  BY <1>1, <1>7, <1>8, FaultTyped DEF BoxesTyped, boxVars
<1>9. CASE BeginDeploy(d)
  <2>1. PICK j \in queued : /\ j.kind = "deploy" /\ j.dep = d
                            /\ queued' = queued \ {j}
                            /\ running' = running \cup {Claimed(j)}
    BY <1>9 DEF BeginDeploy
  <2>2. Claimed(j) \in Job /\ DeployOf(Claimed(j), d)
    BY <1>1, <2>1, JobsSucceed DEF DeployOf
  <2>3. exec' = [exec EXCEPT ![d] = [exec[d] EXCEPT !.pc = "env"]]
        /\ [exec[d] EXCEPT !.pc = "env"] \in Exec
    BY <1>1, <1>9 DEF BeginDeploy, Goto, Exec, ExecPC
  <2>4. /\ UNCHANGED <<envRev, row, box, boxRev, queueing, bumped, lane, req, run, phase>>
        /\ UNCHANGED <<crashes, dbErrors, infraErrors>> /\ phase = "booted"
    BY <1>9 DEF BeginDeploy, rowVars, boxVars, faultVars
  <2>5. exec' \in [Dep -> Exec]
    BY <1>1, <2>3
  <2>6. Backed'
    <3>1. ASSUME NEW x \in Dep, exec'[x].pc # "idle", exec'[x].by = "job"
          PROVE  \E i \in running' : DeployOf(i, x)
      <4>1. CASE x = d
        BY <2>1, <2>2, <4>1
      <4>2. CASE x # d
        <5>1. exec'[x] = exec[x]
          BY <1>1, <2>3, <4>2
        <5>2. PICK i \in running : DeployOf(i, x)
          BY <3>1, <5>1 DEF TypeInv, Backed
        <5> QED
          BY <2>1, <5>2
      <4> QED
        BY <4>1, <4>2
    <3> QED
      BY <2>4, <3>1 DEF TypeInv, Backed
  <2>7. JobsTyped' /\ RowsTyped' /\ BoxesTyped' /\ FaultsTyped'
    BY <1>1, <2>1, <2>2, <2>4 DEF JobsTyped, RowsTyped, BoxesTyped, FaultsTyped
  <2> QED
    BY <2>4, <2>5, <2>6, <2>7 DEF TypeInv
<1>10. CASE ReadEnv(d) \/ ResolveEnv(d) \/ ReadSiblings(d) \/ Audit(d)
  <2> DEFINE q1 == [exec[d] EXCEPT !.pc = "take", !.rev = envRev]
             q2 == [exec[d] EXCEPT !.pc = "launch", !.rev = envRev]
             q3 == [exec[d] EXCEPT !.pc = "demote", !.todo = Live \ {d}, !.sup = Live \ {d}]
             q4 == [exec[d] EXCEPT !.pc = "schedule", !.todo = exec[d].sup]
  <2>1. /\ ReadEnv(d) => Call(q1)
        /\ ResolveEnv(d) => Call(q2)
    BY <1>1 DEF ReadEnv, ResolveEnv, Exec, ExecPC
  <2>2. /\ ReadSiblings(d) => Call(q3)
        /\ Audit(d) => Call(q4)
    BY <1>1 DEF ReadSiblings, Audit, Exec, ExecPC, Live
  <2>3. ExecStep /\ UNCHANGED <<row, boxVars, dbErrors, infraErrors>> /\ exec[d].pc # "idle"
    BY <1>10 DEF ReadEnv, ResolveEnv, ReadSiblings, Audit, At
  <2> HIDE DEF Call, Table, Rest, q1, q2, q3, q4
  <2> QED
    BY <1>2, <1>5, <1>7, <1>10, <2>1, <2>2, <2>3
<1> DEFINE taken == [row[d] EXCEPT !.status = "building", !.weighted = TRUE,
                                 !.rev = exec[d].rev]
<1>21. ASSUME ExecStep, row' = Taken(d) PROVE RowsTyped'
  <2>1. taken \in Row
    BY <1>1 DEF Row, RowStatus, InFlight, Exec
  <2>2. row' = [row EXCEPT ![d] = taken] /\ envRev' = envRev
    BY <1>1, <1>21 DEF Taken, ExecStep, RowsTyped
  <2> QED
    BY <1>1, <2>1, <2>2, RowTyped
<1>22. CASE TakeRowError(d)
  <2>1. /\ exec[d].pc # "idle" /\ ExecStep /\ UNCHANGED <<boxVars, infraErrors>> /\ DbError
        /\ UNCHANGED row \/ row' = Taken(d)
    BY <1>22 DEF TakeRowError, At
  <2>2. Call([exec[d] EXCEPT !.pc = "threw"])
    BY <1>3, <1>22 DEF TakeRowError, ExecPC
  <2>3. RowsTyped'
    BY <1>4, <1>21, <2>1
  <2>4. Table
    BY <1>1, <1>7, <2>1, <2>3, FaultTyped DEF BoxesTyped, boxVars
  <2> HIDE DEF Call, Table, Rest
  <2> QED
    BY <1>2, <1>7, <2>1, <2>2, <2>4
<1>11. CASE TakeRow(d) \/ TakeRowThrows(d)
  <2>1. exec[d].pc # "idle" /\ ExecStep /\ UNCHANGED <<boxVars, dbErrors, infraErrors>>
    BY <1>11 DEF TakeRow, TakeRowThrows, At
  <2>2. Call([exec[d] EXCEPT !.pc = "resolve"]) \/ Call([exec[d] EXCEPT !.pc = "threw"])
    BY <1>3, <1>11 DEF TakeRow, TakeRowThrows, ExecPC
  <2>3. RowsTyped'
    <3>1. CASE TakeRow(d)
      BY <1>21, <2>1, <3>1 DEF TakeRow
    <3>2. CASE TakeRowThrows(d)
      BY <1>4, <2>1, <3>2 DEF TakeRowThrows
    <3> QED
      BY <1>11, <3>1, <3>2
  <2> HIDE DEF Call, Table, Rest
  <2> QED
    BY <1>2, <1>7, <1>8, <2>1, <2>2, <2>3
<1>12. CASE LaunchLive(d) \/ LaunchFails(d)
  <2>1. exec[d].pc # "idle" /\ ExecStep /\ UNCHANGED <<row, dbErrors, infraErrors>>
    BY <1>12 DEF LaunchLive, LaunchFails, At
  <2>2. BoxesTyped'
    <3>1. exec[d].rev \in Rev /\ box[d] \in {"absent", "up", "down"}
      BY <1>1 DEF Exec, BoxesTyped
    <3>2. LaunchLive(d) => BoxesTyped'
      BY <1>1, <3>1 DEF LaunchLive, BoxesTyped
    <3>3. LaunchFails(d) => BoxesTyped'
      BY <1>1, <3>1 DEF LaunchFails, BoxesTyped
    <3> QED
      BY <1>12, <3>2, <3>3
  <2>3. LaunchLive(d) => Call([exec[d] EXCEPT !.pc = "siblings", !.rev = 0])
    BY <1>1 DEF LaunchLive, Exec, ExecPC
  <2>4. LaunchFails(d) => Call([exec[d] EXCEPT !.pc = "abort", !.rev = 0])
    BY <1>1 DEF LaunchFails, Exec, ExecPC
  <2>5. Table
    BY <1>1, <1>4, <1>7, <2>1, <2>2, FaultTyped
  <2> HIDE DEF Call, Table, Rest
  <2> QED
    BY <1>2, <1>7, <1>12, <2>1, <2>3, <2>4, <2>5
<1>13. CASE Demote(d) \/ DemoteError(d)
  <2>1. exec[d].pc # "idle" /\ ExecStep /\ UNCHANGED <<boxVars, infraErrors>>
        /\ (DbError \/ UNCHANGED dbErrors)
    BY <1>13 DEF Demote, DemoteError, At
  <2>2. \A x \in Dep : Draining(x) \in Row
    BY <1>1 DEF Draining, RowsTyped, Row, RowStatus
  <2>3. RowsTyped'
    <3>1. CASE Demote(d)
      <4>1. PICK x : row' = Update(x, Draining(x))
        BY <3>1 DEF Demote
      <4> QED
        BY <1>1, <2>1, <2>2, <4>1, RowTyped DEF ExecStep
    <3>2. CASE DemoteError(d)
      BY <1>1, <2>1, <2>2, <3>2 DEF DemoteError, RowsTyped, ExecStep
    <3> QED
      BY <1>13, <3>1, <3>2
  <2>4. \E q : Call(q)
    <3>1. CASE Demote(d)
      <4>1. PICK x : exec' = [exec EXCEPT ![d].todo = @ \ {x}]
        BY <3>1 DEF Demote
      <4>2. Call([exec[d] EXCEPT !.todo = @ \ {x}])
        BY <1>1, <4>1 DEF Exec
      <4> QED
        BY <4>2
    <3>2. CASE DemoteError(d)
      <4>1. Call([exec[d] EXCEPT !.pc = "abort"])
        BY <1>3, <3>2 DEF DemoteError, ExecPC
      <4> QED
        BY <4>1
    <3> QED
      BY <1>13, <3>1, <3>2
  <2>5. Table
    BY <1>1, <1>7, <2>1, <2>3, FaultTyped DEF BoxesTyped, boxVars
  <2> HIDE DEF Call, Table, Rest
  <2> QED
    BY <1>2, <1>7, <2>1, <2>4, <2>5
<1>14. CASE Promote(d) \/ FailRow(d)
  <2>1. exec[d].pc # "idle" /\ ExecStep /\ UNCHANGED <<boxVars, dbErrors, infraErrors>>
    BY <1>14 DEF Promote, FailRow, At
  <2>2. [row[d] EXCEPT !.status = "live", !.url = TRUE] \in Row
        /\ [row[d] EXCEPT !.status = "failed"] \in Row
    BY <1>1 DEF Row, RowStatus
  <2>3. RowsTyped'
    BY <1>1, <1>14, <2>1, <2>2, RowTyped DEF Promote, FailRow, ExecStep
  <2>4. Call([exec[d] EXCEPT !.pc = "audit"]) \/ Call([exec[d] EXCEPT !.pc = "failed"])
    BY <1>3, <1>14 DEF Promote, FailRow, ExecPC
  <2> HIDE DEF Call, Table, Rest
  <2> QED
    BY <1>2, <1>7, <1>8, <2>1, <2>3, <2>4
<1>15. CASE PromoteError(d) \/ AuditError(d) \/ FailRowError(d)
  <2>1. exec[d].pc # "idle" /\ ExecStep /\ UNCHANGED <<row, boxVars, infraErrors>> /\ DbError
    BY <1>15 DEF PromoteError, AuditError, FailRowError, At
  <2>2. Call([exec[d] EXCEPT !.pc = "threw"])
        \/ Call([exec[d] EXCEPT !.pc = "abort"])
    BY <1>3, <1>15 DEF PromoteError, AuditError, FailRowError, ExecPC
  <2> HIDE DEF Call, Table, Rest
  <2> QED
    BY <1>2, <1>6, <1>7, <2>1, <2>2
<1>16. CASE ScheduleDrain(d)
  <2>1. PICK x \in exec[d].todo :
          /\ exec' = [exec EXCEPT ![d].todo = @ \ {x}]
          /\ \/ queued' = queued \cup {NewJob("drain", x)} /\ UNCHANGED dbErrors
             \/ DbError /\ UNCHANGED queued
    BY <1>16 DEF ScheduleDrain
  <2>2. /\ exec[d].pc # "idle" /\ Rest /\ UNCHANGED <<crashes, infraErrors>>
        /\ UNCHANGED <<envRev, row, box, boxRev>>
    BY <1>16 DEF ScheduleDrain, At, rowVars, boxVars
  <2>3. x \in Dep /\ x \in 0 .. MaxDep
    BY <1>1, <2>1, TypedValues DEF Exec, Dep
  <2>4. queued' \in SUBSET Job
    <3>1. NewJob("drain", x) \in Job
      BY <2>3, TypedValues DEF JobKind
    <3> QED
      BY <1>1, <2>1, <3>1
  <2>5. Call([exec[d] EXCEPT !.todo = @ \ {x}])
    BY <1>1, <2>1 DEF Exec
  <2>6. FaultsTyped'
    BY <1>1, <2>1, <2>2, FaultTyped
  <2>7. RowsTyped' /\ BoxesTyped'
    BY <1>1, <2>2 DEF RowsTyped, BoxesTyped
  <2> HIDE DEF Call, Rest
  <2> QED
    BY <1>2, <2>2, <2>4, <2>5, <2>6, <2>7
<1>17. CASE Finish(d)
  <2>1. exec[d].pc # "idle" /\ ExecStep /\ UNCHANGED <<row, boxVars, dbErrors, infraErrors>>
        /\ Call([exec[d] EXCEPT !.pc = "ok"])
    BY <1>3, <1>17 DEF Finish, At, ExecPC
  <2> HIDE DEF Call, Table, Rest
  <2> QED
    BY <1>2, <1>5, <1>7, <2>1
<1>18. CASE AbortInfra(d)
  <2>1. exec[d].pc # "idle" /\ ExecStep /\ UNCHANGED <<row, dbErrors>>
        /\ Call([exec[d] EXCEPT !.pc = "fail"])
    BY <1>3, <1>18 DEF AbortInfra, At, ExecPC
  <2>2. BoxesTyped' /\ FaultsTyped'
    BY <1>1, <1>7, <1>18, <2>1, StopTyped, FaultTyped DEF AbortInfra
  <2> HIDE DEF Call, Rest
  <2> QED
    BY <1>2, <1>4, <1>7, <2>1, <2>2
<1>19. CASE CompleteDeployError(d) \/ DeployFailed(d)
  <2>1. exec[d].pc # "idle" /\ JobStep /\ UNCHANGED running /\ Call([exec[d] EXCEPT !.pc = "threw"])
        /\ (DbError \/ UNCHANGED dbErrors)
    BY <1>3, <1>19 DEF CompleteDeployError, DeployFailed, At, ExecPC
  <2>2. queued' \in SUBSET Job
    BY <1>1, <1>19, TypedValues DEF CompleteDeployError, DeployFailed
  <2>3. Rest /\ Table
    BY <1>1, <2>1, FaultTyped DEF JobStep, RowsTyped, BoxesTyped, rowVars, boxVars
  <2> HIDE DEF Call, Table, Rest
  <2> QED
    BY <1>2, <2>1, <2>2, <2>3
<1>20. CASE CompleteDeploy(d) \/ RetryDeploy(d) \/ RetryDeployError(d)
  <2>1. /\ exec[d].pc # "idle" /\ exec[d].by = "job" /\ Settled(d) /\ JobStep
        /\ running' \in {running, running \ {DeployJob(d)}}
        /\ (DbError \/ UNCHANGED dbErrors)
    BY <1>20 DEF CompleteDeploy, RetryDeploy, RetryDeployError, At
  <2>2. queued' \in SUBSET Job
    <3>1. Refailed(DeployJob(d)) \in SUBSET Job
      BY <2>1, HasDeployJob, JobsSucceed
    <3> QED
      BY <1>1, <1>20, <3>1 DEF CompleteDeploy, RetryDeploy, RetryDeployError
  <2>3. FaultsTyped'
    BY <1>1, <2>1, FaultTyped DEF JobStep
  <2> QED
    BY <2>1, <2>2, <2>3, CallEndTyped DEF JobStep
<1> QED
  BY <1>9, <1>10, <1>11, <1>12, <1>13, <1>14, <1>15, <1>16, <1>17, <1>18, <1>19, <1>20,
     <1>22 DEF Execute

\* The insert of a pending or building row.
LEMMA InsertTyped ==
  ASSUME RowsTyped, NEW d \in Dep, NEW status \in InFlight, NEW rev \in Rev,
         InsertRow(d, status, rev), envRev' = envRev
  PROVE  RowsTyped'
<1>1. [status |-> status, weighted |-> TRUE, url |-> FALSE, rev |-> rev] \in Row
  BY DEF Row, RowStatus
<1> QED
  BY <1>1, RowTyped DEF InsertRow

\* A step that lets every call go on with its job, at the same phase of the boot.
LEMMA QueueTyped ==
  ASSUME TypeInv, queued' \in SUBSET Job, running' \in SUBSET Job, queueing' \in SUBSET Dep,
         bumped' \in BOOLEAN, \A j \in running : j.kind = "deploy" => j \in running',
         exec' = exec, lane' \in Lane, lane'.job.kind # "deploy",
         req' = req, run' \in [Run -> RunState],
         phase' = phase \/ (phase = "env" /\ phase' = "booted"),
         RowsTyped', BoxesTyped', FaultsTyped'
  PROVE  TypeInv'
<1>1. Backed'
  BY DEF TypeInv, Backed, DeployOf
<1>2. JobsTyped' /\ phase' \in Phase
  BY DEF TypeInv, JobsTyped, Phase
<1> QED
  BY <1>1, <1>2 DEF TypeInv

LEMMA ControllerTyped ==
  ASSUME TypeInv, ControllerNext
  PROVE  TypeInv'
<1>1. /\ RowsTyped /\ BoxesTyped /\ FaultsTyped /\ lane \in Lane /\ lane.job.kind # "deploy"
      /\ queued \in SUBSET Job /\ running \in SUBSET Job /\ queueing \in SUBSET Dep
      /\ bumped \in BOOLEAN /\ run \in [Run -> RunState] /\ 0 \in Rev
  BY TypedValues DEF TypeInv, JobsTyped, Backed
<1>2. CASE DeleteFailed
  <2>1. [NoRow EXCEPT !.status = "deleted"] \in Row
    BY <1>1 DEF NoRow, Row, RowStatus
  <2>2. RowsTyped' /\ BoxesTyped' /\ FaultsTyped'
    BY <1>1, <1>2, <2>1 DEF DeleteFailed, RowsTyped, BoxesTyped, FaultsTyped, boxVars, faultVars
  <2> QED
    BY <1>1, <1>2, <2>2, QueueTyped DEF DeleteFailed, jobVars, actorVars
<1>3. ASSUME NEW d \in Dep, QueueDeploy(d) PROVE TypeInv'
  <2>1. RowsTyped'
    BY <1>1, <1>3, InsertTyped DEF QueueDeploy, InFlight
  <2>2. BoxesTyped' /\ FaultsTyped'
    BY <1>1, <1>3 DEF QueueDeploy, BoxesTyped, FaultsTyped, boxVars, faultVars
  <2> QED
    BY <1>1, <1>3, <2>1, <2>2, QueueTyped DEF QueueDeploy, actorVars
<1>4. ASSUME NEW d \in Dep, EnqueueDeploy(d) \/ EnqueueDeployError(d) PROVE TypeInv'
  <2>1. NewJob("deploy", d) \in Job
    BY TypedValues DEF JobKind, Dep
  <2>2. queued' \in SUBSET Job /\ queueing' \in SUBSET Dep
    BY <1>1, <1>4, <2>1 DEF EnqueueDeploy, EnqueueDeployError
  <2>3. UNCHANGED <<envRev, row, box, boxRev, running, bumped, exec, lane, req, run, phase>>
    BY <1>4 DEF EnqueueDeploy, EnqueueDeployError, rowVars, boxVars, actorVars
  <2>4. crashes' = crashes /\ (DbError \/ UNCHANGED dbErrors) /\ UNCHANGED infraErrors
    BY <1>4 DEF EnqueueDeploy, EnqueueDeployError, faultVars
  <2>5. RowsTyped' /\ BoxesTyped' /\ FaultsTyped'
    BY <1>1, <2>3, <2>4, FaultTyped DEF RowsTyped, BoxesTyped
  <2> QED
    BY <1>1, <2>2, <2>3, <2>5, QueueTyped
<1> QED
  BY <1>2, <1>3, <1>4, ExecuteTyped DEF ControllerNext

---------------------------------------------------------------------------
(* The inline jobs.                                                        *)

LEMMA LaneTyped ==
  ASSUME TypeInv, LaneNext
  PROVE  TypeInv'
<1>1. /\ RowsTyped /\ BoxesTyped /\ FaultsTyped /\ lane \in Lane /\ lane.job.kind # "deploy"
      /\ queued \in SUBSET Job /\ running \in SUBSET Job /\ queueing \in SUBSET Dep
      /\ bumped \in BOOLEAN /\ run \in [Run -> RunState] /\ 0 \in Rev /\ envRev \in Rev
      /\ IdleLane \in Lane /\ IdleLane.job.kind # "deploy"
      /\ \A k \in JobKind : \A d \in 0 .. MaxDep : NewJob(k, d) \in Job
      /\ ReconcileJob \in Job /\ Subject \in 0 .. MaxDep
      /\ lane.job \in Job /\ lane.dep \in 0 .. MaxDep
  BY TypedValues DEF TypeInv, JobsTyped, Backed, IdleLane, ReconcileJob, NewJob, Lane, Job,
                     Subject
<1> DEFINE To(l) == lane' = l /\ l \in Lane /\ l.job.kind # "deploy"
           Same == UNCHANGED <<queueing, bumped, exec, req>>
           Table == RowsTyped' /\ BoxesTyped' /\ FaultsTyped'
           Jobs == /\ queued' \in SUBSET Job /\ running' \in SUBSET Job
                   /\ \A j \in running : j.kind = "deploy" => j \in running'
           Onward == phase' = phase \/ (phase = "env" /\ phase' = "booted")
<1>2. ASSUME NEW l, To(l), Same, Table, Jobs, Onward, run' \in [Run -> RunState]
      PROVE  TypeInv'
  BY <1>1, <1>2, QueueTyped
<1>3. ASSUME NEW pc \in LanePC, LaneTo(pc) PROVE To([lane EXCEPT !.pc = pc])
  BY <1>1, <1>3 DEF LaneTo, Lane
<1>4. ASSUME UNCHANGED <<rowVars, boxVars, crashes>>,
             DbError \/ UNCHANGED dbErrors, InfraError \/ UNCHANGED infraErrors
      PROVE  Table
  BY <1>1, <1>4, FaultTyped DEF RowsTyped, BoxesTyped, rowVars, boxVars
<1>5. ASSUME LaneStep PROVE Same /\ Table /\ Jobs /\ Onward /\ run' \in [Run -> RunState]
  <2>1. UNCHANGED <<rowVars, boxVars, crashes, dbErrors, infraErrors>>
    BY <1>5 DEF LaneStep, rowVars, faultVars
  <2>2. Table
    BY <1>4, <2>1
  <2> QED
    BY <1>1, <1>5, <2>2 DEF LaneStep, jobVars
<1>6. CASE ClaimInline
  <2>1. PICK j \in queued :
          /\ j.kind # "deploy"
          /\ queued' = queued \ {j} /\ running' = running \cup {Claimed(j)}
          /\ lane' = [IdleLane EXCEPT !.pc = FirstStep[j.kind], !.job = Claimed(j)]
    BY <1>6 DEF ClaimInline
  <2>2. Claimed(j) \in Job /\ Claimed(j).kind # "deploy"
    BY <1>1, <2>1, JobsSucceed
  <2>3. FirstStep[j.kind] \in LanePC
    <3>1. j.kind \in {"drain", "cleanup", "reconcile"}
      BY <1>1, <2>1 DEF Job, JobKind
    <3> QED
      BY <3>1 DEF FirstStep, LanePC
  <2>4. To([IdleLane EXCEPT !.pc = FirstStep[j.kind], !.job = Claimed(j)])
    BY <1>1, <2>1, <2>2, <2>3 DEF Lane
  <2>5. Jobs
    BY <1>1, <2>1, <2>2
  <2>6. UNCHANGED <<rowVars, boxVars, crashes, dbErrors, infraErrors>> /\ Same /\ Onward
        /\ run' = run
    BY <1>6 DEF ClaimInline, faultVars
  <2>7. Table
    BY <1>4, <2>6
  <2> HIDE DEF To, Same, Table, Jobs, Onward
  <2> QED
    BY <1>1, <1>2, <2>4, <2>5, <2>6, <2>7
<1>7. CASE \/ ReadDrained \/ DrainOver \/ CheckCleanup \/ StartSweep
           \/ ReadRows \/ ReconcileInsertThrows
  <2>1. LaneStep /\ \E pc \in LanePC : LaneTo(pc)
    BY <1>7 DEF ReadDrained, DrainOver, CheckCleanup, StartSweep, ReadRows,
                ReconcileInsertThrows, LanePC
  <2> HIDE DEF To, Same, Table, Jobs, Onward
  <2> QED
    BY <1>2, <1>3, <1>5, <2>1
<1>8. CASE ReadDesired
  <2>1. To([lane EXCEPT !.pc = "rows", !.rev = envRev])
    BY <1>1, <1>8 DEF ReadDesired, Lane, LanePC
  <2>2. LaneStep
    BY <1>8 DEF ReadDesired
  <2> HIDE DEF To, Same, Table, Jobs, Onward
  <2> QED
    BY <1>2, <1>5, <2>1, <2>2
<1>9. CASE LaneDbError
  <2>1. /\ UNCHANGED <<rowVars, boxVars, crashes, infraErrors>> /\ DbError /\ Same /\ Onward
        /\ Jobs /\ run' = run /\ LaneTo("threw")
    BY <1>1, <1>9 DEF LaneDbError, jobVars
  <2>2. "threw" \in LanePC
    BY DEF LanePC
  <2> HIDE DEF To, Same, Table, Jobs, Onward
  <2> QED
    BY <1>1, <1>2, <1>3, <1>4, <2>1, <2>2
<1>10. CASE \/ DrainWaits \/ ScheduleCleanup \/ ReconcileLater \/ ReconcileEnqueues
  <2>1. /\ UNCHANGED <<rowVars, boxVars, running, crashes, infraErrors>>
        /\ (DbError \/ UNCHANGED dbErrors)
        /\ Same /\ Onward /\ run' = run /\ LaneTo("done")
    BY <1>10 DEF DrainWaits, ScheduleCleanup, ReconcileLater, ReconcileEnqueues, faultVars
  <2>2. Jobs
    <3>1. /\ NewJob("drain", Subject) \in Job /\ NewJob("cleanup", Subject) \in Job
          /\ NewJob("deploy", lane.dep) \in Job
      BY <1>1 DEF JobKind
    <3>2. queued' \in SUBSET Job
      BY <1>1, <1>10, <3>1 DEF DrainWaits, ScheduleCleanup, ReconcileLater, ReconcileEnqueues
    <3> QED
      BY <1>1, <2>1, <3>2
  <2>3. "done" \in LanePC
    BY DEF LanePC
  <2> HIDE DEF To, Same, Table, Jobs, Onward
  <2> QED
    BY <1>1, <1>2, <1>3, <1>4, <2>1, <2>2, <2>3
<1>11. CASE DrainStops \/ DestroyBox
  <2>1. /\ UNCHANGED <<rowVars, crashes, dbErrors>> /\ Same /\ Onward /\ Jobs /\ run' = run
        /\ \E pc \in {"mark", "threw", "done"} : LaneTo(pc)
    BY <1>1, <1>11 DEF DrainStops, DestroyBox, jobVars
  <2>2. BoxesTyped' /\ (InfraError \/ infraErrors' = infraErrors)
    <3>1. DrainStops => BoxesTyped' /\ (InfraError \/ infraErrors' = infraErrors)
      <4>1. DrainStops => StopDeploymentInfra(Subject) \/ StopDeploymentInfraThrows(Subject)
        BY DEF DrainStops
      <4> QED
        BY <1>1, <4>1, StopTyped
    <3>2. DestroyBox => BoxesTyped' /\ (InfraError \/ infraErrors' = infraErrors)
      BY <1>1 DEF DestroyBox, Destroy, BoxesTyped, boxVars
    <3> QED
      BY <1>11, <3>1, <3>2
  <2>3. Table
    BY <1>1, <2>1, <2>2, FaultTyped DEF RowsTyped, rowVars
  <2>4. {"mark", "threw", "done"} \subseteq LanePC
    BY DEF LanePC
  <2> HIDE DEF To, Same, Table, Jobs, Onward
  <2> QED
    BY <1>1, <1>2, <1>3, <2>1, <2>3, <2>4
<1>12. CASE MarkStopped
  <2>1. /\ envRev' = envRev /\ UNCHANGED <<boxVars, crashes, dbErrors, infraErrors>>
        /\ Same /\ Onward /\ Jobs /\ run' = run /\ LaneTo("reap")
    BY <1>1, <1>12 DEF MarkStopped, jobVars, faultVars
  <2>2. Subject \in Dep =>
          [row[Subject] EXCEPT !.status = "stopped", !.weighted = FALSE] \in Row
    BY <1>1 DEF RowsTyped, Row, RowStatus
  <2>3. RowsTyped'
    BY <1>1, <1>12, <2>1, <2>2, RowTyped DEF MarkStopped
  <2>4. Table
    BY <1>1, <2>1, <2>3 DEF BoxesTyped, FaultsTyped, boxVars
  <2>5. "reap" \in LanePC
    BY DEF LanePC
  <2> HIDE DEF To, Same, Table, Jobs, Onward
  <2> QED
    BY <1>1, <1>2, <1>3, <2>1, <2>4, <2>5
<1>13. CASE ReapRuns
  <2>1. /\ UNCHANGED <<rowVars, boxVars, crashes, infraErrors>>
        /\ (DbError \/ UNCHANGED dbErrors)
        /\ Same /\ Onward /\ Jobs /\ LaneTo("grace")
    BY <1>1, <1>13 DEF ReapRuns, jobVars
  <2>2. run' \in [Run -> RunState]
    <3>1. <<"interrupted", Subject>> \in RunState
      BY <1>1 DEF RunState
    <3> QED
      BY <1>1, <1>13, <3>1 DEF ReapRuns
  <2>3. "grace" \in LanePC
    BY DEF LanePC
  <2> HIDE DEF To, Same, Table, Jobs, Onward
  <2> QED
    BY <1>2, <1>3, <1>4, <2>1, <2>2, <2>3
<1>14. CASE ReconcileInserts
  <2>1. PICK d \in Dep : /\ InsertRow(d, "pending", 0)
                         /\ lane' = [lane EXCEPT !.pc = "queue", !.dep = d]
    BY <1>14 DEF ReconcileInserts
  <2>2. /\ envRev' = envRev /\ UNCHANGED <<boxVars, crashes, dbErrors, infraErrors>>
        /\ Same /\ Onward /\ Jobs /\ run' = run
    BY <1>1, <1>14 DEF ReconcileInserts, jobVars, faultVars
  <2>3. Table
    BY <1>1, <2>1, <2>2, InsertTyped DEF InFlight, BoxesTyped, FaultsTyped, boxVars
  <2>4. d \in 0 .. MaxDep
    BY StateAssumption DEF Dep
  <2>5. To([lane EXCEPT !.pc = "queue", !.dep = d])
    BY <1>1, <2>1, <2>4 DEF Lane, LanePC
  <2> HIDE DEF To, Same, Table, Jobs, Onward
  <2> QED
    BY <1>1, <1>2, <2>2, <2>3, <2>5
<1>15. CASE EndSweep
  <2>1. /\ UNCHANGED <<rowVars, boxVars, crashes, dbErrors, infraErrors>>
        /\ Same /\ Onward /\ Jobs /\ run' = run /\ To(IdleLane)
    BY <1>1, <1>15 DEF EndSweep, LaneEnds, Boots
  <2> HIDE DEF To, Same, Table, Jobs, Onward
  <2> QED
    BY <1>1, <1>2, <1>4, <2>1
<1>16. CASE CompleteInline \/ RetryInline
  <2>1. /\ UNCHANGED <<rowVars, boxVars, crashes, infraErrors>>
        /\ (DbError \/ UNCHANGED dbErrors)
        /\ Same /\ Onward /\ run' = run
    BY <1>16 DEF CompleteInline, RetryInline, LaneEnds
  <2>2. Jobs
    <3>1. Refailed(lane.job) \in SUBSET Job
      BY <1>1, JobsSucceed
    <3> QED
      BY <1>1, <1>16, <3>1 DEF CompleteInline, RetryInline
  <2>3. To(IdleLane) \/ To([lane EXCEPT !.pc = "threw"])
    BY <1>1, <1>16 DEF CompleteInline, RetryInline, LaneTo, Lane, LanePC
  <2> HIDE DEF To, Same, Table, Jobs, Onward
  <2> QED
    BY <1>1, <1>2, <1>4, <2>1, <2>2, <2>3
<1> QED
  BY <1>6, <1>7, <1>8, <1>9, <1>10, <1>11, <1>12, <1>13, <1>14, <1>15, <1>16 DEF LaneNext

---------------------------------------------------------------------------
(* Wakes, refreshes and the boot sweep.                                    *)

\* A step of a request, which runs no job.
LEMMA ReqTyped ==
  ASSUME TypeInv, NEW w \in Actor, NEW q \in Req, req' = [req EXCEPT ![w] = q],
         exec' \in [Dep -> Exec], UNCHANGED <<jobVars, lane, run>>,
         \A d \in Dep : exec'[d].pc # "idle" /\ exec'[d].by = "job" => exec'[d] = exec[d],
         phase' = phase \/ (phase # "booted" /\ phase' \in Phase),
         w = Boot /\ q.pc # "idle" => phase' = "sweep",
         w # Boot => phase' = phase,
         RowsTyped', BoxesTyped', FaultsTyped'
  PROVE  TypeInv'
<1>1. req' \in [Actor -> Req] /\ req'[w] = q /\ \A a \in Actor \ {w} : req'[a] = req[a]
  BY DEF TypeInv
<1>2. ASSUME NEW d \in Dep, exec'[d].pc # "idle", exec'[d].by = "job"
      PROVE  phase' = "booted" /\ \E j \in running' : DeployOf(j, d)
  <2>1. phase = "booted" /\ \E j \in running : DeployOf(j, d)
    BY <1>2 DEF TypeInv, Backed
  <2> QED
    BY <2>1 DEF jobVars
<1>3. Boot \in Actor
  BY TypedValues
<1>4. req'[Boot].pc # "idle" => phase' = "sweep"
  <2>1. CASE w = Boot
    BY <1>1, <2>1
  <2>2. CASE w # Boot
    BY <1>1, <1>3, <2>2 DEF TypeInv, Backed
  <2> QED
    BY <2>1, <2>2
<1>5. Backed'
  BY <1>2, <1>4 DEF TypeInv, Backed
<1>6. JobsTyped' /\ phase' \in Phase
  BY DEF TypeInv, JobsTyped, jobVars
<1> QED
  BY <1>1, <1>5, <1>6 DEF TypeInv

LEMMA StartTyped ==
  ASSUME BoxesTyped, FaultsTyped, NEW d, StartBox(d) \/ StartBoxFails(d), crashes' = crashes
  PROVE  BoxesTyped' /\ FaultsTyped'
<1>1. (DbError \/ UNCHANGED dbErrors) /\ (InfraError \/ UNCHANGED infraErrors)
  BY DEF StartBox, StartBoxFails
<1>2. BoxesTyped'
  BY DEF StartBox, StartBoxFails, BoxesTyped
<1> QED
  BY <1>1, <1>2, FaultTyped

LEMMA ServeTyped ==
  ASSUME TypeInv, NEW w \in Actor, Serve(w)
  PROVE  TypeInv'
<1>1. /\ RowsTyped /\ BoxesTyped /\ FaultsTyped /\ exec \in [Dep -> Exec] /\ req[w] \in Req
      /\ envRev \in Rev /\ 0 \in Rev /\ phase \in Phase /\ IdleExec \in Exec /\ IdleReq \in Req
      /\ NoDep \in 0 .. MaxDep /\ w # "job"
  BY TypedValues, StateAssumption DEF TypeInv, NoDep
<1> DEFINE To(q) == q \in Req /\ req' = [req EXCEPT ![w] = q]
           Table == RowsTyped' /\ BoxesTyped' /\ FaultsTyped'
           d == Of(w)
           s == Newest(req[w].stopped)
           o == req[w].stale
<1>2. ASSUME NEW q, To(q), ReqStep, Table, exec' = exec, req[w].pc # "idle"
      PROVE  TypeInv'
  <2>1. w = Boot => phase' = "sweep"
    BY <1>2 DEF ReqStep, TypeInv, Backed
  <2> QED
    BY <1>1, <1>2, <2>1, ReqTyped DEF ReqStep
<1>3. \A pc \in ReqPC : ReqTo(w, pc) => To([req[w] EXCEPT !.pc = pc])
  BY <1>1 DEF ReqTo, Req
<1>4. \A found \in BOOLEAN : Recovered(w, found) =>
        To([req[w] EXCEPT !.pc = "recover", !.todo = @ \ {d}, !.found = @ \/ found])
  <2>1. req[w] \in Req /\ "recover" \in ReqPC
    BY <1>1 DEF ReqPC
  <2>2. ASSUME NEW found \in BOOLEAN, Recovered(w, found)
        PROVE  To([req[w] EXCEPT !.pc = "recover", !.todo = @ \ {d}, !.found = @ \/ found])
    <3>1. req[w].todo \ {d} \in SUBSET Dep /\ (req[w].found \/ found) \in BOOLEAN
      BY <2>1 DEF Req
    <3> HIDE DEF d
    <3>2. [req[w] EXCEPT !.pc = "recover", !.todo = @ \ {d}, !.found = @ \/ found] \in Req
      BY <2>1, <3>1 DEF Req
    <3>3. req' = [req EXCEPT ![w] = [req[w] EXCEPT !.pc = "recover", !.todo = @ \ {d},
                                                   !.found = @ \/ found]]
      BY <2>2 DEF Recovered, d
    <3> QED
      BY <3>2, <3>3
  <2> QED
    BY <2>2
<1>5. ASSUME crashes' = crashes, envRev' = envRev, UNCHANGED <<row, boxVars>>,
             DbError \/ UNCHANGED dbErrors, InfraError \/ UNCHANGED infraErrors
      PROVE  Table
  BY <1>1, <1>5, FaultTyped DEF RowsTyped, BoxesTyped, boxVars
<1>6. ASSUME ReqStep, UNCHANGED <<boxVars, dbErrors, infraErrors>>, RowsTyped'
      PROVE  Table
  BY <1>1, <1>6, FaultTyped DEF BoxesTyped, boxVars, ReqStep
<1>7. \A x \in Dep : \A st \in {"live", "stopped"} : \A u \in BOOLEAN :
        /\ [row[x] EXCEPT !.url = u] \in Row
        /\ [row[x] EXCEPT !.status = st, !.url = u] \in Row
        /\ [row[x] EXCEPT !.weighted = FALSE] \in Row
  BY <1>1 DEF RowsTyped, Row, RowStatus
<1>8. ReqStep => envRev' = envRev /\ crashes' = crashes
  BY DEF ReqStep
<1>9. CASE Probe(w)
  <2>1. /\ ReqStep /\ UNCHANGED <<row, boxVars, exec, dbErrors>> /\ req[w].pc # "idle"
        /\ (InfraError \/ UNCHANGED infraErrors)
        /\ (Recovered(w, TRUE) \/ ReqTo(w, "claim"))
    BY <1>9 DEF Probe, ReqAt
  <2>2. "claim" \in ReqPC
    BY DEF ReqPC
  <2> HIDE DEF To, Table
  <2> QED
    BY <1>2, <1>3, <1>4, <1>5, <1>8, <2>1, <2>2
<1>10. CASE ClaimUrl(w)
  <2>1. /\ ReqStep /\ UNCHANGED <<boxVars, exec, dbErrors, infraErrors>> /\ req[w].pc # "idle"
        /\ (Recovered(w, FALSE) \/ ReqTo(w, "start"))
    BY <1>10 DEF ClaimUrl, ReqAt
  <2>2. row' = [row EXCEPT ![d].url = FALSE] \/ UNCHANGED row
    BY <1>10 DEF ClaimUrl
  <2>3. RowsTyped'
    <3> HIDE DEF d
    <3> QED
      BY ZenonT(100), <1>1, <1>7, <1>8, <2>1, <2>2 DEF RowsTyped
  <2>4. "start" \in ReqPC
    BY DEF ReqPC
  <2> HIDE DEF To, Table
  <2> QED
    BY <1>2, <1>3, <1>4, <1>6, <2>1, <2>3, <2>4
<1>11. CASE Restart(w) \/ WakeStart(w)
  <2>1. /\ ReqStep /\ UNCHANGED <<row, exec>> /\ req[w].pc # "idle"
        /\ \E x : StartBox(x) \/ StartBoxFails(x)
    BY <1>11 DEF Restart, WakeStart, ReqAt
  <2>2. Table
    BY <1>1, <1>8, <2>1, StartTyped DEF RowsTyped
  <2>3. \E q : To(q)
    <3>1. {"settle", "giveup", "promote"} \subseteq ReqPC
      BY DEF ReqPC
    <3>2. CASE \E pc \in ReqPC : ReqTo(w, pc)
      BY <1>3, <3>2
    <3>3. CASE req' = [req EXCEPT ![w].stopped = @ \ {s},
                         ![w].pc = IF req[w].stopped = {s} THEN "end" ELSE "wake"]
      <4> HIDE DEF s
      <4>1. To([req[w] EXCEPT !.stopped = @ \ {s},
                              !.pc = IF req[w].stopped = {s} THEN "end" ELSE "wake"])
        BY <1>1, <3>3 DEF Req, ReqPC
      <4> QED
        BY <4>1
    <3> QED
      BY <1>11, <3>1, <3>2, <3>3 DEF Restart, WakeStart
  <2> HIDE DEF To, Table
  <2> QED
    BY <1>2, <2>1, <2>2, <2>3
<1>12. CASE RefreshUrl(w) \/ GiveUp(w)
  <2>1. /\ ReqStep /\ UNCHANGED <<boxVars, exec, dbErrors, infraErrors>> /\ req[w].pc # "idle"
        /\ \E found \in BOOLEAN : Recovered(w, found)
    BY <1>12 DEF RefreshUrl, GiveUp, ReqAt
  <2>2. \/ row' = [row EXCEPT ![d].url = TRUE] \/ UNCHANGED row
        \/ row' = [row EXCEPT ![d].status = "stopped", ![d].url = FALSE]
    BY <1>12 DEF RefreshUrl, GiveUp
  <2>3. RowsTyped'
    <3> HIDE DEF d
    <3>1. \A x \in Dep : \/ row'[x] = row[x]
                       \/ row'[x] = [row[x] EXCEPT !.url = TRUE]
                       \/ row'[x] = [row[x] EXCEPT !.status = "stopped", !.url = FALSE]
      BY <1>1, <2>2 DEF RowsTyped
    <3>2. row' = [x \in Dep |-> row'[x]]
      BY <1>1, <2>2 DEF RowsTyped
    <3>3. \A x \in Dep : row'[x] \in Row
      BY <1>1, <1>7, <3>1 DEF RowsTyped
    <3> QED
      BY <1>1, <1>8, <2>1, <3>2, <3>3 DEF RowsTyped
  <2> HIDE DEF To, Table
  <2> QED
    BY <1>2, <1>4, <1>6, <2>1, <2>3
<1>13. CASE WakePromote(w)
  <2>1. ReqStep /\ UNCHANGED <<boxVars, exec, dbErrors, infraErrors>> /\ req[w].pc # "idle"
    BY <1>13 DEF WakePromote, ReqAt
  <2>2. row' = [row EXCEPT ![s].status = "live", ![s].url = TRUE] \/ UNCHANGED row
    BY <1>13 DEF WakePromote
  <2>3. RowsTyped'
    <3> HIDE DEF s
    <3>1. \A x \in Dep : \/ row'[x] = row[x]
                       \/ row'[x] = [row[x] EXCEPT !.url = TRUE]
                       \/ row'[x] = [row[x] EXCEPT !.status = "live", !.url = TRUE]
      BY <1>1, <2>2 DEF RowsTyped
    <3>2. row' = [x \in Dep |-> row'[x]]
      BY <1>1, <2>2 DEF RowsTyped
    <3>3. \A x \in Dep : row'[x] \in Row
      BY <1>1, <1>7, <3>1 DEF RowsTyped
    <3> QED
      BY <1>1, <1>8, <2>1, <3>2, <3>3 DEF RowsTyped
  <2>4. \E q : To(q)
    <3>1. CASE ReqTo(w, "end")
      <4>1. "end" \in ReqPC
        BY DEF ReqPC
      <4> QED
        BY <1>3, <3>1, <4>1
    <3>2. CASE req' = [req EXCEPT ![w].stopped = @ \ {s},
                         ![w].pc = IF req[w].stopped = {s} THEN "end" ELSE "wake"]
      <4> HIDE DEF s
      <4>1. To([req[w] EXCEPT !.stopped = @ \ {s},
                              !.pc = IF req[w].stopped = {s} THEN "end" ELSE "wake"])
        BY <1>1, <3>2 DEF Req, ReqPC
      <4> QED
        BY <4>1
    <3> QED
      BY <1>13, <3>1, <3>2 DEF WakePromote
  <2> HIDE DEF To, Table
  <2> QED
    BY <1>2, <1>6, <2>1, <2>3, <2>4
<1>14. CASE Decide(w) \/ ReplaceReadEnv(w) \/ ReplaceLoses(w) \/ CheckRetired(w)
  <2>1. /\ ReqStep /\ UNCHANGED <<row, boxVars, exec, dbErrors, infraErrors>>
        /\ req[w].pc # "idle"
    BY <1>14 DEF Decide, ReplaceReadEnv, ReplaceLoses, CheckRetired, ReqAt
  <2>2. \A pc \in ReqPC : Fresh(pc) \in Req
    BY <1>1 DEF Fresh, Req
  <2>3. {"end", "readenv", "wake", "insert", "destroy"} \subseteq ReqPC
    BY DEF ReqPC
  <2>4. /\ [Fresh("readenv") EXCEPT !.stale = req[w].stale,
                                   !.wasStopped = req[w].wasStopped] \in Req
        /\ [Fresh("wake") EXCEPT !.stopped = req[w].stopped] \in Req
    BY <1>1, <2>2, <2>3 DEF Req
  <2>5. Decide(w) => \E q : To(q)
    BY <2>2, <2>3, <2>4 DEF Decide
  <2>6. ReplaceReadEnv(w) => To([req[w] EXCEPT !.pc = "insert", !.rev = envRev])
    BY <1>1, <2>3 DEF ReplaceReadEnv, Req
  <2>7. ReplaceLoses(w) \/ CheckRetired(w) => \E q : To(q)
    BY <1>3, <2>3 DEF ReplaceLoses, CheckRetired
  <2> HIDE DEF To, Table
  <2> QED
    BY <1>2, <1>5, <1>8, <1>14, <2>1, <2>5, <2>6, <2>7
<1>15. CASE ReplaceInsert(w)
  <2>1. PICK x \in Dep :
          /\ InsertRow(x, "building", req[w].rev)
          /\ exec' = [exec EXCEPT ![x] = [IdleExec EXCEPT !.pc = "resolve",
                                            !.rev = req[w].rev, !.by = w]]
          /\ req' = [req EXCEPT ![w].pc = "deploying", ![w].dep = x]
    BY <1>15 DEF ReplaceInsert
  <2>2. ReqStep /\ UNCHANGED <<boxVars, dbErrors, infraErrors>> /\ req[w].pc # "idle"
    BY <1>15 DEF ReplaceInsert, ReqAt
  <2>3. req[w].rev \in Rev /\ x \in 0 .. MaxDep
    BY <1>1, StateAssumption DEF Req, Dep
  <2>4. RowsTyped'
    BY <1>1, <1>8, <2>1, <2>2, <2>3, InsertTyped DEF InFlight
  <2>5. [req[w] EXCEPT !.pc = "deploying", !.dep = x] \in Req
    BY <1>1, <2>3 DEF Req, ReqPC
  <2>6. exec' \in [Dep -> Exec] /\ exec'[x].by # "job" /\ \A y \in Dep \ {x} : exec'[y] = exec[y]
    <3>1. [IdleExec EXCEPT !.pc = "resolve", !.rev = req[w].rev, !.by = w] \in Exec
      BY <1>1, <2>3 DEF Exec, ExecPC
    <3> QED
      BY <1>1, <2>1, <3>1 DEF IdleExec
  <2>7. w = Boot => phase' = "sweep"
    BY <2>2 DEF ReqStep, TypeInv, Backed
  <2>8. Table
    BY <1>6, <2>2, <2>4
  <2>9. req' = [req EXCEPT ![w] = [req[w] EXCEPT !.pc = "deploying", !.dep = x]]
    BY <2>1
  <2> QED
    BY <2>2, <2>5, <2>6, <2>7, <2>8, <2>9, ReqTyped DEF ReqStep
<1>16. CASE Replaced(w)
  <2>1. ReqStep /\ UNCHANGED <<row, boxVars, dbErrors, infraErrors>> /\ req[w].pc # "idle"
        /\ Settled(req[w].dep)
    BY <1>16 DEF Replaced, ReqAt
  <2>2. exec' \in [Dep -> Exec] /\ \A x \in Dep : exec'[x].pc # "idle" => exec'[x] = exec[x]
    BY <1>1, <2>1 DEF Settled, IdleExec
  <2>3. PICK q : To(q)
    BY <1>3, <1>16 DEF Replaced, ReqPC
  <2>4. w = Boot => phase' = "sweep"
    BY <2>1 DEF ReqStep, TypeInv, Backed
  <2>5. Table
    BY <1>5, <1>8, <2>1
  <2> QED
    BY <2>1, <2>2, <2>3, <2>4, <2>5, ReqTyped DEF ReqStep
<1>17. CASE Retire(w)
  <2>1. /\ ReqStep /\ UNCHANGED <<boxVars, exec, dbErrors, infraErrors>> /\ req[w].pc # "idle"
        /\ ReqTo(w, "check")
    BY <1>17 DEF Retire, ReqAt
  <2>2. row' = [row EXCEPT ![o].weighted = FALSE] \/ UNCHANGED row
    BY <1>17 DEF Retire
  <2>3. RowsTyped'
    <3> HIDE DEF o
    <3> QED
      BY ZenonT(100), <1>1, <1>7, <1>8, <2>1, <2>2 DEF RowsTyped
  <2>4. "check" \in ReqPC
    BY DEF ReqPC
  <2> HIDE DEF To, Table
  <2> QED
    BY <1>2, <1>3, <1>6, <2>1, <2>3, <2>4
<1>20. CASE ReplaceInsertError(w)
  <2>1. PICK x \in Dep : InsertRow(x, "building", req[w].rev)
    BY <1>20 DEF ReplaceInsertError
  <2>2. /\ ReqStep /\ UNCHANGED <<boxVars, exec, infraErrors>> /\ req[w].pc # "idle"
        /\ ReqTo(w, "end") /\ DbError
    BY <1>20 DEF ReplaceInsertError, ReqAt
  <2>3. RowsTyped'
    <3>1. req[w].rev \in Rev
      BY <1>1 DEF Req
    <3> QED
      BY <1>1, <1>8, <2>1, <2>2, <3>1, InsertTyped DEF InFlight
  <2>4. Table
    BY <1>1, <1>8, <2>2, <2>3, FaultTyped DEF BoxesTyped, boxVars
  <2>5. "end" \in ReqPC
    BY DEF ReqPC
  <2> HIDE DEF To, Table
  <2> QED
    BY <1>2, <1>3, <2>2, <2>4, <2>5
<1>18. CASE DestroyRetired(w) \/ ReqDbError(w)
  <2>1. /\ ReqStep /\ UNCHANGED <<row, exec>> /\ req[w].pc # "idle" /\ ReqTo(w, "end")
        /\ (DbError \/ UNCHANGED dbErrors) /\ (InfraError \/ UNCHANGED infraErrors)
    BY <1>18 DEF DestroyRetired, ReqDbError, ReqAt
  <2>2. BoxesTyped'
    BY <1>1, <1>18 DEF DestroyRetired, ReqDbError, Destroy, BoxesTyped, boxVars
  <2>3. Table
    BY <1>1, <1>8, <2>1, <2>2, FaultTyped DEF RowsTyped
  <2>4. "end" \in ReqPC
    BY DEF ReqPC
  <2> HIDE DEF To, Table
  <2> QED
    BY <1>2, <1>3, <2>1, <2>3, <2>4
<1>19. CASE End(w)
  <2>1. /\ req' = [req EXCEPT ![w] = IdleReq] /\ exec' = exec
        /\ UNCHANGED <<rowVars, boxVars, jobVars, lane, run, faultVars>>
        /\ phase' = IF w = Boot THEN "requeue" ELSE phase
    BY <1>19 DEF End, ReqEnds
  <2>2. w = Boot => phase = "sweep"
    BY <1>19 DEF End, ReqAt, TypeInv, Backed
  <2>3. Table
    BY <1>1, <2>1 DEF RowsTyped, BoxesTyped, FaultsTyped, rowVars, boxVars, faultVars
  <2>4. IdleReq.pc = "idle" /\ "requeue" \in Phase
    BY DEF IdleReq, Phase
  <2> QED
    BY <1>1, <2>1, <2>2, <2>3, <2>4, ReqTyped
<1> QED
  BY <1>9, <1>10, <1>11, <1>12, <1>13, <1>14, <1>15, <1>16, <1>17, <1>18, <1>19, <1>20 DEF Serve

LEMMA BeginTyped ==
  ASSUME TypeInv, NEW w \in Actor, Begin(w)
  PROVE  TypeInv'
<1> DEFINE m == CHOOSE mode \in {"ensure", "refresh"} :
             req' = [req EXCEPT ![w] =
               [Fresh("recover") EXCEPT
                  !.mode = mode,
                  !.todo = IF mode = "ensure" \/ w = Boot THEN CurrentRows("live") ELSE Live,
                  !.urls = {d \in Live : row[d].url},
                  !.stopped = CurrentRows("stopped"),
                  !.blocked = InFlightRows # {},
                  !.stale = IF StaleRows = {} THEN NoDep ELSE Newest(StaleRows),
                  !.wasStopped = StaleRows # {} /\ row[Newest(StaleRows)].status = "stopped"]]
           q == [Fresh("recover") EXCEPT
                  !.mode = m,
                  !.todo = IF m = "ensure" \/ w = Boot THEN CurrentRows("live") ELSE Live,
                  !.urls = {d \in Live : row[d].url},
                  !.stopped = CurrentRows("stopped"),
                  !.blocked = InFlightRows # {},
                  !.stale = IF StaleRows = {} THEN NoDep ELSE Newest(StaleRows),
                  !.wasStopped = StaleRows # {} /\ row[Newest(StaleRows)].status = "stopped"]
<1>1. m \in {"ensure", "refresh"} /\ req' = [req EXCEPT ![w] = q]
  BY ZenonT(60) DEF Begin
<1>2. (IF StaleRows = {} THEN NoDep ELSE Newest(StaleRows)) \in 0 .. MaxDep
  BY NewestIn, StateAssumption DEF StaleRows, Dep, NoDep
<1>3. /\ (IF m = "ensure" \/ w = Boot THEN CurrentRows("live") ELSE Live) \in SUBSET Dep
      /\ {d \in Live : row[d].url} \in SUBSET Dep /\ CurrentRows("stopped") \in SUBSET Dep
  BY DEF CurrentRows, Live
<1>4. IdleReq \in Req
  BY TypedValues
<1>5. q \in Req
  <2> HIDE DEF m
  <2> QED
    BY ZenonT(100), <1>1, <1>2, <1>3, <1>4 DEF Fresh, Req, ReqPC
<1>6. /\ ReqStep /\ UNCHANGED <<row, boxVars, exec, dbErrors, infraErrors>>
      /\ w = Boot => phase = "sweep"
  BY DEF Begin
<1>7. RowsTyped' /\ BoxesTyped' /\ FaultsTyped'
  BY <1>6 DEF TypeInv, RowsTyped, BoxesTyped, FaultsTyped, boxVars, ReqStep
<1> HIDE DEF q, m
<1> QED
  BY <1>1, <1>5, <1>6, <1>7, ReqTyped DEF ReqStep, TypeInv

---------------------------------------------------------------------------
(* Any step of the environment.                                            *)

LEMMA EnvironmentTyped ==
  ASSUME TypeInv,
         \/ Bump \/ Invalidate \/ Deadline \/ BoxDies
         \/ \E r \in Run : RunStart(r) \/ RunFinish(r)
         \/ UNCHANGED vars
  PROVE  TypeInv'
<1>1. /\ RowsTyped /\ BoxesTyped /\ FaultsTyped /\ lane \in Lane /\ lane.job.kind # "deploy"
      /\ queued \in SUBSET Job /\ running \in SUBSET Job /\ queueing \in SUBSET Dep
      /\ bumped \in BOOLEAN /\ run \in [Run -> RunState] /\ ReconcileJob \in Job
  BY TypedValues DEF TypeInv, JobsTyped, Backed
<1>2. UNCHANGED <<running, queueing, exec, lane, req, phase>>
  BY DEF Bump, Invalidate, Deadline, BoxDies, RunStart, RunFinish, vars, jobVars, actorVars
<1>3. queued' \in SUBSET Job
  <2>1. \A j \in Job : [j EXCEPT !.late = TRUE] \in Job
    BY JobsSucceed
  <2> QED
    BY <1>1, <2>1 DEF Bump, Invalidate, Deadline, BoxDies, RunStart, RunFinish, vars, jobVars
<1>4. bumped' \in BOOLEAN
  BY <1>1 DEF Bump, Invalidate, Deadline, BoxDies, RunStart, RunFinish, vars, jobVars
<1>5. run' \in [Run -> RunState]
  <2>1. ASSUME NEW r \in Run, RunStart(r) PROVE run' \in [Run -> RunState]
    <3>1. PICK d \in Live : run' = [run EXCEPT ![r] = <<"running", d>>]
      BY <2>1 DEF RunStart
    <3>2. <<"running", d>> \in RunState
      BY StateAssumption DEF Live, Dep, RunState
    <3> QED
      BY <1>1, <3>1, <3>2
  <2>2. ASSUME NEW r \in Run, RunFinish(r) PROVE run' \in [Run -> RunState]
    <3>1. <<"finished", run[r][2]>> \in RunState
      BY <1>1 DEF RunState
    <3> QED
      BY <1>1, <2>2, <3>1 DEF RunFinish
  <2> QED
    BY <1>1, <2>1, <2>2 DEF Bump, Invalidate, Deadline, BoxDies, vars
<1>6. RowsTyped'
  <2>1. Bump => envRev' \in Rev
    BY <1>1, StateAssumption DEF Bump, Rev, RowsTyped
  <2> QED
    BY <1>1, <2>1 DEF RowsTyped, Bump, Invalidate, Deadline, BoxDies, RunStart, RunFinish,
                      vars, rowVars
<1>7. BoxesTyped'
  BY <1>1 DEF BoxesTyped, Bump, Invalidate, Deadline, BoxDies, RunStart, RunFinish, vars, boxVars
<1>8. FaultsTyped'
  <2>1. crashes' = crashes /\ (DbError \/ UNCHANGED dbErrors)
        /\ (InfraError \/ UNCHANGED infraErrors)
    BY DEF Bump, Invalidate, Deadline, BoxDies, RunStart, RunFinish, vars, faultVars
  <2> QED
    BY <1>1, <2>1, FaultTyped
<1> QED
  BY <1>1, <1>2, <1>3, <1>4, <1>5, <1>6, <1>7, <1>8, QueueTyped

LEMMA BootTyped ==
  ASSUME TypeInv, Crash \/ Requeue
  PROVE  TypeInv'
<1>1. IdleExec \in Exec /\ IdleLane \in Lane /\ IdleReq \in Req /\ Boot \in Actor
  BY TypedValues
<1>2. CASE Crash
  <2>1. FaultsTyped'
    BY <1>2, StateAssumption DEF Crash, TypeInv, FaultsTyped
  <2>2. RowsTyped' /\ BoxesTyped' /\ JobsTyped'
    BY <1>2 DEF Crash, TypeInv, RowsTyped, BoxesTyped, JobsTyped, rowVars
  <2>3. exec' \in [Dep -> Exec] /\ \A d \in Dep : exec'[d].pc = "idle"
    BY <1>1, <1>2 DEF Crash, IdleExec
  <2>4. req' \in [Actor -> Req] /\ req'[Boot].pc = "idle"
    BY <1>1, <1>2 DEF Crash, IdleReq
  <2>5. lane' \in Lane /\ lane'.job.kind # "deploy"
    BY <1>1, <1>2 DEF Crash, IdleLane, ReconcileJob, NewJob
  <2>6. run' \in [Run -> RunState] /\ phase' \in Phase
    BY <1>2 DEF Crash, TypeInv, Phase
  <2> QED
    BY <2>1, <2>2, <2>3, <2>4, <2>5, <2>6 DEF TypeInv, Backed
<1>3. CASE Requeue
  <2>1. /\ UNCHANGED <<envRev, row, box, boxRev, queueing, bumped, exec, lane, req, run>>
        /\ crashes' = crashes /\ UNCHANGED infraErrors /\ (DbError \/ UNCHANGED dbErrors)
        /\ phase = "requeue" /\ phase' \in Phase
    BY <1>3 DEF Requeue, rowVars, boxVars, actorVars, Phase
  <2>2. FaultsTyped'
    BY <2>1, FaultTyped DEF TypeInv
  <2>3. RowsTyped' /\ BoxesTyped' /\ JobsTyped'
    BY <1>3, <2>1 DEF Requeue, TypeInv, RowsTyped, BoxesTyped, JobsTyped
  <2>4. Backed'
    BY <2>1 DEF TypeInv, Backed
  <2> QED
    BY <2>1, <2>2, <2>3, <2>4 DEF TypeInv
<1> QED
  BY <1>2, <1>3

LEMMA StepTyped ==
  ASSUME TypeInv, [Next]_vars
  PROVE  TypeInv'
BY ControllerTyped, LaneTyped, ServeTyped, BeginTyped, EnvironmentTyped, BootTyped
   DEF Next, WakeNext

LEMMA InitTyped == Init => TypeInv
<1>1. SUFFICES ASSUME Init PROVE TypeInv
  OBVIOUS
<1>2. /\ MaxDep \in Nat /\ MaxRev \in Nat /\ MaxCrash \in Nat /\ MaxDbError \in Nat
      /\ MaxInfraError \in Nat /\ MaxAttempts \in Nat /\ Boot \in Actor
  BY StateAssumption DEF Actor
<1>3. 0 \in Rev /\ NoDep \in 0 .. MaxDep
  BY <1>2 DEF Rev, NoDep
<1>4. ReconcileJob \in Job /\ ReconcileJob.kind = "reconcile"
  BY <1>2, <1>3 DEF ReconcileJob, NewJob, Job, JobKind
<1>5. IdleExec \in Exec /\ IdleReq \in Req /\ NoRow \in Row
  BY <1>3 DEF IdleExec, Exec, ExecPC, IdleReq, Req, ReqPC, NoRow, Row, RowStatus
<1>6. IdleLane \in Lane /\ IdleLane.job.kind # "deploy"
  BY <1>3, <1>4 DEF IdleLane, Lane, LanePC
<1>7. NoRun \in RunState
  BY <1>3 DEF NoRun, RunState
<1>8. RowsTyped /\ BoxesTyped /\ JobsTyped /\ FaultsTyped
  <2>1. RowsTyped /\ BoxesTyped
    BY <1>1, <1>3, <1>5 DEF Init, RowsTyped, BoxesTyped
  <2>2. JobsTyped
    BY <1>1 DEF Init, JobsTyped
  <2>3. FaultsTyped
    BY <1>1, <1>2 DEF Init, FaultsTyped
  <2> QED
    BY <2>1, <2>2, <2>3
<1>9. Backed
  BY <1>1, <1>2, <1>6 DEF Init, Backed, IdleExec, IdleReq
<1> QED
  BY <1>1, <1>5, <1>6, <1>7, <1>8, <1>9 DEF Init, TypeInv, Phase

\* Every step of an environment leaves its rows, containers, jobs and calls of
\* their types: a call reads and writes only deployments that can be there, also
\* after a restart in the middle of it.
THEOREM TypeCorrect == Spec => []TypeOK
<1>1. TypeInv => TypeOK
  BY DEF TypeInv, TypeOK, RowsTyped, BoxesTyped, JobsTyped, FaultsTyped
<1>2. TypeInv /\ [Next]_vars => TypeInv'
  BY StepTyped
<1> QED
  BY <1>1, <1>2, InitTyped, PTL DEF Spec

---------------------------------------------------------------------------
(***************************************************************************)
(* The deploy jobs.  A job leaves the queue only when its call is over, so *)
(* what matters is what a call leaves behind: at its end, unless a         *)
(* statement was rejected, its row is not in flight.                       *)
(***************************************************************************)

Over == {"audit", "schedule", "ok", "failed", "threw"}

Held(d) == \/ exec[d].pc # "idle" \/ d \in queueing \/ HasJob(d)
           \/ lane.pc = "queue" /\ lane.dep = d

JobInv ==
  /\ TypeInv /\ OneInFlight
  /\ \A d \in Dep : Held(d) => row[d].status # "none"
  /\ dbErrors = 0 => \A d \in Dep : exec[d].pc \in Over => d \notin InFlightRows

\* What a step may do to the row, the call and the job of d.
RowMove(d) ==
  /\ row[d].status # "none" => row'[d].status # "none"
  /\ row'[d].status \in InFlight => row[d].status \in InFlight \cup {"none"} \/ At(d, "take")
CallMove(d) == exec'[d].pc \in Over =>
                 exec[d].pc \in Over \/ dbErrors' # dbErrors \/ row'[d].status \notin InFlight
JobMove(d) == HasJob(d) => HasJob(d)' \/ exec[d].pc \in {"ok", "threw"}
HoldMove(d) == Held(d)' => Held(d) \/ row'[d].status # "none"

Moves ==
  /\ dbErrors' \in {dbErrors, dbErrors + 1}
  /\ \A d \in Dep : RowMove(d) /\ CallMove(d) /\ JobMove(d) /\ HoldMove(d)

\* A step that leaves the deploy jobs and the calls alone.
LEMMA CallsUntouched ==
  ASSUME TypeInv, dbErrors' = dbErrors \/ DbError, exec' = exec \/ exec' = [d \in Dep |-> IdleExec],
         queueing' \subseteq queueing, lane'.pc = "queue" => lane' = lane,
         \A j \in Job : j.kind = "deploy" =>
           (j \in queued' \cup running' <=> j \in queued \cup running),
         \A d \in Dep : RowMove(d), queued' \in SUBSET Job, running' \in SUBSET Job
  PROVE  Moves
<1>1. \A d \in Dep : HasJob(d)' <=> HasJob(d)
  BY DEF HasJob, TypeInv, JobsTyped
<1>2. \A d \in Dep : exec'[d].pc # "idle" => exec'[d] = exec[d]
  BY DEF IdleExec
<1>3. \A d \in Dep : CallMove(d)
  BY <1>2 DEF CallMove, Over
<1>4. \A d \in Dep : JobMove(d) /\ HoldMove(d)
  BY <1>1, <1>2 DEF JobMove, HoldMove, Held
<1> QED
  BY <1>3, <1>4 DEF Moves, DbError

LEMMA RowsStay ==
  ASSUME UNCHANGED row
  PROVE  \A d \in Dep : RowMove(d)
BY DEF RowMove

LEMMA OneRowMoves ==
  ASSUME RowsTyped, NEW x, NEW r, row' = [row EXCEPT ![x] = r] \/ row' = Update(x, r),
         x \in Dep => r.status \notin InFlight \cup {"none"} \/ row[x] = r
  PROVE  \A d \in Dep : RowMove(d)
BY DEF RowMove, RowsTyped, Update

LEMMA RowEnters ==
  ASSUME RowsTyped, NEW x \in Dep, NEW status \in InFlight, NEW rev, InsertRow(x, status, rev)
  PROVE  row'[x].status # "none" /\ \A d \in Dep : RowMove(d)
BY DEF RowMove, RowsTyped, InsertRow, IsNext, InFlight

\* The step of one call that is under way, which touches no job but its own.
LEMMA CallMoves ==
  ASSUME TypeInv, NEW d \in Dep, \A x \in Dep \ {d} : exec'[x] = exec[x],
         dbErrors' = dbErrors \/ DbError,
         UNCHANGED <<queueing, lane>>, exec[d].pc # "idle",
         \A x \in Dep : x # d => (HasJob(x)' <=> HasJob(x)), JobMove(d),
         CallMove(d), \A x \in Dep : RowMove(x)
  PROVE  Moves
<1>1. \A x \in Dep \ {d} : CallMove(x) /\ JobMove(x) /\ HoldMove(x)
  BY DEF CallMove, JobMove, HoldMove, Held
<1>2. HoldMove(d)
  BY DEF HoldMove, Held
<1> QED
  BY <1>1, <1>2 DEF Moves, DbError

LEMMA ExecuteMoves ==
  ASSUME TypeInv, OneInFlight, NEW d \in Dep, Execute(d)
  PROVE  Moves
<1>1. exec \in [Dep -> Exec] /\ RowsTyped /\ row \in [Dep -> Row]
  BY DEF TypeInv, RowsTyped
<1>2. CASE BeginDeploy(d)
  <2>1. PICK j \in queued : /\ j.kind = "deploy" /\ j.dep = d
                            /\ queued' = queued \ {j}
                            /\ running' = running \cup {Claimed(j)}
    BY <1>2 DEF BeginDeploy
  <2>2. Claimed(j).kind = "deploy" /\ Claimed(j).dep = d
    BY <2>1, JobsSucceed DEF TypeInv, JobsTyped
  <2>3. \A x \in Dep : HasJob(x)' <=> HasJob(x)
    <3>1. HasJob(d)' /\ HasJob(d)
      BY <2>1, <2>2 DEF HasJob
    <3>2. \A x \in Dep \ {d} : HasJob(x)' <=> HasJob(x)
      BY <2>1, <2>2 DEF HasJob
    <3> QED
      BY <3>1, <3>2
  <2>4. /\ UNCHANGED <<row, dbErrors, queueing, lane>> /\ exec'[d].pc = "env"
        /\ \A x \in Dep \ {d} : exec'[x] = exec[x]
    BY <1>1, <1>2 DEF BeginDeploy, Goto, rowVars, faultVars
  <2>5. \A x \in Dep : RowMove(x)
    BY <2>4, RowsStay
  <2>6. \A x \in Dep : CallMove(x)
    BY <2>4 DEF CallMove, Over
  <2>7. \A x \in Dep : JobMove(x) /\ HoldMove(x)
    <3>1. HasJob(d)
      BY <2>1 DEF HasJob
    <3> QED
      BY <2>3, <2>4, <3>1 DEF JobMove, HoldMove, Held
  <2> QED
    BY <2>4, <2>5, <2>6, <2>7 DEF Moves
<1>3. ASSUME \A x \in Dep \ {d} : exec'[x] = exec[x], exec[d].pc # "idle",
             dbErrors' = dbErrors \/ DbError,
             UNCHANGED <<queueing, lane, running>>,
             queued' = queued \/ \E j : j.kind # "deploy" /\ queued' = queued \cup {j},
             CallMove(d), \A x \in Dep : RowMove(x)
      PROVE  Moves
  <2>1. \A x \in Dep : HasJob(x)' <=> HasJob(x)
    BY <1>3 DEF HasJob
  <2> QED
    BY <1>3, <2>1, CallMoves DEF JobMove
<1>4. ASSUME NEW pc, exec' = [exec EXCEPT ![d].pc = pc]
      PROVE  exec'[d].pc = pc /\ \A x \in Dep \ {d} : exec'[x] = exec[x]
  BY <1>1, <1>4 DEF Exec
<1>5. CASE \/ ReadEnv(d) \/ ResolveEnv(d) \/ LaunchLive(d) \/ LaunchFails(d)
           \/ ReadSiblings(d) \/ Audit(d) \/ PromoteError(d) \/ AuditError(d)
           \/ Finish(d) \/ AbortInfra(d)
  <2>1. /\ exec[d].pc # "idle" /\ (dbErrors' = dbErrors \/ DbError)
        /\ UNCHANGED <<queueing, lane, running, queued, row>>
    BY <1>5 DEF ReadEnv, ResolveEnv, LaunchLive, LaunchFails, ReadSiblings, Audit,
                PromoteError, AuditError, Finish, AbortInfra, ExecStep, jobVars, At
  <2>2. \A x \in Dep \ {d} : exec'[x] = exec[x]
    BY <1>1, <1>5 DEF ReadEnv, ResolveEnv, LaunchLive, LaunchFails, ReadSiblings, Audit,
                PromoteError, AuditError, Finish, AbortInfra, Goto
  <2>3. exec'[d].pc \in Over => exec[d].pc \in Over
    BY <1>1, <1>5 DEF ReadEnv, ResolveEnv, LaunchLive, LaunchFails, ReadSiblings, Audit,
                PromoteError, AuditError, Finish, AbortInfra, Goto, At, Over, Exec
  <2>4. CallMove(d) /\ \A x \in Dep : RowMove(x)
    BY <2>1, <2>3, RowsStay DEF CallMove
  <2> QED
    BY <1>3, <2>1, <2>2, <2>4
<1>6. CASE TakeRow(d)
  <2>1. /\ exec[d].pc = "take" /\ UNCHANGED <<queueing, lane, running, queued, dbErrors>>
        /\ Goto(d, "resolve") /\ \A x \in Dep \ {d} : row'[x] = row[x]
        /\ row'[d].status = "building"
    BY <1>1, <1>6 DEF TakeRow, Taken, ExecStep, jobVars, At, Row
  <2>2. \A x \in Dep : RowMove(x)
    BY <2>1 DEF RowMove, At
  <2> QED
    BY <1>3, <1>4, <2>1, <2>2 DEF Goto, CallMove, Over
<1>7. CASE TakeRowThrows(d)
  <2>1. /\ exec[d].pc = "take" /\ UNCHANGED <<queueing, lane, running, queued, row, dbErrors>>
        /\ Goto(d, "threw")
    BY <1>7 DEF TakeRowThrows, ExecStep, jobVars, At
  <2>2. row[d].status \notin InFlight
    BY <1>7 DEF TakeRowThrows, Exists, SlotFree, OneInFlight, InFlightRows, InFlight
  <2>3. CallMove(d) /\ \A x \in Dep : RowMove(x)
    BY <2>1, <2>2, RowsStay DEF CallMove
  <2> QED
    BY <1>3, <1>4, <2>1, <2>3 DEF Goto
<1>20. CASE TakeRowError(d)
  <2>1. /\ exec[d].pc = "take" /\ UNCHANGED <<queueing, lane, running, queued>> /\ DbError
        /\ Goto(d, "threw") /\ (UNCHANGED row \/ row' = Taken(d))
    BY <1>20 DEF TakeRowError, ExecStep, jobVars, At
  <2>2. \A x \in Dep : RowMove(x)
    <3>1. CASE row' = Taken(d)
      BY <1>1, <2>1, <3>1 DEF Taken, RowMove, At, Row
    <3> QED
      BY <2>1, <3>1, RowsStay
  <2>3. dbErrors' # dbErrors
    BY <2>1 DEF DbError, TypeInv, FaultsTyped
  <2> QED
    BY <1>3, <1>4, <2>1, <2>2, <2>3 DEF Goto, CallMove
<1>8. CASE Demote(d) \/ DemoteError(d)
  <2>1. /\ exec[d].pc = "demote" /\ (dbErrors' = dbErrors \/ DbError)
        /\ UNCHANGED <<queueing, lane, running, queued>>
    BY <1>8 DEF Demote, DemoteError, ExecStep, jobVars, At
  <2>2. exec'[d].pc \in {"demote", "abort"} /\ \A x \in Dep \ {d} : exec'[x] = exec[x]
    <3>1. exec[d] \in Exec
      BY <1>1
    <3>2. Demote(d) => \E x : exec' = [exec EXCEPT ![d] = [exec[d] EXCEPT !.todo = @ \ {x}]]
      BY DEF Demote
    <3>3. DemoteError(d) =>
            exec' = [exec EXCEPT ![d] = [exec[d] EXCEPT !.pc = "abort"]]
      BY DEF DemoteError, Goto
    <3> QED
      BY ZenonT(100), <1>1, <1>8, <2>1, <3>1, <3>2, <3>3 DEF Exec
  <2>3. \A x \in Dep : row'[x] = row[x] \/ row'[x].status = "draining"
    BY ZenonT(100), <1>1, <1>8 DEF Demote, DemoteError, Update, Draining, Row
  <2>4. \A x \in Dep : RowMove(x)
    BY <2>3 DEF RowMove, InFlight
  <2> QED
    BY <1>3, <2>1, <2>2, <2>4 DEF CallMove, Over
<1>9. CASE Promote(d) \/ FailRow(d)
  <2>1. /\ exec[d].pc # "idle" /\ UNCHANGED <<queueing, lane, running, queued, dbErrors>>
        /\ (Goto(d, "audit") \/ Goto(d, "failed"))
    BY <1>9 DEF Promote, FailRow, ExecStep, jobVars, At
  <2>2. \A x \in Dep : \/ x # d /\ row'[x] = row[x]
                       \/ x = d /\ row'[x] = row[x] /\ row[x].status \in {"none", "deleted"}
                       \/ x = d /\ row'[x].status \in {"live", "failed"}
    BY <1>1, <1>9 DEF Promote, FailRow, Update, Exists, Row
  <2>3. (\A x \in Dep : RowMove(x)) /\ row'[d].status \notin InFlight
    BY <2>2 DEF RowMove, InFlight
  <2> QED
    BY <1>3, <1>4, <2>1, <2>3 DEF Goto, CallMove
<1>10. CASE FailRowError(d)
  <2>1. /\ exec[d].pc # "idle" /\ UNCHANGED <<queueing, lane, running, queued, row>> /\ DbError
        /\ \A x \in Dep \ {d} : exec'[x] = exec[x]
    BY <1>1, <1>10 DEF FailRowError, ExecStep, jobVars, At, Goto
  <2>2. dbErrors' # dbErrors
    BY <2>1 DEF DbError, TypeInv, FaultsTyped
  <2> QED
    BY <1>3, <2>1, <2>2, RowsStay DEF CallMove
<1>11. CASE ScheduleDrain(d)
  <2>1. PICK x \in exec[d].todo :
          /\ exec' = [exec EXCEPT ![d].todo = @ \ {x}]
          /\ \/ queued' = queued \cup {NewJob("drain", x)} /\ UNCHANGED dbErrors
             \/ DbError /\ UNCHANGED queued
    BY <1>11 DEF ScheduleDrain
  <2>2. UNCHANGED <<queueing, lane, running, row>> /\ exec[d].pc = "schedule"
    BY <1>11 DEF ScheduleDrain, At, rowVars
  <2>3. NewJob("drain", x).kind # "deploy"
    BY DEF NewJob
  <2> QED
    BY <1>1, <1>3, <2>1, <2>2, <2>3, RowsStay DEF CallMove, Over
<1>12. CASE CompleteDeployError(d) \/ DeployFailed(d)
  <2>1. /\ exec[d].pc \in Over /\ exec[d].pc # "idle"
        /\ UNCHANGED <<queueing, lane, running, row>> /\ Goto(d, "threw")
        /\ (dbErrors' = dbErrors \/ DbError)
        /\ (queued' = queued \/ queued' = queued \cup {ReconcileJob})
    BY <1>12 DEF CompleteDeployError, DeployFailed, JobStep, At, rowVars, Over
  <2>2. ReconcileJob.kind # "deploy"
    BY DEF ReconcileJob, NewJob
  <2> QED
    BY <1>3, <1>4, <2>1, <2>2, RowsStay DEF Goto, CallMove
<1>13. CASE CompleteDeploy(d) \/ RetryDeploy(d) \/ RetryDeployError(d)
  <2>1. /\ exec[d].pc \in {"ok", "threw"} /\ UNCHANGED <<queueing, lane, row>>
        /\ (dbErrors' = dbErrors \/ DbError)
        /\ Settled(d) /\ running' \in {running, running \ {DeployJob(d)}}
        /\ (queued' = queued \/ queued' = queued \cup Refailed(DeployJob(d)))
        /\ exec[d].by = "job"
    BY <1>13 DEF CompleteDeploy, RetryDeploy, RetryDeployError, JobStep, At, rowVars
  <2>2. DeployOf(DeployJob(d), d) /\ Refailed(DeployJob(d)) \subseteq {DeployJob(d)}
    BY <2>1, HasDeployJob DEF Refailed
  <2>3. \A x \in Dep : x # d => (HasJob(x)' <=> HasJob(x))
    BY <2>1, <2>2 DEF HasJob, DeployOf
  <2>4. exec'[d].pc = "idle" /\ \A x \in Dep \ {d} : exec'[x] = exec[x]
    BY <1>1, <2>1 DEF Settled, IdleExec
  <2>5. CallMove(d) /\ JobMove(d)
    BY <2>1, <2>4 DEF CallMove, JobMove, Over
  <2> QED
    BY <2>1, <2>3, <2>4, <2>5, CallMoves, RowsStay
<1> QED
  BY <1>2, <1>5, <1>6, <1>7, <1>8, <1>9, <1>10, <1>11, <1>12, <1>13, <1>20 DEF Execute

LEMMA ControllerMoves ==
  ASSUME TypeInv, OneInFlight, ControllerNext
  PROVE  Moves
<1>1. RowsTyped /\ queued \in SUBSET Job /\ running \in SUBSET Job
  BY DEF TypeInv, JobsTyped
<1>2. CASE DeleteFailed
  <2>1. \A d \in Dep : RowMove(d)
    BY <1>1, <1>2 DEF DeleteFailed, NoRow, RowMove, RowsTyped, InFlight
  <2>2. UNCHANGED <<exec, lane, queued, running, queueing, dbErrors>>
    BY <1>2 DEF DeleteFailed, jobVars, actorVars, faultVars
  <2> QED
    BY <1>1, <2>1, <2>2, CallsUntouched
<1>3. ASSUME NEW d \in Dep, QueueDeploy(d) PROVE Moves
  <2>1. row'[d].status # "none" /\ \A x \in Dep : RowMove(x)
    BY <1>1, <1>3, RowEnters DEF QueueDeploy, InFlight
  <2>2. UNCHANGED <<exec, lane, queued, running, dbErrors>> /\ queueing' = queueing \cup {d}
    BY <1>3 DEF QueueDeploy, actorVars, faultVars
  <2>3. \A x \in Dep : HasJob(x)' <=> HasJob(x)
    BY <2>2 DEF HasJob
  <2>4. \A x \in Dep : CallMove(x) /\ JobMove(x) /\ HoldMove(x)
    BY <2>1, <2>2, <2>3 DEF CallMove, JobMove, HoldMove, Held
  <2> QED
    BY <2>1, <2>2, <2>4 DEF Moves
<1>4. ASSUME NEW d \in Dep, EnqueueDeploy(d) \/ EnqueueDeployError(d) PROVE Moves
  <2>1. /\ UNCHANGED <<row, exec, lane, running>> /\ (dbErrors' = dbErrors \/ DbError)
        /\ d \in queueing /\ queueing' = queueing \ {d}
        /\ (queued' = queued \/ queued' = queued \cup {NewJob("deploy", d)})
    BY <1>4 DEF EnqueueDeploy, EnqueueDeployError, rowVars, actorVars, faultVars
  <2>2. \A x \in Dep : HasJob(x) => HasJob(x)'
    BY <2>1 DEF HasJob
  <2>3. \A x \in Dep : HasJob(x)' => HasJob(x) \/ x = d
    BY <2>1 DEF HasJob, NewJob
  <2>4. \A x \in Dep : CallMove(x) /\ JobMove(x) /\ HoldMove(x)
    BY <2>1, <2>2, <2>3 DEF CallMove, JobMove, HoldMove, Held
  <2>5. \A x \in Dep : RowMove(x)
    BY <2>1, RowsStay
  <2> QED
    BY <2>1, <2>4, <2>5 DEF Moves, DbError
<1> QED
  BY <1>2, <1>3, <1>4, ExecuteMoves DEF ControllerNext

LEMMA LaneMoves ==
  ASSUME TypeInv, TypeInv', LaneNext
  PROVE  Moves
<1>1. /\ RowsTyped /\ queued \in SUBSET Job /\ running \in SUBSET Job
      /\ queued' \in SUBSET Job /\ running' \in SUBSET Job
      /\ lane \in Lane /\ lane.job.kind # "deploy"
      /\ IdleLane.pc = "idle"
  BY DEF TypeInv, JobsTyped, Backed, IdleLane
<1> DEFINE SameJobs == \A j \in Job : j.kind = "deploy" =>
                         (j \in queued' \cup running' <=> j \in queued \cup running)
           Same == /\ UNCHANGED <<exec, queueing>> /\ (dbErrors' = dbErrors \/ DbError)
                   /\ lane'.pc # "queue"
<1>2. ASSUME Same, SameJobs, \A d \in Dep : RowMove(d) PROVE Moves
  BY <1>1, <1>2, CallsUntouched
<1>3. ASSUME NEW pc, LaneTo(pc) PROVE lane'.pc = pc
  BY <1>1, <1>3 DEF LaneTo, Lane
<1>4. CASE ClaimInline
  <2>1. PICK j \in queued :
          /\ j.kind # "deploy"
          /\ queued' = queued \ {j} /\ running' = running \cup {Claimed(j)}
          /\ lane' = [IdleLane EXCEPT !.pc = FirstStep[j.kind], !.job = Claimed(j)]
    BY <1>4 DEF ClaimInline
  <2>2. Claimed(j) \in Job /\ Claimed(j).kind # "deploy"
    BY <1>1, <2>1, JobsSucceed
  <2>3. SameJobs
    BY <2>1, <2>2
  <2>4. Same /\ UNCHANGED row
    <3>1. lane'.pc = FirstStep[j.kind] /\ j.kind \in {"drain", "cleanup", "reconcile"}
      BY <1>1, <2>1 DEF IdleLane, Job, JobKind
    <3>2. FirstStep[j.kind] # "queue"
      BY <3>1 DEF FirstStep
    <3> QED
      BY <1>4, <3>1, <3>2 DEF ClaimInline, rowVars, faultVars
  <2> QED
    BY <1>2, <2>3, <2>4, RowsStay
<1>5. CASE \/ ReadDrained \/ DrainOver \/ CheckCleanup \/ StartSweep
           \/ ReadRows \/ ReconcileInsertThrows \/ ReadDesired
  <2>1. LaneStep
    BY <1>5 DEF ReadDrained, DrainOver, CheckCleanup, StartSweep, ReadRows,
                ReconcileInsertThrows, ReadDesired
  <2>2. lane'.pc # "queue"
    BY <1>1, <1>3, <1>5 DEF ReadDrained, DrainOver, CheckCleanup, StartSweep, ReadRows,
                ReconcileInsertThrows, ReadDesired, Lane
  <2>3. Same /\ SameJobs /\ UNCHANGED row
    BY <2>1, <2>2 DEF LaneStep, jobVars, faultVars
  <2> QED
    BY <1>2, <2>3, RowsStay
<1>6. CASE LaneDbError \/ DrainStops \/ DestroyBox \/ ReapRuns
  <2>1. UNCHANGED <<rowVars, jobVars, exec>> /\ (dbErrors' = dbErrors \/ DbError)
    BY <1>6 DEF LaneDbError, DrainStops, DestroyBox, ReapRuns
  <2>2. lane'.pc # "queue"
    BY <1>3, <1>6 DEF LaneDbError, DrainStops, DestroyBox, ReapRuns
  <2>3. Same /\ SameJobs /\ UNCHANGED row
    BY <2>1, <2>2 DEF jobVars, rowVars
  <2> QED
    BY <1>2, <2>3, RowsStay
<1>7. CASE DrainWaits \/ ScheduleCleanup \/ ReconcileLater
  <2>1. \A d : /\ NewJob("drain", d).kind # "deploy" /\ NewJob("cleanup", d).kind # "deploy"
               /\ ReconcileJob.kind # "deploy"
    BY DEF NewJob, ReconcileJob
  <2>2. /\ UNCHANGED <<rowVars, running, queueing, exec>> /\ (dbErrors' = dbErrors \/ DbError)
        /\ LaneTo("done")
        /\ (queued' = queued \/ \E j : j.kind # "deploy" /\ queued' = queued \cup {j})
    BY <1>7, <2>1 DEF DrainWaits, ScheduleCleanup, ReconcileLater, faultVars
  <2>3. Same /\ SameJobs /\ UNCHANGED row
    BY <1>3, <2>2 DEF rowVars
  <2> QED
    BY <1>2, <2>3, RowsStay
<1>8. CASE MarkStopped
  <2>1. Same /\ SameJobs
    BY <1>3, <1>8 DEF MarkStopped, jobVars, faultVars
  <2>2. \A d \in Dep : RowMove(d)
    <3>1. Subject \in Dep =>
            [row[Subject] EXCEPT !.status = "stopped", !.weighted = FALSE].status = "stopped"
      BY <1>1 DEF RowsTyped, Row
    <3> QED
      BY <1>1, <1>8, <3>1, OneRowMoves DEF MarkStopped, InFlight
  <2> QED
    BY <1>2, <2>1, <2>2
<1>9. CASE ReconcileInserts
  <2>1. PICK d \in Dep : /\ InsertRow(d, "pending", 0)
                         /\ lane' = [lane EXCEPT !.pc = "queue", !.dep = d]
    BY <1>9 DEF ReconcileInserts
  <2>2. UNCHANGED <<exec, queued, running, queueing, dbErrors>> /\ lane'.dep = d
    BY <1>1, <1>9, <2>1 DEF ReconcileInserts, jobVars, faultVars, Lane
  <2>3. row'[d].status # "none" /\ \A x \in Dep : RowMove(x)
    BY <1>1, <2>1, RowEnters DEF InFlight
  <2>4. \A x \in Dep : HasJob(x)' <=> HasJob(x)
    BY <2>2 DEF HasJob
  <2>5. \A x \in Dep : CallMove(x) /\ JobMove(x) /\ HoldMove(x)
    BY <2>2, <2>3, <2>4 DEF CallMove, JobMove, HoldMove, Held
  <2> QED
    BY <2>2, <2>3, <2>5 DEF Moves
<1>10. CASE ReconcileEnqueues
  <2>1. /\ UNCHANGED <<row, exec, running, queueing, dbErrors>> /\ lane.pc = "queue"
        /\ lane'.pc = "done" /\ queued' = queued \cup {NewJob("deploy", lane.dep)}
    BY <1>3, <1>10 DEF ReconcileEnqueues, LaneAt, rowVars, faultVars
  <2>2. \A x \in Dep : HasJob(x) => HasJob(x)'
    BY <2>1 DEF HasJob
  <2>3. \A x \in Dep : HasJob(x)' => HasJob(x) \/ x = lane.dep
    BY <2>1 DEF HasJob, NewJob
  <2>4. \A x \in Dep : CallMove(x) /\ JobMove(x) /\ HoldMove(x)
    BY <2>1, <2>2, <2>3 DEF CallMove, JobMove, HoldMove, Held
  <2>5. \A x \in Dep : RowMove(x)
    BY <2>1, RowsStay
  <2> QED
    BY <2>1, <2>4, <2>5 DEF Moves
<1>11. CASE EndSweep \/ CompleteInline \/ RetryInline
  <2>1. UNCHANGED <<row, exec, queueing>> /\ (dbErrors' = dbErrors \/ DbError)
    BY <1>11 DEF EndSweep, CompleteInline, RetryInline, LaneEnds, rowVars
  <2>2. lane'.pc # "queue"
    BY <1>1, <1>3, <1>11 DEF EndSweep, CompleteInline, RetryInline
  <2>3. SameJobs
    <3>1. Refailed(lane.job) \subseteq {lane.job}
      BY DEF Refailed
    <3> QED
      BY <1>1, <1>11, <3>1 DEF EndSweep, CompleteInline, RetryInline
  <2> QED
    BY <1>2, <2>1, <2>2, <2>3, RowsStay
<1> QED
  BY <1>4, <1>5, <1>6, <1>7, <1>8, <1>9, <1>10, <1>11 DEF LaneNext

LEMMA ServeMoves ==
  ASSUME TypeInv, NEW w \in Actor, Serve(w) \/ Begin(w)
  PROVE  Moves
<1>1. /\ RowsTyped /\ exec \in [Dep -> Exec] /\ queued \in SUBSET Job /\ running \in SUBSET Job
  BY DEF TypeInv, JobsTyped
<1> DEFINE d == Of(w)
           s == Newest(req[w].stopped)
           o == req[w].stale
<1>2. ASSUME ReqStep, exec' = exec, dbErrors' = dbErrors \/ DbError, \A x \in Dep : RowMove(x)
      PROVE  Moves
  BY <1>1, <1>2, CallsUntouched DEF ReqStep, jobVars
<1>3. CASE \/ ClaimUrl(w) \/ RefreshUrl(w) \/ GiveUp(w) \/ WakePromote(w) \/ Retire(w)
  <2>1. ReqStep /\ exec' = exec /\ dbErrors' = dbErrors
    BY <1>3 DEF ClaimUrl, RefreshUrl, GiveUp, WakePromote, Retire
  <2>2. \/ UNCHANGED row
        \/ row[d].status = "live" /\ \E u \in BOOLEAN : row' = [row EXCEPT ![d].url = u]
        \/ row' = [row EXCEPT ![d].status = "stopped", ![d].url = FALSE]
        \/ row' = [row EXCEPT ![s].status = "live", ![s].url = TRUE]
        \/ row[o].status = "stopped" /\ row' = [row EXCEPT ![o].weighted = FALSE]
    BY <1>3 DEF ClaimUrl, RefreshUrl, GiveUp, WakePromote, Retire
  <2> HIDE DEF d, s, o
  <2>3. \A x \in Dep : \/ row'[x].status = row[x].status
                       \/ row'[x].status \in {"live", "stopped"}
    BY <1>1, <2>2 DEF RowsTyped, Row
  <2>4. \A x \in Dep : RowMove(x)
    BY <2>3 DEF RowMove, InFlight
  <2> QED
    BY <1>2, <2>1, <2>4
<1>4. CASE \/ Probe(w) \/ Restart(w) \/ Decide(w) \/ WakeStart(w) \/ Begin(w)
           \/ ReplaceReadEnv(w) \/ ReplaceLoses(w)
           \/ CheckRetired(w) \/ DestroyRetired(w) \/ ReqDbError(w)
  <2>1. ReqStep /\ UNCHANGED <<row, exec>> /\ (dbErrors' = dbErrors \/ DbError)
    BY <1>4 DEF Probe, Restart, Decide, WakeStart, StartBox, StartBoxFails, Begin,
                ReplaceReadEnv, ReplaceLoses, CheckRetired, DestroyRetired, ReqDbError
  <2> QED
    BY <1>2, <2>1, RowsStay
<1>8. CASE ReplaceInsertError(w)
  <2>1. /\ ReqStep /\ UNCHANGED exec /\ DbError
        /\ \E x \in Dep : InsertRow(x, "building", req[w].rev)
    BY <1>8 DEF ReplaceInsertError
  <2>2. \A x \in Dep : RowMove(x)
    BY <1>1, <2>1, RowEnters DEF InFlight
  <2> QED
    BY <1>2, <2>1, <2>2
<1>5. CASE ReplaceInsert(w)
  <2>1. PICK x \in Dep :
          /\ InsertRow(x, "building", req[w].rev)
          /\ exec' = [exec EXCEPT ![x] = [IdleExec EXCEPT !.pc = "resolve",
                                            !.rev = req[w].rev, !.by = w]]
    BY <1>5 DEF ReplaceInsert
  <2>2. UNCHANGED <<queueing, lane, queued, running, dbErrors>>
    BY <1>5 DEF ReplaceInsert, ReqStep, jobVars
  <2>3. row'[x].status # "none" /\ \A y \in Dep : RowMove(y)
    BY <1>1, <2>1, RowEnters DEF InFlight
  <2>4. exec'[x].pc = "resolve" /\ \A y \in Dep \ {x} : exec'[y] = exec[y]
    BY <1>1, <2>1 DEF IdleExec
  <2>5. \A y \in Dep : HasJob(y)' <=> HasJob(y)
    BY <2>2 DEF HasJob
  <2>6. \A y \in Dep : CallMove(y) /\ JobMove(y) /\ HoldMove(y)
    BY <2>2, <2>3, <2>4, <2>5 DEF CallMove, JobMove, HoldMove, Held, Over
  <2> QED
    BY <2>2, <2>3, <2>6 DEF Moves
<1>6. CASE Replaced(w)
  <2>1. /\ UNCHANGED <<row, queueing, lane, queued, running, dbErrors>> /\ Settled(req[w].dep)
    BY <1>6 DEF Replaced, ReqStep, jobVars
  <2>2. \A y \in Dep : exec'[y] = exec[y] \/ exec'[y].pc = "idle"
    BY <1>1, <2>1 DEF Settled, IdleExec
  <2>3. \A y \in Dep : HasJob(y)' <=> HasJob(y)
    BY <2>1 DEF HasJob
  <2>4. \A y \in Dep : CallMove(y) /\ JobMove(y) /\ HoldMove(y)
    BY <2>1, <2>2, <2>3 DEF CallMove, JobMove, HoldMove, Held, Over
  <2>5. \A y \in Dep : RowMove(y)
    BY <2>1, RowsStay
  <2> QED
    BY <2>1, <2>4, <2>5 DEF Moves
<1>7. CASE End(w)
  <2>1. UNCHANGED <<row, exec, lane, queued, running, queueing, dbErrors>>
    BY <1>7 DEF End, rowVars, jobVars, faultVars
  <2> QED
    BY <1>1, <2>1, CallsUntouched, RowsStay
<1> QED
  BY <1>3, <1>4, <1>5, <1>6, <1>7, <1>8 DEF Serve

LEMMA StepMoves ==
  ASSUME TypeInv, TypeInv', OneInFlight, [Next]_vars
  PROVE  Moves
<1>1. CASE \/ Bump \/ Invalidate \/ Deadline \/ BoxDies \/ Requeue \/ Crash
           \/ \E r \in Run : RunStart(r) \/ RunFinish(r)
           \/ UNCHANGED vars
  <2>1. UNCHANGED row /\ (dbErrors' = dbErrors \/ DbError)
    BY <1>1 DEF Bump, Invalidate, Deadline, BoxDies, Requeue, Crash, RunStart, RunFinish,
                vars, rowVars, faultVars
  <2>2. /\ exec' = exec \/ exec' = [d \in Dep |-> IdleExec]
        /\ queueing' \subseteq queueing /\ (lane' = lane \/ lane'.pc = "idle")
    BY <1>1 DEF Bump, Invalidate, Deadline, BoxDies, Requeue, Crash, RunStart, RunFinish,
                vars, jobVars, actorVars, IdleLane
  <2>3. /\ queued \in SUBSET Job /\ running \in SUBSET Job
        /\ queued' \in SUBSET Job /\ running' \in SUBSET Job
    BY DEF TypeInv, JobsTyped
  <2>4. \A j \in Job : j.kind = "deploy" =>
          (j \in queued' \cup running' <=> j \in queued \cup running)
    <3>1. CASE Deadline
      <4>1. PICK i \in queued : i.kind = "drain" /\ running' = running
              /\ queued' = (queued \ {i}) \cup {[i EXCEPT !.late = TRUE]}
        BY <3>1 DEF Deadline
      <4>2. [i EXCEPT !.late = TRUE].kind = "drain"
        BY <2>3, <4>1, JobsSucceed
      <4> QED
        BY <4>1, <4>2
    <3>2. CASE Invalidate
      <4>1. ReconcileJob.kind # "deploy"
        BY DEF ReconcileJob, NewJob
      <4> QED
        BY <3>2, <4>1 DEF Invalidate
    <3>3. CASE Bump \/ BoxDies \/ Crash \/ (\E r \in Run : RunStart(r) \/ RunFinish(r))
               \/ UNCHANGED vars
      BY <3>3 DEF Bump, BoxDies, Crash, RunStart, RunFinish, vars, jobVars
    <3>4. CASE Requeue
      BY <3>4 DEF Requeue
    <3> QED
      BY <1>1, <3>1, <3>2, <3>3, <3>4
  <2> QED
    BY <2>1, <2>2, <2>3, <2>4, RowsStay, CallsUntouched
<1> QED
  BY <1>1, ControllerMoves, LaneMoves, ServeMoves DEF Next, WakeNext

---------------------------------------------------------------------------

LEMMA JobInvKept ==
  ASSUME JobInv, RowsStored, [Next]_vars
  PROVE  /\ JobInv'
         /\ \A d \in InFlightRows \cap InFlightRows' :
              HasJob(d) /\ dbErrors' = 0 => HasJob(d)'
<1>1. TypeInv' /\ OneInFlight'
  BY StepTyped, StepOfTable, OneInFlightKept DEF JobInv
<1>2. Moves
  BY <1>1, StepMoves DEF JobInv
<1>3. ASSUME NEW d \in Dep, Held(d)' PROVE row'[d].status # "none"
  BY <1>2, <1>3 DEF Moves, HoldMove, RowMove, JobInv
<1>4. dbErrors' = 0 => dbErrors = 0
  BY <1>2 DEF Moves, JobInv, TypeInv, FaultsTyped
<1>5. ASSUME dbErrors' = 0, NEW d \in Dep, exec'[d].pc \in Over
      PROVE  row'[d].status \notin InFlight
  <2>1. CASE exec[d].pc \in Over
    <3>1. row[d].status \notin InFlight \cup {"none"}
      BY <1>4, <1>5, <2>1 DEF JobInv, Held, Over, InFlightRows
    <3>2. ~At(d, "take")
      BY <2>1 DEF At, Over
    <3> QED
      BY <1>2, <3>1, <3>2 DEF Moves, RowMove
  <2>2. CASE exec[d].pc \notin Over
    BY <1>2, <1>4, <1>5, <2>2 DEF Moves, CallMove
  <2> QED
    BY <2>1, <2>2
<1>6. JobInv'
  BY <1>1, <1>3, <1>5 DEF JobInv, InFlightRows
<1>7. ASSUME NEW d \in InFlightRows \cap InFlightRows', HasJob(d), dbErrors' = 0
      PROVE  HasJob(d)'
  <2>1. d \in Dep /\ d \in InFlightRows
    BY DEF InFlightRows
  <2>2. exec[d].pc \notin {"ok", "threw"}
    BY <1>4, <1>7, <2>1 DEF JobInv, Over
  <2> QED
    BY <1>2, <1>7, <2>1, <2>2 DEF Moves, JobMove
<1> QED
  BY <1>6, <1>7

\* A restart loses no deploy: unless a database call is rejected, the job of a
\* row in flight stays in the queue, whatever calls, wakes and restarts do.
THEOREM JobsNotLost == Spec => DeployJobKept
<1>1. Init => JobInv
  <2>1. SUFFICES ASSUME Init PROVE JobInv
    OBVIOUS
  <2>2. OneInFlight
    BY <2>1 DEF Init, NoRow, OneInFlight, InFlightRows, InFlight
  <2>3. \A d \in Dep : ~Held(d) /\ exec[d].pc \notin Over
    BY <2>1 DEF Init, Held, HasJob, IdleExec, IdleLane, Over
  <2> QED
    BY <2>1, <2>2, <2>3, InitTyped DEF JobInv
<1>2. JobInv /\ RowsStored /\ [Next]_vars => JobInv'
  BY JobInvKept
<1>3. JobInv /\ RowsStored /\ [Next]_vars =>
        [\A d \in InFlightRows \cap InFlightRows' :
           HasJob(d) /\ dbErrors' = 0 => HasJob(d)']_vars
  BY JobInvKept
<1> QED
  BY <1>1, <1>2, <1>3, TableStored, PTL DEF Spec, DeployJobKept
=============================================================================
