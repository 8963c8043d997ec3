---------------------------- MODULE DeployCalm_proofs ----------------------------
(***************************************************************************)
(* What an environment's calls and jobs know of each other while no        *)
(* database call is rejected and the process is not restarted; container   *)
(* faults are allowed.  A deploy is then in one place at a time: between   *)
(* its insert and its enqueue, queued, or with the one call that works on  *)
(* it; and the status of its row says how far that call is.  From there:   *)
(* every draining row has a watcher (DrainsWatched), a live row shows no   *)
(* newer revision than its container knows (RevisionsHonest), what serves  *)
(* is replaced by what is ready (ServingContinuous), and a drain does not  *)
(* cut a run short before its time (InterruptedOnlyAfterDeadline).         *)
(* After a restart, whatever it left: every current live row has its       *)
(* container once the boot sweep is over (SweepRestores).                  *)
(* Last, the environment implements EnvironmentSlot (ImplementsSlot).      *)
(***************************************************************************)
EXTENDS DeployJobs_proofs

\* What a deployment that was promoted can be; it serves, or did.
Served == {"live", "draining", "stopped"}

\* The calls before they own the row, while they own it, and afterwards.
Begun == {"env", "take"}
Working == {"resolve", "launch", "siblings", "demote", "abort", "fail"}
Won == {"audit", "schedule", "ok"}
Lost == {"failed", "threw"}

LaneQueues(d) == lane.pc = "queue" /\ lane.dep = d
QueuedJobs(d) == {j \in queued : DeployOf(j, d)}
RunningJobs(d) == {j \in running : DeployOf(j, d)}
Waiting(d) == d \in queueing \/ LaneQueues(d) \/ QueuedJobs(d) # {}

\* The row of d, its job and its call fit together.
RowFits(d) ==
  /\ exec[d].pc \in Begun => row[d].status \in {"pending", "failed", "deleted"}
  /\ exec[d].pc \in Working <=> row[d].status = "building"
  /\ exec[d].pc \in Won => row[d].status \in Served
  /\ exec[d].pc \in Lost => row[d].status \in {"failed", "deleted"}
  /\ row[d].status = "pending" => Waiting(d) \/ exec[d].pc \in Begun
JobFits(d) ==
  /\ exec[d].pc = "idle" => exec[d] = IdleExec
  /\ Waiting(d) => /\ exec[d].pc = "idle"
                   /\ row[d].status \in {"pending", "failed", "deleted"}
  /\ d \in queueing => ~LaneQueues(d) /\ QueuedJobs(d) = {}
  /\ LaneQueues(d) => QueuedJobs(d) = {}
  /\ \A i, j \in QueuedJobs(d) : i = j
  /\ \A i, j \in RunningJobs(d) : i = j
  /\ RunningJobs(d) # {} => exec[d].pc # "idle" /\ exec[d].by = "job"

\* What a cutover remembers was in service when it looked.
SupFits(d) ==
  /\ exec[d].pc \notin {"demote"} \cup Won => exec[d].sup = {}
  /\ exec[d].pc \in {"demote", "schedule"} => exec[d].todo \subseteq exec[d].sup
  /\ \A x \in exec[d].sup : row[x].status \in Served

DrainPC == {"drain", "count", "stop", "mark", "reap", "grace"}
DrainFits ==
  /\ \A j \in queued \cup running \cup {lane.job} :
       j.kind = "drain" => j.dep \in Dep /\ row[j.dep].status \in Served
  /\ lane.pc \in DrainPC => lane.job.kind = "drain"

\* The call a request awaits is its own.
ReqFits == \A w \in Actor :
  req[w].pc = "deploying" => /\ req[w].dep \in Dep
                             /\ exec[req[w].dep].by = w /\ exec[req[w].dep].pc # "idle"

Calm == /\ phase = "booted"
        /\ \A d \in Dep : RowFits(d) /\ JobFits(d) /\ SupFits(d)
        /\ DrainFits /\ ReqFits

Undisturbed == crashes = 0 /\ dbErrors = 0
CalmInv == TypeInv /\ OneInFlight /\ (Undisturbed => Calm)

\* The hypotheses of a step that is not a fault.
CalmStep == /\ TypeInv /\ TypeInv' /\ OneInFlight /\ Calm
            /\ Undisturbed /\ Undisturbed'

---------------------------------------------------------------------------
(* The deployments a step leaves alone.                                    *)

\* A row that was promoted, or failed, at most changes within that.
Stays(x) == \/ row'[x].status = row[x].status
            \/ row[x].status \in Served /\ row'[x].status \in Served
            \/ row[x].status = "failed" /\ row'[x].status = "deleted"

Apart(x) == /\ Stays(x) /\ exec'[x] = exec[x]
            /\ QueuedJobs(x)' = QueuedJobs(x) /\ RunningJobs(x)' = RunningJobs(x)
            /\ x \in queueing' <=> x \in queueing
            /\ LaneQueues(x)' <=> LaneQueues(x)

LEMMA ApartFits ==
  ASSUME NEW x \in Dep, RowFits(x), JobFits(x), Apart(x)
  PROVE  RowFits(x)' /\ JobFits(x)'
<1>1. Waiting(x)' <=> Waiting(x)
  BY DEF Apart, Waiting
<1>2. RowFits(x)'
  BY <1>1 DEF Apart, Stays, RowFits, Served, Begun, Working, Won, Lost
<1>3. JobFits(x)'
  BY <1>1 DEF Apart, Stays, JobFits, Served
<1> QED
  BY <1>2, <1>3

\* What promoted rows a step remembers stay promoted.
LEMMA ServedStays ==
  ASSUME NEW x, Stays(x), row[x].status \in Served
  PROVE  row'[x].status \in Served
BY DEF Stays, Served

\* Jobs other than deploys come and go.
LEMMA OtherJobs ==
  ASSUME queued' \in SUBSET Job, running' \in SUBSET Job, queued \in SUBSET Job,
         running \in SUBSET Job,
         \A j \in Job : j.kind = "deploy" => /\ j \in queued' <=> j \in queued
                                             /\ j \in running' <=> j \in running
  PROVE  \A x : QueuedJobs(x)' = QueuedJobs(x) /\ RunningJobs(x)' = RunningJobs(x)
BY DEF QueuedJobs, RunningJobs, DeployOf

\* A step of the lane, of a request, or of a user: it works on no call.
LEMMA NoCallStep ==
  ASSUME CalmStep, \A x \in Dep : Apart(x), phase' = phase, DrainFits', ReqFits'
  PROVE  Calm'
<1>1. \A x \in Dep : RowFits(x)' /\ JobFits(x)'
  BY ApartFits DEF CalmStep, Calm
<1>2. ASSUME NEW x \in Dep PROVE SupFits(x)'
  <2>1. exec'[x] = exec[x] /\ SupFits(x) /\ exec[x].sup \in SUBSET Dep
    BY DEF CalmStep, Calm, Apart, TypeInv, Exec
  <2>2. \A y \in exec[x].sup : row'[y].status \in Served
    BY <2>1, ServedStays DEF SupFits, Apart
  <2> QED
    BY <2>1, <2>2 DEF SupFits
<1> QED
  BY <1>1, <1>2 DEF CalmStep, Calm

\* A step of the call on d, which fits afterwards.
LEMMA CallStep ==
  ASSUME CalmStep, NEW d \in Dep, \A x \in Dep \ {d} : Apart(x), phase' = phase,
         RowFits(d)', JobFits(d)', row[d].status \in Served => row'[d].status \in Served,
         exec'[d].pc \notin {"demote"} \cup Won => exec'[d].sup = {},
         exec'[d].pc \in {"demote", "schedule"} => exec'[d].todo \subseteq exec'[d].sup,
         \A x \in exec'[d].sup : x \in Dep /\ row[x].status \in Served,
         DrainFits', ReqFits'
  PROVE  Calm'
<1>1. \A x \in Dep : RowFits(x)' /\ JobFits(x)'
  BY ApartFits DEF CalmStep, Calm
<1>2. ASSUME NEW y \in Dep, row[y].status \in Served PROVE row'[y].status \in Served
  BY <1>2, ServedStays DEF Apart
<1>3. SupFits(d)'
  BY <1>2 DEF SupFits
<1>4. ASSUME NEW x \in Dep \ {d} PROVE SupFits(x)'
  <2>1. exec'[x] = exec[x] /\ SupFits(x) /\ exec[x].sup \in SUBSET Dep
    BY DEF CalmStep, Calm, Apart, TypeInv, Exec
  <2> QED
    BY <1>2, <2>1 DEF SupFits
<1> QED
  BY <1>1, <1>3, <1>4 DEF CalmStep, Calm

---------------------------------------------------------------------------
(* deployRelease.                                                          *)

\* Where a call is says what its row can be.
InStep(pc, status) ==
  \/ pc \in Begun /\ status \in {"pending", "failed", "deleted"}
  \/ pc \in Working /\ status = "building"
  \/ pc \in Won /\ status \in Served
  \/ pc \in Lost /\ status \in {"failed", "deleted"}

LEMMA CallInStep ==
  ASSUME CalmStep, NEW d \in Dep, exec[d].pc # "idle"
  PROVE  /\ InStep(exec[d].pc, row[d].status) /\ ~Waiting(d)
         /\ exec[d].pc \in Begun \cup Working \cup Won \cup Lost
<1>1. exec[d].pc \in ExecPC
  BY DEF CalmStep, TypeInv, Exec
<1>2. exec[d].pc \in Begun \cup Working \cup Won \cup Lost
  BY <1>1 DEF ExecPC, Begun, Working, Won, Lost
<1> QED
  BY <1>2 DEF CalmStep, Calm, RowFits, JobFits, InStep

LEMMA DrainsStay ==
  ASSUME CalmStep, \A x \in Dep : row[x].status \in Served => row'[x].status \in Served,
         lane' = lane,
         \A j \in queued' \cup running' : j.kind = "drain" =>
           j \in queued \cup running \/ (j.dep \in Dep /\ row[j.dep].status \in Served)
  PROVE  DrainFits'
BY DEF CalmStep, Calm, DrainFits

LEMMA ReqsStay ==
  ASSUME CalmStep, req' = req, NEW d \in Dep, \A x \in Dep \ {d} : exec'[x] = exec[x],
         exec[d].by = "job" \/ exec[d].pc = "idle"
           \/ (exec'[d].by = exec[d].by /\ exec'[d].pc # "idle")
  PROVE  ReqFits'
<1>1. "job" \notin Actor
  BY TypedValues DEF CalmStep
<1>2. ASSUME NEW w \in Actor, req'[w].pc = "deploying"
      PROVE  /\ req'[w].dep \in Dep
             /\ exec'[req'[w].dep].by = w /\ exec'[req'[w].dep].pc # "idle"
  <2>1. /\ req'[w].dep = req[w].dep /\ req[w].dep \in Dep
        /\ exec[req[w].dep].by = w /\ exec[req[w].dep].pc # "idle"
    BY <1>2 DEF CalmStep, Calm, ReqFits
  <2> QED
    BY <1>1, <2>1
<1> QED
  BY <1>2 DEF ReqFits

\* A call goes on.
LEMMA CallGoesOn ==
  ASSUME CalmStep, NEW d \in Dep, exec[d].pc # "idle", NEW q,
         exec' = [exec EXCEPT ![d] = q], q.by = exec[d].by, q.pc # "idle",
         UNCHANGED <<queueing, running, lane, req, phase>>,
         \A x : QueuedJobs(x)' = QueuedJobs(x),
         \A j \in queued' : j.kind = "drain" =>
           j \in queued \/ (j.dep \in Dep /\ row[j.dep].status \in Served),
         \A x \in Dep \ {d} : Stays(x), InStep(q.pc, row'[d].status),
         row[d].status \in Served => row'[d].status \in Served,
         q.pc \notin {"demote"} \cup Won => q.sup = {},
         q.pc \in {"demote", "schedule"} => q.todo \subseteq q.sup,
         \A x \in q.sup : x \in Dep /\ row[x].status \in Served
  PROVE  Calm'
<1>1. exec'[d] = q /\ \A x \in Dep \ {d} : exec'[x] = exec[x]
  BY DEF CalmStep, TypeInv
<1>2. \A x : /\ QueuedJobs(x)' = QueuedJobs(x) /\ RunningJobs(x)' = RunningJobs(x)
             /\ x \in queueing' <=> x \in queueing
             /\ LaneQueues(x)' <=> LaneQueues(x)
             /\ Waiting(x)' <=> Waiting(x)
  BY DEF RunningJobs, DeployOf, LaneQueues, Waiting
<1>3. \A x \in Dep \ {d} : Apart(x)
  BY <1>1, <1>2 DEF Apart
<1>4. ~Waiting(d)'
  BY <1>2, CallInStep
<1>5. RowFits(d)'
  BY <1>1, <1>4 DEF RowFits, InStep, Begun, Working, Won, Lost, Served
<1>6. JobFits(d)'
  <2>1. JobFits(d)
    BY DEF CalmStep, Calm
  <2> QED
    BY <1>1, <1>2, <1>4, <2>1 DEF JobFits, Waiting
<1>7. \A x \in Dep : row[x].status \in Served => row'[x].status \in Served
  BY ServedStays
<1>8. DrainFits'
  BY <1>7, DrainsStay
<1>9. ReqFits'
  BY <1>1, ReqsStay
<1> QED
  BY <1>1, <1>3, <1>5, <1>6, <1>8, <1>9, CallStep

\* A call goes on without a statement against the deployments table or the queue.
LEMMA CallAdvances ==
  ASSUME CalmStep, NEW d \in Dep, exec[d].pc # "idle", NEW q,
         exec' = [exec EXCEPT ![d] = q], q.by = exec[d].by, q.pc # "idle",
         UNCHANGED <<row, queued, queueing, running, lane, req, phase>>,
         InStep(q.pc, row[d].status),
         q.pc \notin {"demote"} \cup Won => q.sup = {},
         q.pc \in {"demote", "schedule"} => q.todo \subseteq q.sup,
         \A x \in q.sup : x \in Dep /\ row[x].status \in Served
  PROVE  Calm'
<1>1. \A x : QueuedJobs(x)' = QueuedJobs(x)
  BY DEF QueuedJobs, DeployOf
<1>2. \A x \in Dep : Stays(x)
  BY DEF Stays
<1> QED
  BY <1>1, <1>2, CallGoesOn

\* No database call was rejected.
LEMMA NoDbError == CalmStep => ~DbError /\ UNCHANGED <<crashes, dbErrors>>
BY DEF CalmStep, Undisturbed, DbError

\* The worker's call ends.
LEMMA CallEndsCalm ==
  ASSUME CalmStep, NEW d \in Dep, exec[d].pc \in {"ok", "threw"}, exec[d].by = "job",
         Settled(d), running' = running \ {DeployJob(d)},
         \/ queued' = queued /\ exec[d].pc = "ok"
         \/ queued' = queued \cup Refailed(DeployJob(d)) /\ exec[d].pc = "threw",
         UNCHANGED <<row, queueing, lane, req, phase>>
  PROVE  Calm'
<1>1. exec'[d] = IdleExec /\ \A x \in Dep \ {d} : exec'[x] = exec[x]
  BY DEF CalmStep, TypeInv, Settled
<1>2. /\ DeployJob(d) \in running /\ DeployOf(DeployJob(d), d)
      /\ Refailed(DeployJob(d)) \subseteq {DeployJob(d)}
  BY HasDeployJob DEF CalmStep, Refailed
<1>3. RunningJobs(d)' = {}
  <2>1. JobFits(d)
    BY DEF CalmStep, Calm
  <2> QED
    BY <1>2, <2>1 DEF JobFits, RunningJobs, DeployOf
<1>4. QueuedJobs(d)' \subseteq {DeployJob(d)} /\ ~(d \in queueing') /\ ~LaneQueues(d)'
  <2>1. QueuedJobs(d) = {} /\ d \notin queueing /\ ~LaneQueues(d)
    BY CallInStep DEF Waiting
  <2> QED
    BY <1>2, <2>1 DEF QueuedJobs, LaneQueues, DeployOf
<1>5. exec[d].pc = "ok" => ~Waiting(d)'
  <2>1. QueuedJobs(d) = {}
    BY CallInStep DEF Waiting
  <2> QED
    BY <1>4, <2>1 DEF QueuedJobs, Waiting, DeployOf
<1>6. row'[d].status \in Served \cup {"failed", "deleted"}
      /\ (exec[d].pc = "threw" => row'[d].status \in {"failed", "deleted"})
  BY CallInStep DEF InStep, Begun, Working, Won, Lost
<1>7. RowFits(d)'
  BY <1>1, <1>6 DEF RowFits, IdleExec, Begun, Working, Won, Lost, Served
<1>8. JobFits(d)'
  BY <1>1, <1>3, <1>4, <1>5, <1>6 DEF JobFits, IdleExec
<1>9. ASSUME NEW x \in Dep \ {d} PROVE Apart(x)
  <2>1. QueuedJobs(x)' = QueuedJobs(x) /\ RunningJobs(x)' = RunningJobs(x)
    BY <1>2 DEF QueuedJobs, RunningJobs, DeployOf
  <2> QED
    BY <1>1, <2>1 DEF Apart, Stays, LaneQueues
<1>10. DrainFits'
  BY <1>2, DrainsStay DEF DeployOf
<1>11. ReqFits'
  BY <1>1, ReqsStay
<1> QED
  BY <1>1, <1>7, <1>8, <1>9, <1>10, <1>11, CallStep DEF IdleExec, Won

LEMMA ExecuteCalm ==
  ASSUME CalmStep, NEW d \in Dep, Execute(d)
  PROVE  Calm'
<1>1. /\ exec \in [Dep -> Exec] /\ exec[d] \in Exec /\ row \in [Dep -> Row]
      /\ ~DbError /\ phase = "booted" /\ SupFits(d) /\ RowFits(d) /\ JobFits(d)
  BY NoDbError DEF CalmStep, Calm, TypeInv, RowsTyped
<1>2. \A x \in exec[d].sup : x \in Dep /\ row[x].status \in Served
  BY <1>1 DEF SupFits, Exec
<1>3. exec[d].pc # "idle" => InStep(exec[d].pc, row[d].status)
  BY CallInStep
<1>4. CASE BeginDeploy(d)
  <2>1. PICK j \in queued : /\ j.kind = "deploy" /\ j.dep = d
                            /\ queued' = queued \ {j}
                            /\ running' = running \cup {Claimed(j)}
    BY <1>4 DEF BeginDeploy
  <2>2. Claimed(j).kind = "deploy" /\ Claimed(j).dep = d
    BY <2>1, JobsSucceed DEF CalmStep, TypeInv, JobsTyped
  <2>3. /\ UNCHANGED <<row, queueing, lane, req, phase>>
        /\ exec[d] = IdleExec /\ exec' = [exec EXCEPT ![d] = [IdleExec EXCEPT !.pc = "env"]]
    BY <1>1, <1>4 DEF BeginDeploy, Goto, JobFits, At, rowVars
  <2>4. /\ exec'[d] = [IdleExec EXCEPT !.pc = "env"] /\ exec'[d].pc = "env"
        /\ exec'[d].sup = {} /\ exec'[d].by = "job"
        /\ \A x \in Dep \ {d} : exec'[x] = exec[x]
    BY <1>1, <2>3 DEF IdleExec
  <2>5. QueuedJobs(d) = {j} /\ QueuedJobs(d)' = {}
    BY <1>1, <2>1 DEF JobFits, QueuedJobs, DeployOf
  <2>6. /\ row[d].status \in {"pending", "failed", "deleted"} /\ RunningJobs(d) = {}
        /\ d \notin queueing /\ ~LaneQueues(d)
    BY <1>1, <2>3, <2>5 DEF JobFits, Waiting, IdleExec
  <2>7. RunningJobs(d)' = {Claimed(j)}
    BY <2>1, <2>2, <2>6 DEF RunningJobs, DeployOf
  <2>8. ~LaneQueues(d)' /\ ~(d \in queueing')
    BY <2>3, <2>6 DEF LaneQueues
  <2>9. RowFits(d)'
    BY <2>3, <2>4, <2>6 DEF RowFits, Begun, Working, Won, Lost
  <2>10. JobFits(d)'
    BY <2>4, <2>5, <2>7, <2>8 DEF JobFits, Waiting
  <2>11. ASSUME NEW x \in Dep \ {d} PROVE Apart(x)
    <3>1. QueuedJobs(x)' = QueuedJobs(x) /\ RunningJobs(x)' = RunningJobs(x)
      BY <2>1, <2>2 DEF QueuedJobs, RunningJobs, DeployOf
    <3> QED
      BY <2>3, <2>4, <3>1 DEF Apart, Stays, LaneQueues
  <2>12. DrainFits'
    BY <2>1, <2>2, <2>3, DrainsStay
  <2>13. ReqFits'
    BY <2>3, <2>4, ReqsStay DEF IdleExec
  <2> QED
    BY <2>3, <2>4, <2>6, <2>9, <2>10, <2>11, <2>12, <2>13, CallStep DEF Won
<1>5. CASE ReadEnv(d) \/ ResolveEnv(d) \/ LaunchLive(d) \/ LaunchFails(d)
  <2>1. PICK q : /\ exec' = [exec EXCEPT ![d] = q] /\ q.by = exec[d].by /\ q.sup = exec[d].sup
                 /\ \/ exec[d].pc = "env" /\ q.pc = "take"
                    \/ exec[d].pc \in {"resolve", "launch"}
                       /\ q.pc \in {"launch", "siblings", "abort"}
    <3> DEFINE q1 == [exec[d] EXCEPT !.pc = "take", !.rev = envRev]
               q2 == [exec[d] EXCEPT !.pc = "launch", !.rev = envRev]
               q3 == [exec[d] EXCEPT !.pc = "siblings", !.rev = 0]
               q4 == [exec[d] EXCEPT !.pc = "abort", !.rev = 0]
               OK(q) == q.by = exec[d].by /\ q.sup = exec[d].sup
    <3>1. /\ q1.pc = "take" /\ OK(q1) /\ q2.pc = "launch" /\ OK(q2)
          /\ q3.pc = "siblings" /\ OK(q3) /\ q4.pc = "abort" /\ OK(q4)
      BY <1>1 DEF Exec
    <3>2. ReadEnv(d) => exec[d].pc = "env" /\ exec' = [exec EXCEPT ![d] = q1]
      BY DEF ReadEnv, At
    <3>3. ResolveEnv(d) => exec[d].pc = "resolve" /\ exec' = [exec EXCEPT ![d] = q2]
      BY DEF ResolveEnv, At
    <3>4. LaunchLive(d) => exec[d].pc = "launch" /\ exec' = [exec EXCEPT ![d] = q3]
      BY DEF LaunchLive, At
    <3>5. LaunchFails(d) => exec[d].pc = "launch" /\ exec' = [exec EXCEPT ![d] = q4]
      BY DEF LaunchFails, At
    <3> HIDE DEF q1, q2, q3, q4
    <3> QED
      BY <1>5, <3>1, <3>2, <3>3, <3>4, <3>5
  <2>2. UNCHANGED <<row, queued, queueing, running, lane, req, phase>>
    BY <1>5 DEF ReadEnv, ResolveEnv, LaunchLive, LaunchFails, ExecStep, jobVars
  <2>3. q.sup = {} /\ InStep(q.pc, row[d].status)
    BY <1>1, <1>3, <2>1 DEF SupFits, InStep, Begun, Working, Won, Lost
  <2> QED
    BY <2>1, <2>2, <2>3, CallAdvances DEF Won
<1>6. CASE ReadSiblings(d)
  <2> DEFINE q == [exec[d] EXCEPT !.pc = "demote", !.todo = Live \ {d}, !.sup = Live \ {d}]
  <2>1. exec' = [exec EXCEPT ![d] = q] /\ exec[d].pc = "siblings"
    BY <1>6 DEF ReadSiblings, At
  <2>2. q.by = exec[d].by /\ q.pc = "demote" /\ q.sup = Live \ {d} /\ q.todo = Live \ {d}
    BY <1>1 DEF Exec
  <2>3. UNCHANGED <<row, queued, queueing, running, lane, req, phase>>
    BY <1>6 DEF ReadSiblings, ExecStep, jobVars
  <2>4. InStep("demote", row[d].status)
    BY <1>3, <2>1 DEF InStep, Begun, Working, Won, Lost
  <2>5. \A x \in Live \ {d} : x \in Dep /\ row[x].status \in Served
    BY DEF Live, Served
  <2> HIDE DEF q
  <2> QED
    BY <2>1, <2>2, <2>3, <2>4, <2>5, CallAdvances DEF Won
<1>7. CASE Audit(d) \/ Finish(d)
  <2>1. PICK q : /\ exec' = [exec EXCEPT ![d] = q] /\ q.by = exec[d].by /\ q.sup = exec[d].sup
                 /\ exec[d].pc \in {"audit", "schedule"}
                 /\ q.pc = "ok" \/ (q.pc = "schedule" /\ q.todo = q.sup)
    <3> DEFINE q1 == [exec[d] EXCEPT !.pc = "schedule", !.todo = exec[d].sup]
               q2 == [exec[d] EXCEPT !.pc = "ok"]
    <3>1. /\ q1.by = exec[d].by /\ q1.sup = exec[d].sup /\ q1.pc = "schedule"
          /\ q1.todo = q1.sup
          /\ q2.by = exec[d].by /\ q2.sup = exec[d].sup /\ q2.pc = "ok"
      BY <1>1 DEF Exec
    <3>2. Audit(d) => exec[d].pc = "audit" /\ exec' = [exec EXCEPT ![d] = q1]
      BY DEF Audit, At
    <3>3. Finish(d) => exec[d].pc = "schedule" /\ exec' = [exec EXCEPT ![d] = q2]
      BY DEF Finish, Goto, At
    <3> HIDE DEF q1, q2
    <3> QED
      BY <1>7, <3>1, <3>2, <3>3
  <2>2. UNCHANGED <<row, queued, queueing, running, lane, req, phase>>
    BY <1>7 DEF Audit, Finish, ExecStep, jobVars
  <2>3. InStep(q.pc, row[d].status)
    BY <1>3, <2>1 DEF InStep, Begun, Working, Won, Lost
  <2>4. q.pc \in {"schedule", "ok"} /\ q.pc \in Won
    BY <2>1 DEF Won
  <2> QED
    BY <1>2, <2>1, <2>2, <2>3, <2>4, CallAdvances
<1>8. ASSUME NEW pc, exec[d].pc # "idle", exec' = [exec EXCEPT ![d].pc = pc]
      PROVE  \E q : /\ exec' = [exec EXCEPT ![d] = q] /\ q.pc = pc /\ q.by = exec[d].by
                    /\ q.sup = exec[d].sup /\ q.todo = exec[d].todo
  <2>1. exec' = [exec EXCEPT ![d] = [exec[d] EXCEPT !.pc = pc]]
    BY <1>8
  <2>2. /\ [exec[d] EXCEPT !.pc = pc].pc = pc /\ [exec[d] EXCEPT !.pc = pc].by = exec[d].by
        /\ [exec[d] EXCEPT !.pc = pc].sup = exec[d].sup
        /\ [exec[d] EXCEPT !.pc = pc].todo = exec[d].todo
    BY <1>1 DEF Exec
  <2> QED
    BY <2>1, <2>2
<1>9. CASE TakeRow(d) \/ TakeRowThrows(d) \/ AbortInfra(d)
  <2>1. PICK q : /\ exec' = [exec EXCEPT ![d] = q] /\ q.by = exec[d].by
                 /\ q.sup = exec[d].sup /\ q.todo = exec[d].todo
                 /\ \/ TakeRow(d) /\ q.pc = "resolve"
                    \/ TakeRowThrows(d) /\ q.pc = "threw"
                    \/ AbortInfra(d) /\ q.pc = "fail"
    <3>1. CASE TakeRow(d)
      BY <1>8, <3>1 DEF TakeRow, Taken, Goto, At
    <3>2. CASE TakeRowThrows(d)
      BY <1>8, <3>2 DEF TakeRowThrows, Goto, At
    <3>3. CASE AbortInfra(d)
      BY <1>8, <3>3 DEF AbortInfra, Goto, At
    <3> QED
      BY <1>9, <3>1, <3>2, <3>3
  <2>2. UNCHANGED <<queued, queueing, running, lane, req, phase>> /\ exec[d].pc # "idle"
        /\ exec[d].pc \in {"take", "abort"}
    BY <1>9 DEF TakeRow, TakeRowThrows, AbortInfra, At, ExecStep, jobVars
  <2>3. \A x \in Dep \ {d} : Stays(x)
    BY <1>1, <1>9 DEF TakeRow, Taken, TakeRowThrows, AbortInfra, Stays
  <2>4. InStep(q.pc, row'[d].status)
    <3>1. CASE TakeRow(d)
      <4>1. row'[d].status = "building" /\ exec[d].pc = "take"
        BY <1>1, <3>1 DEF TakeRow, Taken, At, Row
      <4>2. q.pc = "resolve"
        BY <2>1, <3>1, <4>1 DEF TakeRowThrows, Exists, SlotFree, AbortInfra, TakeRow, At
      <4> QED
        BY <4>1, <4>2 DEF InStep, Working
    <3>2. CASE TakeRowThrows(d)
      <4>1. row'[d] = row[d] /\ q.pc = "threw" /\ exec[d].pc = "take"
        BY <2>1, <3>2 DEF TakeRow, TakeRowThrows, AbortInfra, At
      <4>2. row[d].status \in {"pending", "failed", "deleted"}
        BY <1>1, <4>1 DEF RowFits, Begun
      <4>3. row[d].status # "pending"
        BY <3>2 DEF TakeRowThrows, Exists, SlotFree, CalmStep, OneInFlight, InFlightRows,
                    InFlight
      <4> QED
        BY <4>1, <4>2, <4>3 DEF InStep, Lost
    <3>3. CASE AbortInfra(d)
      <4>1. row'[d] = row[d] /\ q.pc = "fail" /\ exec[d].pc = "abort"
        BY <2>1, <3>3 DEF TakeRow, TakeRowThrows, AbortInfra, At
      <4> QED
        BY <1>1, <4>1 DEF RowFits, Working, InStep
    <3> QED
      BY <1>9, <3>1, <3>2, <3>3
  <2>5. row[d].status \notin Served
    BY <1>1, <2>2 DEF RowFits, Begun, Working, Served
  <2>6. q.sup = {} /\ q.pc # "idle" /\ q.pc \notin {"demote", "schedule"}
    BY <1>1, <2>1, <2>2 DEF SupFits, Won
  <2>7. \A x : QueuedJobs(x)' = QueuedJobs(x)
    BY <2>2 DEF QueuedJobs, DeployOf
  <2> HIDE DEF Stays
  <2> QED
    BY <2>1, <2>2, <2>3, <2>4, <2>5, <2>6, <2>7, CallGoesOn
<1>10. CASE Demote(d)
  <2>1. PICK x \in exec[d].todo : /\ row' = Update(x, Draining(x))
                                  /\ exec' = [exec EXCEPT ![d].todo = @ \ {x}]
    BY <1>10 DEF Demote
  <2> DEFINE q == [exec[d] EXCEPT !.todo = @ \ {x}]
  <2>2. /\ exec' = [exec EXCEPT ![d] = q] /\ q.by = exec[d].by /\ q.pc = exec[d].pc
        /\ q.sup = exec[d].sup /\ q.todo \subseteq exec[d].todo
    BY <1>1, <2>1 DEF Exec
  <2>3. exec[d].pc = "demote" /\ UNCHANGED <<queued, queueing, running, lane, req, phase>>
    BY <1>10 DEF Demote, At, ExecStep, jobVars
  <2>4. x \in Dep /\ row[x].status \in Served /\ row[d].status = "building"
    BY <1>1, <1>2, <2>1, <2>3 DEF SupFits, RowFits, Working
  <2>5. x # d /\ row' = [row EXCEPT ![x] = Draining(x)]
    BY <2>1, <2>4 DEF Served, Update, Exists
  <2>6. row'[d] = row[d] /\ \A y \in Dep : Stays(y)
    BY <1>1, <2>4, <2>5 DEF Stays, Draining, Served, Row
  <2>7. \A y : QueuedJobs(y)' = QueuedJobs(y)
    BY <2>3 DEF QueuedJobs, DeployOf
  <2>8. InStep("demote", row'[d].status) /\ exec[d].todo \subseteq exec[d].sup
    BY <1>1, <2>3, <2>4, <2>6 DEF InStep, Working, SupFits
  <2> HIDE DEF q
  <2> QED
    BY ZenonT(100), <1>2, <2>2, <2>3, <2>4, <2>6, <2>7, <2>8, CallGoesOn DEF Served
<1>11. CASE Promote(d) \/ FailRow(d)
  <2>1. /\ exec[d].pc \in {"demote", "fail"}
        /\ UNCHANGED <<queued, queueing, running, lane, req, phase>>
    BY <1>11 DEF Promote, FailRow, At, ExecStep, jobVars
  <2>2. row[d].status = "building" /\ Exists(d)
    BY <1>1, <2>1 DEF RowFits, Working, Exists
  <2>3. PICK q : /\ exec' = [exec EXCEPT ![d] = q] /\ q.by = exec[d].by
                 /\ q.sup = exec[d].sup /\ q.todo = exec[d].todo
                 /\ \/ Promote(d) /\ q.pc = "audit"
                    \/ FailRow(d) /\ q.pc = "failed"
    BY <1>8, <1>11, <2>1 DEF Promote, FailRow, Goto
  <2>4. InStep(q.pc, row'[d].status) /\ \A x \in Dep \ {d} : Stays(x)
    <3>1. CASE Promote(d)
      BY <1>1, <2>2, <2>3, <3>1 DEF Promote, FailRow, At, Update, InStep, Won, Served, Stays, Row
    <3>2. CASE FailRow(d)
      BY <1>1, <2>2, <2>3, <3>2 DEF Promote, FailRow, At, Update, InStep, Lost, Stays, Row
    <3> QED
      BY <1>11, <3>1, <3>2
  <2>5. q.pc \notin {"demote"} \cup Won => q.sup = {}
    BY <1>1, <2>3 DEF SupFits, Promote, FailRow, At, Won
  <2>6. q.pc # "idle" /\ q.pc \notin {"demote", "schedule"} /\ row[d].status \notin Served
    BY <2>2, <2>3 DEF Served
  <2>7. \A x : QueuedJobs(x)' = QueuedJobs(x)
    BY <2>1 DEF QueuedJobs, DeployOf
  <2> QED
    BY <1>2, <2>1, <2>3, <2>4, <2>5, <2>6, <2>7, CallGoesOn
<1>12. CASE ScheduleDrain(d)
  <2>1. PICK x \in exec[d].todo : /\ exec' = [exec EXCEPT ![d].todo = @ \ {x}]
                                  /\ queued' = queued \cup {NewJob("drain", x)}
    BY <1>1, <1>12 DEF ScheduleDrain
  <2> DEFINE q == [exec[d] EXCEPT !.todo = @ \ {x}]
  <2>2. /\ exec' = [exec EXCEPT ![d] = q] /\ q.by = exec[d].by /\ q.pc = exec[d].pc
        /\ q.sup = exec[d].sup /\ q.todo \subseteq exec[d].todo
    BY <1>1, <2>1 DEF Exec
  <2>3. exec[d].pc = "schedule" /\ UNCHANGED <<row, queueing, running, lane, req, phase>>
    BY <1>12 DEF ScheduleDrain, At, rowVars
  <2>4. exec[d].todo \subseteq exec[d].sup /\ x \in Dep /\ row[x].status \in Served
    BY <1>1, <1>2, <2>1, <2>3 DEF SupFits
  <2>5. NewJob("drain", x).kind = "drain" /\ NewJob("drain", x).dep = x
    BY DEF NewJob
  <2>6. \A y : QueuedJobs(y)' = QueuedJobs(y)
    BY <2>1, <2>5 DEF QueuedJobs, DeployOf
  <2>7. InStep("schedule", row[d].status) /\ \A y \in Dep : Stays(y)
    BY <1>3, <2>3 DEF Stays
  <2>8. "schedule" \in Won
    BY DEF Won
  <2>9. \A j \in queued' : j.kind = "drain" =>
          j \in queued \/ (j.dep \in Dep /\ row[j.dep].status \in Served)
    BY <2>1, <2>4, <2>5
  <2>10. q.todo \subseteq q.sup /\ row'[d] = row[d] /\ exec[d].pc # "idle"
    BY <2>2, <2>3, <2>4
  <2> HIDE DEF q
  <2> QED
    BY <1>2, <2>2, <2>3, <2>6, <2>7, <2>8, <2>9, <2>10, CallGoesOn
<1>13. CASE DeployFailed(d)
  <2>1. /\ exec[d].pc = "failed" /\ UNCHANGED <<row, queueing, running, lane, req, phase>>
        /\ Goto(d, "threw") /\ (queued' = queued \/ queued' = queued \cup {ReconcileJob})
    BY <1>1, <1>13 DEF DeployFailed, JobStep, At, rowVars
  <2>2. PICK q : /\ exec' = [exec EXCEPT ![d] = q] /\ q.pc = "threw" /\ q.by = exec[d].by
                 /\ q.sup = exec[d].sup /\ q.todo = exec[d].todo
    BY ZenonT(100), <1>8, <2>1 DEF Goto
  <2>3. ReconcileJob.kind = "reconcile"
    BY DEF ReconcileJob, NewJob
  <2>4. \A y : QueuedJobs(y)' = QueuedJobs(y)
    BY <2>1, <2>3 DEF QueuedJobs, DeployOf
  <2>5. InStep("threw", row[d].status) /\ q.sup = {} /\ \A y \in Dep : Stays(y)
    BY <1>1, <1>3, <2>1, <2>2 DEF Stays, InStep, Begun, Working, Won, Lost, SupFits
  <2> QED
    BY <2>1, <2>2, <2>3, <2>4, <2>5, CallGoesOn DEF Won
<1>14. CASE CompleteDeploy(d) \/ RetryDeploy(d)
  <2>1. UNCHANGED <<row, queueing, lane, req, phase>>
    BY <1>14 DEF CompleteDeploy, RetryDeploy, JobStep, rowVars
  <2> QED
    BY <1>14, <2>1, CallEndsCalm DEF CompleteDeploy, RetryDeploy, At
<1> QED
  BY <1>1, <1>4, <1>5, <1>6, <1>7, <1>9, <1>10, <1>11, <1>12, <1>13, <1>14
     DEF Execute, TakeRowError, DemoteError, PromoteError, AuditError, FailRowError,
        CompleteDeployError,
         RetryDeployError

---------------------------------------------------------------------------
(* Users, the inline jobs and the requests.                                *)

\* A row that is inserted has no job and no call yet.
LEMMA FreshRow ==
  ASSUME CalmStep, NEW d \in Dep, NEW status \in InFlight, NEW rev, InsertRow(d, status, rev)
  PROVE  /\ row[d].status = "none" /\ row'[d].status = status /\ exec[d] = IdleExec
         /\ ~Waiting(d) /\ RunningJobs(d) = {}
         /\ \A x \in Dep \ {d} : row'[x] = row[x]
<1>1. row[d].status = "none" /\ row \in [Dep -> Row] /\ RowFits(d) /\ JobFits(d)
      /\ exec[d].pc \in ExecPC
  BY DEF InsertRow, IsNext, CalmStep, Calm, TypeInv, RowsTyped, Exec
<1>2. exec[d].pc = "idle"
  BY <1>1 DEF RowFits, ExecPC, Begun, Working, Won, Lost, Served
<1>3. ~Waiting(d) /\ RunningJobs(d) = {}
  BY <1>1, <1>2 DEF JobFits
<1>4. row'[d].status = status /\ \A x \in Dep \ {d} : row'[x] = row[x]
  BY <1>1 DEF InsertRow
<1> QED
  BY <1>1, <1>2, <1>3, <1>4 DEF JobFits

LEMMA UserCalm ==
  ASSUME CalmStep, NEW d \in Dep, QueueDeploy(d) \/ EnqueueDeploy(d)
  PROVE  Calm'
<1>1. /\ UNCHANGED <<exec, lane, req, phase, running>> /\ RowFits(d) /\ JobFits(d) /\ SupFits(d)
  BY DEF QueueDeploy, EnqueueDeploy, actorVars, CalmStep, Calm
<1>2. ReqFits'
  BY <1>1 DEF CalmStep, Calm, ReqFits
<1>3. \A x \in exec[d].sup : x \in Dep /\ row[x].status \in Served
  BY <1>1 DEF SupFits, CalmStep, TypeInv, Exec
<1>4. \A x : RunningJobs(x)' = RunningJobs(x) /\ (LaneQueues(x)' <=> LaneQueues(x))
  BY <1>1 DEF RunningJobs, LaneQueues, DeployOf
<1>5. CASE QueueDeploy(d)
  <2>1. /\ row[d].status = "none" /\ row'[d].status = "pending" /\ exec[d] = IdleExec
        /\ ~Waiting(d) /\ RunningJobs(d) = {}
        /\ \A x \in Dep \ {d} : row'[x] = row[x]
    BY <1>5, FreshRow DEF QueueDeploy, InFlight
  <2>2. queued' = queued /\ queueing' = queueing \cup {d}
    BY <1>5 DEF QueueDeploy
  <2>3. \A x : QueuedJobs(x)' = QueuedJobs(x)
    BY <2>2 DEF QueuedJobs, DeployOf
  <2>4. RowFits(d)'
    BY <1>1, <2>1, <2>2 DEF RowFits, IdleExec, Waiting, Begun, Working, Won, Lost
  <2>5. JobFits(d)'
    BY <1>1, <1>4, <2>1, <2>2, <2>3 DEF JobFits, IdleExec, Waiting
  <2>6. \A x \in Dep \ {d} : Apart(x)
    BY <1>1, <1>4, <2>1, <2>2, <2>3 DEF Apart, Stays
  <2>7. DrainFits'
    BY <1>1, <2>1, <2>2, DrainsStay DEF Served
  <2> QED
    BY <1>1, <1>2, <1>3, <2>1, <2>4, <2>5, <2>6, <2>7, CallStep DEF IdleExec, Won, Served
<1>6. CASE EnqueueDeploy(d)
  <2>1. /\ d \in queueing /\ queued' = queued \cup {NewJob("deploy", d)}
        /\ queueing' = queueing \ {d} /\ row' = row
    BY <1>6 DEF EnqueueDeploy, rowVars
  <2>2. /\ exec[d] = IdleExec /\ row[d].status \in {"pending", "failed", "deleted"}
        /\ ~LaneQueues(d) /\ QueuedJobs(d) = {} /\ RunningJobs(d) = {}
    BY <1>1, <2>1 DEF JobFits, Waiting
  <2>3. NewJob("deploy", d).kind = "deploy" /\ NewJob("deploy", d).dep = d
    BY DEF NewJob
  <2>4. QueuedJobs(d)' = {NewJob("deploy", d)}
        /\ \A x : x # d => QueuedJobs(x)' = QueuedJobs(x)
    BY <2>1, <2>2, <2>3 DEF QueuedJobs, DeployOf
  <2>5. RowFits(d)'
    BY <1>1, <2>1, <2>2, <2>4 DEF RowFits, IdleExec, Waiting, Begun, Working, Won, Lost
  <2>6. JobFits(d)'
    BY <1>1, <1>4, <2>1, <2>2, <2>4 DEF JobFits, IdleExec, Waiting
  <2>7. \A x \in Dep \ {d} : Apart(x)
    BY <1>1, <1>4, <2>1, <2>4 DEF Apart, Stays
  <2>8. DrainFits'
    BY <1>1, <2>1, <2>3, DrainsStay
  <2> QED
    BY <1>1, <1>2, <1>3, <2>1, <2>2, <2>5, <2>6, <2>7, <2>8, CallStep DEF IdleExec, Won
<1> QED
  BY <1>5, <1>6

\* An inline job's step that inserts and enqueues no deployment.
LEMMA InlineCalm ==
  ASSUME CalmStep, UNCHANGED <<exec, queueing, req, phase>>,
         \A j \in Job : j.kind = "deploy" => /\ j \in queued' <=> j \in queued
                                             /\ j \in running' <=> j \in running,
         \A x \in Dep : Stays(x), lane.pc # "queue", lane'.pc # "queue",
         lane'.pc \in DrainPC => lane'.job.kind = "drain",
         \A j \in queued' \cup running' \cup {lane'.job} : j.kind = "drain" =>
           \E i \in queued \cup running \cup {lane.job} : i.kind = "drain" /\ i.dep = j.dep
  PROVE  Calm'
<1>1. \A x : QueuedJobs(x)' = QueuedJobs(x) /\ RunningJobs(x)' = RunningJobs(x)
  BY OtherJobs DEF CalmStep, TypeInv, JobsTyped
<1>2. \A x \in Dep : Apart(x)
  BY <1>1 DEF Apart, LaneQueues
<1>3. \A x \in Dep : row[x].status \in Served => row'[x].status \in Served
  BY ServedStays
<1>4. DrainFits'
  BY <1>3 DEF CalmStep, Calm, DrainFits
<1>5. ReqFits'
  BY DEF CalmStep, Calm, ReqFits
<1> QED
  BY <1>2, <1>4, <1>5, NoCallStep

LEMMA LaneCalm ==
  ASSUME CalmStep, LaneNext
  PROVE  Calm'
<1>1. /\ lane \in Lane /\ row \in [Dep -> Row] /\ ~DbError /\ phase = "booted" /\ DrainFits
      /\ queued \in SUBSET Job /\ running \in SUBSET Job /\ lane.job.kind # "deploy"
      /\ \A x \in Dep : RowFits(x) /\ JobFits(x) /\ SupFits(x)
  BY NoDbError DEF CalmStep, Calm, TypeInv, JobsTyped, RowsTyped, Backed
<1>2. UNCHANGED row => \A x \in Dep : Stays(x)
  BY DEF Stays
<1>3. ASSUME NEW pc, LaneTo(pc) PROVE lane'.pc = pc /\ lane'.job = lane.job
  BY <1>1, <1>3 DEF LaneTo, Lane
<1>4. lane.pc \in DrainPC => lane.job.kind = "drain" /\ Subject \in Dep
                             /\ row[Subject].status \in Served
  BY <1>1 DEF DrainFits, Subject
<1>5. CASE ClaimInline
  <2>1. PICK j \in queued :
          /\ j.kind # "deploy"
          /\ queued' = queued \ {j} /\ running' = running \cup {Claimed(j)}
          /\ lane' = [IdleLane EXCEPT !.pc = FirstStep[j.kind], !.job = Claimed(j)]
    BY <1>5 DEF ClaimInline
  <2>2. Claimed(j).kind = j.kind /\ Claimed(j).dep = j.dep
    BY <1>1, <2>1, JobsSucceed
  <2>3. /\ lane'.pc = FirstStep[j.kind] /\ lane'.job = Claimed(j)
        /\ j.kind \in {"drain", "cleanup", "reconcile"}
    BY <1>1, <2>1 DEF IdleLane, Job, JobKind
  <2>4. lane'.pc # "queue" /\ (lane'.pc \in DrainPC => j.kind = "drain")
    BY <2>3 DEF FirstStep, DrainPC
  <2>5. UNCHANGED <<exec, queueing, req, phase, row>> /\ lane.pc # "queue"
    BY <1>5 DEF ClaimInline, LaneAt, rowVars
  <2> QED
    BY <1>2, <2>1, <2>2, <2>3, <2>4, <2>5, InlineCalm
<1>6. CASE \/ ReadDrained \/ DrainOver \/ CheckCleanup \/ ReadRows
           \/ ReconcileInsertThrows \/ ReadDesired
  <2>1. LaneStep /\ lane.pc # "queue" /\ lane'.pc # "queue" /\ lane'.job = lane.job
        /\ (lane'.pc \in DrainPC => lane.pc \in DrainPC)
    <3>1. CASE ReadDesired
      BY <1>1, <3>1 DEF ReadDesired, LaneAt, Lane, DrainPC
    <3>2. CASE \/ ReadDrained \/ DrainOver \/ CheckCleanup \/ ReadRows
               \/ ReconcileInsertThrows
      BY <1>3, <3>2 DEF ReadDrained, DrainOver, CheckCleanup, ReadRows,
                        ReconcileInsertThrows, LaneAt, DrainPC
    <3> QED
      BY <1>6, <3>1, <3>2
  <2>2. UNCHANGED <<exec, queueing, req, phase, row, queued, running>>
    BY <2>1 DEF LaneStep, jobVars
  <2> QED
    BY <1>2, <1>4, <2>1, <2>2, InlineCalm
<1>7. CASE DrainStops \/ DestroyBox \/ ReapRuns
  <2>1. UNCHANGED <<rowVars, jobVars, exec, req, phase>>
    BY <1>7 DEF DrainStops, DestroyBox, ReapRuns
  <2>2. /\ lane.pc # "queue" /\ lane'.pc # "queue" /\ lane'.job = lane.job
        /\ (lane'.pc \in DrainPC => lane.pc \in DrainPC)
    BY <1>3, <1>7 DEF DrainStops, DestroyBox, ReapRuns, LaneAt, DrainPC
  <2>3. UNCHANGED <<exec, queueing, req, phase, row, queued, running>>
    BY <2>1 DEF jobVars, rowVars
  <2> QED
    BY <1>2, <1>4, <2>2, <2>3, InlineCalm
<1>8. CASE DrainWaits \/ ScheduleCleanup \/ ReconcileLater
  <2>1. /\ NewJob("drain", Subject).kind = "drain" /\ NewJob("drain", Subject).dep = Subject
        /\ NewJob("cleanup", Subject).kind = "cleanup" /\ ReconcileJob.kind = "reconcile"
    BY DEF NewJob, ReconcileJob
  <2>2. /\ UNCHANGED <<exec, queueing, req, phase, row, running>>
        /\ lane.pc # "queue" /\ lane'.pc = "done" /\ lane'.job = lane.job
    BY <1>3, <1>8 DEF DrainWaits, ScheduleCleanup, ReconcileLater, LaneAt, rowVars
  <2>3. \/ queued' = queued
        \/ \E j : queued' = queued \cup {j} /\ j.kind \in {"cleanup", "reconcile"}
        \/ /\ queued' = queued \cup {NewJob("drain", Subject)} /\ lane.job.kind = "drain"
    BY <1>4, <1>8, <2>1 DEF DrainWaits, ScheduleCleanup, ReconcileLater, LaneAt, DrainPC
  <2>4. \A j \in Job : j.kind = "deploy" => (j \in queued' <=> j \in queued)
    BY <2>1, <2>3
  <2>5. \A j \in queued' : j.kind = "drain" =>
          \E i \in queued \cup {lane.job} : i.kind = "drain" /\ i.dep = j.dep
    BY <2>1, <2>3 DEF Subject
  <2>6. "done" \notin DrainPC
    BY DEF DrainPC
  <2> QED
    BY <1>2, <2>2, <2>4, <2>5, <2>6, InlineCalm
<1>9. CASE MarkStopped
  <2>1. /\ UNCHANGED <<exec, queueing, req, phase, queued, running>> /\ lane.pc = "mark"
        /\ lane'.pc = "reap" /\ lane'.job = lane.job
    BY <1>3, <1>9 DEF MarkStopped, LaneAt, jobVars
  <2>2. lane.pc \in DrainPC
    BY <2>1 DEF DrainPC
  <2>3. \A x \in Dep : Stays(x)
    <3>1. Subject \in Dep /\ row[Subject].status \in Served
      BY <1>4, <2>2
    <3>2. row' = [row EXCEPT ![Subject] =
                    [row[Subject] EXCEPT !.status = "stopped", !.weighted = FALSE]]
      BY <1>9, <3>1 DEF MarkStopped, Update, Exists, Served
    <3> QED
      BY <1>1, <3>1, <3>2 DEF Stays, Served, Row
  <2> QED
    BY <1>4, <2>1, <2>2, <2>3, InlineCalm
<1>10. CASE CompleteInline \/ RetryInline
  <2>1. /\ UNCHANGED <<exec, queueing, req, phase, row>> /\ lane.pc \in {"done", "threw"}
        /\ lane' = IdleLane /\ running' = running \ {lane.job}
        /\ (queued' = queued \/ queued' = queued \cup Refailed(lane.job))
    BY <1>1, <1>10 DEF CompleteInline, RetryInline, LaneEnds, LaneAt, rowVars
  <2>2. /\ IdleLane.pc = "idle" /\ IdleLane.job.kind = "reconcile" /\ "idle" \notin DrainPC
        /\ Refailed(lane.job) \subseteq {lane.job}
    BY DEF IdleLane, ReconcileJob, NewJob, DrainPC, Refailed
  <2> QED
    BY <1>1, <1>2, <2>1, <2>2, InlineCalm
<1>11. CASE ReconcileInserts
  <2>1. PICK d \in Dep : /\ InsertRow(d, "pending", 0)
                         /\ lane' = [lane EXCEPT !.pc = "queue", !.dep = d]
    BY <1>11 DEF ReconcileInserts
  <2>2. /\ row[d].status = "none" /\ row'[d].status = "pending" /\ exec[d] = IdleExec
        /\ ~Waiting(d) /\ RunningJobs(d) = {}
        /\ \A x \in Dep \ {d} : row'[x] = row[x]
    BY <2>1, FreshRow DEF InFlight
  <2>3. /\ UNCHANGED <<exec, queueing, req, phase, queued, running>> /\ lane.pc = "insert"
        /\ lane'.pc = "queue" /\ lane'.dep = d /\ lane'.job = lane.job
    BY <1>1, <1>11, <2>1 DEF ReconcileInserts, LaneAt, jobVars, Lane
  <2>4. /\ \A x : QueuedJobs(x)' = QueuedJobs(x) /\ RunningJobs(x)' = RunningJobs(x)
        /\ LaneQueues(d)' /\ \A x : x # d => ~LaneQueues(x)' /\ ~LaneQueues(x)
    BY <2>3 DEF QueuedJobs, RunningJobs, LaneQueues, DeployOf
  <2>5. RowFits(d)'
    BY <2>2, <2>3, <2>4 DEF RowFits, IdleExec, Waiting, Begun, Working, Won, Lost
  <2>6. JobFits(d)'
    BY <2>2, <2>3, <2>4 DEF JobFits, IdleExec, Waiting
  <2>7. \A x \in Dep \ {d} : Apart(x)
    BY <2>2, <2>3, <2>4 DEF Apart, Stays
  <2>8. DrainFits'
    BY <1>1, <2>2, <2>3 DEF DrainFits, DrainPC, Served
  <2>9. ReqFits'
    BY <2>3 DEF CalmStep, Calm, ReqFits
  <2> QED
    BY <2>2, <2>3, <2>5, <2>6, <2>7, <2>8, <2>9, CallStep DEF IdleExec, Won, Served
<1>12. CASE ReconcileEnqueues
  <2>1. /\ UNCHANGED <<exec, queueing, req, phase, row, running>> /\ lane.pc = "queue"
        /\ lane'.pc = "done" /\ lane'.job = lane.job
        /\ queued' = queued \cup {NewJob("deploy", lane.dep)}
    BY <1>3, <1>12 DEF ReconcileEnqueues, LaneAt, rowVars
  <2>2. NewJob("deploy", lane.dep).kind = "deploy" /\ NewJob("deploy", lane.dep).dep = lane.dep
    BY DEF NewJob
  <2>3. /\ \A x : RunningJobs(x)' = RunningJobs(x) /\ ~LaneQueues(x)'
        /\ \A x : x # lane.dep => QueuedJobs(x)' = QueuedJobs(x) /\ ~LaneQueues(x)
    BY <2>1, <2>2 DEF QueuedJobs, RunningJobs, LaneQueues, DeployOf
  <2>4. DrainFits'
    BY <1>1, <2>1, <2>2 DEF DrainFits, DrainPC
  <2>5. ReqFits'
    BY <2>1 DEF CalmStep, Calm, ReqFits
  <2>6. \A x \in Dep : x # lane.dep => Apart(x)
    BY <2>1, <2>3 DEF Apart, Stays
  <2>7. CASE lane.dep \in Dep
    <3>1. PICK d \in Dep : d = lane.dep
      BY <2>7
    <3>2. /\ exec[d] = IdleExec /\ row[d].status \in {"pending", "failed", "deleted"}
          /\ d \notin queueing /\ QueuedJobs(d) = {} /\ RunningJobs(d) = {}
      BY <1>1, <2>1, <3>1 DEF JobFits, Waiting, LaneQueues
    <3>3. QueuedJobs(d)' = {NewJob("deploy", d)}
      BY <2>1, <2>2, <3>1, <3>2 DEF QueuedJobs, DeployOf
    <3>4. RowFits(d)'
      BY <2>1, <3>2, <3>3 DEF RowFits, IdleExec, Waiting, Begun, Working, Won, Lost
    <3>5. JobFits(d)'
      BY <2>1, <2>3, <3>2, <3>3 DEF JobFits, IdleExec, Waiting
    <3> QED
      BY <2>1, <2>4, <2>5, <2>6, <3>1, <3>2, <3>4, <3>5, CallStep DEF IdleExec, Won
  <2>8. CASE lane.dep \notin Dep
    BY <2>1, <2>4, <2>5, <2>6, <2>8, NoCallStep
  <2> QED
    BY <2>7, <2>8
<1>13. CASE StartSweep \/ EndSweep \/ LaneDbError
  BY <1>1, <1>13 DEF StartSweep, EndSweep, Boots, LaneDbError
<1> QED
  BY <1>5, <1>6, <1>7, <1>8, <1>9, <1>10, <1>11, <1>12, <1>13 DEF LaneNext

\* A request goes on to run a deployRelease only where it inserts its row.
LEMMA ServeGoesOn ==
  ASSUME TypeInv, NEW w \in Actor, Serve(w) \/ Begin(w), ~ReplaceReadEnv(w), ~ReplaceInsert(w)
  PROVE  req'[w].pc \notin {"insert", "deploying"} /\ \A v \in Actor \ {w} : req'[v] = req[v]
<1>1. req \in [Actor -> Req] /\ req[w] \in Req
  BY DEF TypeInv
<1> DEFINE s == Newest(req[w].stopped)
           Goes == /\ req'[w].pc \notin {"insert", "deploying"}
                   /\ \A v \in Actor \ {w} : req'[v] = req[v]
<1>2. ASSUME NEW q, req' = [req EXCEPT ![w] = q]
      PROVE  req'[w] = q /\ \A v \in Actor \ {w} : req'[v] = req[v]
  BY <1>1, <1>2
<1>3. ASSUME NEW pc, ReqTo(w, pc), pc \notin {"insert", "deploying"} PROVE Goes
  BY <1>1, <1>3 DEF ReqTo, Req
<1>4. ASSUME NEW found, Recovered(w, found) PROVE Goes
  BY <1>1, <1>4 DEF Recovered, Req
<1>5. ASSUME req' = [req EXCEPT ![w].stopped = @ \ {s},
                       ![w].pc = IF req[w].stopped = {s} THEN "end" ELSE "wake"]
      PROVE  Goes
  <2> HIDE DEF s
  <2> QED
    BY <1>1, <1>5 DEF Req
<1>6. CASE Decide(w)
  <2>1. ASSUME NEW b, NEW c
        PROVE  /\ Fresh("end").pc = "end"
               /\ [Fresh("readenv") EXCEPT !.stale = b, !.wasStopped = c].pc = "readenv"
               /\ [Fresh("wake") EXCEPT !.stopped = b].pc = "wake"
    BY DEF Fresh, IdleReq
  <2>2. CASE req' = [req EXCEPT ![w] = Fresh("end")]
    BY <1>2, <2>1, <2>2
  <2>3. CASE req' = [req EXCEPT ![w] = [Fresh("readenv") EXCEPT
                        !.stale = req[w].stale, !.wasStopped = req[w].wasStopped]]
    <3>1. /\ req'[w] = [Fresh("readenv") EXCEPT
                        !.stale = req[w].stale, !.wasStopped = req[w].wasStopped]
          /\ \A v \in Actor \ {w} : req'[v] = req[v]
      BY <1>2, <2>3
    <3> QED
      BY <2>1, <3>1
  <2>4. CASE req' = [req EXCEPT ![w] = [Fresh("wake") EXCEPT !.stopped = req[w].stopped]]
    <3>1. /\ req'[w] = [Fresh("wake") EXCEPT !.stopped = req[w].stopped]
          /\ \A v \in Actor \ {w} : req'[v] = req[v]
      BY <1>2, <2>4
    <3> QED
      BY <2>1, <3>1
  <2> QED
    BY <1>6, <2>2, <2>3, <2>4 DEF Decide
<1>7. CASE Begin(w)
  <2>1. PICK mode : req' = [req EXCEPT ![w] =
          [Fresh("recover") EXCEPT
             !.mode = mode,
             !.todo = IF mode = "ensure" \/ w = Boot THEN CurrentRows("live") ELSE Live,
             !.urls = {x \in Live : row[x].url},
             !.stopped = CurrentRows("stopped"),
             !.blocked = InFlightRows # {},
             !.stale = IF StaleRows = {} THEN NoDep ELSE Newest(StaleRows),
             !.wasStopped = StaleRows # {} /\ row[Newest(StaleRows)].status = "stopped"]]
    BY <1>7 DEF Begin
  <2> DEFINE q == [Fresh("recover") EXCEPT
             !.mode = mode,
             !.todo = IF mode = "ensure" \/ w = Boot THEN CurrentRows("live") ELSE Live,
             !.urls = {x \in Live : row[x].url},
             !.stopped = CurrentRows("stopped"),
             !.blocked = InFlightRows # {},
             !.stale = IF StaleRows = {} THEN NoDep ELSE Newest(StaleRows),
             !.wasStopped = StaleRows # {} /\ row[Newest(StaleRows)].status = "stopped"]
  <2>2. q.pc = "recover"
    BY DEF Fresh, IdleReq
  <2>3. req' = [req EXCEPT ![w] = q]
    BY <2>1
  <2> HIDE DEF q
  <2>4. req'[w] = q /\ \A v \in Actor \ {w} : req'[v] = req[v]
    BY <1>2, <2>3
  <2> QED
    BY <2>2, <2>4
<1>8. CASE End(w)
  <2>1. IdleReq.pc = "idle"
    BY DEF IdleReq
  <2>2. req' = [req EXCEPT ![w] = IdleReq]
    BY <1>8 DEF End, ReqEnds
  <2>3. req'[w] = IdleReq /\ \A v \in Actor \ {w} : req'[v] = req[v]
    BY <1>1, <2>2
  <2> QED
    BY <2>1, <2>3
<1>9. CASE WakeStart(w) \/ WakePromote(w)
  BY <1>3, <1>5, <1>9 DEF WakeStart, WakePromote
<1>10. CASE \/ Probe(w) \/ ClaimUrl(w) \/ Restart(w) \/ RefreshUrl(w) \/ GiveUp(w)
            \/ ReplaceLoses(w) \/ Replaced(w) \/ Retire(w) \/ CheckRetired(w)
            \/ DestroyRetired(w) \/ ReplaceInsertError(w) \/ ReqDbError(w)
  <2>1. \/ \E found : Recovered(w, found)
        \/ \E pc \in {"claim", "start", "settle", "giveup", "end", "retire", "check",
                      "destroy"} : ReqTo(w, pc)
    BY <1>10 DEF Probe, ClaimUrl, Restart, RefreshUrl, GiveUp, ReplaceLoses, Replaced, Retire,
                 CheckRetired, DestroyRetired, ReplaceInsertError, ReqDbError
  <2>2. ASSUME NEW pc \in {"claim", "start", "settle", "giveup", "end", "retire", "check",
                          "destroy"}, ReqTo(w, pc)
        PROVE  Goes
    BY <1>3, <2>2
  <2> QED
    BY <1>4, <2>1, <2>2
<1> QED
  BY <1>6, <1>7, <1>8, <1>9, <1>10 DEF Serve

\* A step of a request that runs no deployRelease.
LEMMA RequestCalm ==
  ASSUME CalmStep, NEW w \in Actor, UNCHANGED <<exec, queued, running, queueing, lane, phase>>,
         \A x \in Dep : Stays(x), \A v \in Actor \ {w} : req'[v] = req[v],
         req'[w].pc # "deploying"
  PROVE  Calm'
<1>1. \A x \in Dep : Apart(x)
  BY DEF Apart, QueuedJobs, RunningJobs, LaneQueues, DeployOf
<1>2. \A x \in Dep : row[x].status \in Served => row'[x].status \in Served
  BY ServedStays
<1>3. DrainFits'
  BY <1>2, DrainsStay
<1>4. ReqFits'
  BY DEF CalmStep, Calm, ReqFits
<1> QED
  BY <1>1, <1>3, <1>4, NoCallStep

\* replaceStaleDeployment inserts its row, and the request awaits its call.
LEMMA ReplaceCalm ==
  ASSUME CalmStep, NEW w \in Actor, ReplaceInsert(w)
  PROVE  Calm'
<1>1. req \in [Actor -> Req] /\ req[w] \in Req /\ exec \in [Dep -> Exec] /\ ReqFits
  BY DEF CalmStep, Calm, TypeInv
<1>2. UNCHANGED <<queued, running, queueing, lane, phase>>
  BY DEF ReplaceInsert, ReqStep, jobVars
<1>3. PICK x \in Dep :
        /\ InsertRow(x, "building", req[w].rev)
        /\ exec' = [exec EXCEPT ![x] = [IdleExec EXCEPT !.pc = "resolve",
                                          !.rev = req[w].rev, !.by = w]]
        /\ req' = [req EXCEPT ![w].pc = "deploying", ![w].dep = x]
  BY DEF ReplaceInsert
<1>4. /\ row[x].status = "none" /\ row'[x].status = "building" /\ exec[x] = IdleExec
      /\ ~Waiting(x) /\ RunningJobs(x) = {}
      /\ \A y \in Dep \ {x} : row'[y] = row[y]
  BY <1>3, FreshRow DEF InFlight
<1>5. /\ exec'[x].pc = "resolve" /\ exec'[x].by = w /\ exec'[x].sup = {}
      /\ \A y \in Dep \ {x} : exec'[y] = exec[y]
  BY <1>1, <1>3 DEF IdleExec
<1>6. /\ \A y : QueuedJobs(y)' = QueuedJobs(y) /\ RunningJobs(y)' = RunningJobs(y)
      /\ \A y : Waiting(y)' <=> Waiting(y)
  BY <1>2 DEF QueuedJobs, RunningJobs, Waiting, LaneQueues, DeployOf
<1>7. RowFits(x)'
  BY <1>4, <1>5, <1>6 DEF RowFits, Begun, Working, Won, Lost
<1>8. JobFits(x)'
  BY <1>4, <1>5, <1>6 DEF JobFits, Waiting
<1>9. \A y \in Dep \ {x} : Apart(y)
  BY <1>2, <1>4, <1>5, <1>6 DEF Apart, Stays, LaneQueues
<1>10. DrainFits'
  BY <1>2, <1>4, DrainsStay DEF Served
<1>11. ReqFits'
  <2>1. req'[w].pc = "deploying" /\ req'[w].dep = x /\ \A v \in Actor \ {w} : req'[v] = req[v]
    BY <1>1, <1>3 DEF Req
  <2>2. ASSUME NEW v \in Actor \ {w}, req'[v].pc = "deploying"
        PROVE  /\ req'[v].dep \in Dep
               /\ exec'[req'[v].dep].by = v /\ exec'[req'[v].dep].pc # "idle"
    <3>1. /\ req'[v] = req[v] /\ req[v].dep \in Dep
          /\ exec[req[v].dep].by = v /\ exec[req[v].dep].pc # "idle"
      BY <1>1, <2>1, <2>2 DEF ReqFits
    <3>2. req[v].dep # x
      BY <1>4, <3>1 DEF IdleExec
    <3> QED
      BY <1>5, <3>1, <3>2
  <2> QED
    BY <1>5, <2>1, <2>2 DEF ReqFits
<1> QED
  BY <1>2, <1>4, <1>5, <1>7, <1>8, <1>9, <1>10, <1>11, CallStep DEF Won, Served

LEMMA ServeCalm ==
  ASSUME CalmStep, NEW w \in Actor, Serve(w) \/ Begin(w)
  PROVE  Calm'
<1>1. /\ row \in [Dep -> Row] /\ req \in [Actor -> Req] /\ req[w] \in Req /\ ~DbError
      /\ exec \in [Dep -> Exec] /\ phase = "booted" /\ ReqFits
      /\ \A x \in Dep : RowFits(x) /\ JobFits(x) /\ SupFits(x)
      /\ Boot \in Actor /\ "job" \notin Actor
  BY NoDbError, TypedValues DEF CalmStep, Calm, TypeInv, RowsTyped
<1>2. UNCHANGED row => \A x \in Dep : Stays(x)
  BY DEF Stays
<1>3. ReqStep => UNCHANGED <<queued, running, queueing, lane, phase>>
  BY DEF ReqStep, jobVars
<1>4. ~ReplaceInsert(w) => req'[w].pc # "deploying" /\ \A v \in Actor \ {w} : req'[v] = req[v]
  <2>1. CASE ReplaceReadEnv(w)
    BY <1>1, <2>1 DEF ReplaceReadEnv, Req
  <2>2. CASE ~ReplaceReadEnv(w)
    BY <2>2, ServeGoesOn DEF CalmStep
  <2> QED
    BY <2>1, <2>2
<1>5. ASSUME ~ReplaceInsert(w), ReqStep, exec' = exec, \A x \in Dep : Stays(x) PROVE Calm'
  BY <1>3, <1>4, <1>5, RequestCalm
<1> DEFINE d == Of(w)
           s == Newest(req[w].stopped)
           o == req[w].stale
<1>6. CASE ReplaceInsert(w)
  BY <1>6, ReplaceCalm
<1>7. CASE /\ ~ReplaceInsert(w)
           /\ ClaimUrl(w) \/ RefreshUrl(w) \/ GiveUp(w) \/ WakePromote(w) \/ Retire(w)
  <2>1. ReqStep /\ exec' = exec
    BY <1>7 DEF ClaimUrl, RefreshUrl, GiveUp, WakePromote, Retire
  <2>2. \/ UNCHANGED row
        \/ row[d].status = "live" /\ \E u \in BOOLEAN : row' = [row EXCEPT ![d].url = u]
        \/ /\ row[d].status = "live"
           /\ row' = [row EXCEPT ![d].status = "stopped", ![d].url = FALSE]
        \/ row[s].status = "stopped" /\ row' = [row EXCEPT ![s].status = "live", ![s].url = TRUE]
        \/ row[o].status = "stopped" /\ row' = [row EXCEPT ![o].weighted = FALSE]
    BY <1>7 DEF ClaimUrl, RefreshUrl, GiveUp, WakePromote, Retire
  <2>3. \A x \in Dep : Stays(x)
    <3> HIDE DEF d, s, o
    <3> QED
      BY <1>1, <2>2 DEF Stays, Served, Row
  <2> QED
    BY <1>5, <1>7, <2>1, <2>3
<1>8. CASE /\ ~ReplaceInsert(w)
            /\ \/ Probe(w) \/ Restart(w) \/ WakeStart(w) \/ ReplaceLoses(w) \/ Decide(w)
               \/ CheckRetired(w) \/ DestroyRetired(w) \/ ReplaceReadEnv(w) \/ Begin(w)
  <2>1. ReqStep /\ UNCHANGED <<row, exec>>
    BY <1>8 DEF Probe, Restart, WakeStart, ReplaceLoses, Decide, CheckRetired, DestroyRetired,
                 ReplaceReadEnv, Begin
  <2> QED
    BY <1>2, <1>5, <1>8, <2>1
<1>9. CASE ~ReplaceInsert(w) /\ End(w)
  <2>1. w # Boot
    BY <1>1, <1>9 DEF CalmStep, TypeInv, Backed, End, ReqAt
  <2>2. UNCHANGED <<row, exec, queued, running, queueing, lane, phase>>
    BY <1>9, <2>1 DEF End, rowVars, jobVars
  <2> QED
    BY <1>2, <1>4, <1>9, <2>2, RequestCalm
<1>10. CASE ~ReplaceInsert(w) /\ Replaced(w)
  <2>1. PICK x \in Dep : x = req[w].dep /\ exec[x].by = w /\ exec[x].pc # "idle"
    BY <1>1, <1>10 DEF Replaced, ReqAt, ReqFits
  <2>2. /\ exec[x].pc \in {"ok", "failed", "threw"}
        /\ UNCHANGED <<row, queued, running, queueing, lane, phase>>
        /\ exec'[x] = IdleExec /\ \A y \in Dep \ {x} : exec'[y] = exec[y]
    BY <1>1, <1>3, <1>10, <2>1 DEF Replaced, Settled
  <2>3. req'[w].pc # "deploying" /\ \A v \in Actor \ {w} : req'[v] = req[v]
    BY <1>4, <1>10
  <2>4. /\ \A y : QueuedJobs(y)' = QueuedJobs(y) /\ RunningJobs(y)' = RunningJobs(y)
        /\ \A y : Waiting(y)' <=> Waiting(y)
    BY <2>2 DEF QueuedJobs, RunningJobs, Waiting, LaneQueues, DeployOf
  <2>5. ~Waiting(x) /\ RunningJobs(x) = {}
        /\ row[x].status \in Served \cup {"failed", "deleted"}
    <3>1. ~Waiting(x) /\ InStep(exec[x].pc, row[x].status)
      BY <2>1, CallInStep
    <3>2. row[x].status \in Served \cup {"failed", "deleted"}
      BY <2>2, <3>1 DEF InStep, Begun, Working, Won, Lost
    <3> QED
      BY <1>1, <2>1, <3>1, <3>2 DEF JobFits
  <2>6. RowFits(x)'
    BY <2>2, <2>4, <2>5 DEF RowFits, IdleExec, Begun, Working, Won, Lost, Served
  <2>7. JobFits(x)'
    BY <2>2, <2>4, <2>5 DEF JobFits, IdleExec, Waiting
  <2>8. \A y \in Dep \ {x} : Apart(y)
    BY <2>2, <2>4 DEF Apart, Stays, LaneQueues
  <2>9. DrainFits'
    BY <2>2, DrainsStay
  <2>10. ReqFits'
    <3>1. ASSUME NEW v \in Actor, req'[v].pc = "deploying"
          PROVE  /\ req'[v].dep \in Dep
                 /\ exec'[req'[v].dep].by = v /\ exec'[req'[v].dep].pc # "idle"
      <4>1. v # w /\ req'[v] = req[v] /\ req[v].dep \in Dep
            /\ exec[req[v].dep].by = v /\ exec[req[v].dep].pc # "idle"
        BY <1>1, <2>3, <3>1 DEF ReqFits
      <4>2. req[v].dep # x
        BY <2>1, <4>1
      <4> QED
        BY <2>2, <4>1, <4>2
    <3> QED
      BY <3>1 DEF ReqFits
  <2> QED
    BY <2>2, <2>6, <2>7, <2>8, <2>9, <2>10, CallStep DEF IdleExec, Won
<1>11. CASE ReplaceInsertError(w) \/ ReqDbError(w)
  BY <1>1, <1>11 DEF ReplaceInsertError, ReqDbError
<1> QED
  BY <1>6, <1>7, <1>8, <1>9, <1>10, <1>11 DEF Serve

---------------------------------------------------------------------------
(* Any step of the environment.                                            *)

\* The steps that work on no call, request or job of a deployment.
LEMMA EnvironmentCalm ==
  ASSUME CalmStep,
         \/ Bump \/ Invalidate \/ Deadline \/ BoxDies \/ DeleteFailed
         \/ \E r \in Run : RunStart(r) \/ RunFinish(r)
         \/ UNCHANGED vars
  PROVE  Calm'
<1>1. /\ UNCHANGED <<exec, lane, req, phase, queueing, running>> /\ DrainFits /\ ReqFits
      /\ queued \in SUBSET Job /\ row \in [Dep -> Row]
  BY DEF Bump, Invalidate, Deadline, BoxDies, DeleteFailed, RunStart, RunFinish, vars,
         actorVars, jobVars, CalmStep, Calm, TypeInv, JobsTyped, RowsTyped
<1>2. \A x \in Dep : Stays(x)
  <2>1. CASE DeleteFailed
    BY <1>1, <2>1 DEF DeleteFailed, NoRow, Stays
  <2>2. CASE UNCHANGED row
    BY <2>2 DEF Stays
  <2> QED
    BY <2>1, <2>2 DEF Bump, Invalidate, Deadline, BoxDies, RunStart, RunFinish, vars, rowVars
<1>3. \/ UNCHANGED queued
      \/ queued' = queued \cup {ReconcileJob}
      \/ \E j \in queued : j.kind = "drain" /\ queued' = (queued \ {j}) \cup {[j EXCEPT !.late = TRUE]}
  BY NoDbError DEF Bump, Invalidate, Deadline, BoxDies, DeleteFailed, RunStart, RunFinish, vars,
                   jobVars
<1>4. /\ ReconcileJob.kind = "reconcile"
      /\ \A j \in queued : /\ [j EXCEPT !.late = TRUE].kind = j.kind
                           /\ [j EXCEPT !.late = TRUE].dep = j.dep
  BY <1>1, JobsSucceed DEF ReconcileJob, NewJob
<1>5. \A x : QueuedJobs(x)' = QueuedJobs(x) /\ RunningJobs(x)' = RunningJobs(x)
  BY <1>1, <1>3, <1>4 DEF QueuedJobs, RunningJobs, DeployOf
<1>6. \A x \in Dep : Apart(x)
  BY <1>1, <1>2, <1>5 DEF Apart, LaneQueues
<1>7. \A x \in Dep : row[x].status \in Served => row'[x].status \in Served
  BY <1>2, ServedStays
<1>8. DrainFits'
  <2>1. ASSUME NEW j \in queued' \cup running' \cup {lane'.job}, j.kind = "drain"
        PROVE  \E i \in queued \cup running \cup {lane.job} : i.kind = "drain" /\ i.dep = j.dep
    <3>1. running' = running /\ lane'.job = lane.job
      BY <1>1
    <3>2. CASE j \in queued \cup running \cup {lane.job}
      BY <2>1, <3>2
    <3>3. CASE j \notin queued \cup running \cup {lane.job}
      <4>1. j \in queued' /\ j \notin queued
        BY <2>1, <3>1, <3>3
      <4>2. PICK i \in queued : i.kind = "drain" /\ j = [i EXCEPT !.late = TRUE]
        BY <1>3, <1>4, <2>1, <4>1
      <4> QED
        BY <1>4, <4>2
    <3> QED
      BY <3>2, <3>3
  <2>2. lane'.pc \in DrainPC => lane'.job.kind = "drain"
    BY <1>1 DEF DrainFits
  <2>3. ASSUME NEW j \in queued' \cup running' \cup {lane'.job}, j.kind = "drain"
        PROVE  j.dep \in Dep /\ row'[j.dep].status \in Served
    <3>1. PICK i \in queued \cup running \cup {lane.job} : i.kind = "drain" /\ i.dep = j.dep
      BY <2>1, <2>3
    <3> QED
      BY <1>1, <1>7, <3>1 DEF DrainFits
  <2> QED
    BY <2>2, <2>3 DEF DrainFits
<1>9. ReqFits'
  BY <1>1 DEF ReqFits
<1> QED
  BY <1>1, <1>6, <1>8, <1>9, NoCallStep

\* Only a restart counts one.
LEMMA CrashesStep ==
  ASSUME [Next]_vars
  PROVE  crashes' = crashes \/ Crash
<1>1. ASSUME NEW d \in Dep, Execute(d) PROVE crashes' = crashes
  BY <1>1 DEF Execute, BeginDeploy, ReadEnv, TakeRow, TakeRowThrows, TakeRowError, ResolveEnv,
     LaunchLive,
     LaunchFails, ReadSiblings, Demote, DemoteError, Promote, PromoteError, Audit, AuditError,
     ScheduleDrain, Finish, AbortInfra, FailRow, FailRowError, CompleteDeploy,
     CompleteDeployError, DeployFailed, RetryDeploy, RetryDeployError, ExecStep, JobStep,
     faultVars
<1>2. CASE ControllerNext
  BY <1>1, <1>2 DEF ControllerNext, DeleteFailed, QueueDeploy, EnqueueDeploy,
                    EnqueueDeployError, faultVars
<1>3. CASE LaneNext
  BY <1>3 DEF LaneNext, ClaimInline, LaneDbError, ReadDrained, DrainWaits, DrainOver,
     DrainStops, MarkStopped, ReapRuns, ScheduleCleanup, CheckCleanup, DestroyBox, StartSweep,
     ReadDesired, ReadRows, ReconcileLater, ReconcileInserts, ReconcileInsertThrows,
     ReconcileEnqueues, EndSweep, CompleteInline, RetryInline, LaneStep, LaneEnds, faultVars
<1>4. CASE WakeNext
  <2>1. ASSUME NEW w \in Actor, ReqStep PROVE crashes' = crashes
    BY <2>1 DEF ReqStep
  <2> QED
    BY ZenonT(100), <1>4, <2>1 DEF WakeNext, Begin, Serve, Probe, ClaimUrl, Restart, RefreshUrl, GiveUp,
       Decide, WakeStart, WakePromote, ReplaceReadEnv, ReplaceInsert, ReplaceLoses, Replaced,
       Retire, CheckRetired, DestroyRetired, ReplaceInsertError, ReqDbError, End, faultVars
<1> QED
  BY <1>2, <1>3, <1>4 DEF Next, Bump, Invalidate, Deadline, BoxDies, Requeue, RunStart,
                          RunFinish, vars, faultVars

\* Container faults are only counted up.
LEMMA InfraErrorsStep ==
  ASSUME [Next]_vars
  PROVE  infraErrors' = infraErrors \/ InfraError
<1>1. ASSUME NEW d \in Dep, Execute(d) PROVE infraErrors' = infraErrors \/ InfraError
  BY <1>1 DEF Execute, BeginDeploy, ReadEnv, TakeRow, TakeRowThrows, TakeRowError, ResolveEnv,
     LaunchLive,
     LaunchFails, ReadSiblings, Demote, DemoteError, Promote, PromoteError, Audit, AuditError,
     ScheduleDrain, Finish, AbortInfra, FailRow, FailRowError, CompleteDeploy,
     CompleteDeployError, DeployFailed, RetryDeploy, RetryDeployError, JobStep, faultVars,
     StopDeploymentInfra, StopDeploymentInfraThrows
<1>2. CASE ControllerNext
  BY <1>1, <1>2 DEF ControllerNext, DeleteFailed, QueueDeploy, EnqueueDeploy,
                    EnqueueDeployError, faultVars
<1>3. CASE LaneNext
  BY <1>3 DEF LaneNext, ClaimInline, LaneDbError, ReadDrained, DrainWaits, DrainOver,
     DrainStops, MarkStopped, ReapRuns, ScheduleCleanup, CheckCleanup, DestroyBox, StartSweep,
     ReadDesired, ReadRows, ReconcileLater, ReconcileInserts, ReconcileInsertThrows,
     ReconcileEnqueues, EndSweep, CompleteInline, RetryInline, LaneStep, LaneEnds, faultVars,
     StopDeploymentInfra, StopDeploymentInfraThrows
<1>4. CASE WakeNext
  BY ZenonT(100), <1>4 DEF WakeNext, Begin, Serve, Probe, ClaimUrl, Restart, RefreshUrl, GiveUp,
     Decide, WakeStart, WakePromote, ReplaceReadEnv, ReplaceInsert, ReplaceLoses, Replaced,
     Retire, CheckRetired, DestroyRetired, ReplaceInsertError, ReqDbError, End, faultVars,
     StartBox, StartBoxFails
<1> QED
  BY <1>2, <1>3, <1>4 DEF Next, Bump, Invalidate, Deadline, BoxDies, Crash, Requeue, RunStart,
                          RunFinish, vars, faultVars

LEMMA StepUndisturbed ==
  ASSUME CalmInv, RowsStored, [Next]_vars, Undisturbed'
  PROVE  CalmStep /\ Undisturbed
<1>1. TypeInv' /\ OneInFlight'
  BY StepTyped, StepOfTable, OneInFlightKept DEF CalmInv
<1>2. crashes' = crashes + 1 \/ crashes' = crashes
  BY CrashesStep DEF Crash
<1>3. dbErrors' \in {dbErrors, dbErrors + 1}
  BY <1>1, StepMoves DEF CalmInv, Moves
<1> QED
  BY <1>1, <1>2, <1>3 DEF CalmInv, CalmStep, Undisturbed, TypeInv, FaultsTyped

LEMMA StepCalm ==
  ASSUME CalmInv, RowsStored, [Next]_vars
  PROVE  CalmInv'
<1>1. TypeInv' /\ OneInFlight'
  BY StepTyped, StepOfTable, OneInFlightKept DEF CalmInv
<1>2. ASSUME Undisturbed' PROVE Calm'
  <2>1. CalmStep
    BY <1>2, StepUndisturbed
  <2>2. ~Crash /\ phase = "booted"
    BY <2>1 DEF CalmStep, Undisturbed, Crash, Calm, TypeInv, FaultsTyped
  <2>3. CASE ControllerNext
    <3>1. \A d \in Dep : ~EnqueueDeployError(d)
      BY <2>1, NoDbError DEF EnqueueDeployError
    <3> QED
      BY <2>1, <2>3, <3>1, ExecuteCalm, UserCalm, EnvironmentCalm DEF ControllerNext
  <2>4. CASE Requeue
    BY <2>2, <2>4 DEF Requeue
  <2> QED
    BY <2>1, <2>2, <2>3, <2>4, LaneCalm, ServeCalm, EnvironmentCalm DEF Next, WakeNext
<1> QED
  BY <1>1, <1>2 DEF CalmInv

LEMMA InitCalm == Init => CalmInv
<1>1. SUFFICES ASSUME Init PROVE CalmInv
  OBVIOUS
<1>2. OneInFlight
  BY <1>1 DEF Init, NoRow, OneInFlight, InFlightRows, InFlight
<1>3. /\ phase = "booted" /\ queued = {} /\ running = {} /\ queueing = {} /\ lane = IdleLane
      /\ \A d \in Dep : exec[d] = IdleExec /\ row[d] = NoRow
      /\ \A w \in Actor : req[w] = IdleReq
  BY <1>1 DEF Init
<1>4. /\ IdleExec.pc = "idle" /\ IdleExec.sup = {} /\ IdleExec.todo = {} /\ IdleReq.pc = "idle"
      /\ IdleLane.pc = "idle" /\ IdleLane.job.kind = "reconcile" /\ NoRow.status = "none"
  BY DEF IdleExec, IdleReq, IdleLane, ReconcileJob, NewJob, NoRow
<1>5. \A d \in Dep : QueuedJobs(d) = {} /\ RunningJobs(d) = {} /\ ~Waiting(d)
  BY <1>3, <1>4 DEF QueuedJobs, RunningJobs, Waiting, LaneQueues
<1>6. \A d \in Dep : RowFits(d) /\ JobFits(d) /\ SupFits(d)
  BY <1>3, <1>4, <1>5 DEF RowFits, JobFits, SupFits, Begun, Working, Won, Lost
<1>7. DrainFits /\ ReqFits
  BY <1>3, <1>4 DEF DrainFits, ReqFits, DrainPC
<1> QED
  BY <1>1, <1>2, <1>3, <1>6, <1>7, InitTyped DEF CalmInv, Calm

---------------------------------------------------------------------------
(* The theorems.                                                           *)

LEMMA CalmHolds == Spec => []CalmInv
<1>1. CalmInv /\ RowsStored /\ [Next]_vars => CalmInv'
  BY StepCalm
<1> QED
  BY <1>1, InitCalm, TableStored, PTL DEF Spec

\* A call between taking its row and its cutover has its row at building, and
\* no two rows are in flight: a user's deploy, a job's retry and a wake's
\* replacement never build at the same time.
THEOREM OneDeployWorks == Spec => []OneExecution
<1>1. CalmInv => OneExecution
  <2> DEFINE Calls == {d \in Dep : exec[d].pc \in {"resolve", "launch", "siblings", "demote"}}
  <2>1. SUFFICES ASSUME CalmInv, Undisturbed PROVE Cardinality(Calls) <= 1
    BY DEF OneExecution, Undisturbed
  <2>2. \A d \in Calls : d \in InFlightRows
    BY <2>1 DEF CalmInv, Calm, RowFits, Working, InFlightRows, InFlight
  <2>3. CASE Calls = {}
    BY <2>3, FS_EmptySet
  <2>4. ASSUME NEW d \in Calls PROVE Cardinality(Calls) <= 1
    <3>1. Calls = {d}
      BY <2>1, <2>2, <2>4 DEF CalmInv, OneInFlight
    <3>2. Cardinality({d}) = 1
      BY FS_Singleton
    <3> QED
      BY <3>1, <3>2
  <2> QED
    BY <2>3, <2>4
<1> QED
  BY <1>1, CalmHolds, PTL

\* The in-flight slot is never held by a row that nothing will finish: a pending
\* row has its enqueue, its job or its call, and a building row its call.
THEOREM SlotOwned == Spec => []SlotAlwaysOwned
<1>1. CalmInv => SlotAlwaysOwned
  <2>1. SUFFICES ASSUME CalmInv, Undisturbed, NEW d \in InFlightRows PROVE Owned(d)
    BY DEF SlotAlwaysOwned, Wedged, Undisturbed
  <2>2. d \in Dep /\ RowFits(d) /\ row[d].status \in {"pending", "building"}
    BY <2>1 DEF CalmInv, Calm, InFlightRows, InFlight
  <2>3. Waiting(d) \/ exec[d].pc # "idle"
    BY <2>2 DEF RowFits, Begun, Working
  <2>4. ASSUME NEW j \in QueuedJobs(d) PROVE HasJob(d)
    BY DEF QueuedJobs, DeployOf, HasJob
  <2> QED
    BY <2>3, <2>4 DEF Waiting, LaneQueues, Owned
<1> QED
  BY <1>1, CalmHolds, PTL

---------------------------------------------------------------------------
(***************************************************************************)
(* The drains, while there is no fault at all.                             *)
(***************************************************************************)

TickPC == {"drain", "count", "stop", "mark"}
JobWaits(d) == \E j \in queued : j.kind = "drain" /\ j.dep = d
TickRuns(d) == /\ lane.job.kind = "drain" /\ lane.job.dep = d
               /\ lane.pc \in TickPC /\ lane.job \in running
CutoverHas(x, d) == /\ d \in exec[x].sup
                    /\ \/ exec[x].pc \in {"demote", "audit"}
                       \/ exec[x].pc = "schedule" /\ d \in exec[x].todo

\* A superseded deployment waits for its tick, is looked at by one that is going
\* to mark it or to schedule the next, or its cutover has not got to it yet.
Watched == \A d \in Dep : row[d].status = "draining" =>
             JobWaits(d) \/ TickRuns(d) \/ \E x \in Dep : CutoverHas(x, d)

WatchInv == CalmInv /\ (NoFault => Watched)
WatchStep == CalmStep /\ NoFault /\ NoFault' /\ Watched

LEMMA NoError == WatchStep => ~DbError /\ ~InfraError
BY DEF WatchStep, NoFault, DbError, InfraError

\* What has to stay for a step to keep the watch.
NoneSuperseded == \A d \in Dep : row'[d].status = "draining" => row[d].status = "draining"
JobsWait == \A j \in queued : j.kind = "drain" =>
              \E i \in queued' : i.kind = "drain" /\ i.dep = j.dep
TickStays == lane' = lane /\ (lane.job.kind = "drain" /\ lane.job \in running => lane.job \in running')
CutoversStay == \A x \in Dep : exec[x].pc \in {"demote", "audit", "schedule"} => exec'[x] = exec[x]

LEMMA WatchKept ==
  ASSUME Watched, NoneSuperseded, JobsWait, TickStays, CutoversStay
  PROVE  Watched'
<1>1. \A d : JobWaits(d) => JobWaits(d)'
  BY DEF JobsWait, JobWaits
<1>2. \A d : TickRuns(d) => TickRuns(d)'
  BY DEF TickStays, TickRuns
<1>3. \A x \in Dep : \A d : CutoverHas(x, d) => CutoverHas(x, d)'
  BY DEF CutoversStay, CutoverHas
<1> QED
  BY <1>1, <1>2, <1>3 DEF Watched, NoneSuperseded

\* A step of a cutover.
LEMMA CutoverWatch ==
  ASSUME Watched, TickStays, JobsWait, NEW x \in Dep,
         \A y \in Dep \ {x} : exec'[y] = exec[y],
         \A d \in Dep : \/ row'[d].status = "draining" => row[d].status = "draining"
                        \/ CutoverHas(x, d)',
         \A d \in Dep : CutoverHas(x, d) => CutoverHas(x, d)' \/ JobWaits(d)'
  PROVE  Watched'
<1>1. \A d : JobWaits(d) => JobWaits(d)'
  BY DEF JobsWait, JobWaits
<1>2. \A d : TickRuns(d) => TickRuns(d)'
  BY DEF TickStays, TickRuns
<1>3. \A y \in Dep \ {x} : \A d : CutoverHas(y, d) => CutoverHas(y, d)'
  BY DEF CutoverHas
<1> QED
  BY <1>1, <1>2, <1>3 DEF Watched

LEMMA ExecuteWatch ==
  ASSUME WatchStep, NEW d \in Dep, Execute(d)
  PROVE  Watched'
<1>1. /\ exec \in [Dep -> Exec] /\ row \in [Dep -> Row] /\ ~DbError /\ ~InfraError /\ Watched
      /\ exec[d] \in Exec /\ TypeInv /\ SupFits(d)
  BY NoError DEF WatchStep, CalmStep, Calm, TypeInv, RowsTyped
<1>2. ASSUME exec[d].pc \notin {"demote", "audit", "schedule"},
             \A x \in Dep \ {d} : exec'[x] = exec[x], lane' = lane, NoneSuperseded, JobsWait,
             \A j \in running : j.kind = "drain" => j \in running'
      PROVE  Watched'
  BY <1>1, <1>2, WatchKept DEF TickStays, CutoversStay
<1>3. UNCHANGED row => NoneSuperseded
  BY DEF NoneSuperseded
<1>4. queued \subseteq queued' => JobsWait
  BY DEF JobsWait
<1>5. ExecStep => UNCHANGED <<queued, running, lane>>
  BY DEF ExecStep, jobVars
<1>6. CASE Demote(d)
  <2>1. PICK x \in exec[d].todo : /\ row' = Update(x, Draining(x))
                                  /\ exec' = [exec EXCEPT ![d].todo = @ \ {x}]
    BY <1>6 DEF Demote
  <2>2. /\ ExecStep /\ exec[d].pc = "demote" /\ x \in Dep /\ x \in exec[d].sup
    BY <1>1, <1>6, <2>1 DEF Demote, At, SupFits, Exec
  <2>3. /\ exec'[d].pc = "demote" /\ exec'[d].sup = exec[d].sup
        /\ \A y \in Dep \ {d} : exec'[y] = exec[y]
    BY <1>1, <2>1, <2>2 DEF Exec
  <2>4. \A y \in Dep \ {x} : row'[y] = row[y]
    BY <1>1, <2>1 DEF Update
  <2>5. \A y \in Dep : (row'[y].status = "draining" => row[y].status = "draining")
                       \/ CutoverHas(d, y)'
    BY <2>2, <2>3, <2>4 DEF CutoverHas
  <2>6. \A y \in Dep : CutoverHas(d, y) => CutoverHas(d, y)'
    BY <2>2, <2>3 DEF CutoverHas
  <2> QED
    BY <1>1, <1>4, <1>5, <2>2, <2>3, <2>5, <2>6, CutoverWatch DEF TickStays
<1>7. CASE Promote(d)
  <2>1. /\ ExecStep /\ exec[d].pc = "demote"
        /\ row' = Update(d, [row[d] EXCEPT !.status = "live", !.url = TRUE])
        /\ exec' = [exec EXCEPT ![d].pc = "audit"]
    BY <1>7 DEF Promote, At, Goto
  <2>2. /\ exec'[d].pc = "audit" /\ exec'[d].sup = exec[d].sup
        /\ \A y \in Dep \ {d} : exec'[y] = exec[y]
    BY <1>1, <2>1 DEF Exec
  <2>3. \A y \in Dep : row'[y].status = "draining" => row[y].status = "draining"
    BY <1>1, <2>1 DEF Update, Row
  <2>4. \A y \in Dep : CutoverHas(d, y) => CutoverHas(d, y)'
    BY <2>1, <2>2 DEF CutoverHas
  <2> QED
    BY <1>1, <1>4, <1>5, <2>1, <2>2, <2>3, <2>4, CutoverWatch DEF TickStays
<1>8. CASE Audit(d)
  <2>1. /\ ExecStep /\ exec[d].pc = "audit" /\ row' = row
        /\ exec' = [exec EXCEPT ![d].pc = "schedule", ![d].todo = exec[d].sup]
    BY <1>8 DEF Audit, At
  <2>2. /\ exec'[d].pc = "schedule" /\ exec'[d].sup = exec[d].sup
        /\ exec'[d].todo = exec[d].sup
        /\ \A y \in Dep \ {d} : exec'[y] = exec[y]
    BY <1>1, <2>1 DEF Exec
  <2>3. \A y \in Dep : CutoverHas(d, y) => CutoverHas(d, y)'
    BY <2>1, <2>2 DEF CutoverHas
  <2> QED
    BY <1>1, <1>4, <1>5, <2>1, <2>2, <2>3, CutoverWatch DEF TickStays
<1>9. CASE ScheduleDrain(d)
  <2>1. PICK x \in exec[d].todo : /\ exec' = [exec EXCEPT ![d].todo = @ \ {x}]
                                  /\ queued' = queued \cup {NewJob("drain", x)}
    BY <1>1, <1>9 DEF ScheduleDrain
  <2>2. exec[d].pc = "schedule" /\ UNCHANGED <<row, running, lane>>
    BY <1>9 DEF ScheduleDrain, At, rowVars
  <2>3. /\ exec'[d].pc = "schedule" /\ exec'[d].sup = exec[d].sup
        /\ exec'[d].todo = exec[d].todo \ {x}
        /\ \A y \in Dep \ {d} : exec'[y] = exec[y]
    BY <1>1, <2>1, <2>2 DEF Exec
  <2>4. JobWaits(x)'
    <3>1. NewJob("drain", x).kind = "drain" /\ NewJob("drain", x).dep = x
      BY DEF NewJob
    <3> QED
      BY <2>1, <3>1 DEF JobWaits
  <2>5. \A y \in Dep : CutoverHas(d, y) => CutoverHas(d, y)' \/ JobWaits(y)'
    BY <2>2, <2>3, <2>4 DEF CutoverHas
  <2> QED
    BY <1>1, <1>4, <2>1, <2>2, <2>3, <2>5, CutoverWatch DEF TickStays
<1>10. CASE Finish(d)
  <2>1. /\ ExecStep /\ exec[d].pc = "schedule" /\ exec[d].todo = {} /\ row' = row
        /\ \A y \in Dep \ {d} : exec'[y] = exec[y]
    BY <1>1, <1>10 DEF Finish, At, Goto
  <2>2. \A y \in Dep : ~CutoverHas(d, y)
    BY <2>1 DEF CutoverHas
  <2> QED
    BY <1>1, <1>4, <1>5, <2>1, <2>2, CutoverWatch DEF TickStays
<1>11. CASE BeginDeploy(d)
  <2>1. PICK j \in queued : /\ j.kind = "deploy"
                            /\ queued' = queued \ {j}
                            /\ running' = running \cup {Claimed(j)}
    BY <1>11 DEF BeginDeploy
  <2>2. /\ exec[d].pc = "idle" /\ UNCHANGED <<row, lane>>
        /\ \A y \in Dep \ {d} : exec'[y] = exec[y]
    BY <1>1, <1>11 DEF BeginDeploy, At, Goto, rowVars
  <2>3. JobsWait
    BY <2>1 DEF JobsWait
  <2> QED
    BY <1>2, <1>3, <2>1, <2>2, <2>3
<1>12. CASE TakeRow(d) \/ FailRow(d)
  <2>1. /\ ExecStep /\ exec[d].pc \in {"take", "fail"}
        /\ \A y \in Dep \ {d} : exec'[y] = exec[y]
    BY <1>1, <1>12 DEF TakeRow, Taken, FailRow, At, Goto
  <2>2. NoneSuperseded
    <3>1. CASE TakeRow(d)
      BY <1>1, <3>1 DEF TakeRow, Taken, NoneSuperseded, Row
    <3>2. CASE FailRow(d)
      BY <1>1, <3>2 DEF FailRow, Update, NoneSuperseded, Row
    <3> QED
      BY <1>12, <3>1, <3>2
  <2> QED
    BY <1>2, <1>4, <1>5, <2>1, <2>2
<1>13. CASE \/ ReadEnv(d) \/ TakeRowThrows(d) \/ ResolveEnv(d) \/ LaunchLive(d)
            \/ LaunchFails(d) \/ ReadSiblings(d) \/ AbortInfra(d)
  <2>1. ExecStep /\ row' = row /\ exec[d].pc \notin {"demote", "audit", "schedule"}
    BY <1>13 DEF ReadEnv, TakeRowThrows, ResolveEnv, LaunchLive, LaunchFails, ReadSiblings,
                 AbortInfra, At
  <2>2. \A y \in Dep \ {d} : exec'[y] = exec[y]
    BY <1>1, <1>13 DEF ReadEnv, TakeRowThrows, ResolveEnv, LaunchLive, LaunchFails,
                       ReadSiblings, AbortInfra, Goto
  <2> QED
    BY <1>2, <1>3, <1>4, <1>5, <2>1, <2>2
<1>14. CASE CompleteDeploy(d) \/ DeployFailed(d) \/ RetryDeploy(d)
  <2>1. /\ UNCHANGED <<row, lane>> /\ exec[d].pc \in {"ok", "failed", "threw"}
        /\ exec[d].by = "job" /\ queued \subseteq queued'
        /\ running' \in {running, running \ {DeployJob(d)}}
    BY <1>14 DEF CompleteDeploy, DeployFailed, RetryDeploy, JobStep, At, rowVars
  <2>2. \A y \in Dep \ {d} : exec'[y] = exec[y]
    BY <1>1, <1>14 DEF CompleteDeploy, DeployFailed, RetryDeploy, Goto, Settled
  <2>3. DeployJob(d).kind = "deploy"
    BY <1>1, <2>1, HasDeployJob DEF DeployOf
  <2> QED
    BY <1>2, <1>3, <1>4, <2>1, <2>2, <2>3
<1>15. CASE \/ TakeRowError(d) \/ DemoteError(d) \/ PromoteError(d)
            \/ AuditError(d) \/ FailRowError(d)
            \/ CompleteDeployError(d) \/ RetryDeployError(d)
  BY <1>1, <1>15 DEF TakeRowError, DemoteError, PromoteError, AuditError, FailRowError,
     CompleteDeployError,
                     RetryDeployError
<1> QED
  BY <1>6, <1>7, <1>8, <1>9, <1>10, <1>11, <1>12, <1>13, <1>14, <1>15 DEF Execute

LEMMA LaneWatch ==
  ASSUME WatchStep, LaneNext
  PROVE  Watched'
<1>1. /\ lane \in Lane /\ row \in [Dep -> Row] /\ ~DbError /\ ~InfraError /\ Watched
      /\ phase = "booted" /\ queued \in SUBSET Job /\ DrainFits
  BY NoError DEF WatchStep, CalmStep, Calm, TypeInv, JobsTyped, RowsTyped
<1>2. ASSUME exec' = exec, NoneSuperseded, \A d : JobWaits(d) => JobWaits(d)' \/ TickRuns(d)',
             \A d \in Dep : TickRuns(d) /\ row'[d].status = "draining" =>
               TickRuns(d)' \/ JobWaits(d)'
      PROVE  Watched'
  <2>1. \A x, d : CutoverHas(x, d) => CutoverHas(x, d)'
    BY <1>2 DEF CutoverHas
  <2> QED
    BY <1>1, <1>2, <2>1 DEF Watched, NoneSuperseded
<1>3. UNCHANGED row => NoneSuperseded
  BY DEF NoneSuperseded
<1>4. queued \subseteq queued' => \A d : JobWaits(d) => JobWaits(d)'
  BY DEF JobWaits
<1>5. ASSUME NEW pc, LaneTo(pc) PROVE lane'.pc = pc /\ lane'.job = lane.job
  BY <1>1, <1>5 DEF LaneTo, Lane
<1>6. lane.pc \notin TickPC => \A d : ~TickRuns(d)
  BY DEF TickRuns
<1>7. CASE ClaimInline
  <2>1. PICK j \in queued :
          /\ j.kind # "deploy"
          /\ queued' = queued \ {j} /\ running' = running \cup {Claimed(j)}
          /\ lane' = [IdleLane EXCEPT !.pc = FirstStep[j.kind], !.job = Claimed(j)]
    BY <1>7 DEF ClaimInline
  <2>2. Claimed(j).kind = j.kind /\ Claimed(j).dep = j.dep
    BY <1>1, <2>1, JobsSucceed
  <2>3. lane'.pc = FirstStep[j.kind] /\ lane'.job = Claimed(j)
    BY <2>1 DEF IdleLane
  <2>4. ASSUME NEW d, JobWaits(d) PROVE JobWaits(d)' \/ TickRuns(d)'
    <3>1. PICK i \in queued : i.kind = "drain" /\ i.dep = d
      BY <2>4 DEF JobWaits
    <3>2. CASE i = j
      <4>1. FirstStep[j.kind] = "drain"
        BY <3>1, <3>2 DEF FirstStep
      <4> QED
        BY <2>1, <2>2, <2>3, <3>1, <3>2, <4>1 DEF TickRuns, TickPC
    <3>3. CASE i # j
      BY <2>1, <3>1, <3>3 DEF JobWaits
    <3> QED
      BY <3>2, <3>3
  <2>5. UNCHANGED <<exec, row>> /\ lane.pc = "idle"
    BY <1>7 DEF ClaimInline, LaneAt, rowVars
  <2>6. lane.pc \notin TickPC
    BY <2>5 DEF TickPC
  <2> QED
    BY <1>2, <1>3, <1>6, <2>4, <2>5, <2>6
<1>8. CASE ReadDrained \/ DrainOver \/ DrainStops
  <2>1. UNCHANGED <<exec, row, queued, running>> /\ lane'.job = lane.job
    BY <1>1, <1>5, <1>8 DEF ReadDrained, DrainOver, DrainStops, LaneStep, jobVars, rowVars
  <2>2. lane'.pc \in TickPC \/ (lane.pc = "drain" /\ row[lane.job.dep].status # "draining")
    BY <1>1, <1>5, <1>8 DEF ReadDrained, DrainOver, DrainStops, StopDeploymentInfraThrows,
                            LaneAt, Subject, TickPC
  <2>3. \A d \in Dep : TickRuns(d) /\ row'[d].status = "draining" => TickRuns(d)'
    BY <2>1, <2>2 DEF TickRuns
  <2> QED
    BY <1>2, <1>3, <1>4, <2>1, <2>3
<1>9. CASE DrainWaits
  <2>1. UNCHANGED <<exec, row>> /\ queued' = queued \cup {NewJob("drain", Subject)}
    BY <1>9 DEF DrainWaits, rowVars
  <2>2. NewJob("drain", Subject).kind = "drain" /\ NewJob("drain", Subject).dep = lane.job.dep
    BY DEF NewJob, Subject
  <2>3. \A d : TickRuns(d) => JobWaits(d)'
    BY <2>1, <2>2 DEF TickRuns, JobWaits
  <2> QED
    BY <1>2, <1>3, <1>4, <2>1, <2>3
<1>10. CASE MarkStopped
  <2>1. UNCHANGED <<exec, queued, running>> /\ lane.pc = "mark"
    BY <1>10 DEF MarkStopped, LaneAt, jobVars
  <2>2. lane.pc \in DrainPC
    BY <2>1 DEF DrainPC
  <2>3. PICK s \in Dep : s = Subject /\ row[s].status \in Served
    BY <1>1, <2>2 DEF DrainFits, Subject
  <2>4. row' = [row EXCEPT ![s] = [row[s] EXCEPT !.status = "stopped", !.weighted = FALSE]]
    BY <1>10, <2>3 DEF MarkStopped, Update, Exists, Served
  <2>5. row'[s].status = "stopped" /\ \A d \in Dep \ {s} : row'[d] = row[d]
    BY <1>1, <2>4 DEF Row
  <2>6. NoneSuperseded
    BY <2>5 DEF NoneSuperseded
  <2>7. \A d \in Dep : TickRuns(d) => row'[d].status # "draining"
    BY <2>3, <2>5 DEF TickRuns, Subject
  <2> QED
    BY <1>2, <1>4, <2>1, <2>6, <2>7
<1>11. CASE ReconcileInserts
  <2>1. UNCHANGED <<exec, queued, running>> /\ lane.pc = "insert"
    BY <1>11 DEF ReconcileInserts, LaneAt, jobVars
  <2>2. NoneSuperseded
    BY <1>1, <1>11 DEF ReconcileInserts, InsertRow, NoneSuperseded
  <2>3. lane.pc \notin TickPC
    BY <2>1 DEF TickPC
  <2> QED
    BY <1>2, <1>4, <1>6, <2>1, <2>2, <2>3
<1>12. CASE \/ ReapRuns \/ ScheduleCleanup \/ CheckCleanup \/ DestroyBox \/ ReadDesired
            \/ ReadRows \/ ReconcileLater \/ ReconcileInsertThrows \/ ReconcileEnqueues
            \/ CompleteInline \/ RetryInline
  <2>1. UNCHANGED <<exec, row>> /\ queued \subseteq queued'
    BY <1>12 DEF ReapRuns, ScheduleCleanup, CheckCleanup, DestroyBox, ReadDesired, ReadRows,
       ReconcileLater, ReconcileInsertThrows, ReconcileEnqueues, CompleteInline, RetryInline,
       LaneStep, LaneEnds, jobVars, rowVars
  <2>2. lane.pc \notin TickPC
    BY <1>12 DEF ReapRuns, ScheduleCleanup, CheckCleanup, DestroyBox, ReadDesired, ReadRows,
       ReconcileLater, ReconcileInsertThrows, ReconcileEnqueues, CompleteInline, RetryInline,
       LaneAt, TickPC
  <2> QED
    BY <1>2, <1>3, <1>4, <1>6, <2>1, <2>2
<1>13. CASE StartSweep \/ EndSweep \/ LaneDbError
  BY <1>1, <1>13 DEF StartSweep, EndSweep, Boots, LaneDbError
<1> QED
  BY <1>7, <1>8, <1>9, <1>10, <1>11, <1>12, <1>13 DEF LaneNext

LEMMA ServeWatch ==
  ASSUME WatchStep, NEW w \in Actor, Serve(w) \/ Begin(w)
  PROVE  Watched'
<1>1. /\ row \in [Dep -> Row] /\ exec \in [Dep -> Exec] /\ ~DbError /\ Watched
      /\ \A x \in Dep : RowFits(x) /\ JobFits(x)
  BY NoError DEF WatchStep, CalmStep, Calm, TypeInv, RowsTyped
<1> DEFINE d == Of(w)
           s == Newest(req[w].stopped)
           o == req[w].stale
<1>2. UNCHANGED <<queued, running, lane>>
  BY DEF Serve, Begin, Probe, ClaimUrl, Restart, RefreshUrl, GiveUp, Decide, WakeStart,
     WakePromote, ReplaceReadEnv, ReplaceInsert, ReplaceLoses, Replaced, Retire, CheckRetired,
     DestroyRetired, ReplaceInsertError, ReqDbError, End, ReqStep, jobVars
<1>3. NoneSuperseded
  <2>1. CASE \/ ClaimUrl(w) \/ RefreshUrl(w) \/ GiveUp(w) \/ WakePromote(w) \/ Retire(w)
    <3>1. \/ UNCHANGED row
          \/ row[d].status = "live" /\ \E u \in BOOLEAN : row' = [row EXCEPT ![d].url = u]
          \/ /\ row[d].status = "live"
             /\ row' = [row EXCEPT ![d].status = "stopped", ![d].url = FALSE]
          \/ row[s].status = "stopped" /\ row' = [row EXCEPT ![s].status = "live", ![s].url = TRUE]
          \/ row[o].status = "stopped" /\ row' = [row EXCEPT ![o].weighted = FALSE]
      BY <2>1 DEF ClaimUrl, RefreshUrl, GiveUp, WakePromote, Retire
    <3> HIDE DEF d, s, o
    <3> QED
      BY <1>1, <3>1 DEF NoneSuperseded, Row
  <2>2. CASE ReplaceInsert(w)
    BY <1>1, <2>2 DEF ReplaceInsert, InsertRow, NoneSuperseded
  <2>3. CASE UNCHANGED row
    BY <2>3 DEF NoneSuperseded
  <2>4. ~ReplaceInsertError(w)
    BY <1>1 DEF ReplaceInsertError
  <2> QED
    BY <2>1, <2>2, <2>3, <2>4 DEF Serve, Begin, Probe, Restart, Decide, WakeStart,
       ReplaceReadEnv, ReplaceLoses, Replaced, CheckRetired, DestroyRetired, ReqDbError, End,
       rowVars
<1>4. CutoversStay
  <2>1. CASE ReplaceInsert(w)
    <3>1. PICK x \in Dep : /\ InsertRow(x, "building", req[w].rev)
                           /\ exec' = [exec EXCEPT ![x] = exec'[x]]
      BY <1>1, <2>1 DEF ReplaceInsert
    <3>2. exec[x] = IdleExec
      BY <3>1, FreshRow DEF WatchStep, InFlight
    <3> QED
      BY <1>1, <3>1, <3>2 DEF CutoversStay, IdleExec
  <2>2. CASE Replaced(w)
    BY <1>1, <2>2 DEF Replaced, Settled, CutoversStay
  <2>3. CASE exec' = exec
    BY <2>3 DEF CutoversStay
  <2> QED
    BY <2>1, <2>2, <2>3 DEF Serve, Begin, Probe, ClaimUrl, Restart, RefreshUrl, GiveUp, Decide,
       WakeStart, WakePromote, ReplaceReadEnv, ReplaceLoses, Retire, CheckRetired,
       DestroyRetired, ReplaceInsertError, ReqDbError, End
<1> QED
  BY <1>1, <1>2, <1>3, <1>4, WatchKept DEF JobsWait, TickStays

LEMMA EnvironmentWatch ==
  ASSUME WatchStep,
         \/ Bump \/ Invalidate \/ Deadline \/ BoxDies \/ DeleteFailed
         \/ \E r \in Run : RunStart(r) \/ RunFinish(r)
         \/ \E d \in Dep : QueueDeploy(d) \/ EnqueueDeploy(d)
         \/ UNCHANGED vars
  PROVE  Watched'
<1>1. /\ UNCHANGED <<exec, lane, running>> /\ Watched /\ ~DbError
      /\ queued \in SUBSET Job /\ row \in [Dep -> Row]
  BY NoError DEF Bump, Invalidate, Deadline, BoxDies, DeleteFailed, RunStart, RunFinish, vars,
         QueueDeploy, EnqueueDeploy, actorVars, jobVars, WatchStep, CalmStep, TypeInv,
         JobsTyped, RowsTyped
<1>2. NoneSuperseded
  <2>1. CASE DeleteFailed
    BY <1>1, <2>1 DEF DeleteFailed, NoRow, NoneSuperseded
  <2>2. CASE \E d \in Dep : QueueDeploy(d)
    BY <1>1, <2>2 DEF QueueDeploy, InsertRow, NoneSuperseded
  <2>3. CASE UNCHANGED row
    BY <2>3 DEF NoneSuperseded
  <2> QED
    BY <2>1, <2>2, <2>3 DEF Bump, Invalidate, Deadline, BoxDies, RunStart, RunFinish,
                            EnqueueDeploy, vars, rowVars
<1>3. JobsWait
  <2>1. \A j \in queued : /\ [j EXCEPT !.late = TRUE].kind = j.kind
                          /\ [j EXCEPT !.late = TRUE].dep = j.dep
    BY <1>1, JobsSucceed
  <2>2. \/ queued \subseteq queued'
        \/ \E j \in queued : queued' = (queued \ {j}) \cup {[j EXCEPT !.late = TRUE]}
    BY <1>1 DEF Bump, Invalidate, Deadline, BoxDies, DeleteFailed, RunStart, RunFinish, vars,
                QueueDeploy, EnqueueDeploy, jobVars
  <2> QED
    BY <2>1, <2>2 DEF JobsWait
<1> QED
  BY <1>1, <1>2, <1>3, WatchKept DEF TickStays, CutoversStay

LEMMA WatchInvKept ==
  ASSUME WatchInv, RowsStored, [Next]_vars
  PROVE  WatchInv'
<1>1. CalmInv'
  BY StepCalm DEF WatchInv
<1>2. ASSUME NoFault' PROVE Watched'
  <2>1. WatchStep
    <3>1. CalmStep /\ Undisturbed
      BY <1>1, <1>2, StepUndisturbed DEF WatchInv, NoFault, Undisturbed
    <3>2. infraErrors' = 0 => infraErrors = 0
      BY <1>1, InfraErrorsStep DEF WatchInv, CalmInv, TypeInv, FaultsTyped, InfraError
    <3> QED
      BY <1>2, <3>1, <3>2 DEF WatchStep, WatchInv, NoFault, Undisturbed
  <2>2. ~Crash /\ phase = "booted"
    BY <2>1 DEF WatchStep, CalmStep, Undisturbed, Crash, Calm, TypeInv, FaultsTyped
  <2>3. CASE ControllerNext
    <3>1. \A d \in Dep : ~EnqueueDeployError(d)
      BY <2>1, NoError DEF EnqueueDeployError
    <3> QED
      BY <2>1, <2>3, <3>1, ExecuteWatch, EnvironmentWatch DEF ControllerNext
  <2>4. CASE Requeue
    BY <2>2, <2>4 DEF Requeue
  <2> QED
    BY <2>1, <2>2, <2>3, <2>4, LaneWatch, ServeWatch, EnvironmentWatch DEF Next, WakeNext
<1> QED
  BY <1>1, <1>2 DEF WatchInv

\* A superseded deployment is never forgotten: while nothing fails, a draining
\* row always has a drain job, or the cutover that will schedule one.
THEOREM DrainsWatched == Spec => []DrainWatched
<1>1. Init => WatchInv
  BY InitCalm DEF Init, NoRow, WatchInv, Watched
<1>2. WatchInv /\ RowsStored /\ [Next]_vars => WatchInv'
  BY WatchInvKept
<1>3. WatchInv => DrainWatched
  BY DEF WatchInv, Watched, JobWaits, TickRuns, CutoverHas, DrainWatched
<1> QED
  BY <1>1, <1>2, <1>3, TableStored, PTL DEF Spec

---------------------------------------------------------------------------
(***************************************************************************)
(* The revisions.  A call reads the revision it records before it reads    *)
(* the one whose secrets it resolves.                                      *)
(***************************************************************************)

RevFits(d) ==
  /\ exec[d].pc = "take" => exec[d].rev <= envRev
  /\ exec[d].pc = "resolve" => row[d].rev <= envRev
  /\ exec[d].pc = "launch" => row[d].rev <= exec[d].rev
  /\ exec[d].pc \in {"siblings", "demote"} => row[d].rev <= boxRev[d]
  /\ row[d].status \in Served => row[d].rev <= boxRev[d]
ReqRevFits == \A w \in Actor : req[w].pc = "insert" => req[w].rev <= envRev

Revised == ReqRevFits /\ \A d \in Dep : RevFits(d)
RevInv == CalmInv /\ (Undisturbed => Revised)
RevStep == CalmStep /\ Revised

\* A row the step neither serves nor records a revision on.
RowKeepsRev(d) == /\ row'[d].rev <= row[d].rev /\ boxRev'[d] = boxRev[d]
                  /\ row'[d].status \in Served => row[d].status \in Served

\* The revisions are numbers.
LEMMA RevNumbers ==
  ASSUME CalmStep
  PROVE  /\ envRev \in Nat /\ envRev' \in Nat
         /\ \A d \in Dep : /\ row[d].rev \in Nat /\ row'[d].rev \in Nat
                           /\ boxRev[d] \in Nat /\ boxRev'[d] \in Nat
                           /\ exec[d].rev \in Nat /\ exec'[d].rev \in Nat
         /\ \A w \in Actor : req[w].rev \in Nat
<1>1. MaxRev \in Nat
  BY StateAssumption
<1>2. Rev \subseteq Nat
  BY <1>1 DEF Rev
<1>3. envRev \in Rev /\ envRev' \in Rev
  BY DEF CalmStep, TypeInv, RowsTyped
<1>4. \A d \in Dep : /\ row[d].rev \in Rev /\ row'[d].rev \in Rev
                     /\ boxRev[d] \in Rev /\ boxRev'[d] \in Rev
  BY DEF CalmStep, TypeInv, RowsTyped, BoxesTyped, Row
<1>5. \A d \in Dep : exec[d].rev \in Rev /\ exec'[d].rev \in Rev
  BY DEF CalmStep, TypeInv, Exec
<1>6. \A w \in Actor : req[w].rev \in Rev
  BY DEF CalmStep, TypeInv, Req
<1>7. envRev \in Nat /\ envRev' \in Nat
  BY <1>2, <1>3
<1>8. ASSUME NEW d \in Dep
      PROVE  /\ row[d].rev \in Nat /\ row'[d].rev \in Nat
             /\ boxRev[d] \in Nat /\ boxRev'[d] \in Nat
             /\ exec[d].rev \in Nat /\ exec'[d].rev \in Nat
  BY <1>2, <1>4, <1>5
<1>9. \A w \in Actor : req[w].rev \in Nat
  BY <1>2, <1>6
<1> QED
  BY <1>7, <1>8, <1>9

LEMMA RevKept ==
  ASSUME RevStep, NEW d \in Dep, RowKeepsRev(d), exec'[d] = exec[d], envRev <= envRev'
  PROVE  RevFits(d)'
<1>1. RevFits(d)
  BY DEF RevStep, Revised
<1>2. /\ envRev \in Nat /\ envRev' \in Nat /\ row[d].rev \in Nat /\ row'[d].rev \in Nat
      /\ boxRev[d] \in Nat /\ exec[d].rev \in Nat
  BY RevNumbers DEF RevStep
<1> QED
  BY <1>1, <1>2 DEF RevFits, RowKeepsRev

\* A step that works on no call.
LEMMA RevNoCall ==
  ASSUME RevStep, \A d \in Dep : RowKeepsRev(d), exec' = exec, req' = req, envRev <= envRev'
  PROVE  Revised'
<1>1. \A d \in Dep : RevFits(d)'
  BY RevKept
<1>2. ASSUME NEW w \in Actor, req'[w].pc = "insert" PROVE req'[w].rev <= envRev'
  <2>1. req'[w] = req[w] /\ req[w].rev <= envRev /\ req[w].rev \in Nat
        /\ envRev \in Nat /\ envRev' \in Nat
    BY <1>2, RevNumbers DEF RevStep, Revised, ReqRevFits
  <2> QED
    BY <2>1
<1> QED
  BY <1>1, <1>2 DEF Revised, ReqRevFits

LEMMA ExecuteRev ==
  ASSUME RevStep, NEW d \in Dep, Execute(d)
  PROVE  Revised'
<1>1. /\ exec \in [Dep -> Exec] /\ row \in [Dep -> Row] /\ boxRev \in [Dep -> Rev] /\ ~DbError
      /\ exec[d] \in Exec /\ RevFits(d) /\ RowFits(d) /\ SupFits(d) /\ ReqRevFits
      /\ envRev \in Nat /\ row[d].rev \in Nat /\ boxRev[d] \in Nat /\ exec[d].rev \in Nat
  BY NoDbError, RevNumbers
     DEF RevStep, Revised, CalmStep, Calm, TypeInv, RowsTyped, BoxesTyped
<1>2. envRev' = envRev /\ req' = req /\ \A x \in Dep \ {d} : exec'[x] = exec[x]
  <2>1. exec' = [exec EXCEPT ![d] = exec'[d]]
    BY <1>1 DEF Execute, BeginDeploy, ReadEnv, TakeRow, TakeRowThrows, TakeRowError, ResolveEnv,
       LaunchLive,
       LaunchFails, ReadSiblings, Demote, DemoteError, Promote, PromoteError, Audit, AuditError,
       ScheduleDrain, Finish, AbortInfra, FailRow, FailRowError, CompleteDeploy,
       CompleteDeployError, DeployFailed, RetryDeploy, RetryDeployError, Goto, Settled
  <2>2. envRev' = envRev /\ req' = req
    BY <1>1 DEF Execute, BeginDeploy, ReadEnv, TakeRow, TakeRowThrows, TakeRowError, ResolveEnv,
       LaunchLive,
       LaunchFails, ReadSiblings, Demote, DemoteError, Promote, PromoteError, Audit, AuditError,
       ScheduleDrain, Finish, AbortInfra, FailRow, FailRowError, CompleteDeploy,
       CompleteDeployError, DeployFailed, RetryDeploy, RetryDeployError, ExecStep, JobStep,
       rowVars
  <2> QED
    BY <1>1, <2>1, <2>2
<1>3. ASSUME \A x \in Dep \ {d} : RowKeepsRev(x), RevFits(d)' PROVE Revised'
  <2>1. \A x \in Dep \ {d} : RevFits(x)'
    BY <1>1, <1>2, <1>3, RevKept
  <2> QED
    BY <1>1, <1>2, <1>3, <2>1 DEF Revised, ReqRevFits
<1>4. \A x \in Dep : row[x].rev \in Nat
  BY RevNumbers DEF RevStep
<1>5. ASSUME NEW x \in Dep, row'[x] = row[x], boxRev'[x] = boxRev[x] PROVE RowKeepsRev(x)
  BY <1>4, <1>5 DEF RowKeepsRev
<1>6. CASE ReadEnv(d)
  <2>1. exec'[d].pc = "take" /\ exec'[d].rev = envRev /\ row' = row /\ boxRev' = boxRev
    BY <1>1, <1>6 DEF ReadEnv, boxVars, Exec
  <2>2. RevFits(d)'
    BY <1>1, <1>2, <2>1 DEF RevFits
  <2> QED
    BY <1>3, <1>5, <2>1, <2>2
<1>7. CASE TakeRow(d)
  <2>1. /\ exec[d].pc = "take" /\ exec'[d].pc = "resolve" /\ boxRev' = boxRev
        /\ row'[d].status = "building" /\ row'[d].rev = exec[d].rev
        /\ \A x \in Dep \ {d} : row'[x] = row[x]
    BY <1>1, <1>7 DEF TakeRow, Taken, At, Goto, boxVars, Exec, Row
  <2>2. RevFits(d)'
    BY <1>1, <1>2, <2>1 DEF RevFits, Served
  <2> QED
    BY <1>3, <1>5, <2>1, <2>2
<1>8. CASE ResolveEnv(d)
  <2>1. /\ exec[d].pc = "resolve" /\ exec'[d].pc = "launch" /\ exec'[d].rev = envRev
        /\ row' = row /\ boxRev' = boxRev
    BY <1>1, <1>8 DEF ResolveEnv, At, boxVars, Exec
  <2>2. RevFits(d)'
    BY <1>1, <1>2, <2>1 DEF RevFits
  <2> QED
    BY <1>3, <1>5, <2>1, <2>2
<1>9. CASE LaunchLive(d)
  <2>1. /\ exec[d].pc = "launch" /\ exec'[d].pc = "siblings" /\ row' = row
        /\ boxRev'[d] = exec[d].rev /\ \A x \in Dep \ {d} : boxRev'[x] = boxRev[x]
    BY <1>1, <1>9 DEF LaunchLive, At, Exec
  <2>2. row[d].status = "building"
    BY <1>1, <2>1 DEF RowFits, Working
  <2>3. RevFits(d)'
    BY <1>1, <1>2, <2>1, <2>2 DEF RevFits, Served
  <2> QED
    BY <1>3, <1>5, <2>1, <2>3
<1>10. CASE ReadSiblings(d)
  <2>1. exec[d].pc = "siblings" /\ exec'[d].pc = "demote" /\ row' = row /\ boxRev' = boxRev
    BY <1>1, <1>10 DEF ReadSiblings, At, boxVars, Exec
  <2>2. RevFits(d)'
    BY <1>1, <1>2, <2>1 DEF RevFits
  <2> QED
    BY <1>3, <1>5, <2>1, <2>2
<1>11. CASE Demote(d)
  <2>1. PICK x \in exec[d].todo : /\ row' = Update(x, Draining(x))
                                  /\ exec' = [exec EXCEPT ![d].todo = @ \ {x}]
    BY <1>11 DEF Demote
  <2>2. exec[d].pc = "demote" /\ boxRev' = boxRev /\ x \in exec[d].sup /\ x \in Dep
    BY <1>1, <1>11, <2>1 DEF Demote, At, boxVars, SupFits, Exec
  <2>3. row[x].status \in Served /\ row[d].status = "building"
    BY <1>1, <2>2 DEF SupFits, RowFits, Working
  <2>4. \A y \in Dep \ {x} : row'[y] = row[y]
    BY <1>1, <2>1 DEF Update
  <2>5. row'[x].rev = row[x].rev
    BY <1>1, <2>1, <2>2 DEF Update, Draining, Row
  <2>6. RowKeepsRev(x)
    BY <1>4, <2>2, <2>3, <2>5 DEF RowKeepsRev
  <2>7. x # d /\ exec'[d].pc = "demote"
    BY <1>1, <2>1, <2>2, <2>3 DEF Served, Exec
  <2>8. row'[d] = row[d]
    BY <2>4, <2>7
  <2>9. RevFits(d)'
    BY <1>1, <1>2, <2>2, <2>7, <2>8 DEF RevFits
  <2>10. \A y \in Dep \ {d} : RowKeepsRev(y)
    BY <1>5, <2>2, <2>4, <2>6
  <2> QED
    BY <1>3, <2>9, <2>10
<1>12. CASE Promote(d)
  <2>1. /\ exec[d].pc = "demote" /\ exec'[d].pc = "audit" /\ boxRev' = boxRev
        /\ row' = Update(d, [row[d] EXCEPT !.status = "live", !.url = TRUE])
    BY <1>1, <1>12 DEF Promote, At, Goto, boxVars, Exec
  <2>2. row'[d].rev = row[d].rev /\ \A x \in Dep \ {d} : row'[x] = row[x]
    BY <1>1, <2>1 DEF Update, Row
  <2>3. RevFits(d)'
    BY <1>1, <1>2, <2>1, <2>2 DEF RevFits
  <2> QED
    BY <1>3, <1>5, <2>1, <2>2, <2>3
<1>13. CASE FailRow(d)
  <2>1. /\ exec[d].pc = "fail" /\ exec'[d].pc = "failed" /\ boxRev' = boxRev
        /\ row' = Update(d, [row[d] EXCEPT !.status = "failed"])
    BY <1>1, <1>13 DEF FailRow, At, Goto, boxVars, Exec
  <2>2. row[d].status = "building"
    BY <1>1, <2>1 DEF RowFits, Working
  <2>3. row'[d].status = "failed" /\ \A x \in Dep \ {d} : row'[x] = row[x]
    BY <1>1, <2>1, <2>2 DEF Update, Exists, Row
  <2>4. RevFits(d)'
    BY <2>1, <2>3 DEF RevFits, Served
  <2> QED
    BY <1>3, <1>5, <2>1, <2>3, <2>4
<1>14. CASE \/ BeginDeploy(d) \/ TakeRowThrows(d) \/ LaunchFails(d) \/ Audit(d)
            \/ ScheduleDrain(d) \/ Finish(d) \/ AbortInfra(d) \/ CompleteDeploy(d)
            \/ DeployFailed(d) \/ RetryDeploy(d)
  <2>1. row' = row /\ boxRev' = boxRev
    BY <1>14 DEF BeginDeploy, TakeRowThrows, LaunchFails, Audit, ScheduleDrain, Finish,
       AbortInfra, CompleteDeploy, DeployFailed, RetryDeploy, JobStep, boxVars, rowVars,
       StopDeploymentInfra, StopDeploymentInfraThrows
  <2>2. exec'[d].pc \notin {"take", "resolve", "launch", "siblings", "demote"}
    BY <1>1, <1>14 DEF BeginDeploy, TakeRowThrows, LaunchFails, Audit, ScheduleDrain, Finish,
       AbortInfra, CompleteDeploy, DeployFailed, RetryDeploy, At, Goto, Settled, IdleExec, Exec
  <2>3. RevFits(d)'
    BY <1>1, <2>1, <2>2 DEF RevFits
  <2> QED
    BY <1>3, <1>5, <2>1, <2>3
<1>15. CASE \/ TakeRowError(d) \/ DemoteError(d) \/ PromoteError(d)
            \/ AuditError(d) \/ FailRowError(d)
            \/ CompleteDeployError(d) \/ RetryDeployError(d)
  BY <1>1, <1>15 DEF TakeRowError, DemoteError, PromoteError, AuditError, FailRowError,
     CompleteDeployError,
                     RetryDeployError
<1> QED
  BY <1>6, <1>7, <1>8, <1>9, <1>10, <1>11, <1>12, <1>13, <1>14, <1>15 DEF Execute

\* A row that is inserted is not served.
LEMMA InsertKeepsRev ==
  ASSUME RevStep, NEW x \in Dep, NEW status \in InFlight, NEW rev, InsertRow(x, status, rev),
         boxRev' = boxRev
  PROVE  /\ row'[x].status = status /\ row'[x].rev = rev
         /\ \A y \in Dep \ {x} : row'[y] = row[y] /\ RowKeepsRev(y)
<1>1. row \in [Dep -> Row] /\ \A y \in Dep : row[y].rev \in Nat
  BY RevNumbers DEF RevStep, CalmStep, TypeInv, RowsTyped
<1>2. /\ row'[x].status = status /\ row'[x].rev = rev
      /\ \A y \in Dep \ {x} : row'[y] = row[y]
  BY <1>1 DEF InsertRow
<1> QED
  BY <1>1, <1>2 DEF RowKeepsRev

LEMMA OtherRev ==
  ASSUME RevStep,
         \/ LaneNext
         \/ \E d \in Dep : QueueDeploy(d) \/ EnqueueDeploy(d)
         \/ Bump \/ Invalidate \/ Deadline \/ BoxDies \/ DeleteFailed
         \/ \E r \in Run : RunStart(r) \/ RunFinish(r)
         \/ UNCHANGED vars
  PROVE  Revised'
<1>1. /\ row \in [Dep -> Row] /\ envRev \in Nat /\ DrainFits
      /\ \A x \in Dep : row[x].rev \in Nat /\ RevFits(x) /\ RowFits(x) /\ JobFits(x)
  BY RevNumbers DEF RevStep, Revised, CalmStep, Calm, TypeInv, RowsTyped
<1>2. UNCHANGED <<boxRev, exec, req>>
  BY DEF LaneNext, ClaimInline, LaneDbError, ReadDrained, DrainWaits, DrainOver,
     DrainStops, MarkStopped, ReapRuns, ScheduleCleanup, CheckCleanup, DestroyBox, StartSweep,
     ReadDesired, ReadRows, ReconcileLater, ReconcileInserts, ReconcileInsertThrows,
     ReconcileEnqueues, EndSweep, CompleteInline, RetryInline, LaneStep, LaneEnds, boxVars,
     StopDeploymentInfra, StopDeploymentInfraThrows, Destroy, QueueDeploy, EnqueueDeploy, Bump,
     Invalidate, Deadline, BoxDies, DeleteFailed, RunStart, RunFinish, vars, actorVars
<1>3. envRev <= envRev'
  <2>1. envRev' = envRev \/ envRev' = envRev + 1
    BY DEF LaneNext, ClaimInline, LaneDbError, ReadDrained, DrainWaits, DrainOver,
       DrainStops, MarkStopped, ReapRuns, ScheduleCleanup, CheckCleanup, DestroyBox, StartSweep,
       ReadDesired, ReadRows, ReconcileLater, ReconcileInserts, ReconcileInsertThrows,
       ReconcileEnqueues, EndSweep, CompleteInline, RetryInline, LaneStep, LaneEnds, rowVars,
       QueueDeploy, EnqueueDeploy, Bump, Invalidate, Deadline, BoxDies, DeleteFailed, RunStart,
       RunFinish, vars
  <2> QED
    BY <1>1, <2>1
<1>4. \A x \in Dep : RowKeepsRev(x)
  <2>1. CASE MarkStopped
    <3>1. lane.pc = "mark"
      BY <2>1 DEF MarkStopped, LaneAt
    <3>2. lane.pc \in DrainPC
      BY <3>1 DEF DrainPC
    <3>3. PICK s \in Dep : s = Subject /\ row[s].status \in Served
      BY <1>1, <3>2 DEF DrainFits, Subject
    <3>4. row' = [row EXCEPT ![s] = [row[s] EXCEPT !.status = "stopped", !.weighted = FALSE]]
      BY <2>1, <3>3 DEF MarkStopped, Update, Exists, Served
    <3>5. row'[s].rev = row[s].rev /\ \A x \in Dep \ {s} : row'[x] = row[x]
      BY <1>1, <3>4 DEF Row
    <3> QED
      BY <1>1, <1>2, <3>3, <3>5 DEF RowKeepsRev
  <2>2. CASE ReconcileInserts \/ \E d \in Dep : QueueDeploy(d)
    <3>1. PICK x \in Dep : InsertRow(x, "pending", 0)
      BY <2>2 DEF ReconcileInserts, QueueDeploy
    <3>2. /\ row'[x].status = "pending" /\ row'[x].rev = 0
          /\ \A y \in Dep \ {x} : RowKeepsRev(y)
      BY <1>2, <3>1, InsertKeepsRev DEF InFlight
    <3>3. RowKeepsRev(x)
      BY <1>1, <1>2, <3>2 DEF RowKeepsRev, Served
    <3> QED
      BY <3>2, <3>3
  <2>3. CASE DeleteFailed
    <3>1. \A x \in Dep : row'[x] = row[x] \/ row'[x] = [NoRow EXCEPT !.status = "deleted"]
      BY <2>3 DEF DeleteFailed
    <3>2. /\ [NoRow EXCEPT !.status = "deleted"].status = "deleted"
          /\ [NoRow EXCEPT !.status = "deleted"].rev = 0
      BY DEF NoRow
    <3>3. \A x \in Dep : row'[x] = row[x] \/ (row'[x].status = "deleted" /\ row'[x].rev = 0)
      BY <3>1, <3>2
    <3>4. ASSUME NEW x \in Dep PROVE RowKeepsRev(x)
      <4>1. boxRev'[x] = boxRev[x] /\ row[x].rev \in Nat
        BY <1>1, <1>2
      <4>2. row'[x].rev <= row[x].rev
        BY <3>3, <4>1
      <4>3. row'[x].status \in Served => row[x].status \in Served
        BY <3>3 DEF Served
      <4> QED
        BY <4>1, <4>2, <4>3 DEF RowKeepsRev
    <3> QED
      BY <3>4
  <2>4. CASE UNCHANGED row
    BY <1>1, <1>2, <2>4 DEF RowKeepsRev
  <2> QED
    BY <2>1, <2>2, <2>3, <2>4
       DEF LaneNext, ClaimInline, LaneDbError, ReadDrained, DrainWaits, DrainOver,
           DrainStops, ReapRuns, ScheduleCleanup, CheckCleanup, DestroyBox, StartSweep,
           ReadDesired, ReadRows, ReconcileLater, ReconcileInsertThrows, ReconcileEnqueues,
           EndSweep, CompleteInline, RetryInline, LaneStep, LaneEnds, rowVars, EnqueueDeploy,
           Bump, Invalidate, Deadline, BoxDies, RunStart, RunFinish, vars
<1> QED
  BY <1>2, <1>3, <1>4, RevNoCall

LEMMA ServeRev ==
  ASSUME RevStep, NEW w \in Actor, Serve(w) \/ Begin(w)
  PROVE  Revised'
<1>1. /\ row \in [Dep -> Row] /\ req \in [Actor -> Req] /\ exec \in [Dep -> Exec] /\ ~DbError
      /\ envRev \in Nat /\ ReqRevFits /\ req[w].rev \in Nat
      /\ \A x \in Dep : row[x].rev \in Nat /\ RevFits(x)
  BY NoDbError, RevNumbers DEF RevStep, Revised, CalmStep, Calm, TypeInv, RowsTyped
<1>2. UNCHANGED <<boxRev, envRev>>
  BY DEF Serve, Begin, Probe, ClaimUrl, Restart, RefreshUrl, GiveUp, Decide, WakeStart,
     WakePromote, ReplaceReadEnv, ReplaceInsert, ReplaceLoses, Replaced, Retire, CheckRetired,
     DestroyRetired, ReplaceInsertError, ReqDbError, End, ReqStep, boxVars, rowVars, StartBox,
     StartBoxFails, Destroy
<1>3. ReqRevFits'
  <2>1. \A v \in Actor \ {w} : req'[v] = req[v]
    BY <1>1 DEF Serve, Begin, Probe, ClaimUrl, Restart, RefreshUrl, GiveUp, Decide, WakeStart,
       WakePromote, ReplaceReadEnv, ReplaceInsert, ReplaceLoses, Replaced, Retire, CheckRetired,
       DestroyRetired, ReplaceInsertError, ReqDbError, End, ReqTo, ReqEnds, Recovered
  <2>2. req'[w].pc = "insert" => req'[w].rev <= envRev
    <3>1. CASE ReplaceReadEnv(w)
      BY <1>1, <3>1 DEF ReplaceReadEnv, Req
    <3>2. CASE ReplaceInsert(w)
      BY <1>1, <3>2 DEF ReplaceInsert, Req
    <3>3. CASE ~ReplaceReadEnv(w) /\ ~ReplaceInsert(w)
      BY <3>3, ServeGoesOn DEF RevStep, CalmStep
    <3> QED
      BY <3>1, <3>2, <3>3
  <2> QED
    BY <1>1, <1>2, <2>1, <2>2 DEF ReqRevFits
<1>4. CASE ReplaceInsert(w)
  <2>1. PICK x \in Dep : /\ InsertRow(x, "building", req[w].rev)
                         /\ exec' = [exec EXCEPT ![x] = [IdleExec EXCEPT !.pc = "resolve",
                                                           !.rev = req[w].rev, !.by = w]]
    BY <1>4 DEF ReplaceInsert
  <2>2. /\ row'[x].status = "building" /\ row'[x].rev = req[w].rev
        /\ \A y \in Dep \ {x} : RowKeepsRev(y)
    BY <1>2, <2>1, InsertKeepsRev DEF InFlight
  <2>3. exec'[x].pc = "resolve" /\ \A y \in Dep \ {x} : exec'[y] = exec[y]
    BY <1>1, <2>1 DEF IdleExec
  <2>4. req[w].rev <= envRev
    BY <1>1, <1>4 DEF ReplaceInsert, ReqAt, ReqRevFits
  <2>5. RevFits(x)'
    BY <1>2, <2>2, <2>3, <2>4 DEF RevFits, Served
  <2>6. \A y \in Dep \ {x} : RevFits(y)'
    BY <1>1, <1>2, <2>2, <2>3, RevKept
  <2> QED
    BY <1>3, <2>5, <2>6 DEF Revised
<1>5. CASE ~ReplaceInsert(w)
  <2>1. \A x \in Dep : RowKeepsRev(x)
    <3>1. CASE UNCHANGED row
      BY <1>1, <1>2, <3>1 DEF RowKeepsRev
    <3>2. CASE \/ ClaimUrl(w) \/ RefreshUrl(w) \/ GiveUp(w) \/ WakePromote(w) \/ Retire(w)
      <4> DEFINE d == Of(w)
                 s == Newest(req[w].stopped)
                 o == req[w].stale
      <4>1. \/ UNCHANGED row
            \/ row[d].status = "live" /\ \E u \in BOOLEAN : row' = [row EXCEPT ![d].url = u]
            \/ /\ row[d].status = "live"
               /\ row' = [row EXCEPT ![d].status = "stopped", ![d].url = FALSE]
            \/ /\ row[s].status = "stopped"
               /\ row' = [row EXCEPT ![s].status = "live", ![s].url = TRUE]
            \/ row[o].status = "stopped" /\ row' = [row EXCEPT ![o].weighted = FALSE]
        BY <3>2 DEF ClaimUrl, RefreshUrl, GiveUp, WakePromote, Retire
      <4> HIDE DEF d, s, o
      <4>2. \A x \in Dep : /\ row'[x].rev = row[x].rev
                           /\ row'[x].status \in Served => row[x].status \in Served
        BY <1>1, <4>1 DEF Served, Row
      <4> QED
        BY <1>1, <1>2, <4>2 DEF RowKeepsRev
    <3>3. ~ReplaceInsertError(w)
      BY <1>1 DEF ReplaceInsertError
    <3> QED
      BY <1>5, <3>1, <3>2, <3>3 DEF Serve, Begin, Probe, Restart, Decide, WakeStart,
         ReplaceReadEnv, ReplaceLoses, Replaced, CheckRetired, DestroyRetired, ReqDbError, End,
         rowVars
  <2>2. ASSUME NEW x \in Dep PROVE RevFits(x)'
    <3>1. CASE exec'[x] = exec[x]
      BY <1>1, <1>2, <2>1, <3>1, RevKept
    <3>2. CASE exec'[x] # exec[x]
      <4>1. Replaced(w)
        BY <1>5, <3>2 DEF Serve, Begin, Probe, ClaimUrl, Restart, RefreshUrl, GiveUp, Decide,
           WakeStart, WakePromote, ReplaceReadEnv, ReplaceLoses, Retire, CheckRetired,
           DestroyRetired, ReplaceInsertError, ReqDbError, End
      <4>2. exec'[x] = IdleExec /\ row' = row
        BY <1>1, <3>2, <4>1 DEF Replaced, Settled
      <4> QED
        BY <1>1, <1>2, <4>2 DEF RevFits, IdleExec
    <3> QED
      BY <3>1, <3>2
  <2> QED
    BY <1>3, <2>2 DEF Revised
<1> QED
  BY <1>4, <1>5

LEMMA RevInvKept ==
  ASSUME RevInv, RowsStored, [Next]_vars
  PROVE  RevInv'
<1>1. CalmInv'
  BY StepCalm DEF RevInv
<1>2. ASSUME Undisturbed' PROVE Revised'
  <2>1. RevStep
    BY <1>2, StepUndisturbed DEF RevInv, RevStep
  <2>2. ~Crash /\ phase = "booted"
    BY <2>1 DEF RevStep, CalmStep, Undisturbed, Crash, Calm, TypeInv, FaultsTyped
  <2>3. CASE ControllerNext
    <3>1. \A d \in Dep : ~EnqueueDeployError(d)
      BY <2>1, NoDbError DEF RevStep, EnqueueDeployError
    <3> QED
      BY <2>1, <2>3, <3>1, ExecuteRev, OtherRev DEF ControllerNext
  <2>4. CASE Requeue
    BY <2>2, <2>4 DEF Requeue
  <2> QED
    BY <2>1, <2>2, <2>3, <2>4, OtherRev, ServeRev DEF Next, WakeNext
<1> QED
  BY <1>1, <1>2 DEF RevInv

\* The revision on a live row is one its container has the secrets of, for every
\* interleaving of deploys, wakes and revision bumps in which no database call is
\* rejected and the process is not restarted.
THEOREM RevisionsHonest == Spec => []RevisionHonest
<1>1. Init => RevInv
  BY InitCalm DEF Init, NoRow, IdleExec, IdleReq, RevInv, Revised, ReqRevFits, RevFits, Served
<1>2. RevInv /\ RowsStored /\ [Next]_vars => RevInv'
  BY RevInvKept
<1>3. RevInv => RevisionHonest
  <2>1. SUFFICES ASSUME RevInv, Undisturbed, NEW d \in Live PROVE boxRev[d] >= row[d].rev
    BY DEF RevisionHonest, Undisturbed
  <2>2. d \in Dep /\ row[d].rev <= boxRev[d]
    BY <2>1 DEF RevInv, Revised, RevFits, Live, Served
  <2>3. /\ row[d].rev \in Rev /\ boxRev[d] \in Rev /\ MaxRev \in Nat
    BY <2>1, <2>2, StateAssumption DEF RevInv, CalmInv, TypeInv, RowsTyped, BoxesTyped, Row
  <2> QED
    BY <2>2, <2>3 DEF Rev
<1> QED
  BY <1>1, <1>2, <1>3, TableStored, PTL DEF Spec

---------------------------------------------------------------------------
(***************************************************************************)
(* Who writes what: the rows, the containers and the calls, in any step    *)
(* that is neither a restart nor a rejected call.                          *)
(***************************************************************************)

Ready == {"siblings", "demote"}
CutsInto(d, x) == /\ exec[d].pc = "demote" /\ x \in exec[d].todo
                  /\ exec'[d].pc = "demote" /\ exec'[d].sup = exec[d].sup
                  /\ x \notin exec'[d].todo

\* The status of x: its own call until it is promoted, then a cutover that
\* supersedes it, its drain, or a request that gives it up or wakes it.
RowWritten(x) ==
  \/ row'[x].status = row[x].status
  \/ row[x].status \notin Served /\ row'[x].status \notin Served
  \/ row[x].status = "building" /\ Promote(x)
  \/ /\ row[x].status \in Served /\ row'[x].status = "draining"
     /\ \E d \in Dep : CutsInto(d, x)
  \/ /\ row[x].status \in Served /\ row'[x].status = "stopped"
     /\ lane.pc = "mark" /\ lane'.pc = "reap" /\ x = Subject
  \/ /\ row[x].status = "live" /\ row'[x].status = "stopped"
     /\ \E w \in Actor : req[w].pc = "giveup" /\ x = Of(w)
  \/ row[x].status = "stopped" /\ row'[x].status = "live" /\ \E w \in Actor : WakePromote(w)

\* The container of x: its own call, a start, a drain, a cleanup, a request that
\* replaced it, or a fault.
BoxWritten(x) ==
  \/ box'[x] = box[x]
  \/ exec[x].pc \in {"launch", "abort"}
  \/ /\ box[x] # "absent"
     /\ \/ box'[x] = "up"
        \/ lane.pc \in {"stop", "destroy"} /\ x = Subject
        \/ \E w \in Actor : req[w].pc = "destroy" /\ x = req[w].stale
        \/ InfraError

\* The call on x: up to its promotion, and from there with what it superseded.
CallWritten(x) ==
  /\ exec'[x].pc \in Ready => exec[x].pc \in Ready \/ box'[x] = "up"
  /\ exec[x].pc = "demote" =>
       exec'[x].sup = exec[x].sup /\ (exec'[x].pc = "demote" \/ Promote(x))
  /\ exec'[x].pc = "demote" =>
       \/ exec[x].pc = "demote" /\ exec'[x].todo \subseteq exec[x].todo
       \/ exec'[x].todo \subseteq Live /\ UNCHANGED row
  /\ exec'[x].pc \in Won =>
       exec'[x].sup = exec[x].sup /\ (exec[x].pc \in Won \/ Promote(x))

LEMMA ExecuteWrites ==
  ASSUME CalmStep, NEW d \in Dep, Execute(d)
  PROVE  \A x \in Dep : RowWritten(x) /\ BoxWritten(x) /\ CallWritten(x)
<1>1. /\ exec \in [Dep -> Exec] /\ row \in [Dep -> Row] /\ ~DbError
      /\ box \in [Dep -> {"absent", "up", "down"}]
      /\ exec[d] \in Exec /\ TypeInv /\ SupFits(d) /\ RowFits(d)
  BY NoDbError DEF CalmStep, Calm, TypeInv, RowsTyped, BoxesTyped
<1>2. UNCHANGED row => \A x \in Dep : RowWritten(x)
  BY DEF RowWritten
<1>3. UNCHANGED box => \A x \in Dep : BoxWritten(x)
  BY DEF BoxWritten
<1>4. ASSUME \A x \in Dep \ {d} : exec'[x] = exec[x], CallWritten(d)
      PROVE  \A x \in Dep : CallWritten(x)
  BY <1>4 DEF CallWritten, Won
<1>5. ASSUME NEW r, row' = Update(d, r) \/ row' = [row EXCEPT ![d] = r],
             row[d].status \notin Served, r.status \notin Served
      PROVE  \A x \in Dep : RowWritten(x)
  BY <1>1, <1>5 DEF Update, RowWritten
<1>6. CASE Demote(d)
  <2>1. PICK x \in exec[d].todo : /\ row' = Update(x, Draining(x))
                                  /\ exec' = [exec EXCEPT ![d].todo = @ \ {x}]
    BY <1>6 DEF Demote
  <2>2. /\ exec[d].pc = "demote" /\ UNCHANGED box /\ x \in Dep /\ x \in exec[d].sup
        /\ row[x].status \in Served
    BY <1>1, <1>6, <2>1 DEF Demote, At, SupFits, Exec, boxVars
  <2>3. /\ exec'[d].pc = "demote" /\ exec'[d].sup = exec[d].sup
        /\ exec'[d].todo = exec[d].todo \ {x}
        /\ \A y \in Dep \ {d} : exec'[y] = exec[y]
    BY <1>1, <2>1, <2>2 DEF Exec
  <2>4. row'[x].status = "draining" /\ \A y \in Dep \ {x} : row'[y] = row[y]
    BY <1>1, <2>1, <2>2 DEF Update, Draining, Exists, Served, Row
  <2>5. CutsInto(d, x)
    BY <2>1, <2>2, <2>3 DEF CutsInto
  <2>6. \A y \in Dep : RowWritten(y)
    BY <2>2, <2>4, <2>5 DEF RowWritten
  <2>7. CallWritten(d)
    BY <2>2, <2>3 DEF CallWritten, Ready, Won
  <2> QED
    BY <1>3, <1>4, <2>2, <2>3, <2>6, <2>7
<1>7. CASE Promote(d)
  <2>1. /\ exec[d].pc = "demote" /\ UNCHANGED box
        /\ row' = Update(d, [row[d] EXCEPT !.status = "live", !.url = TRUE])
        /\ exec' = [exec EXCEPT ![d].pc = "audit"]
    BY <1>7 DEF Promote, At, Goto, boxVars
  <2>2. /\ exec'[d].pc = "audit" /\ exec'[d].sup = exec[d].sup
        /\ \A y \in Dep \ {d} : exec'[y] = exec[y]
    BY <1>1, <2>1 DEF Exec
  <2>3. row[d].status = "building"
    BY <1>1, <2>1 DEF RowFits, Working
  <2>4. \A y \in Dep : RowWritten(y)
    BY <1>1, <1>7, <2>1, <2>3 DEF Update, RowWritten
  <2>5. CallWritten(d)
    BY <1>7, <2>1, <2>2 DEF CallWritten, Ready, Won
  <2> QED
    BY <1>3, <1>4, <2>1, <2>2, <2>4, <2>5
<1>8. CASE LaunchLive(d)
  <2>1. /\ exec[d].pc = "launch" /\ UNCHANGED row /\ box'[d] = "up"
        /\ \A y \in Dep \ {d} : box'[y] = box[y] /\ exec'[y] = exec[y]
        /\ exec'[d].pc = "siblings"
    BY <1>1, <1>8 DEF LaunchLive, At, Exec
  <2>2. \A y \in Dep : BoxWritten(y)
    BY <2>1 DEF BoxWritten
  <2>3. CallWritten(d)
    BY <2>1 DEF CallWritten, Won
  <2> QED
    BY <1>2, <1>4, <2>1, <2>2, <2>3
<1>9. CASE LaunchFails(d) \/ AbortInfra(d)
  <2>1. /\ exec[d].pc \in {"launch", "abort"} /\ UNCHANGED row
        /\ \A y \in Dep \ {d} : box'[y] = box[y] /\ exec'[y] = exec[y]
        /\ exec'[d].pc \in {"abort", "fail"}
    BY <1>1, <1>9 DEF LaunchFails, AbortInfra, At, Goto, Exec, StopDeploymentInfra,
                      StopDeploymentInfraThrows, boxVars
  <2>2. \A y \in Dep : BoxWritten(y)
    BY <2>1 DEF BoxWritten
  <2>3. CallWritten(d)
    BY <2>1 DEF CallWritten, Ready, Won
  <2> QED
    BY <1>2, <1>4, <2>1, <2>2, <2>3
<1>10. CASE TakeRow(d) \/ FailRow(d)
  <2>1. /\ exec[d].pc \in {"take", "fail"} /\ UNCHANGED box
        /\ \A y \in Dep \ {d} : exec'[y] = exec[y]
        /\ exec'[d].pc \in {"resolve", "failed"}
    BY <1>1, <1>10 DEF TakeRow, Taken, FailRow, At, Goto, boxVars, Exec
  <2>2. \E r : /\ row' = Update(d, r) \/ row' = [row EXCEPT ![d] = r]
               /\ r.status \notin Served
    <3>1. CASE TakeRow(d)
      <4> DEFINE r == [row[d] EXCEPT !.status = "building", !.weighted = TRUE, !.rev = exec[d].rev]
      <4>1. row' = [row EXCEPT ![d] = r]
        BY <3>1 DEF TakeRow, Taken
      <4>2. r.status = "building"
        BY <1>1 DEF Row
      <4> QED
        BY <4>1, <4>2 DEF Served
    <3>2. CASE FailRow(d)
      <4> DEFINE r == [row[d] EXCEPT !.status = "failed"]
      <4>1. row' = Update(d, r)
        BY <3>2 DEF FailRow
      <4>2. r.status = "failed"
        BY <1>1 DEF Row
      <4> QED
        BY <4>1, <4>2 DEF Served
    <3> QED
      BY <1>10, <3>1, <3>2
  <2>3. row[d].status \notin Served
    BY <1>1, <2>1 DEF RowFits, Begun, Working, Served
  <2>4. CallWritten(d)
    BY <2>1 DEF CallWritten, Ready, Won
  <2> QED
    BY <1>3, <1>4, <1>5, <2>1, <2>2, <2>3, <2>4
<1>11. CASE \/ BeginDeploy(d) \/ ReadEnv(d) \/ TakeRowThrows(d) \/ ResolveEnv(d)
            \/ CompleteDeploy(d) \/ DeployFailed(d) \/ RetryDeploy(d)
  <2>1. UNCHANGED <<row, box>> /\ exec[d].pc # "demote"
    BY <1>11 DEF BeginDeploy, ReadEnv, TakeRowThrows, ResolveEnv, CompleteDeploy, DeployFailed,
       RetryDeploy, JobStep, rowVars, boxVars, At
  <2>2. \A y \in Dep \ {d} : exec'[y] = exec[y]
    BY <1>1, <1>11 DEF BeginDeploy, ReadEnv, TakeRowThrows, ResolveEnv, CompleteDeploy,
       DeployFailed, RetryDeploy, Goto, Settled
  <2>3. exec'[d].pc \in {"env", "take", "threw", "launch", "idle"}
    BY <1>1, <1>11 DEF BeginDeploy, ReadEnv, TakeRowThrows, ResolveEnv, CompleteDeploy,
       DeployFailed, RetryDeploy, Goto, Settled, IdleExec, Exec
  <2>4. CallWritten(d)
    BY <2>1, <2>3 DEF CallWritten, Ready, Won
  <2> QED
    BY <1>2, <1>3, <1>4, <2>1, <2>2, <2>4
<1>12. CASE ReadSiblings(d) \/ Audit(d) \/ ScheduleDrain(d) \/ Finish(d)
  <2>1. UNCHANGED <<row, box>> /\ \A y \in Dep \ {d} : exec'[y] = exec[y]
    BY <1>1, <1>12 DEF ReadSiblings, Audit, ScheduleDrain, Finish, rowVars, boxVars, Goto
  <2>2. \/ exec[d].pc = "siblings" /\ exec'[d].pc = "demote" /\ exec'[d].todo \subseteq Live
        \/ exec[d].pc \in Won /\ exec'[d].pc \in Won /\ exec'[d].sup = exec[d].sup
    BY <1>1, <1>12 DEF ReadSiblings, Audit, ScheduleDrain, Finish, At, Goto, Exec, Won
  <2>3. CallWritten(d)
    BY <2>1, <2>2 DEF CallWritten, Ready, Won
  <2> QED
    BY <1>2, <1>3, <1>4, <2>1, <2>3
<1>13. CASE \/ TakeRowError(d) \/ DemoteError(d) \/ PromoteError(d)
            \/ AuditError(d) \/ FailRowError(d)
            \/ CompleteDeployError(d) \/ RetryDeployError(d)
  BY <1>1, <1>13 DEF TakeRowError, DemoteError, PromoteError, AuditError, FailRowError,
     CompleteDeployError,
                     RetryDeployError
<1> QED
  BY <1>6, <1>7, <1>8, <1>9, <1>10, <1>11, <1>12, <1>13 DEF Execute

\* A step that works on no call leaves them where they are.
LEMMA CallsStay == UNCHANGED exec => \A x \in Dep : CallWritten(x)
BY DEF CallWritten, Won

LEMMA LaneWrites ==
  ASSUME CalmStep, LaneNext
  PROVE  \A x \in Dep : RowWritten(x) /\ BoxWritten(x) /\ CallWritten(x)
<1>1. /\ lane \in Lane /\ row \in [Dep -> Row] /\ ~DbError /\ DrainFits
      /\ box \in [Dep -> {"absent", "up", "down"}]
  BY NoDbError DEF CalmStep, Calm, TypeInv, RowsTyped, BoxesTyped
<1>2. \A x \in Dep : CallWritten(x)
  <2>1. UNCHANGED exec
    BY DEF LaneNext, ClaimInline, LaneDbError, ReadDrained, DrainWaits, DrainOver,
       DrainStops, MarkStopped, ReapRuns, ScheduleCleanup, CheckCleanup, DestroyBox, StartSweep,
       ReadDesired, ReadRows, ReconcileLater, ReconcileInserts, ReconcileInsertThrows,
       ReconcileEnqueues, EndSweep, CompleteInline, RetryInline, LaneStep, LaneEnds
  <2> QED
    BY <2>1, CallsStay
<1>3. \A x \in Dep : RowWritten(x)
  <2>1. CASE MarkStopped
    <3>1. lane.pc = "mark" /\ lane'.pc = "reap"
      BY <1>1, <2>1 DEF MarkStopped, LaneAt, LaneTo, Lane
    <3>2. lane.pc \in DrainPC
      BY <3>1 DEF DrainPC
    <3>3. PICK s \in Dep : s = Subject /\ row[s].status \in Served
      BY <1>1, <3>2 DEF DrainFits, Subject
    <3>4. row' = [row EXCEPT ![s] = [row[s] EXCEPT !.status = "stopped", !.weighted = FALSE]]
      BY <2>1, <3>3 DEF MarkStopped, Update, Exists, Served
    <3>5. row'[s].status = "stopped" /\ \A x \in Dep \ {s} : row'[x] = row[x]
      BY <1>1, <3>4 DEF Row
    <3> QED
      BY <3>1, <3>3, <3>5 DEF RowWritten
  <2>2. CASE ReconcileInserts
    BY <1>1, <2>2 DEF ReconcileInserts, InsertRow, IsNext, RowWritten, Served
  <2>3. CASE UNCHANGED row
    BY <2>3 DEF RowWritten
  <2> QED
    BY <2>1, <2>2, <2>3
       DEF LaneNext, ClaimInline, LaneDbError, ReadDrained, DrainWaits, DrainOver,
           DrainStops, ReapRuns, ScheduleCleanup, CheckCleanup, DestroyBox, StartSweep,
           ReadDesired, ReadRows, ReconcileLater, ReconcileInsertThrows, ReconcileEnqueues,
           EndSweep, CompleteInline, RetryInline, LaneStep, LaneEnds, rowVars
<1>4. \A x \in Dep : BoxWritten(x)
  <2>1. CASE DrainStops
    BY <1>1, <2>1 DEF DrainStops, LaneAt, StopDeploymentInfra, StopDeploymentInfraThrows,
                      boxVars, BoxWritten
  <2>2. CASE DestroyBox
    BY <1>1, <2>2 DEF DestroyBox, LaneAt, Destroy, boxVars, BoxWritten
  <2>3. CASE UNCHANGED box
    BY <2>3 DEF BoxWritten
  <2> QED
    BY <2>1, <2>2, <2>3
       DEF LaneNext, ClaimInline, LaneDbError, ReadDrained, DrainWaits, DrainOver,
           MarkStopped, ReapRuns, ScheduleCleanup, CheckCleanup, StartSweep,
           ReadDesired, ReadRows, ReconcileLater, ReconcileInserts, ReconcileInsertThrows,
           ReconcileEnqueues, EndSweep, CompleteInline, RetryInline, LaneStep, LaneEnds, boxVars
<1> QED
  BY <1>2, <1>3, <1>4

LEMMA ServeWrites ==
  ASSUME CalmStep, NEW w \in Actor, Serve(w) \/ Begin(w)
  PROVE  \A x \in Dep : RowWritten(x) /\ BoxWritten(x) /\ CallWritten(x)
<1>1. /\ row \in [Dep -> Row] /\ exec \in [Dep -> Exec] /\ ~DbError
      /\ box \in [Dep -> {"absent", "up", "down"}]
  BY NoDbError DEF CalmStep, Calm, TypeInv, RowsTyped, BoxesTyped
<1> DEFINE d == Of(w)
           s == Newest(req[w].stopped)
           o == req[w].stale
<1>2. \A x \in Dep : RowWritten(x)
  <2>1. CASE ClaimUrl(w) \/ RefreshUrl(w) \/ Retire(w)
    <3>1. \/ UNCHANGED row
          \/ \E u \in BOOLEAN : row' = [row EXCEPT ![d].url = u]
          \/ row' = [row EXCEPT ![o].weighted = FALSE]
      BY <2>1 DEF ClaimUrl, RefreshUrl, Retire
    <3> HIDE DEF d, o
    <3> QED
      BY <1>1, <3>1 DEF RowWritten, Row
  <2>2. CASE GiveUp(w)
    <3>1. /\ req[w].pc = "giveup"
          /\ \/ UNCHANGED row
             \/ /\ row[d].status = "live"
                /\ row' = [row EXCEPT ![d].status = "stopped", ![d].url = FALSE]
      BY <2>2 DEF GiveUp, ReqAt
    <3>2. d = Of(w)
      OBVIOUS
    <3> HIDE DEF d
    <3>3. \A x \in Dep : row'[x].status = row[x].status
             \/ (x = d /\ row[x].status = "live" /\ row'[x].status = "stopped")
      BY <1>1, <3>1 DEF Row
    <3> QED
      BY <3>1, <3>2, <3>3 DEF RowWritten
  <2>3. CASE WakePromote(w)
    <3>1. \/ UNCHANGED row
          \/ row[s].status = "stopped" /\ row' = [row EXCEPT ![s].status = "live", ![s].url = TRUE]
      BY <2>3 DEF WakePromote
    <3> HIDE DEF s
    <3>2. \A x \in Dep : row'[x].status = row[x].status
             \/ (row[x].status = "stopped" /\ row'[x].status = "live")
      BY <1>1, <3>1 DEF Row
    <3> QED
      BY <2>3, <3>2 DEF RowWritten
  <2>4. CASE ReplaceInsert(w)
    BY <1>1, <2>4 DEF ReplaceInsert, InsertRow, IsNext, RowWritten, Served
  <2>5. CASE UNCHANGED row
    BY <2>5 DEF RowWritten
  <2>6. ~ReplaceInsertError(w)
    BY <1>1 DEF ReplaceInsertError
  <2> QED
    BY <2>1, <2>2, <2>3, <2>4, <2>5, <2>6 DEF Serve, Begin, Probe, Restart, Decide, WakeStart,
       ReplaceReadEnv, ReplaceLoses, Replaced, CheckRetired, DestroyRetired, ReqDbError, End,
       rowVars
<1>3. \A x \in Dep : BoxWritten(x)
  <2>1. ASSUME NEW y, StartBox(y) \/ StartBoxFails(y) PROVE \A x \in Dep : BoxWritten(x)
    BY <1>1, <2>1 DEF StartBox, StartBoxFails, BoxWritten
  <2>2. CASE Restart(w) \/ WakeStart(w)
    BY <2>1, <2>2 DEF Restart, WakeStart
  <2>3. CASE DestroyRetired(w)
    BY <1>1, <2>3 DEF DestroyRetired, ReqAt, Destroy, boxVars, BoxWritten
  <2>4. CASE UNCHANGED box
    BY <2>4 DEF BoxWritten
  <2> QED
    BY <2>2, <2>3, <2>4 DEF Serve, Begin, Probe, ClaimUrl, RefreshUrl, GiveUp, Decide,
       WakePromote, ReplaceReadEnv, ReplaceInsert, ReplaceLoses, Replaced, Retire, CheckRetired,
       ReplaceInsertError, ReqDbError, End, boxVars
<1>4. \A x \in Dep : CallWritten(x)
  <2>1. CASE ReplaceInsert(w)
    <3>1. PICK x \in Dep : /\ InsertRow(x, "building", req[w].rev)
                           /\ exec' = [exec EXCEPT ![x] = [IdleExec EXCEPT !.pc = "resolve",
                                                             !.rev = req[w].rev, !.by = w]]
      BY <2>1 DEF ReplaceInsert
    <3>2. exec[x] = IdleExec
      BY <3>1, FreshRow DEF InFlight
    <3>3. exec'[x].pc = "resolve" /\ exec[x].pc = "idle" /\ \A y \in Dep \ {x} : exec'[y] = exec[y]
      BY <1>1, <3>1, <3>2 DEF IdleExec
    <3> QED
      BY <3>3 DEF CallWritten, Ready, Won
  <2>2. CASE Replaced(w)
    <3>1. PICK x \in Dep : /\ exec[x].pc \in {"ok", "failed", "threw"}
                           /\ exec' = [exec EXCEPT ![x] = IdleExec]
      BY <2>2 DEF Replaced, ReqAt, CalmStep, Calm, ReqFits, Settled
    <3>2. exec'[x].pc = "idle" /\ \A y \in Dep \ {x} : exec'[y] = exec[y]
      BY <1>1, <3>1 DEF IdleExec
    <3> QED
      BY <3>1, <3>2 DEF CallWritten, Ready, Won
  <2>3. CASE UNCHANGED exec
    BY <2>3, CallsStay
  <2> QED
    BY <2>1, <2>2, <2>3 DEF Serve, Begin, Probe, ClaimUrl, Restart, RefreshUrl, GiveUp, Decide,
       WakeStart, WakePromote, ReplaceReadEnv, ReplaceLoses, Retire, CheckRetired,
       DestroyRetired, ReplaceInsertError, ReqDbError, End
<1> QED
  BY <1>2, <1>3, <1>4

LEMMA EnvironmentWrites ==
  ASSUME CalmStep,
         \/ Bump \/ Invalidate \/ Deadline \/ BoxDies \/ DeleteFailed
         \/ \E r \in Run : RunStart(r) \/ RunFinish(r)
         \/ \E d \in Dep : QueueDeploy(d) \/ EnqueueDeploy(d)
         \/ UNCHANGED vars
  PROVE  \A x \in Dep : RowWritten(x) /\ BoxWritten(x) /\ CallWritten(x)
<1>1. UNCHANGED exec /\ row \in [Dep -> Row]
  BY DEF Bump, Invalidate, Deadline, BoxDies, DeleteFailed, RunStart, RunFinish, vars,
         QueueDeploy, EnqueueDeploy, actorVars, CalmStep, TypeInv, RowsTyped
<1>2. \A x \in Dep : RowWritten(x)
  <2>1. CASE DeleteFailed
    BY <1>1, <2>1 DEF DeleteFailed, NoRow, RowWritten, Served
  <2>2. CASE \E d \in Dep : QueueDeploy(d)
    BY <1>1, <2>2 DEF QueueDeploy, InsertRow, IsNext, RowWritten, Served
  <2>3. CASE UNCHANGED row
    BY <2>3 DEF RowWritten
  <2> QED
    BY <2>1, <2>2, <2>3 DEF Bump, Invalidate, Deadline, BoxDies, RunStart, RunFinish,
                            EnqueueDeploy, vars, rowVars
<1>3. \A x \in Dep : BoxWritten(x)
  <2>1. CASE BoxDies
    BY <2>1 DEF BoxDies, BoxWritten, CalmStep, TypeInv, BoxesTyped
  <2>2. CASE UNCHANGED box
    BY <2>2 DEF BoxWritten
  <2> QED
    BY <2>1, <2>2 DEF Bump, Invalidate, Deadline, DeleteFailed, RunStart, RunFinish,
           QueueDeploy, EnqueueDeploy, vars, boxVars
<1> QED
  BY <1>1, <1>2, <1>3, CallsStay

---------------------------------------------------------------------------
(***************************************************************************)
(* What is at work that may take a deployment's container down: a drain or *)
(* a cleanup job, a request that replaced it while it was stopped, a       *)
(* cutover that superseded it.  All of them name promoted deployments.     *)
(***************************************************************************)

Retiring == {"drain", "cleanup"}
JobRetires(x) ==
  \E j \in queued \cup running \cup {lane.job} : j.kind \in Retiring /\ j.dep = x
RequestRetires(x) == \E w \in Actor : req[w].wasStopped /\ req[w].stale = x
CutoverRetires(x) == \E d \in Dep : exec[d].pc \in Won /\ x \in exec[d].sup
Retires(x) == JobRetires(x) \/ RequestRetires(x) \/ CutoverRetires(x)

LaneFits ==
  /\ lane.pc \in {"cleanup", "destroy"} => lane.job.kind = "cleanup"
  /\ lane.pc \in {"count", "stop", "mark"} => row[Subject].status = "draining"

\* The rows a request works on were live when it listed them.
Acting == {"claim", "start", "settle", "giveup"}
ListFits(w) ==
  /\ \A d \in req[w].todo : row[d].status \in Served
  /\ req[w].pc \in Acting => req[w].todo # {}
  /\ req[w].pc \in {"retire", "check", "destroy"} => req[w].wasStopped

Handled == /\ \A x : Retires(x) => x \in Dep /\ row[x].status \in Served
           /\ LaneFits
           /\ \A w \in Actor : ListFits(w)

\* A job that comes from another with the same kind and deployment.
LEMMA JobsOld ==
  ASSUME \A j \in queued' \cup running' \cup {lane'.job} :
           j.kind \in Retiring =>
             \E i \in queued \cup running \cup {lane.job} : i.kind = j.kind /\ i.dep = j.dep
  PROVE  \A x : JobRetires(x)' => JobRetires(x)
BY DEF JobRetires

LEMMA ExecuteJobs ==
  ASSUME CalmStep, NEW d \in Dep, Execute(d)
  PROVE  \A x : JobRetires(x)' => Retires(x)
<1>1. lane' = lane /\ ~DbError /\ exec[d] \in Exec /\ SupFits(d) /\ queued \in SUBSET Job /\ TypeInv
  BY NoDbError DEF CalmStep, Calm, TypeInv, JobsTyped, Execute, BeginDeploy, ReadEnv, TakeRow,
     TakeRowThrows, TakeRowError, ResolveEnv, LaunchLive,
     LaunchFails, ReadSiblings, Demote, DemoteError, Promote, PromoteError, Audit, AuditError,
     ScheduleDrain, Finish, AbortInfra, FailRow, FailRowError, CompleteDeploy,
     CompleteDeployError, DeployFailed, RetryDeploy, RetryDeployError, ExecStep, JobStep
<1>2. CASE ScheduleDrain(d)
  <2>1. PICK x \in exec[d].todo : queued' = queued \cup {NewJob("drain", x)} /\ running' = running
    BY <1>1, <1>2 DEF ScheduleDrain
  <2>2. exec[d].pc = "schedule"
    BY <1>2 DEF ScheduleDrain, At
  <2>3. x \in exec[d].sup
    BY <1>1, <2>2 DEF SupFits
  <2>4. CutoverRetires(x)
    BY <2>2, <2>3 DEF CutoverRetires, Won
  <2>5. NewJob("drain", x).dep = x
    BY DEF NewJob
  <2>6. ASSUME NEW y, JobRetires(y)', y # x PROVE JobRetires(y)
    BY <1>1, <2>1, <2>5, <2>6 DEF JobRetires
  <2> QED
    BY <2>4, <2>6 DEF Retires
<1>3. CASE ~ScheduleDrain(d)
  <2>1. \A j \in (queued' \ queued) \cup (running' \ running) : j.kind \notin Retiring
    <3>1. CASE BeginDeploy(d)
      <4>1. PICK j \in queued : /\ j.kind = "deploy" /\ queued' = queued \ {j}
                                /\ running' = running \cup {Claimed(j)}
        BY <3>1 DEF BeginDeploy
      <4>2. Claimed(j).kind = "deploy"
        BY <1>1, <4>1, JobsSucceed
      <4> QED
        BY <4>1, <4>2 DEF Retiring
    <3>2. CASE RetryDeploy(d)
      <4>1. /\ exec[d].pc = "threw" /\ exec[d].by = "job" /\ running' \subseteq running
            /\ queued' = queued \cup Refailed(DeployJob(d))
        BY <3>2 DEF RetryDeploy, At
      <4>2. DeployJob(d).kind = "deploy"
        BY <1>1, <4>1, HasDeployJob DEF DeployOf
      <4> QED
        BY <4>1, <4>2 DEF Retiring, Refailed
    <3>3. CASE DeployFailed(d)
      <4>1. /\ running' = running
            /\ queued' \in {queued, queued \cup {ReconcileJob}}
        BY <3>3 DEF DeployFailed
      <4>2. ReconcileJob.kind = "reconcile"
        BY DEF ReconcileJob, NewJob
      <4> QED
        BY <4>1, <4>2 DEF Retiring
    <3>4. CASE CompleteDeploy(d)
      BY <3>4 DEF CompleteDeploy
    <3>5. CASE \/ CompleteDeployError(d) \/ RetryDeployError(d)
      BY <3>5 DEF CompleteDeployError, RetryDeployError
    <3>6. CASE ExecStep
      BY <3>6 DEF ExecStep, jobVars
    <3> QED
      BY <1>3, <3>1, <3>2, <3>3, <3>4, <3>5, <3>6 DEF Execute, ReadEnv, TakeRow, TakeRowThrows,
         TakeRowError,
         ResolveEnv, LaunchLive, LaunchFails, ReadSiblings, Demote, DemoteError, Promote,
         PromoteError, Audit, AuditError, Finish, AbortInfra, FailRow, FailRowError
  <2> QED
    BY <1>1, <2>1, JobsOld DEF Retires
<1> QED
  BY <1>2, <1>3

LEMMA LaneJobs ==
  ASSUME CalmStep, LaneNext
  PROVE  \A x : JobRetires(x)' => JobRetires(x)
<1>1. /\ lane \in Lane /\ ~DbError /\ DrainFits /\ queued \in SUBSET Job /\ phase = "booted"
      /\ ReconcileJob.kind = "reconcile" /\ IdleLane.job = ReconcileJob
  BY NoDbError DEF CalmStep, Calm, TypeInv, JobsTyped, IdleLane, ReconcileJob, NewJob
<1>2. ASSUME NEW pc, LaneTo(pc) PROVE lane'.job = lane.job
  BY <1>1, <1>2 DEF LaneTo, Lane
<1>3. CASE ClaimInline
  <2>1. PICK j \in queued :
          /\ queued' = queued \ {j} /\ running' = running \cup {Claimed(j)}
          /\ lane' = [IdleLane EXCEPT !.pc = FirstStep[j.kind], !.job = Claimed(j)]
    BY <1>3 DEF ClaimInline
  <2>2. Claimed(j).kind = j.kind /\ Claimed(j).dep = j.dep /\ lane'.job = Claimed(j)
    BY <1>1, <2>1, JobsSucceed DEF IdleLane
  <2> QED
    BY <2>1, <2>2, JobsOld
<1>4. CASE DrainWaits \/ ScheduleCleanup
  <2>1. \E k \in Retiring : queued' = queued \cup {NewJob(k, Subject)}
    BY <1>1, <1>4 DEF DrainWaits, ScheduleCleanup, Retiring
  <2>2. running' = running /\ lane'.job = lane.job /\ lane.pc \in {"count", "grace"}
    BY <1>2, <1>4 DEF DrainWaits, ScheduleCleanup, LaneAt
  <2>3. lane.job.kind = "drain"
    BY <1>1, <2>2 DEF DrainFits, DrainPC
  <2>4. \A k : NewJob(k, Subject).dep = lane.job.dep
    BY DEF NewJob, Subject
  <2> QED
    BY <2>1, <2>2, <2>3, <2>4 DEF JobRetires, Retiring
<1>5. CASE ReconcileLater \/ ReconcileEnqueues
  <2>1. queued' \in {queued \cup {ReconcileJob}, queued \cup {NewJob("deploy", lane.dep)}}
    BY <1>5 DEF ReconcileLater, ReconcileEnqueues
  <2>2. running' = running /\ lane'.job = lane.job
    BY <1>2, <1>5 DEF ReconcileLater, ReconcileEnqueues
  <2>3. NewJob("deploy", lane.dep).kind = "deploy"
    BY DEF NewJob
  <2> QED
    BY <1>1, <2>1, <2>2, <2>3, JobsOld DEF Retiring
<1>6. CASE CompleteInline \/ RetryInline
  <2>1. /\ queued' \subseteq queued \cup {lane.job} /\ running' \subseteq running
        /\ lane' = IdleLane
    BY <1>1, <1>6 DEF CompleteInline, RetryInline, Refailed
  <2> QED
    BY <1>1, <2>1, JobsOld DEF Retiring
<1>7. CASE \/ ReadDrained \/ DrainOver \/ DrainStops \/ MarkStopped \/ ReapRuns \/ CheckCleanup
           \/ DestroyBox \/ ReadRows \/ ReconcileInsertThrows
  <2>1. UNCHANGED <<queued, running>> /\ lane'.job = lane.job
    BY <1>2, <1>7 DEF ReadDrained, DrainOver, DrainStops, MarkStopped, ReapRuns, CheckCleanup,
       DestroyBox, ReadRows, ReconcileInsertThrows, LaneStep, jobVars
  <2> QED
    BY <2>1, JobsOld
<1>8. CASE ReadDesired \/ ReconcileInserts
  <2>1. UNCHANGED <<queued, running>> /\ lane'.job = lane.job
    BY <1>1, <1>8 DEF ReadDesired, ReconcileInserts, LaneStep, jobVars, Lane
  <2> QED
    BY <2>1, JobsOld
<1>9. CASE StartSweep \/ EndSweep \/ LaneDbError
  BY <1>1, <1>9 DEF StartSweep, EndSweep, Boots, LaneDbError
<1> QED
  BY <1>3, <1>4, <1>5, <1>6, <1>7, <1>8, <1>9 DEF LaneNext

LEMMA EnvironmentJobs ==
  ASSUME CalmStep,
         \/ Bump \/ Invalidate \/ Deadline \/ BoxDies \/ DeleteFailed
         \/ \E r \in Run : RunStart(r) \/ RunFinish(r)
         \/ \E d \in Dep : QueueDeploy(d) \/ EnqueueDeploy(d)
         \/ UNCHANGED vars
  PROVE  \A x : JobRetires(x)' => JobRetires(x)
<1>1. UNCHANGED <<lane, running>> /\ queued \in SUBSET Job /\ ~DbError
  BY NoDbError DEF Bump, Invalidate, Deadline, BoxDies, DeleteFailed, RunStart, RunFinish, vars,
         QueueDeploy, EnqueueDeploy, actorVars, jobVars, CalmStep, TypeInv, JobsTyped
<1>2. CASE Deadline
  <2>1. PICK j \in queued : queued' = (queued \ {j}) \cup {[j EXCEPT !.late = TRUE]}
    BY <1>2 DEF Deadline
  <2>2. [j EXCEPT !.late = TRUE].kind = j.kind /\ [j EXCEPT !.late = TRUE].dep = j.dep
    BY <1>1, <2>1, JobsSucceed
  <2> QED
    BY <1>1, <2>1, <2>2, JobsOld
<1>3. CASE ~Deadline
  <2>1. \/ queued' = queued \/ queued' = queued \cup {ReconcileJob}
        \/ \E d \in Dep : queued' = queued \cup {NewJob("deploy", d)}
    BY <1>1, <1>3 DEF Bump, Invalidate, BoxDies, DeleteFailed, RunStart, RunFinish, vars,
       QueueDeploy, EnqueueDeploy, jobVars
  <2>2. ReconcileJob.kind = "reconcile" /\ \A d : NewJob("deploy", d).kind = "deploy"
    BY DEF ReconcileJob, NewJob
  <2> QED
    BY <1>1, <2>1, <2>2, JobsOld DEF Retiring
<1> QED
  BY <1>2, <1>3

---------------------------------------------------------------------------
(* The listing of a request.                                               *)

\* What a step of w makes of its listing.
ListGoes(w) ==
  /\ \A v \in Actor \ {w} : req'[v] = req[v]
  /\ req'[w].todo \subseteq req[w].todo \cup Live
  /\ req'[w].pc \in Acting => req'[w].todo = req[w].todo /\ req[w].todo # {}
  /\ req'[w].pc = "giveup" => req[w].pc = "start" /\ StartBoxFails(Of(w))
  /\ req'[w].pc \in {"retire", "check", "destroy"} => req'[w].wasStopped
  /\ req'[w].wasStopped =>
       \/ req[w].wasStopped /\ req'[w].stale = req[w].stale
       \/ /\ req'[w].stale \in Dep /\ row[req'[w].stale].status = "stopped"
          /\ UNCHANGED <<row, box>>

LEMMA ServeLists ==
  ASSUME TypeInv, NEW w \in Actor, ListFits(w), Serve(w) \/ Begin(w)
  PROVE  ListGoes(w)
<1>1. req \in [Actor -> Req] /\ req[w] \in Req
  BY DEF TypeInv
<1> DEFINE s == Newest(req[w].stopped)
<1>2. ASSUME NEW q, req' = [req EXCEPT ![w] = q]
      PROVE  req'[w] = q /\ \A v \in Actor \ {w} : req'[v] = req[v]
  BY <1>1, <1>2
<1>3. ASSUME NEW pc, ReqTo(w, pc)
      PROVE  /\ \A v \in Actor \ {w} : req'[v] = req[v]
             /\ req'[w].pc = pc /\ req'[w].todo = req[w].todo
             /\ req'[w].wasStopped = req[w].wasStopped /\ req'[w].stale = req[w].stale
  BY <1>1, <1>3 DEF ReqTo, Req
<1>4. ASSUME NEW found, Recovered(w, found) PROVE ListGoes(w)
  <2>1. /\ \A v \in Actor \ {w} : req'[v] = req[v]
        /\ req'[w].pc = "recover" /\ req'[w].todo \subseteq req[w].todo
        /\ req'[w].wasStopped = req[w].wasStopped /\ req'[w].stale = req[w].stale
    BY <1>1, <1>4 DEF Recovered, Req
  <2> QED
    BY <2>1 DEF ListGoes, Acting
<1>5. ASSUME req' = [req EXCEPT ![w].stopped = @ \ {s},
                       ![w].pc = IF req[w].stopped = {s} THEN "end" ELSE "wake"]
      PROVE  ListGoes(w)
  <2> HIDE DEF s
  <2>1. /\ \A v \in Actor \ {w} : req'[v] = req[v]
        /\ req'[w].pc \in {"end", "wake"} /\ req'[w].todo = req[w].todo
        /\ req'[w].wasStopped = req[w].wasStopped /\ req'[w].stale = req[w].stale
    BY <1>1, <1>5 DEF Req
  <2> QED
    BY <2>1 DEF ListGoes, Acting
<1>6. CASE Decide(w)
  <2>1. ASSUME NEW b, NEW c
        PROVE  /\ Fresh("end").pc = "end" /\ Fresh("end").todo = {} /\ ~Fresh("end").wasStopped
               /\ [Fresh("readenv") EXCEPT !.stale = b, !.wasStopped = c].pc = "readenv"
               /\ [Fresh("readenv") EXCEPT !.stale = b, !.wasStopped = c].todo = {}
               /\ [Fresh("readenv") EXCEPT !.stale = b, !.wasStopped = c].stale = b
               /\ [Fresh("readenv") EXCEPT !.stale = b, !.wasStopped = c].wasStopped = c
               /\ [Fresh("wake") EXCEPT !.stopped = b].pc = "wake"
               /\ [Fresh("wake") EXCEPT !.stopped = b].todo = {}
               /\ ~[Fresh("wake") EXCEPT !.stopped = b].wasStopped
    BY DEF Fresh, IdleReq
  <2>2. CASE req' = [req EXCEPT ![w] = Fresh("end")]
    <3>1. req'[w] = Fresh("end") /\ \A v \in Actor \ {w} : req'[v] = req[v]
      BY <1>2, <2>2
    <3> QED
      BY <2>1, <3>1 DEF ListGoes, Acting
  <2>3. CASE req' = [req EXCEPT ![w] = [Fresh("readenv") EXCEPT
                        !.stale = req[w].stale, !.wasStopped = req[w].wasStopped]]
    <3>1. /\ req'[w] = [Fresh("readenv") EXCEPT
                        !.stale = req[w].stale, !.wasStopped = req[w].wasStopped]
          /\ \A v \in Actor \ {w} : req'[v] = req[v]
      BY <1>2, <2>3
    <3>2. /\ req'[w].pc = "readenv" /\ req'[w].todo = {} /\ req'[w].stale = req[w].stale
          /\ req'[w].wasStopped = req[w].wasStopped
      BY <2>1, <3>1
    <3> QED
      BY <3>1, <3>2 DEF ListGoes, Acting
  <2>4. CASE req' = [req EXCEPT ![w] = [Fresh("wake") EXCEPT !.stopped = req[w].stopped]]
    <3>1. /\ req'[w] = [Fresh("wake") EXCEPT !.stopped = req[w].stopped]
          /\ \A v \in Actor \ {w} : req'[v] = req[v]
      BY <1>2, <2>4
    <3> QED
      BY <2>1, <3>1 DEF ListGoes, Acting
  <2> QED
    BY <1>6, <2>2, <2>3, <2>4 DEF Decide
<1>7. CASE Begin(w)
  <2> DEFINE q(mode) == [Fresh("recover") EXCEPT
             !.mode = mode,
             !.todo = IF mode = "ensure" \/ w = Boot THEN CurrentRows("live") ELSE Live,
             !.urls = {x \in Live : row[x].url},
             !.stopped = CurrentRows("stopped"),
             !.blocked = InFlightRows # {},
             !.stale = IF StaleRows = {} THEN NoDep ELSE Newest(StaleRows),
             !.wasStopped = StaleRows # {} /\ row[Newest(StaleRows)].status = "stopped"]
  <2>1. PICK mode : req' = [req EXCEPT ![w] = q(mode)]
    BY <1>7 DEF Begin
  <2>2. /\ q(mode).pc = "recover"
        /\ q(mode).todo = IF mode = "ensure" \/ w = Boot THEN CurrentRows("live") ELSE Live
        /\ q(mode).stale = IF StaleRows = {} THEN NoDep ELSE Newest(StaleRows)
        /\ q(mode).wasStopped = (StaleRows # {} /\ row[Newest(StaleRows)].status = "stopped")
    BY DEF Fresh, IdleReq
  <2> HIDE DEF q
  <2>3. req'[w] = q(mode) /\ \A v \in Actor \ {w} : req'[v] = req[v]
    BY <1>2, <2>1
  <2>4. StaleRows # {} => Newest(StaleRows) \in Dep
    BY NewestIn DEF StaleRows
  <2>5. req'[w].todo \subseteq Live
    BY <2>2, <2>3 DEF CurrentRows, Live
  <2>6. req'[w].wasStopped => /\ req'[w].stale \in Dep /\ row[req'[w].stale].status = "stopped"
    BY <2>2, <2>3, <2>4
  <2>7. req'[w].pc = "recover"
    BY <2>2, <2>3
  <2>8. UNCHANGED <<row, box>>
    BY <1>7 DEF Begin, boxVars
  <2> QED
    BY <2>3, <2>5, <2>6, <2>7, <2>8 DEF ListGoes, Acting
<1>8. CASE End(w)
  <2>1. IdleReq.pc = "idle" /\ IdleReq.todo = {} /\ ~IdleReq.wasStopped
    BY DEF IdleReq
  <2>2. req' = [req EXCEPT ![w] = IdleReq]
    BY <1>8 DEF End, ReqEnds
  <2>3. req'[w] = IdleReq /\ \A v \in Actor \ {w} : req'[v] = req[v]
    BY <1>1, <2>2
  <2> QED
    BY <2>1, <2>3 DEF ListGoes, Acting
<1>9. CASE ReplaceReadEnv(w) \/ ReplaceInsert(w)
  <2>1. /\ \A v \in Actor \ {w} : req'[v] = req[v]
        /\ req'[w].pc \in {"insert", "deploying"} /\ req'[w].todo = req[w].todo
        /\ req'[w].wasStopped = req[w].wasStopped /\ req'[w].stale = req[w].stale
    <3>1. CASE ReplaceReadEnv(w)
      BY <1>1, <3>1 DEF ReplaceReadEnv, Req
    <3>2. CASE ReplaceInsert(w)
      BY <1>1, <3>2 DEF ReplaceInsert, Req
    <3> QED
      BY <1>9, <3>1, <3>2
  <2> QED
    BY <2>1 DEF ListGoes, Acting
<1>10. CASE Restart(w)
  <2>1. CASE ReqTo(w, "settle")
    BY <1>3, <1>10, <2>1 DEF ListGoes, ListFits, Acting, Restart, ReqAt
  <2>2. CASE StartBoxFails(Of(w)) /\ ReqTo(w, "giveup")
    BY <1>3, <1>10, <2>2 DEF ListGoes, ListFits, Acting, Restart, ReqAt
  <2> QED
    BY <1>10, <2>1, <2>2 DEF Restart
<1>11. CASE \/ Probe(w) \/ ClaimUrl(w) \/ RefreshUrl(w) \/ GiveUp(w) \/ WakeStart(w)
            \/ WakePromote(w) \/ ReplaceLoses(w) \/ Replaced(w) \/ Retire(w) \/ CheckRetired(w)
            \/ DestroyRetired(w) \/ ReplaceInsertError(w) \/ ReqDbError(w)
  <2>1. \/ \E found : Recovered(w, found)
        \/ ReqTo(w, "claim") /\ req[w].todo # {}
        \/ ReqTo(w, "start") /\ req[w].todo # {}
        \/ ReqTo(w, "end") \/ ReqTo(w, "promote")
        \/ \E pc \in {"retire", "check", "destroy"} : ReqTo(w, pc) /\ req[w].wasStopped
        \/ req' = [req EXCEPT ![w].stopped = @ \ {s},
                       ![w].pc = IF req[w].stopped = {s} THEN "end" ELSE "wake"]
    BY <1>11 DEF Probe, ClaimUrl, RefreshUrl, GiveUp, WakeStart, WakePromote, ReplaceLoses, Replaced, Retire,
                 CheckRetired, DestroyRetired, ReplaceInsertError, ReqDbError, ListFits, Acting,
                 ReqAt
  <2>2. ASSUME NEW pc \in {"claim", "start"}, ReqTo(w, pc), req[w].todo # {} PROVE ListGoes(w)
    BY <1>3, <2>2 DEF ListGoes, Acting
  <2>3. ASSUME NEW pc \in {"end", "promote"}, ReqTo(w, pc) PROVE ListGoes(w)
    BY <1>3, <2>3 DEF ListGoes, Acting
  <2>4. ASSUME NEW pc \in {"retire", "check", "destroy"}, ReqTo(w, pc), req[w].wasStopped
        PROVE  ListGoes(w)
    BY <1>3, <2>4 DEF ListGoes, Acting
  <2> QED
    BY <1>4, <1>5, <2>1, <2>2, <2>3, <2>4
<1> QED
  BY <1>6, <1>7, <1>8, <1>9, <1>10, <1>11 DEF Serve

---------------------------------------------------------------------------
(* Any step, while no call is rejected and nothing restarts.               *)

LEMMA StepKinds ==
  ASSUME CalmStep, [Next]_vars
  PROVE  \/ \E d \in Dep : Execute(d)
         \/ LaneNext
         \/ \E w \in Actor : Serve(w) \/ Begin(w)
         \/ \/ Bump \/ Invalidate \/ Deadline \/ BoxDies \/ DeleteFailed
            \/ \E r \in Run : RunStart(r) \/ RunFinish(r)
            \/ \E d \in Dep : QueueDeploy(d) \/ EnqueueDeploy(d)
            \/ UNCHANGED vars
<1>1. ~Crash /\ ~Requeue /\ \A d \in Dep : ~EnqueueDeployError(d)
  BY NoDbError DEF CalmStep, Undisturbed, Crash, Requeue, EnqueueDeployError, Calm, TypeInv,
                   FaultsTyped
<1> QED
  BY <1>1 DEF Next, ControllerNext, WakeNext

LEMMA StepWrites ==
  ASSUME CalmStep, [Next]_vars
  PROVE  \A x \in Dep : RowWritten(x) /\ BoxWritten(x) /\ CallWritten(x)
BY StepKinds, ExecuteWrites, LaneWrites, ServeWrites, EnvironmentWrites

LEMMA ListsStay ==
  ASSUME \/ \E d \in Dep : Execute(d)
         \/ LaneNext
         \/ Bump \/ Invalidate \/ Deadline \/ BoxDies \/ DeleteFailed
         \/ \E r \in Run : RunStart(r) \/ RunFinish(r)
         \/ \E d \in Dep : QueueDeploy(d) \/ EnqueueDeploy(d)
         \/ UNCHANGED vars
  PROVE  req' = req
<1>1. ASSUME NEW d \in Dep, Execute(d) PROVE req' = req
  BY <1>1 DEF Execute, BeginDeploy, ReadEnv, TakeRow, TakeRowThrows, TakeRowError, ResolveEnv,
     LaunchLive,
     LaunchFails, ReadSiblings, Demote, DemoteError, Promote, PromoteError, Audit, AuditError,
     ScheduleDrain, Finish, AbortInfra, FailRow, FailRowError, CompleteDeploy,
     CompleteDeployError, DeployFailed, RetryDeploy, RetryDeployError, ExecStep, JobStep
<1>2. CASE LaneNext
  BY <1>2 DEF LaneNext, ClaimInline, LaneDbError, ReadDrained, DrainWaits, DrainOver,
     DrainStops, MarkStopped, ReapRuns, ScheduleCleanup, CheckCleanup, DestroyBox, StartSweep,
     ReadDesired, ReadRows, ReconcileLater, ReconcileInserts, ReconcileInsertThrows,
     ReconcileEnqueues, EndSweep, CompleteInline, RetryInline, LaneStep, LaneEnds
<1> QED
  BY <1>1, <1>2 DEF Bump, Invalidate, Deadline, BoxDies, DeleteFailed, RunStart, RunFinish,
     QueueDeploy, EnqueueDeploy, vars, actorVars

LEMMA LaneStays ==
  ASSUME \/ \E d \in Dep : Execute(d)
         \/ \E w \in Actor : Serve(w) \/ Begin(w)
         \/ Bump \/ Invalidate \/ Deadline \/ BoxDies \/ DeleteFailed
         \/ \E r \in Run : RunStart(r) \/ RunFinish(r)
         \/ \E d \in Dep : QueueDeploy(d) \/ EnqueueDeploy(d)
         \/ UNCHANGED vars
  PROVE  lane' = lane
<1>1. ASSUME NEW d \in Dep, Execute(d) PROVE lane' = lane
  BY <1>1 DEF Execute, BeginDeploy, ReadEnv, TakeRow, TakeRowThrows, TakeRowError, ResolveEnv,
     LaunchLive,
     LaunchFails, ReadSiblings, Demote, DemoteError, Promote, PromoteError, Audit, AuditError,
     ScheduleDrain, Finish, AbortInfra, FailRow, FailRowError, CompleteDeploy,
     CompleteDeployError, DeployFailed, RetryDeploy, RetryDeployError, ExecStep, JobStep
<1>2. ASSUME NEW w \in Actor, Serve(w) \/ Begin(w) PROVE lane' = lane
  BY <1>2 DEF Serve, Begin, Probe, ClaimUrl, Restart, RefreshUrl, GiveUp, Decide, WakeStart,
     WakePromote, ReplaceReadEnv, ReplaceInsert, ReplaceLoses, Replaced, Retire, CheckRetired,
     DestroyRetired, ReplaceInsertError, ReqDbError, End, ReqStep
<1> QED
  BY <1>1, <1>2 DEF Bump, Invalidate, Deadline, BoxDies, DeleteFailed, RunStart, RunFinish,
     QueueDeploy, EnqueueDeploy, vars, actorVars

\* A promoted deployment stays one, and is promoted by its own call only.
LEMMA ServedStep ==
  ASSUME CalmStep, [Next]_vars, NEW x \in Dep
  PROVE  /\ row[x].status \in Served => row'[x].status \in Served
         /\ row'[x].status \in Served => row[x].status \in Served \/ Promote(x)
<1>1. RowWritten(x)
  BY StepWrites
<1> QED
  BY <1>1 DEF RowWritten, Served

\* What may take a container down may have done so already, was superseded by
\* the promotion of this step, or has been listed as stopped.
LEMMA RetiresStep ==
  ASSUME CalmStep, Handled, [Next]_vars, NEW x, Retires(x)'
  PROVE  \/ Retires(x)
         \/ \E d \in Dep : Promote(d) /\ x \in exec[d].sup
         \/ x \in Dep /\ row[x].status = "stopped" /\ UNCHANGED <<row, box>>
<1>1. CASE JobRetires(x)'
  <2>1. ASSUME NEW w \in Actor, Serve(w) \/ Begin(w) PROVE UNCHANGED <<queued, running, lane>>
    BY <2>1 DEF Serve, Begin, Probe, ClaimUrl, Restart, RefreshUrl, GiveUp, Decide, WakeStart,
       WakePromote, ReplaceReadEnv, ReplaceInsert, ReplaceLoses, Replaced, Retire, CheckRetired,
       DestroyRetired, ReplaceInsertError, ReqDbError, End, ReqStep, jobVars
  <2>2. UNCHANGED <<queued, running, lane>> => JobRetires(x)
    BY <1>1 DEF JobRetires
  <2> QED
    BY <1>1, <2>1, <2>2, StepKinds, ExecuteJobs, LaneJobs, EnvironmentJobs DEF Retires
<1>2. CASE RequestRetires(x)'
  <2>1. PICK v \in Actor : req'[v].wasStopped /\ req'[v].stale = x
    BY <1>2 DEF RequestRetires
  <2>2. CASE req'[v] = req[v]
    BY <2>1, <2>2 DEF RequestRetires, Retires
  <2>3. CASE req'[v] # req[v]
    <3>1. PICK w \in Actor : Serve(w) \/ Begin(w)
      BY <2>3, StepKinds, ListsStay
    <3>2. ListGoes(w)
      BY <3>1, ServeLists DEF Handled, CalmStep
    <3>3. v = w
      BY <2>3, <3>2 DEF ListGoes
    <3> QED
      BY <2>1, <3>2, <3>3 DEF ListGoes, RequestRetires, Retires
  <2> QED
    BY <2>2, <2>3
<1>3. CASE CutoverRetires(x)'
  <2>1. PICK d \in Dep : exec'[d].pc \in Won /\ x \in exec'[d].sup
    BY <1>3 DEF CutoverRetires
  <2>2. CallWritten(d)
    BY StepWrites
  <2> QED
    BY <2>1, <2>2 DEF CallWritten, CutoverRetires, Retires
<1> QED
  BY <1>1, <1>2, <1>3 DEF Retires

LEMMA LaneFitsKept ==
  ASSUME CalmStep, Handled, [Next]_vars
  PROVE  LaneFits'
<1>1. /\ lane \in Lane /\ LaneFits /\ DrainFits /\ phase = "booted" /\ ~DbError
  BY NoDbError DEF CalmStep, Calm, Handled, TypeInv
<1>2. lane.pc \in {"count", "stop", "mark"} => Subject \in Dep /\ row[Subject].status = "draining"
  BY <1>1 DEF DrainFits, DrainPC, LaneFits, Subject
<1>3. CASE lane' = lane
  <2>1. CASE lane.pc \in {"count", "stop", "mark"}
    <3>1. RowWritten(Subject)
      BY <1>2, <2>1, StepWrites
    <3>2. row'[Subject].status = "draining"
      BY <1>2, <1>3, <2>1, <3>1 DEF RowWritten, Served
    <3> QED
      BY <1>1, <1>3, <2>1, <3>2 DEF LaneFits, Subject
  <2>2. CASE lane.pc \notin {"count", "stop", "mark"}
    BY <1>1, <1>3, <2>2 DEF LaneFits
  <2> QED
    BY <2>1, <2>2
<1>4. CASE LaneNext
  <2>1. ASSUME NEW pc, LaneTo(pc) PROVE lane'.pc = pc /\ lane'.job = lane.job
    BY <1>1, <2>1 DEF LaneTo, Lane
  <2>2. CASE ClaimInline
    <3>1. PICK j \in queued : /\ j \in Job /\ j.kind # "deploy"
                              /\ lane' = [IdleLane EXCEPT !.pc = FirstStep[j.kind], !.job = Claimed(j)]
      BY <2>2 DEF ClaimInline, CalmStep, TypeInv, JobsTyped
    <3>2. lane'.pc = FirstStep[j.kind] /\ lane'.job.kind = j.kind
      BY <3>1, JobsSucceed DEF IdleLane
    <3>3. j.kind \in {"drain", "cleanup", "reconcile"}
      BY <3>1 DEF Job, JobKind
    <3>4. /\ FirstStep["drain"] = "drain" /\ FirstStep["cleanup"] = "cleanup"
          /\ FirstStep["reconcile"] = "read"
      BY DEF FirstStep
    <3> QED
      BY <3>2, <3>3, <3>4 DEF LaneFits
  <2>3. CASE ReadDrained \/ DrainOver \/ DrainStops
    <3>1. row' = row /\ lane'.job = lane.job
      BY <2>1, <2>3 DEF ReadDrained, DrainOver, DrainStops, LaneStep, rowVars
    <3>2. /\ lane'.pc \in {"count", "done", "stop", "mark", "threw"}
          /\ lane'.pc \in {"count", "stop", "mark"} => row[Subject].status = "draining"
      BY <1>1, <2>1, <2>3 DEF ReadDrained, DrainOver, DrainStops, LaneAt, LaneFits
    <3> QED
      BY <3>1, <3>2 DEF LaneFits, Subject
  <2>4. CASE CheckCleanup
    BY <1>1, <2>1, <2>4 DEF CheckCleanup, LaneAt, LaneFits
  <2>5. CASE \/ MarkStopped \/ ReapRuns \/ ScheduleCleanup \/ DestroyBox \/ DrainWaits
             \/ ReadRows \/ ReconcileLater \/ ReconcileInsertThrows \/ ReconcileEnqueues
    <3>1. \E pc \in {"reap", "grace", "done", "threw", "retry", "insert"} : LaneTo(pc)
      BY <2>5 DEF MarkStopped, ReapRuns, ScheduleCleanup, DestroyBox, DrainWaits, ReadRows, ReconcileLater,
         ReconcileInsertThrows, ReconcileEnqueues
    <3>2. lane'.pc \in {"reap", "grace", "done", "threw", "retry", "insert"}
      BY <2>1, <3>1
    <3> QED
      BY <3>2 DEF LaneFits
  <2>6. CASE ReadDesired \/ ReconcileInserts \/ CompleteInline \/ RetryInline
    <3>1. lane'.pc \in {"rows", "queue", "idle"}
      <4>1. CASE ReadDesired \/ ReconcileInserts
        BY <1>1, <4>1 DEF ReadDesired, ReconcileInserts, Lane
      <4>2. CASE CompleteInline \/ RetryInline
        BY <1>1, <4>2 DEF CompleteInline, RetryInline, IdleLane
      <4> QED
        BY <2>6, <4>1, <4>2
    <3> QED
      BY <3>1 DEF LaneFits
  <2>7. CASE StartSweep \/ EndSweep \/ LaneDbError
    BY <1>1, <2>7 DEF StartSweep, EndSweep, Boots, LaneDbError
  <2> QED
    BY <1>4, <2>2, <2>3, <2>4, <2>5, <2>6, <2>7 DEF LaneNext
<1> QED
  BY <1>3, <1>4, StepKinds, LaneStays

LEMMA HandledKept ==
  ASSUME CalmStep, Handled, [Next]_vars
  PROVE  Handled'
<1>1. ASSUME NEW x, Retires(x)' PROVE x \in Dep /\ row'[x].status \in Served
  <2>1. x \in Dep /\ row[x].status \in Served
    <3>1. ASSUME NEW d \in Dep, Promote(d), x \in exec[d].sup
          PROVE  x \in Dep /\ row[x].status \in Served
      BY <3>1 DEF CalmStep, Calm, SupFits, TypeInv, Exec
    <3> QED
      BY <1>1, <3>1, RetiresStep DEF Handled, Served
  <2> QED
    BY <2>1, ServedStep
<1>2. ASSUME NEW v \in Actor PROVE ListFits(v)'
  <2>1. req[v] \in Req /\ ListFits(v)
    BY DEF CalmStep, TypeInv, Handled
  <2>2. \A d \in Dep : row[d].status \in Served => row'[d].status \in Served
    BY ServedStep
  <2>3. CASE req'[v] = req[v]
    BY <2>1, <2>2, <2>3 DEF ListFits, Req
  <2>4. CASE req'[v] # req[v]
    <3>1. PICK w \in Actor : Serve(w) \/ Begin(w)
      BY <2>4, StepKinds, ListsStay
    <3>2. ListGoes(w)
      BY <3>1, ServeLists DEF Handled, CalmStep
    <3>3. v = w
      BY <2>4, <3>2 DEF ListGoes
    <3>4. \A d \in req'[v].todo : d \in Dep /\ row[d].status \in Served
      BY <2>1, <3>2, <3>3 DEF ListGoes, ListFits, Req, Live, Served
    <3> QED
      BY <2>2, <3>2, <3>3, <3>4 DEF ListGoes, ListFits
  <2> QED
    BY <2>3, <2>4
<1> QED
  BY <1>1, <1>2, LaneFitsKept DEF Handled

HandledInv == CalmInv /\ (Undisturbed => Handled)

LEMMA HandledInvKept ==
  ASSUME HandledInv, RowsStored, [Next]_vars
  PROVE  HandledInv'
<1>1. CalmInv'
  BY StepCalm DEF HandledInv
<1>2. ASSUME Undisturbed' PROVE Handled'
  BY <1>2, StepUndisturbed, HandledKept DEF HandledInv
<1> QED
  BY <1>1, <1>2 DEF HandledInv

LEMMA InitHandled == Init => HandledInv
<1>1. SUFFICES ASSUME Init PROVE Handled
  BY InitCalm DEF HandledInv
<1>2. /\ queued = {} /\ running = {} /\ lane = IdleLane
      /\ \A d \in Dep : exec[d] = IdleExec /\ \A w \in Actor : req[w] = IdleReq
  BY <1>1 DEF Init
<1>3. /\ IdleExec.pc = "idle" /\ IdleReq.pc = "idle" /\ IdleReq.todo = {} /\ ~IdleReq.wasStopped
      /\ IdleLane.pc = "idle" /\ IdleLane.job.kind = "reconcile"
  BY DEF IdleExec, IdleReq, IdleLane, ReconcileJob, NewJob
<1>4. \A x : ~JobRetires(x)
  BY <1>2, <1>3 DEF JobRetires, Retiring
<1>5. \A x : ~RequestRetires(x)
  BY <1>1, <1>3 DEF RequestRetires, Init
<1>6. \A x : ~CutoverRetires(x)
  BY <1>2, <1>3 DEF CutoverRetires, Won
<1>7. LaneFits
  BY <1>2, <1>3 DEF LaneFits
<1>8. \A w \in Actor : ListFits(w)
  BY <1>1, <1>3 DEF ListFits, Acting, Init
<1> QED
  BY <1>4, <1>5, <1>6, <1>7, <1>8 DEF Handled, Retires

---------------------------------------------------------------------------
(***************************************************************************)
(* Service, while there is no fault at all: an environment that has        *)
(* promoted a deployment has a live one whose container is up and that     *)
(* nothing at work takes down, or a cutover that has begun to supersede it *)
(* and will promote its own.                                               *)
(***************************************************************************)

\* A call that is ready to cut over has its container up.
BoxFits == \A d \in Dep : exec[d].pc \in Ready => box[d] = "up"

\* A request gives up a deployment only because its container is gone.
GivenUp == \A w \in Actor : req[w].pc = "giveup" => box[Of(w)] = "absent"

Anchor(d) == row[d].status = "live" /\ box[d] = "up" /\ ~Retires(d)
CutsOver == \E d \in Dep : exec[d].pc = "demote" /\ exec[d].sup # {}
Anchored == (\E x \in Dep : row[x].status \in Served) => CutsOver \/ \E d \in Dep : Anchor(d)

Steady == BoxFits /\ GivenUp /\ Anchored
SteadyInv == HandledInv /\ (NoFault => Steady)
SteadyStep == CalmStep /\ Handled /\ NoFault /\ NoFault' /\ Steady /\ [Next]_vars

LEMMA NoSteadyError == SteadyStep => ~DbError /\ ~InfraError
BY DEF SteadyStep, NoFault, DbError, InfraError

\* A container goes down only if something at work takes it down.
LEMMA BoxStays ==
  ASSUME SteadyStep, NEW x \in Dep, exec[x].pc \notin {"launch", "abort"}
  PROVE  /\ box[x] = "up" /\ ~Retires(x) => box'[x] = "up"
         /\ box[x] = "absent" => box'[x] = "absent"
<1>1. BoxWritten(x) /\ ~InfraError
  BY StepWrites, NoSteadyError DEF SteadyStep
<1>2. lane.pc \in {"stop", "destroy"} => JobRetires(Subject)
  BY DEF SteadyStep, Handled, LaneFits, CalmStep, Calm, DrainFits, DrainPC, JobRetires, Retiring,
         Subject
<1>3. \A w \in Actor : req[w].pc = "destroy" => RequestRetires(req[w].stale)
  BY DEF SteadyStep, Handled, ListFits, RequestRetires
<1> QED
  BY <1>1, <1>2, <1>3 DEF BoxWritten, Retires

LEMMA BoxFitsKept == SteadyStep => BoxFits'
<1> SUFFICES ASSUME SteadyStep, NEW d \in Dep, exec'[d].pc \in Ready PROVE box'[d] = "up"
  BY DEF BoxFits
<1>1. CallWritten(d)
  BY StepWrites DEF SteadyStep
<1>2. CASE exec[d].pc \in Ready
  <2>1. box[d] = "up"
    BY <1>2 DEF SteadyStep, Steady, BoxFits
  <2>2. row[d].status = "building"
    BY <1>2 DEF Ready, SteadyStep, CalmStep, Calm, RowFits, Working
  <2>3. ~Retires(d)
    BY <2>2 DEF SteadyStep, Handled, Served
  <2> QED
    BY <1>2, <2>1, <2>3, BoxStays DEF Ready
<1> QED
  BY <1>1, <1>2 DEF CallWritten

LEMMA OfListed ==
  ASSUME TypeInv, NEW w \in Actor, ListFits(w), req[w].pc \in Acting
  PROVE  Of(w) \in Dep /\ row[Of(w)].status \in Served
<1>1. req[w].todo \in SUBSET Dep /\ req[w].todo # {}
  BY DEF TypeInv, Req, ListFits
<1>2. Of(w) \in req[w].todo
  BY <1>1, NewestIn DEF Of
<1> QED
  BY <1>1, <1>2 DEF ListFits

LEMMA GivenUpKept == SteadyStep => GivenUp'
<1> SUFFICES ASSUME SteadyStep, NEW v \in Actor, req'[v].pc = "giveup"
             PROVE  box'[Of(v)'] = "absent"
  BY DEF GivenUp
<1>1. ~DbError /\ ~InfraError /\ ListFits(v) /\ GivenUp /\ CalmStep /\ Handled /\ [Next]_vars /\ TypeInv
  BY NoSteadyError DEF SteadyStep, Handled, Steady, CalmStep
<1>2. CASE req'[v] = req[v]
  <2>1. Of(v)' = Of(v) /\ box[Of(v)] = "absent"
    BY <1>1, <1>2 DEF Of, Newest, GivenUp
  <2>2. Of(v) \in Dep /\ row[Of(v)].status \in Served
    BY <1>1, <1>2, OfListed DEF Acting
  <2>3. exec[Of(v)].pc \notin {"launch", "abort"}
    BY <1>1, <2>2 DEF CalmStep, Calm, RowFits, Working, Served
  <2> QED
    BY <2>1, <2>2, <2>3, BoxStays
<1>3. CASE req'[v] # req[v]
  <2>1. PICK w \in Actor : Serve(w) \/ Begin(w)
    BY <1>1, <1>3, StepKinds, ListsStay
  <2>2. ListGoes(w)
    BY <1>1, <2>1, ServeLists DEF Handled
  <2>3. v = w
    BY <1>3, <2>2 DEF ListGoes
  <2>4. StartBoxFails(Of(v)) /\ req'[v].todo = req[v].todo
    BY <2>2, <2>3 DEF ListGoes, Acting
  <2>5. Of(v)' = Of(v)
    BY <2>4 DEF Of, Newest
  <2>6. box[Of(v)] = "absent" /\ box' = box
    BY <1>1, <2>4 DEF StartBoxFails
  <2> QED
    BY <2>5, <2>6
<1> QED
  BY <1>2, <1>3

LEMMA AnchoredKept == SteadyStep => Anchored'
<1> SUFFICES ASSUME SteadyStep, NEW y \in Dep, row'[y].status \in Served
             PROVE  CutsOver' \/ \E d \in Dep : Anchor(d)'
  BY DEF Anchored
<1>1. /\ CalmStep /\ Handled /\ [Next]_vars /\ BoxFits /\ GivenUp /\ Anchored
      /\ \A x \in Dep : RowFits(x) /\ SupFits(x)
  BY DEF SteadyStep, Steady, CalmStep, Calm
<1>2. ASSUME NEW d \in Dep, Promote(d) PROVE Anchor(d)'
  <2>1. /\ exec[d].pc = "demote" /\ box' = box
        /\ row' = Update(d, [row[d] EXCEPT !.status = "live", !.url = TRUE])
    BY <1>2 DEF Promote, At, boxVars
  <2>2. row[d].status = "building" /\ box[d] = "up"
    BY <1>1, <2>1 DEF RowFits, Working, BoxFits, Ready
  <2>3. row'[d].status = "live"
    BY <1>1, <2>1, <2>2 DEF Update, Exists, CalmStep, TypeInv, RowsTyped, Row
  <2>4. ASSUME Retires(d)' PROVE FALSE
    <3>1. ~Retires(d) /\ row[d].status \notin Served
      BY <1>1, <2>2 DEF Handled, Served
    <3>2. \A e \in Dep : d \notin exec[e].sup
      BY <1>1, <3>1 DEF SupFits
    <3> QED
      BY <1>1, <2>2, <2>4, <3>1, <3>2, RetiresStep
  <2> QED
    BY <2>1, <2>2, <2>3, <2>4 DEF Anchor
<1>3. CASE ~\E d \in Dep : Promote(d)
  <2>1. row[y].status \in Served
    BY <1>1, <1>3, ServedStep
  <2>2. CASE CutsOver
    <3>1. PICK d \in Dep : exec[d].pc = "demote" /\ exec[d].sup # {}
      BY <2>2 DEF CutsOver
    <3>2. CallWritten(d)
      BY <1>1, StepWrites
    <3>3. exec'[d].pc = "demote" /\ exec'[d].sup # {}
      BY <1>3, <3>1, <3>2 DEF CallWritten
    <3> QED
      BY <3>3 DEF CutsOver
  <2>3. CASE \E d \in Dep : Anchor(d)
    <3>1. PICK d \in Dep : Anchor(d)
      BY <2>3
    <3>2. row[d].status = "live" /\ box[d] = "up" /\ ~Retires(d)
      BY <3>1 DEF Anchor
    <3>3. CASE \E e \in Dep : CutsInto(e, d)
      <4>1. PICK e \in Dep : /\ exec[e].pc = "demote" /\ d \in exec[e].todo
                             /\ exec'[e].pc = "demote" /\ exec'[e].sup = exec[e].sup
        BY <3>3 DEF CutsInto
      <4>2. d \in exec[e].sup
        BY <1>1, <4>1 DEF SupFits
      <4> QED
        BY <4>1, <4>2 DEF CutsOver
    <3>4. CASE ~\E e \in Dep : CutsInto(e, d)
      <4>1. RowWritten(d)
        BY <1>1, StepWrites
      <4>2. ~(lane.pc = "mark" /\ d = Subject)
        BY <1>1, <3>2 DEF Handled, LaneFits
      <4>3. ~\E w \in Actor : req[w].pc = "giveup" /\ d = Of(w)
        BY <1>1, <3>2 DEF GivenUp
      <4>4. row'[d].status = "live"
        BY <3>2, <3>4, <4>1, <4>2, <4>3 DEF RowWritten, Served
      <4>5. exec[d].pc \notin {"launch", "abort"}
        BY <1>1, <3>2 DEF RowFits, Working
      <4>6. box'[d] = "up"
        BY <3>2, <4>5, BoxStays
      <4>7. ~Retires(d)'
        BY <1>1, <1>3, <3>2, RetiresStep
      <4> QED
        BY <4>4, <4>6, <4>7 DEF Anchor
    <3> QED
      BY <3>3, <3>4
  <2> QED
    BY <1>1, <2>1, <2>2, <2>3 DEF Anchored
<1> QED
  BY <1>2, <1>3

LEMMA SteadyBefore ==
  ASSUME SteadyInv, RowsStored, [Next]_vars, NoFault'
  PROVE  SteadyStep
<1>1. CalmStep /\ Undisturbed
  BY StepUndisturbed DEF SteadyInv, HandledInv, NoFault, Undisturbed
<1>2. TypeInv'
  BY <1>1 DEF CalmStep
<1>3. infraErrors = 0
  BY <1>1, <1>2, InfraErrorsStep DEF CalmStep, TypeInv, FaultsTyped, InfraError, NoFault
<1> QED
  BY <1>1, <1>3 DEF SteadyStep, SteadyInv, HandledInv, NoFault, Undisturbed

LEMMA SteadyInvKept ==
  ASSUME SteadyInv, RowsStored, [Next]_vars
  PROVE  SteadyInv'
<1>1. HandledInv'
  BY HandledInvKept DEF SteadyInv
<1>2. ASSUME NoFault' PROVE Steady'
  BY <1>2, SteadyBefore, BoxFitsKept, GivenUpKept, AnchoredKept DEF Steady
<1> QED
  BY <1>1, <1>2 DEF SteadyInv

LEMMA SteadyHolds == Spec => []SteadyInv
<1>1. Init => SteadyInv
  BY InitHandled DEF Init, NoRow, IdleExec, IdleReq, SteadyInv, Steady, BoxFits, GivenUp, Anchored,
                     Ready, Served
<1>2. SteadyInv /\ RowsStored /\ [Next]_vars => SteadyInv'
  BY SteadyInvKept
<1> QED
  BY <1>1, <1>2, TableStored, PTL DEF Spec

\* A deploy, however it ends, and however many requests wake, refresh or replace
\* deployments meanwhile, never leaves an environment that was serving without a
\* serving deployment, as long as nothing fails.
THEOREM ServiceKept == Spec => ServingContinuous
<1>1. ASSUME SteadyInv, SteadyInv', RowsStored, [Next]_vars, NoFault', Serving PROVE Serving'
  <2>1. SteadyStep
    BY <1>1, SteadyBefore
  <2>2. PICK x \in Dep : row[x].status \in Served
    <3>1. CASE Live # {}
      BY <3>1 DEF Live, Served
    <3>2. CASE \E d \in Dep : exec[d].pc = "demote" /\ exec[d].sup # {}
      BY <2>1, <3>2 DEF SteadyStep, CalmStep, Calm, SupFits, TypeInv, Exec
    <3> QED
      BY <1>1, <3>1, <3>2 DEF Serving
  <2>3. row'[x].status \in Served
    BY <2>1, <2>2, ServedStep DEF SteadyStep
  <2>4. Anchored'
    BY <1>1 DEF SteadyInv, Steady
  <2>5. CutsOver' \/ \E d \in Dep : Anchor(d)'
    BY <2>3, <2>4 DEF Anchored
  <2> QED
    BY <2>5 DEF CutsOver, Anchor, Serving, Live
<1>2. SteadyInv /\ SteadyInv' /\ RowsStored /\ [Next]_vars
        => [NoFault' /\ Serving => Serving']_vars
  BY <1>1
<1> QED
  BY <1>2, SteadyHolds, TableStored, PTL DEF Spec, ServingContinuous

---------------------------------------------------------------------------
(***************************************************************************)
(* The end of a drain.  A tick stops its container when it counted no run, *)
(* or late; the run gate is closed then, and only a request opens it again *)
(* before the tick reaps what runs.                                        *)
(***************************************************************************)

\* A run that a timely tick is going to reap began on a deployment that was put
\* back in service since: it still is, or its container is gone again.
DrainQuiet ==
  lane.pc \in {"stop", "mark", "reap"} /\ ~lane.job.late /\ RunningRuns(Subject) # {} =>
    /\ Request # {} /\ lane.pc = "reap"
    /\ infraErrors > 0 \/ row[Subject].status # "stopped" \/ box[Subject] = "absent"

\* With no request, a stopped deployment stays so, and what a cutover has still
\* to demote is live.
ReapFits == lane.pc = "reap" /\ Request = {} => row[Subject].status = "stopped"
CutsLive == \A d \in Dep : exec[d].pc = "demote" /\ Request = {} =>
              \A x \in exec[d].todo : row[x].status = "live"

Drains == DrainQuiet /\ ReapFits /\ CutsLive
DrainInv == SteadyInv /\ (Undisturbed => Drains)
DrainStep == CalmStep /\ Handled /\ Drains /\ [Next]_vars /\ (NoFault' => SteadyStep)

LEMMA OnlyBoot ==
  ASSUME CalmStep, Request = {}, NEW w \in Actor
  PROVE  req[w].pc = "idle"
BY DEF CalmStep, Calm, TypeInv, Backed, Actor

LEMMA CutsLiveKept == DrainStep => CutsLive'
<1> SUFFICES ASSUME DrainStep, NEW d \in Dep, exec'[d].pc = "demote", Request = {},
                    NEW x \in exec'[d].todo
             PROVE  row'[x].status = "live"
  BY DEF CutsLive
<1>1. CalmStep /\ Handled /\ [Next]_vars /\ CutsLive /\ CallWritten(d) /\ OneInFlight
  BY StepWrites DEF DrainStep, Drains, CalmStep
<1>2. x \in Dep
  BY <1>1 DEF CalmStep, TypeInv, Exec
<1>3. CASE exec[d].pc = "demote" /\ x \in exec[d].todo
  <2>1. row[x].status = "live" /\ RowWritten(x)
    BY <1>1, <1>2, <1>3, StepWrites DEF CutsLive
  <2>2. ASSUME NEW e \in Dep, CutsInto(e, x) PROVE FALSE
    <3>1. row[e].status = "building" /\ row[d].status = "building"
      BY <1>1, <1>3, <2>2 DEF CutsInto, CalmStep, Calm, RowFits, Working
    <3>2. e = d
      BY <1>1, <3>1 DEF OneInFlight, InFlightRows, InFlight
    <3> QED
      BY <2>2, <3>2 DEF CutsInto
  <2>3. ~(lane.pc = "mark" /\ x = Subject)
    BY <1>1, <2>1 DEF Handled, LaneFits
  <2>4. \A w \in Actor : req[w].pc # "giveup"
    BY <1>1, OnlyBoot
  <2> QED
    BY <2>1, <2>2, <2>3, <2>4 DEF RowWritten, Served
<1>4. CASE exec'[d].todo \subseteq Live /\ UNCHANGED row
  BY <1>4 DEF Live
<1> QED
  BY <1>1, <1>3, <1>4 DEF CallWritten

\* A tick between its count and its reaping: it is where it was, or has gone on.
LEMMA TickStep ==
  ASSUME CalmStep, [Next]_vars, lane'.pc \in {"stop", "mark", "reap"}
  PROVE  \/ lane' = lane
         \/ /\ lane'.job = lane.job /\ run' = run
            /\ \/ /\ lane.pc = "count" /\ lane'.pc = "stop"
                  /\ RunningRuns(Subject) = {} \/ lane.job.late
               \/ lane.pc = "stop" /\ lane'.pc = "mark"
               \/ lane.pc = "mark" /\ lane'.pc = "reap" /\ MarkStopped
<1>1. lane \in Lane /\ phase = "booted" /\ ~DbError
  BY NoDbError DEF CalmStep, Calm, TypeInv
<1>2. CASE lane' = lane
  BY <1>2
<1>3. CASE LaneNext
  <2>1. ASSUME NEW pc, LaneTo(pc) PROVE lane'.pc = pc /\ lane'.job = lane.job
    BY <1>1, <2>1 DEF LaneTo, Lane
  <2>2. CASE DrainOver
    BY <2>1, <2>2 DEF DrainOver, LaneAt, LaneStep
  <2>3. CASE DrainStops
    BY <2>1, <2>3 DEF DrainStops, LaneAt
  <2>4. CASE MarkStopped
    BY <2>1, <2>4 DEF MarkStopped, LaneAt
  <2>5. CASE ClaimInline
    <3>1. PICK j \in queued : /\ j \in Job /\ j.kind # "deploy"
                              /\ lane' = [IdleLane EXCEPT !.pc = FirstStep[j.kind], !.job = Claimed(j)]
      BY <2>5 DEF ClaimInline, CalmStep, TypeInv, JobsTyped
    <3>2. lane'.pc = FirstStep[j.kind] /\ j.kind \in {"drain", "cleanup", "reconcile"}
      BY <3>1 DEF IdleLane, Job, JobKind
    <3>3. FirstStep[j.kind] \in {"drain", "cleanup", "read"}
      BY <3>2 DEF FirstStep
    <3> QED
      BY <3>2, <3>3
  <2>6. CASE \/ ReadDrained \/ CheckCleanup \/ ReapRuns \/ ScheduleCleanup \/ DestroyBox \/ DrainWaits
             \/ ReadRows \/ ReconcileLater \/ ReconcileInsertThrows \/ ReconcileEnqueues
    <3>1. \E pc \in {"count", "destroy", "grace", "done", "threw", "retry", "insert"} : LaneTo(pc)
      BY <2>6 DEF ReadDrained, CheckCleanup, ReapRuns, ScheduleCleanup, DestroyBox, DrainWaits, ReadRows, ReconcileLater,
         ReconcileInsertThrows, ReconcileEnqueues
    <3>2. lane'.pc \in {"count", "destroy", "grace", "done", "threw", "retry", "insert"}
      BY <2>1, <3>1
    <3> QED
      BY <3>2
  <2>7. CASE ReadDesired \/ ReconcileInserts
    BY <1>1, <2>7 DEF ReadDesired, ReconcileInserts, Lane
  <2>8. CASE CompleteInline \/ RetryInline
    BY <1>1, <2>8 DEF CompleteInline, RetryInline, IdleLane
  <2>9. CASE StartSweep \/ EndSweep \/ LaneDbError
    BY <1>1, <2>9 DEF StartSweep, EndSweep, Boots, LaneDbError
  <2> QED
    BY <1>3, <2>2, <2>3, <2>4, <2>5, <2>6, <2>7, <2>8, <2>9 DEF LaneNext
<1> QED
  BY <1>2, <1>3, StepKinds, LaneStays

\* Who writes the runs table.
LEMMA RunsStep ==
  ASSUME [Next]_vars
  PROVE  run' = run \/ ReapRuns \/ \E r \in Run : RunStart(r) \/ RunFinish(r)
<1>1. ASSUME NEW d \in Dep, Execute(d) PROVE run' = run
  BY <1>1 DEF Execute, BeginDeploy, ReadEnv, TakeRow, TakeRowThrows, TakeRowError, ResolveEnv,
     LaunchLive,
     LaunchFails, ReadSiblings, Demote, DemoteError, Promote, PromoteError, Audit, AuditError,
     ScheduleDrain, Finish, AbortInfra, FailRow, FailRowError, CompleteDeploy,
     CompleteDeployError, DeployFailed, RetryDeploy, RetryDeployError, ExecStep, JobStep
<1>2. CASE ControllerNext
  BY <1>1, <1>2 DEF ControllerNext, DeleteFailed, QueueDeploy, EnqueueDeploy,
                    EnqueueDeployError
<1>3. CASE LaneNext
  BY <1>3 DEF LaneNext, ClaimInline, LaneDbError, ReadDrained, DrainWaits, DrainOver,
     DrainStops, MarkStopped, ScheduleCleanup, CheckCleanup, DestroyBox, StartSweep,
     ReadDesired, ReadRows, ReconcileLater, ReconcileInserts, ReconcileInsertThrows,
     ReconcileEnqueues, EndSweep, CompleteInline, RetryInline, LaneStep, LaneEnds
<1>4. ASSUME NEW w \in Actor, Begin(w) \/ Serve(w) PROVE run' = run
  <2>1. CASE Begin(w) \/ Probe(w) \/ ClaimUrl(w) \/ Restart(w) \/ RefreshUrl(w) \/ GiveUp(w)
    BY <2>1 DEF Begin, Probe, ClaimUrl, Restart, RefreshUrl, GiveUp, ReqStep
  <2>2. CASE \/ Decide(w) \/ WakeStart(w) \/ WakePromote(w) \/ Retire(w)
             \/ ReplaceInsertError(w) \/ ReqDbError(w) \/ End(w)
    BY <2>2 DEF Decide, WakeStart, WakePromote, Retire, ReplaceInsertError, ReqDbError, End, ReqStep
  <2>3. CASE \/ ReplaceReadEnv(w) \/ ReplaceInsert(w) \/ ReplaceLoses(w) \/ Replaced(w)
             \/ CheckRetired(w) \/ DestroyRetired(w)
    BY <2>3 DEF ReplaceReadEnv, ReplaceInsert, ReplaceLoses, Replaced, CheckRetired,
                DestroyRetired, ReqStep
  <2> QED
    BY <1>4, <2>1, <2>2, <2>3 DEF Serve
<1> QED
  BY <1>2, <1>3, <1>4 DEF Next, WakeNext, Bump, Invalidate, Deadline, BoxDies, Crash, Requeue, vars

LEMMA SubjectServed ==
  ASSUME CalmStep, lane.pc \in DrainPC
  PROVE  Subject \in Dep /\ row[Subject].status \in Served
BY DEF CalmStep, Calm, DrainFits, Subject

LEMMA ReapFitsKept == DrainStep => ReapFits'
<1> SUFFICES ASSUME DrainStep, lane'.pc = "reap", Request = {}
             PROVE  row'[Subject'].status = "stopped"
  BY DEF ReapFits
<1>1. /\ CalmStep /\ Handled /\ [Next]_vars /\ ReapFits /\ CutsLive
      /\ row \in [Dep -> Row] /\ \A w \in Actor : req[w].pc = "idle"
  BY OnlyBoot DEF DrainStep, Drains, CalmStep, TypeInv, RowsTyped
<1>2. CASE lane' = lane
  <2>1. Subject' = Subject /\ Subject \in Dep /\ row[Subject].status = "stopped"
    BY <1>1, <1>2, SubjectServed DEF Subject, ReapFits, DrainPC
  <2>2. RowWritten(Subject)
    BY <1>1, <2>1, StepWrites
  <2>3. \A e \in Dep : ~CutsInto(e, Subject)
    BY <1>1, <2>1 DEF CutsInto, CutsLive
  <2>4. \A w \in Actor : ~WakePromote(w)
    BY <1>1 DEF WakePromote, ReqAt
  <2> QED
    BY <1>2, <2>1, <2>2, <2>3, <2>4 DEF RowWritten, Served
<1>3. CASE lane.pc = "mark" /\ MarkStopped /\ lane'.job = lane.job
  <2>1. Subject' = Subject /\ Subject \in Dep /\ row[Subject].status \in Served
    BY <1>1, <1>3, SubjectServed DEF Subject, DrainPC
  <2>2. row' = [row EXCEPT ![Subject] = [row[Subject] EXCEPT !.status = "stopped", !.weighted = FALSE]]
    BY <1>3, <2>1 DEF MarkStopped, Update, Exists, Served
  <2> QED
    BY <1>1, <2>1, <2>2 DEF Row
<1> QED
  BY <1>1, <1>2, <1>3, TickStep

LEMMA DrainQuietKept == DrainStep => DrainQuiet'
<1> SUFFICES ASSUME DrainStep, lane'.pc \in {"stop", "mark", "reap"}, ~lane'.job.late,
                    RunningRuns(Subject)' # {}
             PROVE  /\ Request # {} /\ lane'.pc = "reap"
                    /\ \/ infraErrors' > 0 \/ row'[Subject'].status # "stopped"
                       \/ box'[Subject'] = "absent"
  BY DEF DrainQuiet
<1>1. /\ CalmStep /\ Handled /\ [Next]_vars /\ DrainQuiet /\ ReapFits
      /\ row \in [Dep -> Row] /\ run \in [Run -> RunState]
  BY DEF DrainStep, Drains, CalmStep, TypeInv, RowsTyped
<1>2. CASE lane' # lane
  <2>1. /\ lane'.job = lane.job /\ run' = run
        /\ \/ /\ lane.pc = "count" /\ lane'.pc = "stop"
              /\ RunningRuns(Subject) = {} \/ lane.job.late
           \/ lane.pc = "stop" /\ lane'.pc = "mark"
           \/ lane.pc = "mark" /\ lane'.pc = "reap" /\ MarkStopped
    BY <1>1, <1>2, TickStep
  <2>2. RunningRuns(Subject)' = RunningRuns(Subject)
    BY <2>1 DEF RunningRuns, Subject
  <2> QED
    BY <1>1, <2>1, <2>2 DEF DrainQuiet
<1>3. CASE lane' = lane
  <2>1. Subject' = Subject /\ Subject \in Dep /\ row[Subject].status \in Served
    BY <1>1, <1>3, SubjectServed DEF Subject, DrainPC
  <2>2. \/ RunningRuns(Subject) # {}
        \/ row[Subject].status = "live" /\ row' = row
    <3>1. ASSUME NEW r \in Run, RunStart(r), RunningRuns(Subject) = {}
          PROVE  row[Subject].status = "live" /\ row' = row
      <4>1. PICK d \in Live : run' = [run EXCEPT ![r] = <<"running", d>>]
        BY <3>1 DEF RunStart
      <4>2. PICK q \in Run : run'[q] = <<"running", Subject>> /\ run[q] # <<"running", Subject>>
        BY <2>1, <3>1 DEF RunningRuns
      <4>3. d = Subject
        BY <1>1, <4>1, <4>2
      <4> QED
        BY <3>1, <4>3 DEF Live, RunStart, rowVars
    <3>2. ASSUME NEW r \in Run, RunFinish(r) PROVE RunningRuns(Subject) # {}
      <4>1. run' = [run EXCEPT ![r] = <<"finished", run[r][2]>>]
        BY <3>2 DEF RunFinish
      <4>2. PICK q \in Run : run'[q] = <<"running", Subject>>
        BY <2>1 DEF RunningRuns
      <4>3. <<"finished", run[r][2]>> # <<"running", Subject>>
        OBVIOUS
      <4>4. run[q] = <<"running", Subject>>
        BY <1>1, <4>1, <4>2, <4>3
      <4> QED
        BY <4>4 DEF RunningRuns
    <3>3. CASE run' = run
      BY <2>1, <3>3 DEF RunningRuns
    <3>4. CASE ReapRuns
      <4>1. lane.pc = "reap" /\ lane'.pc = "grace"
        BY <1>1, <3>4 DEF ReapRuns, LaneAt, LaneTo, CalmStep, TypeInv, Lane
      <4> QED
        BY <1>3, <4>1
    <3> QED
      BY <1>1, <3>1, <3>2, <3>3, <3>4, RunsStep
  <2>3. CASE row[Subject].status = "live" /\ row' = row
    <3>1. lane.pc = "reap"
      BY <1>1, <1>3, <2>3 DEF Handled, LaneFits
    <3> QED
      BY <1>1, <1>3, <2>1, <2>3, <3>1 DEF ReapFits
  <2>4. CASE RunningRuns(Subject) # {}
    <3>1. /\ Request # {} /\ lane.pc = "reap"
          /\ infraErrors > 0 \/ row[Subject].status # "stopped" \/ box[Subject] = "absent"
      BY <1>1, <1>3, <2>4 DEF DrainQuiet
    <3>2. infraErrors \in Nat /\ infraErrors' \in Nat /\ infraErrors' >= infraErrors
      <4>1. infraErrors \in Nat /\ infraErrors' \in Nat
        BY <1>1 DEF CalmStep, TypeInv, FaultsTyped
      <4>2. infraErrors' = infraErrors \/ infraErrors' = infraErrors + 1
        BY <1>1, InfraErrorsStep DEF InfraError
      <4> QED
        BY <4>1, <4>2
    <3>3. CASE infraErrors' > 0
      BY <1>3, <3>1, <3>3
    <3>4. CASE infraErrors' = 0
      <4>1. SteadyStep
        BY <1>1, <3>4 DEF DrainStep, CalmStep, Undisturbed, NoFault
      <4>2. ~(infraErrors > 0)
        BY <3>2, <3>4
      <4>3. exec[Subject].pc \notin {"launch", "abort"}
        BY <1>1, <2>1 DEF CalmStep, Calm, RowFits, Working, Served
      <4>4. CASE box[Subject] = "absent"
        BY <1>3, <2>1, <3>1, <4>1, <4>3, <4>4, BoxStays
      <4>5. CASE row[Subject].status # "stopped"
        <5>1. RowWritten(Subject)
          BY <1>1, <2>1, StepWrites
        <5>2. CASE row'[Subject].status # "stopped"
          BY <1>3, <2>1, <3>1, <5>2
        <5>3. CASE row'[Subject].status = "stopped"
          <6>1. PICK w \in Actor : req[w].pc = "giveup" /\ Subject = Of(w)
            BY <2>1, <3>1, <4>5, <5>1, <5>3 DEF RowWritten, Served
          <6>2. box[Subject] = "absent"
            BY <4>1, <6>1 DEF SteadyStep, Steady, GivenUp
          <6> QED
            BY <4>4, <6>2
        <5> QED
          BY <5>2, <5>3
      <4> QED
        BY <3>1, <4>2, <4>4, <4>5
    <3> QED
      BY <3>2, <3>3, <3>4
  <2> QED
    BY <2>2, <2>3, <2>4
<1> QED
  BY <1>2, <1>3

LEMMA DrainInvKept ==
  ASSUME DrainInv, RowsStored, [Next]_vars
  PROVE  DrainInv'
<1>1. SteadyInv'
  BY SteadyInvKept DEF DrainInv
<1>2. ASSUME Undisturbed' PROVE Drains'
  <2>1. CalmStep /\ Undisturbed
    BY <1>2, StepUndisturbed DEF DrainInv, SteadyInv, HandledInv
  <2>2. NoFault' => SteadyStep
    BY SteadyBefore DEF DrainInv
  <2>3. DrainStep
    BY <2>1, <2>2 DEF DrainStep, DrainInv, SteadyInv, HandledInv
  <2> QED
    BY <2>3, CutsLiveKept, ReapFitsKept, DrainQuietKept DEF Drains
<1> QED
  BY <1>1, <1>2 DEF DrainInv

LEMMA DrainHolds == Spec => []DrainInv
<1>1. Init => SteadyInv
  BY InitHandled DEF Init, NoRow, IdleExec, IdleReq, SteadyInv, Steady, BoxFits, GivenUp, Anchored,
                     Ready, Served
<1>2. Init => DrainInv
  BY <1>1 DEF Init, IdleExec, IdleLane, DrainInv, Drains, DrainQuiet, ReapFits, CutsLive
<1>3. DrainInv /\ RowsStored /\ [Next]_vars => DrainInv'
  BY DrainInvKept
<1> QED
  BY <1>2, <1>3, TableStored, PTL DEF Spec

\* A drain that is not late interrupts no run, whatever else happens in between,
\* but for a deployment that a request put back in service under the drain.
THEOREM RunsNotCutShort == Spec => InterruptedOnlyAfterDeadline
<1>1. ASSUME DrainInv, [Next]_vars, NEW r \in Run, run'[r] # run[r], run'[r][1] = "interrupted"
      PROVE  \/ crashes + dbErrors > 0 \/ lane.job.late
             \/ /\ Request # {}
                /\ \/ infraErrors > 0 \/ row[Subject].status # "stopped"
                   \/ box[Subject] = "absent"
  <2>1. run \in [Run -> RunState] /\ crashes \in Nat /\ dbErrors \in Nat
    BY <1>1 DEF DrainInv, SteadyInv, HandledInv, CalmInv, TypeInv, FaultsTyped
  <2>2. ReapRuns
    <3>1. ASSUME NEW q \in Run, RunStart(q) PROVE FALSE
      <4>1. PICK d \in Live : run' = [run EXCEPT ![q] = <<"running", d>>]
        BY <3>1 DEF RunStart
      <4>2. <<"running", d>>[1] = "running"
        OBVIOUS
      <4> QED
        BY <1>1, <2>1, <4>1, <4>2
    <3>2. ASSUME NEW q \in Run, RunFinish(q) PROVE FALSE
      <4>1. run' = [run EXCEPT ![q] = <<"finished", run[q][2]>>]
        BY <3>2 DEF RunFinish
      <4>2. <<"finished", run[q][2]>>[1] = "finished"
        OBVIOUS
      <4> QED
        BY <1>1, <2>1, <4>1, <4>2
    <3> QED
      BY <1>1, <3>1, <3>2, RunsStep
  <2>3. lane.pc = "reap" /\ r \in RunningRuns(Subject)
    BY <1>1, <2>2 DEF ReapRuns, LaneAt
  <2>4. CASE Undisturbed
    BY <1>1, <2>3, <2>4 DEF DrainInv, Drains, DrainQuiet
  <2>5. CASE ~Undisturbed
    BY <2>1, <2>5 DEF Undisturbed
  <2> QED
    BY <2>4, <2>5
<1>2. DrainInv /\ [Next]_vars =>
        [\A r \in Run : (run'[r] # run[r] /\ run'[r][1] = "interrupted") =>
           \/ crashes + dbErrors > 0 \/ lane.job.late
           \/ /\ Request # {}
              /\ \/ infraErrors > 0 \/ row[Subject].status # "stopped"
                 \/ box[Subject] = "absent"]_vars
  BY <1>1
<1> QED
  BY <1>2, DrainHolds, PTL DEF Spec, InterruptedOnlyAfterDeadline

---------------------------------------------------------------------------
(***************************************************************************)
(* The boot sweep.  A restart leaves no call, and while the boot chain     *)
(* runs the worker starts none: only requests, users and the sweep itself  *)
(* write, whatever rows and containers the restart left.                   *)
(***************************************************************************)

Sweeping == phase # "booted" /\ dbErrors + infraErrors = 0
BootLane == lane.pc \in {"idle", "read", "rows", "retry", "insert", "queue", "done", "threw"}
Serves(d) == d \in Dep /\ row[d].status \in Served
Runs(d) == box[d] = "up" \/ row[d].rev < envRev
Replacing == {"readenv", "insert", "deploying", "retire", "check", "destroy"}
Recovering == {"claim", "start", "settle", "giveup"}

\* The replacement a request deploys has its row until it is promoted, and its
\* container once it is ready.
CallSwept(d) ==
  /\ exec[d].pc \notin Begun
  /\ exec[d].pc \in Working => row[d].status = "building"
  /\ exec[d].pc \in Ready => box[d] = "up"
  /\ exec[d].pc = "demote" => \A x \in exec[d].todo : Serves(x)

\* What a request or the sweep has listed was promoted; what it started runs.
ReqSwept(w) ==
  /\ \A x \in req[w].todo \cup req[w].stopped : Serves(x)
  /\ req[w].stale # NoDep => Serves(req[w].stale) /\ row[req[w].stale].rev < envRev
  /\ req[w].pc \in Recovering => req[w].todo # {}
  /\ req[w].pc \in {"wake", "promote"} => req[w].stopped # {}
  /\ req[w].pc \in Replacing => req[w].stale # NoDep
  /\ req[w].pc = "settle" => Runs(Of(w))
  /\ req[w].pc = "giveup" => box[Of(w)] = "absent"
  /\ req[w].pc = "promote" => Runs(Newest(req[w].stopped))

Refreshes(d, pcs) == \E w \in Actor : req[w].pc \in pcs /\ Of(w) = d
Restored(d) == box[d] = "up" /\ (row[d].url \/ Refreshes(d, {"start", "settle"}))
ToRestore == {d \in CurrentRows("live") : d \notin req[Boot].todo}

\* From the sweep's listing on, a current live row is still to be recovered or
\* has its container; a URL that was listed is there, or is being refreshed.
BootSwept ==
  /\ req[Boot].pc \in {"idle", "recover", "end"} \cup Recovering
  /\ req[Boot].mode = "refresh"
  /\ req[Boot].pc \in {"idle", "end"} => req[Boot].todo = {}
  /\ req[Boot].pc # "idle" => phase = "sweep"
  /\ \A d \in req[Boot].urls : row[d].status = "live" =>
       row[d].url \/ Refreshes(d, {"start", "settle", "giveup"})
  /\ (phase = "sweep" => req[Boot].pc # "idle") => \A d \in ToRestore : Restored(d)

Swept == /\ BootLane /\ BootSwept
         /\ \A d \in Dep : CallSwept(d)
         /\ \A w \in Actor : ReqSwept(w)
SweepInv == TypeInv /\ (Sweeping => Swept)

\* A step of the boot chain's time that is not a restart.
SweepStep == /\ TypeInv /\ FaultsTyped' /\ [Next]_vars
             /\ Sweeping /\ Sweeping' /\ Swept /\ crashes' = crashes

LEMMA NoSweepFault == SweepStep => ~DbError /\ ~InfraError
<1> SUFFICES ASSUME SweepStep PROVE ~DbError /\ ~InfraError
  OBVIOUS
<1>1. /\ dbErrors \in Nat /\ infraErrors \in Nat /\ dbErrors' \in Nat /\ infraErrors' \in Nat
  BY StateAssumption DEF SweepStep, TypeInv, FaultsTyped
<1>2. dbErrors + infraErrors = 0 /\ dbErrors' + infraErrors' = 0
  BY DEF SweepStep, Sweeping
<1>3. \A m, n \in Nat : m + n = 0 => m = 0 /\ n = 0
  OBVIOUS
<1>4. dbErrors = 0 /\ infraErrors = 0 /\ dbErrors' = 0 /\ infraErrors' = 0
  BY <1>1, <1>2, <1>3
<1>5. dbErrors' # dbErrors + 1 /\ infraErrors' # infraErrors + 1
  BY <1>4
<1> QED
  BY <1>5 DEF DbError, InfraError

---------------------------------------------------------------------------
(* Who writes what while the boot chain runs.                              *)

RowSwept(x) ==
  /\ row[x].status \in Served =>
       row'[x].status \in Served /\ row'[x].rev = row[x].rev
  /\ row[x].status = "building" => row'[x].status = "building" \/ exec'[x].pc \notin Working
  /\ row'[x].status = "live" =>
       \/ row[x].status = "live" /\ (row[x].url => row'[x].url)
       \/ /\ row[x].status = "live"
          /\ \E w \in Actor : /\ req[w].pc = "claim" /\ Of(w) = x
                              /\ req'[w].pc = "start" /\ req'[w].todo = req[w].todo
       \/ /\ row'[x].url /\ row'[x].rev = row[x].rev /\ box'[x] = box[x]
          /\ \/ exec[x].pc = "demote"
             \/ \E w \in Actor : req[w].pc = "promote" /\ Newest(req[w].stopped) = x

BoxSwept(x) ==
  \/ box'[x] = box[x]
  \/ box[x] # "absent" /\ box'[x] = "up"
  \/ exec[x].pc \in {"launch", "abort"} /\ (exec'[x].pc \in Ready => box'[x] = "up")
  \/ box'[x] = "absent" /\ \E w \in Actor : req[w].pc = "destroy" /\ x = req[w].stale

CallGoes(x) ==
  /\ exec'[x].pc \notin Begun
  /\ exec'[x].pc \in Working => exec[x].pc \in Working \/ row'[x].status = "building"
  /\ exec'[x].pc \in Ready => exec[x].pc \in Ready \/ box'[x] = "up"
  /\ exec'[x].pc = "demote" =>
       \/ exec[x].pc = "demote" /\ exec'[x].todo \subseteq exec[x].todo
       \/ exec'[x].todo \subseteq Live

ReqGoes(w) ==
  /\ \A x \in req'[w].todo \cup req'[w].stopped :
       x \in req[w].todo \cup req[w].stopped \/ Serves(x)
  /\ req'[w].stale # NoDep => req'[w].stale = req[w].stale \/ req'[w].stale \in StaleRows
  /\ req'[w].pc \in Recovering => req'[w].todo = req[w].todo /\ req[w].todo # {}
  /\ req'[w].pc \in {"wake", "promote"} => req'[w].stopped # {}
  /\ req'[w].pc \in Replacing => req'[w].stale # NoDep
  /\ req'[w].pc = "settle" => req[w].pc = "settle" \/ box'[Of(w)] = "up"
  /\ req'[w].pc = "giveup" => req[w].pc = "giveup" \/ box'[Of(w)] = "absent"
  /\ req'[w].pc = "promote" =>
       /\ req'[w].stopped = req[w].stopped
       /\ req[w].pc = "promote" \/ box'[Newest(req[w].stopped)] = "up"
  /\ req[w].pc \in {"start", "settle", "giveup"} =>
       \/ /\ req'[w].todo = req[w].todo
          /\ \/ req'[w].pc = req[w].pc
             \/ req[w].pc = "start" /\ req'[w].pc = "settle"
             \/ req[w].pc = "start" /\ req'[w].pc = "giveup" /\ box'[Of(w)] = "absent"
       \/ row'[Of(w)].url \/ row'[Of(w)].status # "live"

Writes == \A x \in Dep : RowSwept(x) /\ BoxSwept(x) /\ CallGoes(x)

LEMMA StillSwept ==
  ASSUME SweepStep, NEW x \in Dep
  PROVE  /\ UNCHANGED row => RowSwept(x)
         /\ row'[x] = row[x] => RowSwept(x)
         /\ UNCHANGED box => BoxSwept(x)
         /\ exec'[x] = exec[x] => CallGoes(x)
BY DEF SweepStep, Swept, CallSwept, RowSwept, BoxSwept, CallGoes

LEMMA ExecuteSweeps ==
  ASSUME SweepStep, NEW d \in Dep, Execute(d)
  PROVE  Writes
<1>1. /\ exec \in [Dep -> Exec] /\ row \in [Dep -> Row] /\ ~DbError /\ ~InfraError
      /\ box \in [Dep -> {"absent", "up", "down"}]
      /\ exec[d] \in Exec /\ CallSwept(d) /\ phase # "booted"
  BY NoSweepFault DEF SweepStep, Swept, Sweeping, TypeInv, RowsTyped, BoxesTyped
<1>2. ASSUME \A x \in Dep \ {d} : exec'[x] = exec[x] /\ row'[x] = row[x] /\ box'[x] = box[x],
             RowSwept(d), BoxSwept(d), CallGoes(d)
      PROVE  Writes
  BY <1>2, StillSwept DEF Writes, BoxSwept
<1>3. CASE Demote(d)
  <2>1. PICK x \in exec[d].todo : /\ row' = Update(x, Draining(x))
                                  /\ exec' = [exec EXCEPT ![d].todo = @ \ {x}]
    BY <1>3 DEF Demote
  <2>2. /\ exec[d].pc = "demote" /\ UNCHANGED box /\ x \in Dep /\ row[x].status \in Served
    BY <1>1, <1>3, <2>1 DEF Demote, At, CallSwept, Serves, boxVars
  <2>3. /\ exec'[d].pc = "demote" /\ exec'[d].todo \subseteq exec[d].todo
        /\ \A y \in Dep \ {d} : exec'[y] = exec[y]
    BY <1>1, <2>1, <2>2 DEF Exec
  <2>4. /\ row'[x].status = "draining" /\ row'[x].rev = row[x].rev
        /\ \A y \in Dep \ {x} : row'[y] = row[y]
    BY <1>1, <2>1, <2>2 DEF Update, Draining, Exists, Served, Row
  <2>5. RowSwept(x)
    BY <2>2, <2>4 DEF RowSwept, Served
  <2>6. CallGoes(d)
    BY <2>2, <2>3 DEF CallGoes, Begun, Working, Ready
  <2> QED
    BY <2>2, <2>3, <2>4, <2>5, <2>6, StillSwept DEF Writes
<1>4. CASE Promote(d)
  <2>1. /\ exec[d].pc = "demote" /\ UNCHANGED box
        /\ row' = Update(d, [row[d] EXCEPT !.status = "live", !.url = TRUE])
        /\ exec' = [exec EXCEPT ![d].pc = "audit"]
    BY <1>4 DEF Promote, At, Goto, boxVars
  <2>2. exec'[d].pc = "audit" /\ \A y \in Dep \ {d} : exec'[y] = exec[y]
    BY <1>1, <2>1 DEF Exec
  <2>3. row[d].status = "building"
    BY <1>1, <2>1 DEF CallSwept, Working
  <2>4. /\ row'[d].status = "live" /\ row'[d].url /\ row'[d].rev = row[d].rev
        /\ \A y \in Dep \ {d} : row'[y] = row[y]
    BY <1>1, <2>1, <2>3 DEF Update, Exists, Row
  <2>5. RowSwept(d)
    BY <2>1, <2>2, <2>3, <2>4 DEF RowSwept, Served, Working
  <2>6. CallGoes(d)
    BY <2>2 DEF CallGoes, Begun, Working, Ready
  <2> QED
    BY <1>2, <2>1, <2>2, <2>4, <2>5, <2>6, StillSwept
<1>5. CASE FailRow(d)
  <2>1. /\ exec[d].pc = "fail" /\ UNCHANGED box
        /\ row' = Update(d, [row[d] EXCEPT !.status = "failed"])
        /\ exec' = [exec EXCEPT ![d].pc = "failed"]
    BY <1>5 DEF FailRow, At, Goto, boxVars
  <2>2. exec'[d].pc = "failed" /\ \A y \in Dep \ {d} : exec'[y] = exec[y]
    BY <1>1, <2>1 DEF Exec
  <2>3. row[d].status = "building"
    BY <1>1, <2>1 DEF CallSwept, Working
  <2>4. row'[d].status = "failed" /\ \A y \in Dep \ {d} : row'[y] = row[y]
    BY <1>1, <2>1, <2>3 DEF Update, Exists, Row
  <2>5. RowSwept(d)
    BY <2>2, <2>3, <2>4 DEF RowSwept, Served, Working
  <2>6. CallGoes(d)
    BY <2>2 DEF CallGoes, Begun, Working, Ready
  <2> QED
    BY <1>2, <2>1, <2>2, <2>4, <2>5, <2>6, StillSwept
<1>6. CASE ReadSiblings(d)
  <2>1. /\ exec[d].pc = "siblings" /\ UNCHANGED <<row, box>>
        /\ exec' = [exec EXCEPT ![d].pc = "demote", ![d].todo = Live \ {d}, ![d].sup = Live \ {d}]
    BY <1>6 DEF ReadSiblings, At, boxVars
  <2>2. /\ exec'[d].pc = "demote" /\ exec'[d].todo \subseteq Live
        /\ \A y \in Dep \ {d} : exec'[y] = exec[y]
    BY <1>1, <2>1 DEF Exec
  <2>3. CallGoes(d)
    BY <2>1, <2>2 DEF CallGoes, Begun, Working, Ready
  <2> QED
    BY <1>2, <2>1, <2>2, <2>3, StillSwept
<1>7. CASE LaunchLive(d) \/ LaunchFails(d)
  <2>1. /\ exec[d].pc = "launch" /\ UNCHANGED row
        /\ \A y \in Dep \ {d} : exec'[y] = exec[y] /\ box'[y] = box[y]
        /\ \/ exec'[d].pc = "siblings" /\ box'[d] = "up"
           \/ exec'[d].pc = "abort"
    BY <1>1, <1>7 DEF LaunchLive, LaunchFails, At, Exec
  <2>2. CallGoes(d) /\ BoxSwept(d)
    BY <2>1 DEF CallGoes, BoxSwept, Begun, Working, Ready
  <2> QED
    BY <1>2, <2>1, <2>2, StillSwept
<1>8. CASE AbortInfra(d)
  <2>1. /\ exec[d].pc = "abort" /\ UNCHANGED row
        /\ \A y \in Dep \ {d} : exec'[y] = exec[y] /\ box'[y] = box[y]
        /\ exec'[d].pc = "fail"
    BY <1>1, <1>8 DEF AbortInfra, StopDeploymentInfra, StopDeploymentInfraThrows, At, Goto, Exec
  <2>2. CallGoes(d) /\ BoxSwept(d)
    BY <2>1 DEF CallGoes, BoxSwept, Begun, Working, Ready
  <2> QED
    BY <1>2, <2>1, <2>2, StillSwept
<1>9. CASE ResolveEnv(d)
  <2>1. /\ exec[d].pc = "resolve" /\ UNCHANGED <<row, box>>
        /\ \A y \in Dep \ {d} : exec'[y] = exec[y]
        /\ exec'[d].pc = "launch"
    BY <1>1, <1>9 DEF ResolveEnv, At, Exec, boxVars
  <2>2. CallGoes(d)
    BY <2>1 DEF CallGoes, Begun, Working, Ready
  <2> QED
    BY <1>2, <2>1, <2>2, StillSwept
<1>10. CASE \/ Audit(d) \/ ScheduleDrain(d) \/ Finish(d) \/ CompleteDeploy(d)
            \/ DeployFailed(d) \/ RetryDeploy(d) \/ RetryDeployError(d)
  <2>1. /\ UNCHANGED <<row, box>>
        /\ \/ exec' = [exec EXCEPT ![d].pc = "schedule", ![d].todo = exec[d].sup]
           \/ exec[d].pc = "schedule" /\ \E x \in exec[d].todo : exec' = [exec EXCEPT ![d].todo = @ \ {x}]
           \/ exec' = [exec EXCEPT ![d].pc = "ok"]
           \/ exec' = [exec EXCEPT ![d].pc = "threw"]
           \/ exec' = [exec EXCEPT ![d] = IdleExec]
    BY <1>10 DEF Audit, ScheduleDrain, Finish, CompleteDeploy, DeployFailed, RetryDeploy,
       RetryDeployError, At, Goto, Settled, JobStep, rowVars, boxVars
  <2>2. /\ exec'[d].pc \in {"schedule", "ok", "threw", "idle"}
        /\ \A y \in Dep \ {d} : exec'[y] = exec[y]
    BY <1>1, <2>1 DEF Exec, IdleExec
  <2>3. CallGoes(d)
    BY <2>2 DEF CallGoes, Begun, Working, Ready
  <2> QED
    BY <1>2, <2>1, <2>2, <2>3, StillSwept
<1> QED
  BY <1>1, <1>3, <1>4, <1>5, <1>6, <1>7, <1>8, <1>9, <1>10
     DEF Execute, BeginDeploy, ReadEnv, TakeRow, TakeRowThrows, TakeRowError, DemoteError,
        PromoteError,
         AuditError, FailRowError, CompleteDeployError, RetryDeployError, At, CallSwept, Begun

LEMMA Listed ==
  ASSUME SweepStep, NEW w \in Actor
  PROVE  /\ req[w].pc \in Recovering => Of(w) \in req[w].todo /\ Serves(Of(w))
         /\ req[w].todo # {} => Of(w) \in req[w].todo /\ Serves(Of(w))
         /\ req[w].pc \in {"wake", "promote"} =>
              /\ Newest(req[w].stopped) \in req[w].stopped
              /\ Serves(Newest(req[w].stopped))
<1>1. ReqSwept(w) /\ req[w].todo \subseteq Dep /\ req[w].stopped \subseteq Dep
  BY DEF SweepStep, Swept, TypeInv, Req
<1>2. /\ req[w].todo # {} => Newest(req[w].todo) \in req[w].todo
      /\ req[w].stopped # {} => Newest(req[w].stopped) \in req[w].stopped
  BY <1>1, NewestIn
<1> QED
  BY <1>1, <1>2 DEF ReqSwept, Of

LEMMA ReqStays ==
  ASSUME SweepStep, NEW w \in Actor, req'[w] = req[w]
  PROVE  ReqGoes(w)
BY DEF SweepStep, Swept, ReqSwept, ReqGoes

\* A request that is about to end.
LEMMA ReqLeaves ==
  ASSUME SweepStep, NEW w \in Actor, req[w].pc \notin {"start", "settle", "giveup"},
         req'[w] = IdleReq \/ (req'[w] = [req[w] EXCEPT !.pc = "end"]) \/ req'[w] = Fresh("end")
  PROVE  ReqGoes(w)
<1>1. req[w] \in Req
  BY DEF SweepStep, TypeInv
<1>2. /\ req'[w].pc \in {"idle", "end"}
      /\ req'[w].todo \subseteq req[w].todo /\ req'[w].stopped \subseteq req[w].stopped
      /\ req'[w].stale \in {NoDep, req[w].stale}
  BY <1>1 DEF IdleReq, Fresh, Req
<1> QED
  BY <1>2 DEF ReqGoes, Recovering, Replacing

\* What the request w itself does.
LEMMA ServeGoes ==
  ASSUME SweepStep, NEW w \in Actor, Serve(w) \/ Begin(w)
  PROVE  ReqGoes(w) /\ \A v \in Actor \ {w} : req'[v] = req[v]
<1>1. /\ req \in [Actor -> Req] /\ req[w] \in Req /\ ReqSwept(w) /\ ~DbError /\ ~InfraError
      /\ row \in [Dep -> Row] /\ box \in [Dep -> {"absent", "up", "down"}]
  BY NoSweepFault DEF SweepStep, Swept, TypeInv, RowsTyped, BoxesTyped
<1>2. ASSUME NEW pc, ReqTo(w, pc)
      PROVE  /\ req'[w] = [req[w] EXCEPT !.pc = pc] /\ req'[w].pc = pc
             /\ req'[w].todo = req[w].todo /\ req'[w].stopped = req[w].stopped
             /\ req'[w].stale = req[w].stale
             /\ \A v \in Actor \ {w} : req'[v] = req[v]
  BY <1>1, <1>2 DEF ReqTo, Req
<1>3. ASSUME NEW found, Recovered(w, found)
      PROVE  /\ req'[w].pc = "recover"
             /\ req'[w].todo \subseteq req[w].todo /\ req'[w].stopped = req[w].stopped
             /\ req'[w].stale = req[w].stale
             /\ \A v \in Actor \ {w} : req'[v] = req[v]
  BY <1>1, <1>3 DEF Recovered, Req
<1> DEFINE s == Newest(req[w].stopped)
<1>4. CASE Begin(w)
  <2>1. PICK m \in {"ensure", "refresh"} :
          req' = [req EXCEPT ![w] = [Fresh("recover") EXCEPT
             !.mode = m,
             !.todo = IF m = "ensure" \/ w = Boot THEN CurrentRows("live") ELSE Live,
             !.urls = {d \in Live : row[d].url},
             !.stopped = CurrentRows("stopped"),
             !.blocked = InFlightRows # {},
             !.stale = IF StaleRows = {} THEN NoDep ELSE Newest(StaleRows),
             !.wasStopped = StaleRows # {} /\ row[Newest(StaleRows)].status = "stopped"]]
    BY <1>4 DEF Begin
  <2>2. /\ req'[w].pc = "recover" /\ req'[w].todo \in {CurrentRows("live"), Live}
        /\ req'[w].stopped = CurrentRows("stopped")
        /\ req'[w].stale = IF StaleRows = {} THEN NoDep ELSE Newest(StaleRows)
        /\ \A v \in Actor \ {w} : req'[v] = req[v]
    BY <1>1, <2>1 DEF Fresh, IdleReq
  <2>5. \A x \in req'[w].todo \cup req'[w].stopped : Serves(x)
    BY <2>2 DEF CurrentRows, Live, Serves, Served
  <2>3. req[w].pc = "idle"
    BY <1>4 DEF Begin, ReqAt
  <2>4. req'[w].stale # NoDep => req'[w].stale \in StaleRows
    BY <2>2, NewestIn DEF StaleRows
  <2> QED
    BY <2>2, <2>3, <2>4, <2>5 DEF ReqGoes, Recovering, Replacing
<1>5. CASE Probe(w) \/ ClaimUrl(w)
  <2>1. /\ (req[w].pc = "recover" /\ req[w].todo # {}) \/ req[w].pc = "claim"
        /\ \E pc \in {"claim", "start"} : ReqTo(w, pc)
           \/ \E found \in BOOLEAN : Recovered(w, found)
    BY <1>1, <1>5 DEF Probe, ClaimUrl, ReqAt
  <2>2. req[w].todo # {}
    BY <1>1, <2>1 DEF ReqSwept, Recovering
  <2>3. CASE \E pc \in {"claim", "start"} : ReqTo(w, pc)
    BY <1>2, <2>1, <2>2, <2>3 DEF ReqGoes, Recovering, Replacing
  <2>4. CASE \E found \in BOOLEAN : Recovered(w, found)
    BY <1>1, <1>3, <2>1, <2>4 DEF ReqGoes, ReqSwept, Recovering, Replacing
  <2> QED
    BY <2>1, <2>3, <2>4
<1>6. CASE Restart(w)
  <2>1. Of(w) \in Dep /\ req[w].todo # {} /\ req[w].pc = "start"
    BY <1>6, Listed DEF Restart, ReqAt, Serves, Recovering
  <2>2. \/ ReqTo(w, "settle") /\ box'[Of(w)] = "up"
        \/ ReqTo(w, "giveup") /\ box'[Of(w)] = "absent"
    BY <1>1, <1>6, <2>1 DEF Restart, StartBox, StartBoxFails
  <2>3. /\ req'[w].todo = req[w].todo /\ req'[w].stopped = req[w].stopped
        /\ req'[w].stale = req[w].stale /\ \A v \in Actor \ {w} : req'[v] = req[v]
        /\ \/ req'[w].pc = "settle" /\ box'[Of(w)] = "up"
           \/ req'[w].pc = "giveup" /\ box'[Of(w)] = "absent"
    BY <1>2, <2>2
  <2> QED
    BY <2>1, <2>3 DEF ReqGoes, Recovering, Replacing
<1>7. CASE RefreshUrl(w) \/ GiveUp(w)
  <2>1. /\ Of(w) \in Dep /\ req[w].pc \in {"settle", "giveup"}
        /\ \E found \in BOOLEAN : Recovered(w, found)
    BY <1>7, Listed DEF RefreshUrl, GiveUp, ReqAt, Serves, Recovering
  <2>2. row'[Of(w)].url \/ row'[Of(w)].status # "live"
    <3>1. row[Of(w)] \in Row /\ row \in [Dep -> Row]
      BY <1>1, <2>1
    <3>2. CASE RefreshUrl(w)
      BY <2>1, <3>1, <3>2 DEF RefreshUrl, Row
    <3>3. CASE GiveUp(w)
      BY <2>1, <3>1, <3>3 DEF GiveUp, Row
    <3> QED
      BY <1>7, <3>2, <3>3
  <2> QED
    BY <1>1, <1>3, <2>1, <2>2 DEF ReqGoes, ReqSwept, Recovering, Replacing
<1>8. CASE Decide(w)
  <2>1. /\ req[w].pc = "recover" /\ \A v \in Actor \ {w} : req'[v] = req[v]
        /\ \/ req'[w] = Fresh("end")
           \/ /\ req[w].stale # NoDep
              /\ req'[w] = [Fresh("readenv") EXCEPT !.stale = req[w].stale,
                                                    !.wasStopped = req[w].wasStopped]
           \/ req[w].stopped # {} /\ req'[w] = [Fresh("wake") EXCEPT !.stopped = req[w].stopped]
    BY <1>1, <1>8 DEF Decide, ReqAt
  <2>2. CASE req'[w] = Fresh("end")
    BY <2>1, <2>2, ReqLeaves
  <2>3. CASE /\ req[w].stale # NoDep
             /\ req'[w] = [Fresh("readenv") EXCEPT !.stale = req[w].stale,
                                                   !.wasStopped = req[w].wasStopped]
    <3>1. /\ req'[w].pc = "readenv" /\ req'[w].stale = req[w].stale
          /\ req'[w].todo = {} /\ req'[w].stopped = {}
      BY <2>3 DEF Fresh, IdleReq
    <3> QED
      BY <2>1, <2>3, <3>1 DEF ReqGoes, Recovering, Replacing
  <2>4. CASE /\ req[w].stopped # {}
             /\ req'[w] = [Fresh("wake") EXCEPT !.stopped = req[w].stopped]
    <3>1. /\ req'[w].pc = "wake" /\ req'[w].stale = NoDep
          /\ req'[w].todo = {} /\ req'[w].stopped = req[w].stopped
      BY <2>4 DEF Fresh, IdleReq
    <3> QED
      BY <2>1, <2>4, <3>1 DEF ReqGoes, Recovering, Replacing
  <2> QED
    BY <2>1, <2>2, <2>3, <2>4
<1>9. CASE WakeStart(w) \/ WakePromote(w)
  <2>1. /\ req[w].pc \in {"wake", "promote"} /\ s \in req[w].stopped /\ s \in Dep
        /\ req[w].stopped # {}
    BY <1>9, Listed DEF WakeStart, WakePromote, ReqAt, Serves
  <2>2. \/ ReqTo(w, "promote") /\ (req[w].pc = "promote" \/ box'[s] = "up")
        \/ ReqTo(w, "end")
        \/ req' = [req EXCEPT ![w].stopped = @ \ {s},
                              ![w].pc = IF req[w].stopped = {s} THEN "end" ELSE "wake"]
    BY <1>1, <1>9, <2>1 DEF WakeStart, WakePromote, StartBox
  <2>3. CASE ReqTo(w, "promote") /\ (req[w].pc = "promote" \/ box'[s] = "up")
    <3>1. /\ req'[w].todo = req[w].todo /\ req'[w].stopped = req[w].stopped
          /\ req'[w].stale = req[w].stale /\ req'[w].pc = "promote"
          /\ \A v \in Actor \ {w} : req'[v] = req[v]
      BY <1>2, <2>3
    <3> QED
      BY <2>1, <2>3, <3>1 DEF ReqGoes, Recovering, Replacing
  <2>4. CASE ReqTo(w, "end")
    BY <1>2, <2>1, <2>4, ReqLeaves
  <2>5. CASE req' = [req EXCEPT ![w].stopped = @ \ {s},
                                ![w].pc = IF req[w].stopped = {s} THEN "end" ELSE "wake"]
    <3>1. /\ req'[w].pc \in {"end", "wake"} /\ req'[w].todo = req[w].todo
          /\ req'[w].stopped = req[w].stopped \ {s} /\ req'[w].stale = req[w].stale
          /\ req'[w].pc = "wake" => req[w].stopped # {s}
          /\ \A v \in Actor \ {w} : req'[v] = req[v]
      BY <1>1, <2>5 DEF Req
    <3> QED
      BY <2>1, <3>1 DEF ReqGoes, Recovering, Replacing
  <2> QED
    BY <2>2, <2>3, <2>4, <2>5
<1>10. CASE ReplaceReadEnv(w) \/ ReplaceInsert(w)
  <2>1. /\ req[w].pc \in {"readenv", "insert"}
        /\ req'[w].pc \in {"insert", "deploying"} /\ req'[w].todo = req[w].todo
        /\ req'[w].stopped = req[w].stopped /\ req'[w].stale = req[w].stale
        /\ \A v \in Actor \ {w} : req'[v] = req[v]
    BY <1>1, <1>10 DEF ReplaceReadEnv, ReplaceInsert, ReqAt, Req
  <2> QED
    BY <1>1, <2>1 DEF ReqGoes, ReqSwept, Recovering, Replacing
<1>11. CASE \/ ReplaceLoses(w) \/ Replaced(w) \/ Retire(w) \/ CheckRetired(w) \/ DestroyRetired(w)
  <2>1. /\ req[w].pc \in Replacing
        /\ \E pc \in {"end", "retire", "check", "destroy"} : ReqTo(w, pc)
    BY <1>11 DEF ReplaceLoses, Replaced, Retire, CheckRetired, DestroyRetired, ReqAt, Replacing
  <2> QED
    BY <1>1, <1>2, <2>1 DEF ReqGoes, ReqSwept, Recovering, Replacing
<1>12. CASE End(w)
  <2>1. /\ req[w].pc = "end" /\ req'[w] = IdleReq /\ \A v \in Actor \ {w} : req'[v] = req[v]
    BY <1>1, <1>12 DEF End, ReqAt, ReqEnds
  <2> QED
    BY <2>1, ReqLeaves
<1> QED
  BY <1>1, <1>4, <1>5, <1>6, <1>7, <1>8, <1>9, <1>10, <1>11, <1>12 DEF Serve, ReplaceInsertError,
     ReqDbError

LEMMA ServeSweeps ==
  ASSUME SweepStep, NEW w \in Actor, Serve(w) \/ Begin(w)
  PROVE  Writes
<1>1. /\ row \in [Dep -> Row] /\ exec \in [Dep -> Exec] /\ ~DbError /\ ~InfraError
      /\ box \in [Dep -> {"absent", "up", "down"}] /\ req \in [Actor -> Req] /\ ReqSwept(w)
  BY NoSweepFault DEF SweepStep, Swept, TypeInv, RowsTyped, BoxesTyped
<1> DEFINE d == Of(w)
           s == Newest(req[w].stopped)
           o == req[w].stale
<1>2. \A x \in Dep : RowSwept(x)
  <2>1. CASE ClaimUrl(w)
    <3>1. req[w].pc = "claim"
      BY <2>1 DEF ClaimUrl, ReqAt
    <3>2. CASE UNCHANGED row
      BY <3>2, StillSwept
    <3>3. CASE row[d].status = "live" /\ row' = [row EXCEPT ![d].url = FALSE] /\ ReqTo(w, "start")
      <4>1. /\ req'[w].pc = "start" /\ req'[w].todo = req[w].todo
        BY <1>1, <3>3 DEF ReqTo, Req
      <4>2. \A x \in Dep \ {d} : row'[x] = row[x]
        BY <1>1, <3>3
      <4>3. d \in Dep => row'[d].status = "live" /\ row'[d].rev = row[d].rev
        BY <1>1, <3>3 DEF Row
      <4>4. d \in Dep => RowSwept(d)
        BY <3>1, <3>3, <4>1, <4>3 DEF RowSwept, Served
      <4> QED
        BY <4>2, <4>4, StillSwept
    <3> QED
      BY <2>1, <3>2, <3>3 DEF ClaimUrl
  <2>2. CASE RefreshUrl(w)
    <3>1. CASE row[d].status = "live" /\ row' = [row EXCEPT ![d].url = TRUE]
      <4>1. \A x \in Dep \ {d} : row'[x] = row[x]
        BY <1>1, <3>1
      <4>2. d \in Dep => row'[d].status = "live" /\ row'[d].rev = row[d].rev /\ row'[d].url
        BY <1>1, <3>1 DEF Row
      <4>3. d \in Dep => RowSwept(d)
        BY <3>1, <4>2 DEF RowSwept, Served
      <4> QED
        BY <4>1, <4>3, StillSwept
    <3> QED
      BY <2>2, <3>1, StillSwept DEF RefreshUrl
  <2>3. CASE GiveUp(w)
    <3>1. CASE /\ row[d].status = "live"
               /\ row' = [row EXCEPT ![d].status = "stopped", ![d].url = FALSE]
      <4>1. \A x \in Dep \ {d} : row'[x] = row[x]
        BY <1>1, <3>1
      <4>2. d \in Dep => row'[d].status = "stopped" /\ row'[d].rev = row[d].rev
        BY <1>1, <3>1 DEF Row
      <4>3. d \in Dep => RowSwept(d)
        BY <3>1, <4>2 DEF RowSwept, Served
      <4> QED
        BY <4>1, <4>3, StillSwept
    <3> QED
      BY <2>3, <3>1, StillSwept DEF GiveUp
  <2>4. CASE WakePromote(w)
    <3>1. CASE /\ row[s].status = "stopped"
               /\ row' = [row EXCEPT ![s].status = "live", ![s].url = TRUE]
      <4>1. \A x \in Dep \ {s} : row'[x] = row[x]
        BY <1>1, <3>1
      <4>2. s \in Dep => row'[s].status = "live" /\ row'[s].url /\ row'[s].rev = row[s].rev
        BY <1>1, <3>1 DEF Row
      <4>3. req[w].pc = "promote" /\ UNCHANGED box
        BY <2>4 DEF WakePromote, ReqAt, boxVars
      <4>4. s \in Dep => RowSwept(s)
        BY <3>1, <4>2, <4>3 DEF RowSwept, Served
      <4> QED
        BY <4>1, <4>4, StillSwept
    <3> QED
      BY <2>4, <3>1, StillSwept DEF WakePromote
  <2>5. CASE Retire(w)
    <3>1. CASE row[o].status = "stopped" /\ row' = [row EXCEPT ![o].weighted = FALSE]
      <4>1. \A x \in Dep \ {o} : row'[x] = row[x]
        BY <1>1, <3>1
      <4>2. o \in Dep => row'[o].status = "stopped" /\ row'[o].rev = row[o].rev
        BY <1>1, <3>1 DEF Row
      <4>3. o \in Dep => RowSwept(o)
        BY <3>1, <4>2 DEF RowSwept, Served
      <4> QED
        BY <4>1, <4>3, StillSwept
    <3> QED
      BY <2>5, <3>1, StillSwept DEF Retire
  <2>6. CASE ReplaceInsert(w)
    BY <1>1, <2>6 DEF ReplaceInsert, InsertRow, IsNext, RowSwept, Served
  <2>7. CASE UNCHANGED row
    BY <2>7, StillSwept
  <2>8. ~ReplaceInsertError(w)
    BY <1>1 DEF ReplaceInsertError
  <2> QED
    BY <2>1, <2>2, <2>3, <2>4, <2>5, <2>6, <2>7, <2>8 DEF Serve, Begin, Probe, Restart, Decide,
       WakeStart, ReplaceReadEnv, ReplaceLoses, Replaced, CheckRetired, DestroyRetired,
       ReqDbError, End, rowVars
<1>3. \A x \in Dep : BoxSwept(x)
  <2>1. ASSUME NEW y, StartBox(y) \/ StartBoxFails(y) PROVE \A x \in Dep : BoxSwept(x)
    BY <1>1, <2>1 DEF StartBox, StartBoxFails, BoxSwept
  <2>2. CASE Restart(w) \/ WakeStart(w)
    BY <2>1, <2>2 DEF Restart, WakeStart
  <2>3. CASE DestroyRetired(w)
    BY <1>1, <2>3 DEF DestroyRetired, ReqAt, Destroy, boxVars, BoxSwept
  <2>4. CASE UNCHANGED box
    BY <2>4 DEF BoxSwept
  <2> QED
    BY <2>2, <2>3, <2>4 DEF Serve, Begin, Probe, ClaimUrl, RefreshUrl, GiveUp, Decide,
       WakePromote, ReplaceReadEnv, ReplaceInsert, ReplaceLoses, Replaced, Retire, CheckRetired,
       ReplaceInsertError, ReqDbError, End, boxVars
<1>4. \A x \in Dep : CallGoes(x)
  <2>1. CASE ReplaceInsert(w)
    <3>1. PICK x \in Dep : /\ InsertRow(x, "building", req[w].rev)
                           /\ exec' = [exec EXCEPT ![x] = [IdleExec EXCEPT !.pc = "resolve",
                                                             !.rev = req[w].rev, !.by = w]]
      BY <2>1 DEF ReplaceInsert
    <3>2. row'[x].status = "building"
      BY <1>1, <3>1 DEF InsertRow
    <3>3. exec'[x].pc = "resolve" /\ \A y \in Dep \ {x} : exec'[y] = exec[y]
      BY <1>1, <3>1 DEF IdleExec
    <3>4. CallGoes(x)
      BY <3>2, <3>3 DEF CallGoes, Begun, Ready
    <3> QED
      BY <3>3, <3>4, StillSwept
  <2>2. CASE Replaced(w)
    <3>1. \A y \in Dep : exec'[y] = exec[y] \/ exec'[y].pc = "idle"
      BY <1>1, <2>2 DEF Replaced, Settled, IdleExec
    <3>2. \A y \in Dep : exec'[y].pc = "idle" => CallGoes(y)
      BY DEF CallGoes, Begun, Working, Ready
    <3> QED
      BY <3>1, <3>2, StillSwept
  <2>3. CASE UNCHANGED exec
    BY <2>3, StillSwept
  <2> QED
    BY <2>1, <2>2, <2>3 DEF Serve, Begin, Probe, ClaimUrl, Restart, RefreshUrl, GiveUp, Decide,
       WakeStart, WakePromote, ReplaceReadEnv, ReplaceLoses, Retire, CheckRetired,
       DestroyRetired, ReplaceInsertError, ReqDbError, End
<1> QED
  BY <1>2, <1>3, <1>4 DEF Writes

\* The lane, which only reconciles then, users, and the environment.
LEMMA OthersSweep ==
  ASSUME SweepStep,
         \/ LaneNext
         \/ Bump \/ Invalidate \/ Deadline \/ BoxDies \/ DeleteFailed \/ Crash \/ Requeue
         \/ \E r \in Run : RunStart(r) \/ RunFinish(r)
         \/ \E d \in Dep : QueueDeploy(d) \/ EnqueueDeploy(d) \/ EnqueueDeployError(d)
         \/ UNCHANGED vars
  PROVE  Writes /\ UNCHANGED req /\ BootLane'
<1>1. /\ row \in [Dep -> Row] /\ ~DbError /\ ~InfraError /\ BootLane /\ lane \in Lane
      /\ phase # "booted" /\ phase' # "booted" /\ crashes' = crashes
  BY NoSweepFault DEF SweepStep, Sweeping, Swept, TypeInv, RowsTyped
<1>2. crashes' # crashes + 1
  <2>1. crashes \in Nat
    BY StateAssumption DEF SweepStep, TypeInv, FaultsTyped
  <2> QED
    BY <1>1, <2>1
<1>3. CASE LaneNext
  <2>1. UNCHANGED <<exec, box, req>>
    BY <1>1, <1>3 DEF BootLane, LaneNext, ClaimInline, LaneDbError, ReadDrained, DrainWaits,
       DrainOver, DrainStops, MarkStopped, ReapRuns, ScheduleCleanup, CheckCleanup, DestroyBox,
       StartSweep, ReadDesired, ReadRows, ReconcileLater, ReconcileInserts, ReconcileInsertThrows,
       ReconcileEnqueues, EndSweep, CompleteInline, RetryInline, LaneStep, LaneEnds, boxVars, LaneAt
  <2>2. \A x \in Dep : RowSwept(x)
    <3>1. CASE ReconcileInserts
      BY <1>1, <3>1 DEF ReconcileInserts, InsertRow, IsNext, RowSwept, Served
    <3>2. CASE UNCHANGED row
      BY <3>2, StillSwept
    <3> QED
      BY <1>1, <1>3, <3>1, <3>2 DEF BootLane, LaneNext, ClaimInline, LaneDbError, ReadDrained,
         DrainWaits, DrainOver, DrainStops, MarkStopped, ReapRuns, ScheduleCleanup, CheckCleanup,
         DestroyBox, StartSweep, ReadDesired, ReadRows, ReconcileLater, ReconcileInsertThrows,
         ReconcileEnqueues, EndSweep, CompleteInline, RetryInline, LaneStep, LaneEnds, rowVars, LaneAt
  <2>3. BootLane'
    <3>1. ASSUME NEW pc, LaneTo(pc) PROVE lane'.pc = pc
      BY <1>1, <3>1 DEF LaneTo, Lane
    <3>2. CASE \E pc \in {"read", "rows", "retry", "insert", "queue", "done", "threw"} : LaneTo(pc)
      BY <3>1, <3>2 DEF BootLane
    <3>3. CASE lane' = IdleLane
      BY <3>3 DEF IdleLane, BootLane
    <3>4. CASE ReadDesired \/ ReconcileInserts
      BY <1>1, <3>4 DEF ReadDesired, ReconcileInserts, Lane, BootLane
    <3>5. CASE ReadRows \/ ReconcileLater \/ ReconcileInsertThrows \/ ReconcileEnqueues \/ StartSweep
      BY <3>2, <3>5 DEF ReadRows, ReconcileLater, ReconcileInsertThrows, ReconcileEnqueues, StartSweep
    <3>6. CASE EndSweep \/ CompleteInline \/ RetryInline
      BY <1>1, <3>3, <3>6 DEF EndSweep, CompleteInline, RetryInline
    <3> QED
      BY <1>1, <1>3, <3>4, <3>5, <3>6 DEF LaneNext, BootLane, LaneAt, LaneDbError, ReadDrained,
         DrainWaits, DrainOver, DrainStops, MarkStopped, ReapRuns, ScheduleCleanup, CheckCleanup,
         DestroyBox, ClaimInline
  <2> QED
    BY <2>1, <2>2, <2>3, StillSwept DEF Writes
<1>4. CASE DeleteFailed \/ \E d \in Dep : QueueDeploy(d)
  <2>1. UNCHANGED <<exec, box, req, lane>>
    BY <1>4 DEF DeleteFailed, QueueDeploy, actorVars, boxVars
  <2>2. \A x \in Dep : RowSwept(x)
    <3>1. CASE DeleteFailed
      BY <1>1, <3>1 DEF DeleteFailed, NoRow, RowSwept, Served
    <3>2. CASE \E d \in Dep : QueueDeploy(d)
      BY <1>1, <3>2 DEF QueueDeploy, InsertRow, IsNext, RowSwept, Served
    <3> QED
      BY <1>4, <3>1, <3>2
  <2> QED
    BY <1>1, <2>1, <2>2, StillSwept DEF Writes, BootLane
<1>5. CASE \/ Bump \/ Invalidate \/ Deadline \/ Requeue
           \/ \E r \in Run : RunStart(r) \/ RunFinish(r)
           \/ \E d \in Dep : EnqueueDeploy(d)
           \/ UNCHANGED vars
  <2>1. UNCHANGED <<row, exec, box, req, lane>>
    BY <1>5 DEF Bump, Invalidate, Deadline, Requeue, RunStart, RunFinish, EnqueueDeploy, vars,
                rowVars, boxVars, actorVars
  <2> QED
    BY <1>1, <2>1, StillSwept DEF Writes, BootLane
<1> QED
  BY <1>1, <1>2, <1>3, <1>4, <1>5 DEF BoxDies, Crash, EnqueueDeployError

---------------------------------------------------------------------------
(* The invariant.                                                          *)

\* A step is taken by one actor.
LEMMA SweepWrites ==
  ASSUME SweepStep
  PROVE  /\ Writes /\ BootLane'
         /\ \A w \in Actor : ReqGoes(w)
         /\ \A w \in Actor : req'[w] # req[w] => (Serve(w) \/ Begin(w))
                                             /\ \A v \in Actor \ {w} : req'[v] = req[v]
<1>1. [Next]_vars /\ BootLane
  BY DEF SweepStep, Swept
<1>2. CASE \E d \in Dep : Execute(d)
  <2>1. UNCHANGED <<req, lane>>
    BY ZenonT(100), <1>2 DEF Execute, BeginDeploy, ReadEnv, TakeRow, TakeRowThrows, TakeRowError,
       ResolveEnv, LaunchLive,
       LaunchFails, ReadSiblings, Demote, DemoteError, Promote, PromoteError, Audit, AuditError,
       ScheduleDrain, Finish, AbortInfra, FailRow, FailRowError, CompleteDeploy,
       CompleteDeployError, DeployFailed, RetryDeploy, RetryDeployError, ExecStep, JobStep
  <2> QED
    BY <1>1, <1>2, <2>1, ExecuteSweeps, ReqStays DEF BootLane
<1>3. ASSUME NEW w \in Actor, Serve(w) \/ Begin(w)
      PROVE  /\ Writes /\ BootLane'
             /\ \A v \in Actor : ReqGoes(v)
             /\ \A v \in Actor \ {w} : req'[v] = req[v]
  <2>1. UNCHANGED lane
    BY <1>3 DEF Begin, Serve, Probe, ClaimUrl, Restart, RefreshUrl, GiveUp,
       Decide, WakeStart, WakePromote, ReplaceReadEnv, ReplaceInsert, ReplaceLoses, Replaced,
       Retire, CheckRetired, DestroyRetired, ReplaceInsertError, ReqDbError, End, ReqStep
  <2>2. ReqGoes(w) /\ \A v \in Actor \ {w} : req'[v] = req[v]
    BY <1>3, ServeGoes
  <2> QED
    BY <1>1, <1>3, <2>1, <2>2, ServeSweeps, ReqStays DEF BootLane
<1>4. CASE \/ LaneNext
           \/ Bump \/ Invalidate \/ Deadline \/ BoxDies \/ DeleteFailed \/ Crash \/ Requeue
           \/ \E r \in Run : RunStart(r) \/ RunFinish(r)
           \/ \E d \in Dep : QueueDeploy(d) \/ EnqueueDeploy(d) \/ EnqueueDeployError(d)
           \/ UNCHANGED vars
  BY <1>4, OthersSweep, ReqStays
<1>5. CASE WakeNext
  BY <1>3, <1>5 DEF WakeNext
<1> QED
  BY <1>1, <1>2, <1>4, <1>5 DEF Next, ControllerNext

LEMMA RevisionStep ==
  ASSUME [Next]_vars
  PROVE  envRev' = envRev \/ Bump
<1>1. ASSUME NEW d \in Dep, Execute(d) PROVE envRev' = envRev
  BY <1>1 DEF Execute, BeginDeploy, ReadEnv, TakeRow, TakeRowThrows, TakeRowError, ResolveEnv,
     LaunchLive,
     LaunchFails, ReadSiblings, Demote, DemoteError, Promote, PromoteError, Audit, AuditError,
     ScheduleDrain, Finish, AbortInfra, FailRow, FailRowError, CompleteDeploy,
     CompleteDeployError, DeployFailed, RetryDeploy, RetryDeployError, ExecStep, JobStep, rowVars
<1>2. CASE ControllerNext
  BY <1>1, <1>2 DEF ControllerNext, DeleteFailed, QueueDeploy, EnqueueDeploy,
                    EnqueueDeployError, rowVars
<1>3. CASE LaneNext
  BY <1>3 DEF LaneNext, ClaimInline, LaneDbError, ReadDrained, DrainWaits, DrainOver,
     DrainStops, MarkStopped, ReapRuns, ScheduleCleanup, CheckCleanup, DestroyBox, StartSweep,
     ReadDesired, ReadRows, ReconcileLater, ReconcileInserts, ReconcileInsertThrows,
     ReconcileEnqueues, EndSweep, CompleteInline, RetryInline, LaneStep, LaneEnds, rowVars
<1>4. ASSUME NEW w \in Actor, Begin(w) \/ Serve(w) PROVE envRev' = envRev
  BY <1>4 DEF Begin, Serve, Probe, ClaimUrl, Restart, RefreshUrl, GiveUp,
     Decide, WakeStart, WakePromote, ReplaceReadEnv, ReplaceInsert, ReplaceLoses, Replaced,
     Retire, CheckRetired, DestroyRetired, ReplaceInsertError, ReqDbError, End, ReqStep, rowVars
<1> QED
  BY <1>2, <1>3, <1>4 DEF Next, WakeNext, Invalidate, Deadline, BoxDies, Crash, Requeue,
                          RunStart, RunFinish, vars, rowVars

LEMMA RevisionRises ==
  ASSUME SweepStep
  PROVE  envRev \in Nat /\ envRev' \in Nat /\ envRev <= envRev'
<1>1. envRev \in Nat /\ MaxRev \in Nat
  BY StateAssumption DEF SweepStep, TypeInv, RowsTyped, Rev
<1>2. CASE Bump
  BY <1>1, <1>2 DEF Bump
<1>3. CASE envRev' = envRev
  BY <1>1, <1>3
<1> QED
  BY <1>2, <1>3, RevisionStep DEF SweepStep

\* A container that runs, or whose deployment is out of date, stays so.
LEMMA RunsKept ==
  ASSUME SweepStep, NEW x \in Dep, row[x].status \in Served
  PROVE  /\ row'[x].status \in Served /\ row'[x].rev = row[x].rev /\ row[x].rev \in Nat
         /\ row[x].rev < envRev => row'[x].rev < envRev'
         /\ Runs(x) => Runs(x)'
         /\ row'[x].rev >= envRev' /\ box[x] = "up" => box'[x] = "up"
         /\ box[x] = "absent" => box'[x] = "absent"
<1>1. RowSwept(x) /\ BoxSwept(x) /\ CallSwept(x) /\ \A w \in Actor : ReqSwept(w)
  BY SweepWrites DEF Writes, SweepStep, Swept
<1>2. row[x].rev \in Nat
  BY StateAssumption DEF SweepStep, TypeInv, RowsTyped, Row, Rev
<1>3. row'[x].status \in Served /\ row'[x].rev = row[x].rev
  BY <1>1 DEF RowSwept
<1>4. row[x].rev < envRev => row'[x].rev < envRev'
  BY <1>2, <1>3, RevisionRises
<1>5. exec[x].pc \notin Working
  BY <1>1 DEF CallSwept, Served
<1>6. \/ box'[x] = box[x]
      \/ box[x] # "absent" /\ box'[x] = "up"
      \/ box'[x] = "absent" /\ row[x].rev < envRev
  BY <1>1, <1>5 DEF BoxSwept, Working, ReqSwept, Replacing
<1> QED
  BY <1>2, <1>3, <1>4, <1>6, RevisionRises DEF Runs

LEMMA CallSweptKept ==
  ASSUME SweepStep, NEW x \in Dep
  PROVE  CallSwept(x)'
<1>1. /\ RowSwept(x) /\ BoxSwept(x) /\ CallGoes(x) /\ CallSwept(x) /\ \A w \in Actor : ReqSwept(w)
  BY SweepWrites DEF Writes, SweepStep, Swept
<1>2. exec'[x].pc \notin Begun
  BY <1>1 DEF CallGoes
<1>3. exec'[x].pc \in Working => row'[x].status = "building"
  BY <1>1 DEF CallGoes, CallSwept, RowSwept
<1>4. exec'[x].pc \in Ready => box'[x] = "up"
  <2>1. CASE exec[x].pc \in Ready
    <3>1. row[x].status = "building" /\ box[x] = "up" /\ exec[x].pc \notin {"launch", "abort"}
      BY <1>1, <2>1 DEF CallSwept, Ready, Working
    <3>2. ~ \E w \in Actor : req[w].pc = "destroy" /\ x = req[w].stale
      BY <1>1, <3>1 DEF ReqSwept, Replacing, Serves, Served
    <3> QED
      BY <1>1, <3>1, <3>2 DEF BoxSwept
  <2> QED
    BY <1>1, <2>1 DEF CallGoes
<1>5. ASSUME exec'[x].pc = "demote", NEW y \in exec'[x].todo PROVE Serves(y)'
  <2>1. Serves(y)
    BY <1>1, <1>5 DEF CallGoes, CallSwept, Live, Serves, Served
  <2> QED
    BY <2>1, RunsKept DEF Serves
<1> QED
  BY <1>2, <1>3, <1>4, <1>5 DEF CallSwept

LEMMA ReqSweptKept ==
  ASSUME SweepStep, NEW w \in Actor
  PROVE  ReqSwept(w)'
<1>1. ReqSwept(w) /\ ReqGoes(w)
  BY SweepWrites DEF SweepStep, Swept
<1>2. ASSUME NEW x, Serves(x)
      PROVE  /\ Serves(x)' /\ (Runs(x) => Runs(x)')
             /\ row[x].rev < envRev => row'[x].rev < envRev'
             /\ box[x] = "absent" => box'[x] = "absent"
  BY <1>2, RunsKept DEF Serves
<1>3. \A x \in req'[w].todo \cup req'[w].stopped : Serves(x)'
  BY <1>1, <1>2 DEF ReqSwept, ReqGoes
<1>4. ASSUME req'[w].stale # NoDep
      PROVE  Serves(req[w].stale)' /\ row'[req'[w].stale].rev < envRev'
  <2>1. PICK o : o = req'[w].stale
    OBVIOUS
  <2>2. Serves(o) /\ row[o].rev < envRev
    BY <1>1, <1>4, <2>1 DEF ReqSwept, ReqGoes, StaleRows, Serves, Served
  <2>3. /\ o \in Dep /\ row'[o].status \in Served /\ row'[o].rev < envRev'
    BY <2>2, RunsKept DEF Serves
  <2> QED
    BY <2>1, <2>3 DEF Serves
<1>5. ASSUME req'[w].pc \in Recovering
      PROVE  /\ req'[w].todo # {}
             /\ req'[w].pc = "settle" => Runs(Of(w))'
             /\ req'[w].pc = "giveup" => box'[Of(w)'] = "absent"
  <2>1. req'[w].todo = req[w].todo /\ req[w].todo # {} /\ Of(w)' = Of(w)
    BY <1>1, <1>5 DEF ReqGoes, Of
  <2>2. Serves(Of(w))
    BY <2>1, Listed
  <2>3. req'[w].pc = "settle" => Runs(Of(w))'
    <3>1. req'[w].pc = "settle" /\ req[w].pc = "settle" => Runs(Of(w))'
      BY <1>1, <1>2, <2>1, <2>2 DEF ReqSwept, Runs
    <3>2. req'[w].pc = "settle" /\ box'[Of(w)] = "up" => Runs(Of(w))'
      BY <2>1 DEF Runs
    <3> QED
      BY <1>1, <3>1, <3>2 DEF ReqGoes
  <2>4. req'[w].pc = "giveup" => box'[Of(w)'] = "absent"
    BY <1>1, <1>2, <2>1, <2>2 DEF ReqSwept, ReqGoes
  <2> QED
    BY <2>1, <2>3, <2>4
<1>6. ASSUME req'[w].pc = "promote" PROVE Runs(Newest(req[w].stopped))'
  <2>1. req'[w].stopped = req[w].stopped /\ req[w].stopped # {}
    BY <1>1, <1>6 DEF ReqGoes
  <2>2. Serves(Newest(req[w].stopped))
    <3>1. req[w].stopped \subseteq Dep
      BY DEF SweepStep, TypeInv, Req
    <3> QED
      BY <1>1, <2>1, <3>1, NewestIn DEF ReqSwept
  <2>3. CASE req[w].pc = "promote"
    BY <1>1, <1>2, <2>1, <2>2, <2>3 DEF ReqSwept, Runs
  <2>4. CASE box'[Newest(req[w].stopped)] = "up"
    BY <2>1, <2>4 DEF Runs
  <2> QED
    BY <1>1, <1>6, <2>3, <2>4 DEF ReqGoes
<1> QED
  BY <1>1, <1>3, <1>4, <1>5, <1>6 DEF ReqSwept, ReqGoes, Recovering

\* A URL that is being refreshed is there, or still being refreshed.
LEMMA RefreshKept ==
  ASSUME SweepStep, NEW d \in Dep, row'[d].status = "live"
  PROVE  /\ Refreshes(d, {"start", "settle", "giveup"}) =>
              row'[d].url \/ Refreshes(d, {"start", "settle", "giveup"})'
         /\ Refreshes(d, {"start", "settle"}) /\ box'[d] # "absent" =>
              row'[d].url \/ Refreshes(d, {"start", "settle"})'
<1>1. ASSUME NEW w \in Actor, req[w].pc \in {"start", "settle", "giveup"}, Of(w) = d, ~row'[d].url
      PROVE  /\ Of(w)' = d /\ req'[w].pc \in {"start", "settle", "giveup"}
             /\ req'[w].pc = "giveup" => req[w].pc = "giveup" \/ box'[d] = "absent"
  <2>1. /\ req'[w].todo = req[w].todo
        /\ \/ req'[w].pc = req[w].pc
           \/ req[w].pc = "start" /\ req'[w].pc = "settle"
           \/ req[w].pc = "start" /\ req'[w].pc = "giveup" /\ box'[d] = "absent"
    BY <1>1, SweepWrites DEF ReqGoes
  <2> QED
    BY <1>1, <2>1 DEF Of
<1> QED
  BY <1>1 DEF Refreshes

\* Of a current live row: the container is up, and its URL there or being
\* refreshed.
LEMMA RestoredKept ==
  ASSUME SweepStep, NEW d \in Dep, row'[d].status = "live", row'[d].rev >= envRev'
  PROVE  /\ row[d].status = "live" /\ Restored(d) => Restored(d)'
         /\ row[d].status # "live" => Restored(d)' /\ row'[d].url
         /\ row[d].status = "live" => row[d].rev >= envRev
<1>1. /\ RowSwept(d) /\ BoxSwept(d) /\ CallSwept(d) /\ CallSwept(d)' /\ \A w \in Actor : ReqSwept(w)
  BY SweepWrites, CallSweptKept DEF Writes, SweepStep, Swept
<1>2. CASE row[d].status # "live"
  <2>1. /\ row'[d].url /\ row'[d].rev = row[d].rev /\ box'[d] = box[d]
        /\ exec[d].pc = "demote" \/ \E w \in Actor : req[w].pc = "promote" /\ Newest(req[w].stopped) = d
    BY <1>1, <1>2 DEF RowSwept
  <2>2. row[d].rev \in Nat /\ row'[d].rev \in Nat
    BY <2>1, StateAssumption DEF SweepStep, TypeInv, RowsTyped, Row, Rev
  <2>3. ~(row[d].rev < envRev)
    BY <2>1, <2>2, RevisionRises
  <2>4. box[d] = "up"
    BY <1>1, <2>1, <2>3 DEF CallSwept, Ready, ReqSwept, Runs
  <2> QED
    BY <1>2, <2>1, <2>4 DEF Restored
<1>3. CASE row[d].status = "live"
  <2>1. /\ row'[d].rev = row[d].rev /\ row[d].rev \in Nat /\ (box[d] = "up" => box'[d] = "up")
    BY <1>3, RunsKept DEF Served
  <2>2. row[d].rev >= envRev
    BY <2>1, RevisionRises
  <2>3. ASSUME Restored(d) PROVE Restored(d)'
    <3>1. box'[d] = "up"
      BY <2>1, <2>3 DEF Restored
    <3>2. CASE Refreshes(d, {"start", "settle"})
      BY <3>1, <3>2, RefreshKept DEF Restored
    <3>3. CASE row[d].url
      <4>1. CASE row'[d].url
        BY <3>1, <4>1 DEF Restored
      <4>2. CASE \E w \in Actor : /\ req[w].pc = "claim" /\ Of(w) = d
                                  /\ req'[w].pc = "start" /\ req'[w].todo = req[w].todo
        <5>1. Refreshes(d, {"start", "settle"})'
          BY <4>2 DEF Refreshes, Of
        <5> QED
          BY <3>1, <5>1 DEF Restored
      <4> QED
        BY <1>1, <1>3, <3>3, <4>1, <4>2 DEF RowSwept
    <3> QED
      BY <2>3, <3>2, <3>3 DEF Restored
  <2> QED
    BY <1>3, <2>2, <2>3
<1> QED
  BY <1>2, <1>3

\* Who moves the boot chain on.
LEMMA PhaseStep ==
  ASSUME [Next]_vars
  PROVE  \/ phase' = phase \/ phase' = "booted"
         \/ phase = "requeue" /\ phase' = "env" /\ UNCHANGED req
         \/ End(Boot) /\ phase' = "requeue"
         \/ Crash
<1>2. ASSUME NEW d \in Dep, Execute(d) PROVE phase' = phase
  BY <1>2 DEF Execute, BeginDeploy, ReadEnv, TakeRow, TakeRowThrows, TakeRowError, ResolveEnv,
     LaunchLive,
     LaunchFails, ReadSiblings, Demote, DemoteError, Promote, PromoteError, Audit, AuditError,
     ScheduleDrain, Finish, AbortInfra, FailRow, FailRowError, CompleteDeploy,
     CompleteDeployError, DeployFailed, RetryDeploy, RetryDeployError, ExecStep, JobStep
<1>3. CASE ControllerNext
  BY <1>2, <1>3 DEF ControllerNext, DeleteFailed, QueueDeploy, EnqueueDeploy, EnqueueDeployError
<1>4. CASE LaneNext
  BY <1>4 DEF LaneNext, ClaimInline, LaneDbError, ReadDrained, DrainWaits, DrainOver,
     DrainStops, MarkStopped, ReapRuns, ScheduleCleanup, CheckCleanup, DestroyBox, StartSweep,
     ReadDesired, ReadRows, ReconcileLater, ReconcileInserts, ReconcileInsertThrows,
     ReconcileEnqueues, EndSweep, CompleteInline, RetryInline, LaneStep, LaneEnds
<1>5. ASSUME NEW w \in Actor, Begin(w) \/ Serve(w)
      PROVE  phase' = phase \/ (End(Boot) /\ phase' = "requeue")
  <2>1. CASE End(w)
    <3>1. phase' = IF w = Boot THEN "requeue" ELSE phase
      BY <2>1 DEF End
    <3>2. CASE w = Boot
      BY <2>1, <3>1, <3>2
    <3>3. CASE w # Boot
      BY <3>1, <3>3
    <3> QED
      BY <3>2, <3>3
  <2>2. CASE Begin(w) \/ Probe(w) \/ ClaimUrl(w)
    <3>1. ReqStep
      BY <2>2 DEF Begin, Probe, ClaimUrl
    <3> QED
      BY <3>1 DEF ReqStep
  <2>3. CASE RefreshUrl(w) \/ GiveUp(w) \/ Restart(w)
    <3>1. ReqStep
      BY <2>3 DEF RefreshUrl, GiveUp, Restart
    <3> QED
      BY <3>1 DEF ReqStep
  <2>4. CASE Decide(w) \/ WakeStart(w) \/ WakePromote(w)
    <3>1. ReqStep
      BY <2>4 DEF Decide, WakeStart, WakePromote
    <3> QED
      BY <3>1 DEF ReqStep
  <2>5. CASE ReplaceReadEnv(w) \/ ReplaceInsert(w) \/ ReplaceLoses(w)
    <3>1. ReqStep
      BY <2>5 DEF ReplaceReadEnv, ReplaceInsert, ReplaceLoses
    <3> QED
      BY <3>1 DEF ReqStep
  <2>6. CASE Replaced(w) \/ Retire(w)
    <3>1. ReqStep
      BY <2>6 DEF Replaced, Retire
    <3> QED
      BY <3>1 DEF ReqStep
  <2>7. CASE CheckRetired(w) \/ DestroyRetired(w) \/ ReplaceInsertError(w) \/ ReqDbError(w)
    <3>1. ReqStep
      BY <2>7 DEF CheckRetired, DestroyRetired, ReplaceInsertError, ReqDbError
    <3> QED
      BY <3>1 DEF ReqStep
  <2> QED
    BY <1>5, <2>1, <2>2, <2>3, <2>4, <2>5, <2>6, <2>7 DEF Serve
<1>6. CASE Requeue
  BY <1>6 DEF Requeue, actorVars
<1> QED
  BY <1>3, <1>4, <1>5, <1>6 DEF Next, WakeNext, Bump, Invalidate, Deadline, BoxDies,
                                RunStart, RunFinish, vars

BootGoes ==
  /\ req'[Boot].pc \in {"idle", "recover", "end"} \cup Recovering
  /\ req'[Boot].mode = "refresh"
  /\ req'[Boot].pc \in {"idle", "end"} => req'[Boot].todo = {}
  /\ req'[Boot].pc # "idle" => phase = "sweep" /\ phase' = "sweep"
  /\ \A d \in req'[Boot].urls : d \in req[Boot].urls \/ (UNCHANGED row /\ row[d].url)
  /\ \A d \in Dep : row'[d].status = "live" /\ row'[d].rev >= envRev' =>
       \/ d \in req'[Boot].todo
       \/ req[Boot].pc # "idle" /\ d \notin req[Boot].todo
       \/ Restored(d)'

LEMMA BootSteps ==
  ASSUME SweepStep, Serve(Boot) \/ Begin(Boot)
  PROVE  BootGoes
<1>1. /\ Boot \in Actor /\ req \in [Actor -> Req] /\ req[Boot] \in Req /\ BootSwept
      /\ ReqSwept(Boot) /\ ~DbError /\ ~InfraError /\ row \in [Dep -> Row]
      /\ \A v \in Actor \ {Boot} : req'[v] = req[v]
  BY NoSweepFault, ServeGoes DEF SweepStep, Swept, TypeInv, RowsTyped, Actor
<1> DEFINE r == req[Boot]
           b == Of(Boot)
<1>2. ASSUME NEW pc, ReqTo(Boot, pc)
      PROVE  /\ req'[Boot].pc = pc /\ req'[Boot].todo = r.todo
             /\ req'[Boot].urls = r.urls /\ req'[Boot].mode = "refresh"
  BY <1>1, <1>2 DEF ReqTo, Req, BootSwept
<1>3. ASSUME NEW found, Recovered(Boot, found)
      PROVE  /\ req'[Boot].pc = "recover" /\ req'[Boot].todo = r.todo \ {b}
             /\ req'[Boot].urls = r.urls /\ req'[Boot].mode = "refresh"
  BY <1>1, <1>3 DEF Recovered, Req, BootSwept
<1>4. ASSUME r.pc # "idle", phase' = phase,
             \/ \E pc \in Recovering : ReqTo(Boot, pc)
             \/ /\ \E found \in BOOLEAN : Recovered(Boot, found)
                /\ \A d \in Dep : d = b /\ row'[d].status = "live" /\ row'[d].rev >= envRev'
                                 => Restored(d)'
      PROVE  BootGoes
  <2>1. phase = "sweep"
    BY <1>1, <1>4 DEF BootSwept
  <2>2. CASE \E pc \in Recovering : ReqTo(Boot, pc)
    <3>1. /\ req'[Boot].pc \in Recovering /\ req'[Boot].todo = r.todo
          /\ req'[Boot].urls = r.urls /\ req'[Boot].mode = "refresh"
      BY <1>2, <2>2
    <3>2. \A d \in Dep : d \in req'[Boot].todo \/ d \notin r.todo
      BY <3>1
    <3>3. req'[Boot].pc \notin {"idle", "end"}
      BY <3>1 DEF Recovering
    <3> QED
      BY <1>4, <2>1, <3>1, <3>2, <3>3 DEF BootGoes
  <2>3. CASE /\ \E found \in BOOLEAN : Recovered(Boot, found)
             /\ \A d \in Dep : d = b /\ row'[d].status = "live" /\ row'[d].rev >= envRev'
                              => Restored(d)'
    <3>1. /\ req'[Boot].pc = "recover" /\ req'[Boot].todo = r.todo \ {b}
          /\ req'[Boot].urls = r.urls /\ req'[Boot].mode = "refresh"
      BY <1>3, <2>3
    <3>2. \A d \in Dep : d = b \/ d \in req'[Boot].todo \/ d \notin r.todo
      BY <3>1
    <3>3. req'[Boot].pc \notin {"idle", "end"}
      BY <3>1
    <3> QED
      BY <1>4, <2>1, <2>3, <3>1, <3>2, <3>3 DEF BootGoes
  <2> QED
    BY <1>4, <2>2, <2>3
<1>5. CASE Begin(Boot)
  <2>1. /\ phase = "sweep" /\ phase' = "sweep" /\ r.pc = "idle" /\ envRev' = envRev /\ row' = row
    BY <1>5 DEF Begin, ReqAt, ReqStep
  <2>2. PICK m \in {"refresh"} :
          req' = [req EXCEPT ![Boot] = [Fresh("recover") EXCEPT
             !.mode = m,
             !.todo = IF m = "ensure" \/ Boot = Boot THEN CurrentRows("live") ELSE Live,
             !.urls = {d \in Live : row[d].url},
             !.stopped = CurrentRows("stopped"),
             !.blocked = InFlightRows # {},
             !.stale = IF StaleRows = {} THEN NoDep ELSE Newest(StaleRows),
             !.wasStopped = StaleRows # {} /\ row[Newest(StaleRows)].status = "stopped"]]
    BY <1>5 DEF Begin
  <2>3. /\ req'[Boot].pc = "recover" /\ req'[Boot].mode = "refresh"
        /\ req'[Boot].todo = CurrentRows("live") /\ req'[Boot].urls = {d \in Live : row[d].url}
    BY <1>1, <2>2 DEF Fresh, IdleReq
  <2> QED
    BY <2>1, <2>3 DEF BootGoes, CurrentRows, Recovering
<1>6. CASE Probe(Boot)
  <2>1. /\ r.pc = "recover" /\ r.todo # {} /\ UNCHANGED <<row, box, phase>>
        /\ \/ b \in r.urls /\ box[b] = "up" /\ Recovered(Boot, TRUE)
           \/ ReqTo(Boot, "claim")
    BY <1>1, <1>6 DEF Probe, ReqAt, ReqStep, boxVars
  <2>2. CASE ReqTo(Boot, "claim")
    BY <1>4, <2>1, <2>2 DEF Recovering
  <2>3. CASE b \in r.urls /\ box[b] = "up" /\ Recovered(Boot, TRUE)
    <3>1. ASSUME NEW d \in Dep, d = b, row'[d].status = "live" PROVE Restored(d)'
      <4>1. row[d].url \/ Refreshes(d, {"start", "settle", "giveup"})
        BY <1>1, <2>1, <2>3, <3>1 DEF BootSwept
      <4>2. CASE row[d].url
        BY <2>1, <2>3, <3>1, <4>2 DEF Restored
      <4>3. CASE Refreshes(d, {"start", "settle", "giveup"})
        <5>1. PICK w \in Actor : req[w].pc \in {"start", "settle", "giveup"} /\ Of(w) = d
          BY <4>3 DEF Refreshes
        <5>2. w # Boot /\ req[w].pc # "giveup"
          BY <2>1, <2>3, <3>1, <5>1 DEF SweepStep, Swept, ReqSwept
        <5>3. req'[w] = req[w]
          BY <1>1, <5>2
        <5>4. Refreshes(d, {"start", "settle"})'
          BY <5>1, <5>2, <5>3 DEF Refreshes, Of
        <5> QED
          BY <2>1, <2>3, <3>1, <5>4 DEF Restored
      <4> QED
        BY <4>1, <4>2, <4>3
    <3> QED
      BY <1>4, <2>1, <2>3, <3>1
  <2> QED
    BY <2>1, <2>2, <2>3
<1>7. CASE ClaimUrl(Boot) \/ RefreshUrl(Boot) \/ GiveUp(Boot)
  <2>1. /\ r.pc \in {"claim", "settle", "giveup"} /\ UNCHANGED phase
        /\ b \in r.todo /\ Serves(b)
    BY <1>1, <1>7, Listed DEF ClaimUrl, RefreshUrl, GiveUp, ReqAt, ReqStep, Recovering
  <2>5. CASE ClaimUrl(Boot)
    <3>1. \/ ReqTo(Boot, "start")
          \/ Recovered(Boot, FALSE) /\ row' = row /\ row[b].status # "live"
      <4>1. CASE row[b].status = "live"
        BY <2>5, <4>1 DEF ClaimUrl
      <4>2. CASE row[b].status # "live"
        BY <2>5, <4>2 DEF ClaimUrl
      <4> QED
        BY <4>1, <4>2
    <3>2. \A d \in Dep : d = b /\ row'[d].status = "live" => ReqTo(Boot, "start")
      BY <3>1
    <3> QED
      BY <1>4, <2>1, <3>1, <3>2 DEF Recovering
  <2>6. CASE RefreshUrl(Boot)
    <3>1. /\ Recovered(Boot, row[b].status = "live") /\ box' = box
          /\ r.pc = "settle" /\ envRev' = envRev
          /\ row' = IF row[b].status = "live" THEN [row EXCEPT ![b].url = TRUE] ELSE row
      BY <2>6 DEF RefreshUrl, ReqAt, boxVars, ReqStep
    <3>2. ASSUME NEW d \in Dep, d = b, row'[d].status = "live", row'[d].rev >= envRev'
          PROVE  Restored(d)'
      <4>1. row'[d].url /\ row'[d].rev = row[d].rev
        BY <1>1, <3>1, <3>2 DEF Row
      <4>2. row[d].rev \in Nat /\ envRev \in Nat
        BY StateAssumption DEF SweepStep, TypeInv, RowsTyped, Row, Rev
      <4>3. box[d] = "up"
        BY <1>1, <3>1, <3>2, <4>1, <4>2 DEF ReqSwept, Runs
      <4> QED
        BY <3>1, <4>1, <4>3 DEF Restored
    <3> QED
      BY <1>4, <2>1, <3>1, <3>2
  <2>7. CASE GiveUp(Boot)
    <3>1. /\ Recovered(Boot, FALSE)
          /\ row' = IF row[b].status = "live"
                    THEN [row EXCEPT ![b].status = "stopped", ![b].url = FALSE]
                    ELSE row
      BY <2>7 DEF GiveUp
    <3>2. ASSUME NEW d \in Dep, d = b PROVE row'[d].status # "live"
      BY <1>1, <3>1, <3>2 DEF Row
    <3> QED
      BY <1>4, <2>1, <3>1, <3>2
  <2> QED
    BY <1>7, <2>5, <2>6, <2>7
<1>8. CASE Restart(Boot)
  <2>1. /\ r.pc = "start" /\ UNCHANGED phase
        /\ ReqTo(Boot, "settle") \/ ReqTo(Boot, "giveup")
    BY <1>8 DEF Restart, ReqAt, ReqStep
  <2> QED
    BY <1>4, <2>1 DEF Recovering
<1>9. CASE Decide(Boot)
  <2>1. /\ r.pc = "recover" /\ r.todo = {} /\ UNCHANGED phase /\ r.mode = "refresh"
    BY <1>1, <1>9 DEF Decide, ReqAt, ReqStep, BootSwept
  <2>2. req'[Boot] = Fresh("end")
    BY <1>1, <1>9, <2>1 DEF Decide
  <2>3. /\ req'[Boot].pc = "end" /\ req'[Boot].todo = {} /\ req'[Boot].urls = {}
        /\ req'[Boot].mode = "refresh" /\ phase = "sweep"
    BY <1>1, <2>1, <2>2 DEF Fresh, IdleReq, BootSwept
  <2> QED
    BY <2>1, <2>3 DEF BootGoes, Recovering
<1>10. CASE End(Boot)
  <2>1. r.pc = "end" /\ req'[Boot] = IdleReq
    BY <1>1, <1>10 DEF End, ReqAt, ReqEnds
  <2>2. /\ r.todo = {} /\ req'[Boot].pc = "idle" /\ req'[Boot].todo = {} /\ req'[Boot].urls = {}
        /\ req'[Boot].mode = "refresh"
    BY <1>1, <2>1 DEF IdleReq, BootSwept
  <2> QED
    BY <2>1, <2>2 DEF BootGoes, Recovering
<1> QED
  BY <1>1, <1>5, <1>6, <1>7, <1>8, <1>9, <1>10
     DEF Serve, BootSwept, Recovering, WakeStart, WakePromote, ReplaceReadEnv, ReplaceInsert,
         ReplaceLoses, Replaced, Retire, CheckRetired, DestroyRetired, ReplaceInsertError,
         ReqDbError, ReqAt

LEMMA NotRestarted == SweepStep => ~Crash
<1> SUFFICES ASSUME SweepStep PROVE ~Crash
  OBVIOUS
<1>1. crashes \in Nat /\ crashes' = crashes
  BY StateAssumption DEF SweepStep, TypeInv, FaultsTyped
<1>2. crashes' # crashes + 1
  BY <1>1
<1> QED
  BY <1>2 DEF Crash

LEMMA BootSweptKept ==
  ASSUME SweepStep
  PROVE  BootSwept'
<1>1. BootSwept /\ Boot \in Actor /\ req[Boot].urls \subseteq Dep /\ Phase = Phase
  BY DEF SweepStep, Swept, TypeInv, Req, Actor
<1>2. ASSUME NEW d \in Dep, row[d].status = "live" => row[d].url \/ Refreshes(d, {"start", "settle", "giveup"}),
             row'[d].status = "live"
      PROVE  row'[d].url \/ Refreshes(d, {"start", "settle", "giveup"})'
  <2>1. RowSwept(d)
    BY SweepWrites DEF Writes
  <2>2. CASE \E w \in Actor : /\ req[w].pc = "claim" /\ Of(w) = d
                              /\ req'[w].pc = "start" /\ req'[w].todo = req[w].todo
    BY <2>2 DEF Refreshes, Of
  <2>3. CASE Refreshes(d, {"start", "settle", "giveup"})
    BY <1>2, <2>3, RefreshKept
  <2> QED
    BY <1>2, <2>1, <2>2, <2>3 DEF RowSwept
<1>3. CASE req'[Boot] = req[Boot]
  <2>1. phase' = "sweep" <=> phase = "sweep"
    <3>1. ~End(Boot)
      BY <1>1, <1>3 DEF End, ReqAt, ReqEnds, IdleReq, SweepStep, TypeInv
    <3>2. ~Crash /\ phase' # "booted" /\ [Next]_vars
      BY NotRestarted DEF SweepStep, Sweeping
    <3> QED
      BY <3>1, <3>2, PhaseStep
  <2>2. ASSUME phase' = "sweep" => req'[Boot].pc # "idle", NEW d \in ToRestore'
        PROVE  Restored(d)'
    <3>1. /\ d \in Dep /\ row'[d].status = "live" /\ row'[d].rev >= envRev'
          /\ d \notin req[Boot].todo
      BY <1>3, <2>2 DEF ToRestore, CurrentRows
    <3>2. CASE row[d].status = "live"
      <4>1. d \in ToRestore
        BY <3>1, <3>2, RestoredKept DEF ToRestore, CurrentRows
      <4>2. Restored(d)
        BY <1>1, <1>3, <2>1, <2>2, <4>1 DEF BootSwept
      <4> QED
        BY <3>1, <3>2, <4>2, RestoredKept
    <3> QED
      BY <3>1, <3>2, RestoredKept
  <2> QED
    BY <1>1, <1>2, <1>3, <2>1, <2>2 DEF BootSwept
<1>4. CASE req'[Boot] # req[Boot]
  <2>1. BootGoes
    BY <1>1, <1>4, SweepWrites, BootSteps
  <2>2. ASSUME NEW d \in ToRestore' PROVE Restored(d)'
    <3>1. /\ d \in Dep /\ row'[d].status = "live" /\ row'[d].rev >= envRev'
          /\ d \notin req'[Boot].todo
      BY <2>2 DEF ToRestore, CurrentRows
    <3>2. CASE req[Boot].pc # "idle" /\ d \notin req[Boot].todo
      <4>1. CASE row[d].status = "live"
        <5>1. d \in ToRestore
          BY <3>1, <3>2, <4>1, RestoredKept DEF ToRestore, CurrentRows
        <5>2. Restored(d)
          BY <1>1, <3>2, <5>1 DEF BootSwept
        <5> QED
          BY <3>1, <4>1, <5>2, RestoredKept
      <4> QED
        BY <3>1, <4>1, RestoredKept
    <3> QED
      BY <2>1, <3>1, <3>2 DEF BootGoes
  <2>3. \A d \in req'[Boot].urls : row'[d].status = "live" =>
          row'[d].url \/ Refreshes(d, {"start", "settle", "giveup"})'
    BY <1>1, <1>2, <2>1 DEF BootGoes, BootSwept
  <2> QED
    BY <2>1, <2>2, <2>3 DEF BootGoes, BootSwept
<1> QED
  BY <1>3, <1>4

LEMMA CrashSweeps ==
  ASSUME TypeInv, Crash
  PROVE  Swept'
<1>1. /\ \A d \in Dep : exec'[d] = IdleExec
      /\ \A w \in Actor : req'[w] = IdleReq
      /\ lane' = IdleLane /\ phase' = "sweep" /\ Boot \in Actor
  BY DEF Crash, Actor
<1>2. BootLane'
  BY <1>1 DEF BootLane, IdleLane
<1>3. \A d \in Dep : CallSwept(d)'
  BY <1>1 DEF CallSwept, IdleExec, Begun, Working, Ready
<1>4. \A w \in Actor : ReqSwept(w)'
  BY <1>1 DEF ReqSwept, IdleReq, Recovering, Replacing
<1>5. BootSwept'
  BY <1>1 DEF BootSwept, IdleReq, Recovering
<1> QED
  BY <1>2, <1>3, <1>4, <1>5 DEF Swept

\* Rejected calls are only counted up.
LEMMA DbErrorsStep ==
  ASSUME [Next]_vars
  PROVE  dbErrors' = dbErrors \/ DbError
<1>1. ASSUME NEW d \in Dep, Execute(d) PROVE dbErrors' = dbErrors \/ DbError
  BY <1>1 DEF Execute, BeginDeploy, ReadEnv, TakeRow, TakeRowThrows, TakeRowError, ResolveEnv,
     LaunchLive,
     LaunchFails, ReadSiblings, Demote, DemoteError, Promote, PromoteError, Audit, AuditError,
     ScheduleDrain, Finish, AbortInfra, FailRow, FailRowError, CompleteDeploy,
     CompleteDeployError, DeployFailed, RetryDeploy, RetryDeployError, ExecStep, JobStep,
     faultVars
<1>2. CASE ControllerNext
  BY <1>1, <1>2 DEF ControllerNext, DeleteFailed, QueueDeploy, EnqueueDeploy,
                    EnqueueDeployError, faultVars
<1>3. CASE LaneNext
  BY <1>3 DEF LaneNext, ClaimInline, LaneDbError, ReadDrained, DrainWaits, DrainOver,
     DrainStops, MarkStopped, ReapRuns, ScheduleCleanup, CheckCleanup, DestroyBox, StartSweep,
     ReadDesired, ReadRows, ReconcileLater, ReconcileInserts, ReconcileInsertThrows,
     ReconcileEnqueues, EndSweep, CompleteInline, RetryInline, LaneStep, LaneEnds, faultVars
<1>4. ASSUME NEW w \in Actor, Begin(w) \/ Serve(w) PROVE dbErrors' = dbErrors \/ DbError
  <2>1. CASE Begin(w) \/ Probe(w) \/ ClaimUrl(w) \/ RefreshUrl(w) \/ GiveUp(w) \/ Decide(w)
    BY <2>1 DEF Begin, Probe, ClaimUrl, RefreshUrl, GiveUp, Decide
  <2>2. CASE Restart(w) \/ WakeStart(w)
    BY <2>2 DEF Restart, WakeStart, StartBox, StartBoxFails
  <2>3. CASE \/ WakePromote(w) \/ ReplaceReadEnv(w) \/ ReplaceInsert(w) \/ ReplaceLoses(w)
             \/ Replaced(w) \/ Retire(w)
    BY <2>3 DEF WakePromote, ReplaceReadEnv, ReplaceInsert, ReplaceLoses, Replaced, Retire
  <2>4. CASE \/ CheckRetired(w) \/ DestroyRetired(w)
             \/ ReplaceInsertError(w) \/ ReqDbError(w) \/ End(w)
    BY <2>4 DEF CheckRetired, DestroyRetired, ReplaceInsertError, ReqDbError, End, faultVars
  <2> QED
    BY <1>4, <2>1, <2>2, <2>3, <2>4 DEF Serve
<1> QED
  BY <1>2, <1>3, <1>4 DEF Next, WakeNext, Bump, Invalidate, Deadline, BoxDies, Crash, Requeue,
                          RunStart, RunFinish, vars, faultVars

\* Only a restart begins the boot chain's time.
LEMMA NotSweeping ==
  ASSUME TypeInv, TypeInv', [Next]_vars, Sweeping', ~Crash
  PROVE  Sweeping
<1>1. phase # "booted"
  <2>1. phase = "booted" => ~End(Boot)
    BY DEF TypeInv, Backed, End, ReqAt
  <2> QED
    BY <2>1, PhaseStep DEF Sweeping
<1>2. /\ dbErrors \in Nat /\ infraErrors \in Nat /\ dbErrors' \in Nat /\ infraErrors' \in Nat
  BY StateAssumption DEF TypeInv, FaultsTyped
<1>3. \A m, n \in Nat : m + n = 0 <=> m = 0 /\ n = 0
  OBVIOUS
<1>4. dbErrors' = 0 /\ infraErrors' = 0
  BY <1>2, <1>3 DEF Sweeping
<1>5. dbErrors' = dbErrors \/ dbErrors' = dbErrors + 1
  BY DbErrorsStep DEF DbError
<1>6. infraErrors' = infraErrors \/ infraErrors' = infraErrors + 1
  BY InfraErrorsStep DEF InfraError
<1>7. dbErrors = 0 /\ infraErrors = 0
  BY <1>2, <1>4, <1>5, <1>6
<1> QED
  BY <1>1, <1>7 DEF Sweeping

LEMMA SweepInvKept ==
  ASSUME SweepInv, [Next]_vars
  PROVE  SweepInv'
<1>1. TypeInv /\ TypeInv'
  BY StepTyped DEF SweepInv
<1>2. ASSUME Sweeping' PROVE Swept'
  <2>1. CASE Crash
    BY <1>1, <2>1, CrashSweeps
  <2>2. CASE ~Crash
    <3>1. crashes' = crashes
      BY <2>2, CrashesStep
    <3>2. Sweeping
      BY <1>1, <1>2, <2>2, NotSweeping
    <3>3. SweepStep
      BY <1>1, <1>2, <3>1, <3>2 DEF SweepStep, SweepInv, TypeInv
    <3> QED
      BY <3>3, SweepWrites, CallSweptKept, ReqSweptKept, BootSweptKept DEF Swept
  <2> QED
    BY <2>1, <2>2
<1> QED
  BY <1>1, <1>2 DEF SweepInv

\* Once the boot sweep is over every current live row has its container: also
\* one that a request woke or deployed while the sweep ran.
THEOREM SweepRestoresLive == Spec => []SweepRestores
<1>1. Init => SweepInv
  BY InitTyped DEF Init, SweepInv, Sweeping
<1>2. SweepInv /\ [Next]_vars => SweepInv'
  BY SweepInvKept
<1>3. SweepInv => SweepRestores
  <2> SUFFICES ASSUME SweepInv, phase \in {"requeue", "env"}, dbErrors + infraErrors = 0,
                      NEW d \in CurrentRows("live")
               PROVE  /\ box[d] = "up"
                      /\ row[d].url \/ \E w \in Request : req[w].pc \in {"start", "settle"} /\ Of(w) = d
    BY DEF SweepRestores
  <2>1. BootSwept
    BY DEF SweepInv, Sweeping, Swept
  <2>2. req[Boot].pc = "idle" /\ req[Boot].todo = {}
    BY <2>1 DEF BootSwept
  <2>3. Restored(d)
    BY <2>1, <2>2 DEF BootSwept, ToRestore
  <2> QED
    BY <2>2, <2>3 DEF Restored, Refreshes, Actor
<1> QED
  BY <1>1, <1>2, <1>3, PTL DEF Spec

---------------------------------------------------------------------------
(***************************************************************************)
(* What of the claim "one live deployment per environment" holds: only a   *)
(* request can make a second one live, by waking a stopped deployment      *)
(* after a cutover has listed the live ones.                               *)
(***************************************************************************)

\* A cutover is going to demote whatever is live.
OneLive ==
  Request = {} =>
    /\ \A x, y \in Live : x = y
    /\ \A d \in Dep : exec[d].pc = "demote" => Live \subseteq exec[d].todo
OneLiveInv == CalmInv /\ (Undisturbed => OneLive)

\* How a call gets to, or stays, between its listing and its promotion.
LEMMA CutoverStep ==
  ASSUME CalmStep, [Next]_vars, NEW d \in Dep, exec'[d].pc = "demote"
  PROVE  exec'[d] = exec[d] \/ Demote(d) \/ ReadSiblings(d)
<1>1. exec \in [Dep -> Exec] /\ exec[d] \in Exec /\ ~DbError
  BY NoDbError DEF CalmStep, TypeInv
<1>2. ASSUME NEW e \in Dep, Execute(e)
      PROVE  exec'[d] = exec[d] \/ Demote(d) \/ ReadSiblings(d)
  <2>1. CASE e # d
    BY <1>1, <1>2, <2>1 DEF Execute, BeginDeploy, ReadEnv, TakeRow, TakeRowThrows, TakeRowError,
       ResolveEnv,
       LaunchLive, LaunchFails, ReadSiblings, Demote, DemoteError, Promote, PromoteError, Audit,
       AuditError, ScheduleDrain, Finish, AbortInfra, FailRow, FailRowError, CompleteDeploy,
       CompleteDeployError, DeployFailed, RetryDeploy, RetryDeployError, Goto, Settled
  <2>2. CASE e = d
    <3>1. CASE BeginDeploy(d) \/ ReadEnv(d) \/ TakeRow(d) \/ TakeRowThrows(d) \/ ResolveEnv(d)
      BY <1>1, <3>1 DEF BeginDeploy, ReadEnv, TakeRow, TakeRowThrows, ResolveEnv, Goto, Exec
    <3>2. CASE LaunchLive(d) \/ LaunchFails(d) \/ Promote(d) \/ Audit(d) \/ Finish(d)
      BY <1>1, <3>2 DEF LaunchLive, LaunchFails, Promote, Audit, Finish, Goto, Exec
    <3>3. CASE ScheduleDrain(d) \/ AbortInfra(d) \/ FailRow(d)
      BY <1>1, <3>3 DEF ScheduleDrain, At, AbortInfra, FailRow, Goto, Exec
    <3>4. CASE CompleteDeploy(d) \/ DeployFailed(d) \/ RetryDeploy(d)
      BY <1>1, <3>4 DEF CompleteDeploy, DeployFailed, RetryDeploy, Settled, IdleExec, Goto, Exec
    <3>5. CASE \/ TakeRowError(d) \/ DemoteError(d) \/ PromoteError(d)
               \/ AuditError(d) \/ FailRowError(d)
               \/ CompleteDeployError(d) \/ RetryDeployError(d)
      BY <1>1, <3>5 DEF TakeRowError, DemoteError, PromoteError, AuditError, FailRowError,
         CompleteDeployError, RetryDeployError
    <3> QED
      BY <1>2, <2>2, <3>1, <3>2, <3>3, <3>4, <3>5 DEF Execute
  <2> QED
    BY <2>1, <2>2
<1>3. CASE LaneNext
  BY <1>3 DEF LaneNext, ClaimInline, LaneDbError, ReadDrained, DrainWaits, DrainOver,
     DrainStops, MarkStopped, ReapRuns, ScheduleCleanup, CheckCleanup, DestroyBox, StartSweep,
     ReadDesired, ReadRows, ReconcileLater, ReconcileInserts, ReconcileInsertThrows,
     ReconcileEnqueues, EndSweep, CompleteInline, RetryInline, LaneStep, LaneEnds
<1>4. ASSUME NEW w \in Actor, Serve(w) \/ Begin(w) PROVE exec'[d] = exec[d]
  <2>1. CASE ReplaceInsert(w) \/ Replaced(w)
    <3>1. \E e, q : exec' = [exec EXCEPT ![e] = q] /\ q.pc \in {"resolve", "idle"}
      <4>1. CASE ReplaceInsert(w)
        <5>1. PICK e \in Dep : exec' = [exec EXCEPT ![e] = [IdleExec EXCEPT !.pc = "resolve",
                                         !.rev = req[w].rev, !.by = w]]
          BY <4>1 DEF ReplaceInsert
        <5>2. [IdleExec EXCEPT !.pc = "resolve", !.rev = req[w].rev, !.by = w].pc = "resolve"
          BY DEF IdleExec
        <5> QED
          BY <5>1, <5>2
      <4>2. CASE Replaced(w)
        <5>1. exec' = [exec EXCEPT ![req[w].dep] = IdleExec]
          BY <4>2 DEF Replaced, Settled
        <5>2. IdleExec.pc = "idle"
          BY DEF IdleExec
        <5> QED
          BY <5>1, <5>2
      <4> QED
        BY <2>1, <4>1, <4>2
    <3> QED
      BY <1>1, <3>1
  <2>2. CASE Begin(w) \/ Probe(w) \/ ClaimUrl(w) \/ Restart(w) \/ RefreshUrl(w) \/ GiveUp(w)
    BY <2>2 DEF Begin, Probe, ClaimUrl, Restart, RefreshUrl, GiveUp
  <2>3. CASE \/ Decide(w) \/ WakeStart(w) \/ WakePromote(w) \/ Retire(w)
             \/ ReplaceInsertError(w) \/ ReqDbError(w) \/ End(w)
    BY <2>3 DEF Decide, WakeStart, WakePromote, Retire, ReplaceInsertError, ReqDbError, End
  <2>4. CASE ReplaceReadEnv(w) \/ ReplaceLoses(w) \/ CheckRetired(w) \/ DestroyRetired(w)
    BY <2>4 DEF ReplaceReadEnv, ReplaceLoses, CheckRetired, DestroyRetired
  <2> QED
    BY <1>4, <2>1, <2>2, <2>3, <2>4 DEF Serve
<1> QED
  BY <1>2, <1>3, <1>4, StepKinds DEF Bump, Invalidate, Deadline, BoxDies, DeleteFailed, RunStart,
     RunFinish, QueueDeploy, EnqueueDeploy, vars, actorVars

\* Without requests a deployment becomes live in its own cutover only, and that has
\* demoted all others.
LEMMA Promoted ==
  ASSUME CalmStep, [Next]_vars, OneLive, Request = {}, NEW x \in Dep, Promote(x)
  PROVE  /\ Live' \subseteq {x}
         /\ \A d \in Dep : exec'[d].pc # "demote"
<1>1. /\ exec \in [Dep -> Exec] /\ exec[x].pc = "demote" /\ exec[x].todo = {} /\ OneInFlight
      /\ row \in [Dep -> Row] /\ row' = Update(x, [row[x] EXCEPT !.status = "live", !.url = TRUE])
      /\ exec' = [exec EXCEPT ![x].pc = "audit"]
  BY DEF Promote, At, Goto, CalmStep, Calm, TypeInv, RowsTyped
<1>2. Live = {}
  BY <1>1 DEF OneLive
<1>3. Live' \subseteq {x}
  BY <1>1, <1>2 DEF Live, Update
<1>4. ASSUME NEW d \in Dep, exec'[d].pc = "demote" PROVE FALSE
  <2>1. exec'[x].pc = "audit" /\ \A y \in Dep \ {x} : exec'[y] = exec[y]
    BY <1>1 DEF Exec
  <2>2. d # x /\ exec[d].pc = "demote"
    BY <1>4, <2>1
  <2>3. row[d].status = "building" /\ row[x].status = "building"
    BY <1>1, <2>2 DEF CalmStep, Calm, RowFits, Working
  <2> QED
    BY <1>1, <2>2, <2>3 DEF OneInFlight, InFlightRows, InFlight
<1> QED
  BY <1>3, <1>4

LEMMA OneLiveKept ==
  ASSUME CalmStep, [Next]_vars, OneLive
  PROVE  OneLive'
<1> SUFFICES ASSUME Request = {}
             PROVE  /\ \A x, y \in Live' : x = y
                    /\ \A d \in Dep : exec'[d].pc = "demote" => Live' \subseteq exec'[d].todo
  BY DEF OneLive
<1>1. CASE \E x \in Dep : Promote(x)
  BY <1>1, Promoted
<1>2. CASE \A x \in Dep : ~Promote(x)
  <2>1. Live' \subseteq Live
    <3>1. \A w \in Actor : ~WakePromote(w)
      BY OnlyBoot DEF WakePromote, ReqAt
    <3>2. \A x \in Dep : RowWritten(x)
      BY StepWrites
    <3> QED
      BY <1>2, <3>1, <3>2 DEF RowWritten, Live, Served
  <2>2. ASSUME NEW d \in Dep, exec'[d].pc = "demote" PROVE Live' \subseteq exec'[d].todo
    <3>1. CASE exec'[d] = exec[d]
      BY <2>1, <2>2, <3>1 DEF OneLive
    <3>2. CASE Demote(d)
      <4>1. PICK x \in exec[d].todo : /\ row' = Update(x, Draining(x))
                                      /\ exec' = [exec EXCEPT ![d].todo = @ \ {x}]
        BY <3>2 DEF Demote
      <4>2. exec[d].pc = "demote" /\ exec[d] \in Exec /\ x \in Dep /\ row \in [Dep -> Row]
            /\ exec \in [Dep -> Exec]
        BY <3>2, <4>1 DEF Demote, At, CalmStep, TypeInv, RowsTyped, Exec
      <4>3. exec'[d].todo = exec[d].todo \ {x}
        BY <4>1, <4>2 DEF Exec
      <4>4. x \notin Live'
        BY <4>1, <4>2 DEF Live, Update, Draining, Exists, Row
      <4> QED
        BY <2>1, <4>2, <4>3, <4>4 DEF OneLive
    <3>3. CASE ReadSiblings(d)
      <4>1. exec'[d].todo = Live \ {d} /\ row' = row /\ exec[d].pc = "siblings"
        BY <3>3 DEF ReadSiblings, At, CalmStep, TypeInv, Exec
      <4>2. d \notin Live
        BY <4>1 DEF CalmStep, Calm, RowFits, Working, Live
      <4> QED
        BY <4>1, <4>2 DEF Live
    <3> QED
      BY <2>2, <3>1, <3>2, <3>3, CutoverStep
  <2> QED
    BY <2>1, <2>2 DEF OneLive
<1> QED
  BY <1>1, <1>2

\* Where no request wakes it, an environment never has two live deployments, for
\* any number of deploys, retries, reconciliations and drains, and whatever
\* containers fail (the comments on the cutover say so of every case).
THEOREM OneLiveWithoutWakes ==
  Spec => [](Request = {} /\ crashes = 0 /\ dbErrors = 0 => SingleLive)
<1>1. Init => OneLiveInv
  BY InitCalm DEF Init, OneLiveInv, OneLive, Live, NoRow, IdleExec
<1>2. OneLiveInv /\ RowsStored /\ [Next]_vars => OneLiveInv'
  <2>1. SUFFICES ASSUME OneLiveInv, RowsStored, [Next]_vars PROVE OneLiveInv'
    OBVIOUS
  <2>2. CalmInv'
    BY <2>1, StepCalm DEF OneLiveInv
  <2>3. Undisturbed' => OneLive'
    BY <2>1, StepUndisturbed, OneLiveKept DEF OneLiveInv
  <2> QED
    BY <2>2, <2>3 DEF OneLiveInv
<1>3. OneLiveInv => (Request = {} /\ crashes = 0 /\ dbErrors = 0 => SingleLive)
  <2>1. SUFFICES ASSUME OneLiveInv, Request = {}, Undisturbed PROVE Cardinality(Live) <= 1
    BY DEF SingleLive, Undisturbed
  <2>2. \A x, y \in Live : x = y
    BY <2>1 DEF OneLiveInv, OneLive
  <2>3. CASE Live = {}
    BY <2>3, FS_EmptySet
  <2>4. ASSUME NEW x \in Live PROVE Cardinality(Live) <= 1
    <3>1. Live = {x}
      BY <2>2, <2>4
    <3>2. Cardinality({x}) = 1
      BY FS_Singleton
    <3> QED
      BY <3>1, <3>2
  <2> QED
    BY <2>3, <2>4
<1> QED
  BY <1>1, <1>2, <1>3, TableStored, PTL DEF Spec

\* While nothing fails, an environment that has ever served has a live deployment
\* whose container is up and that no drain, cleanup, replacement or cutover is going
\* to take down, or is in the middle of a cutover, the new container up.
THEOREM ServesForGood ==
  Spec => [](NoFault /\ (\E x \in Dep : row[x].status \in Served) =>
               \/ \E d \in Dep : row[d].status = "live" /\ box[d] = "up" /\ ~Retires(d)
               \/ \E d \in Dep : exec[d].pc = "demote" /\ exec[d].sup # {} /\ box[d] = "up")
<1>1. SteadyInv => (NoFault /\ (\E x \in Dep : row[x].status \in Served) =>
               \/ \E d \in Dep : row[d].status = "live" /\ box[d] = "up" /\ ~Retires(d)
               \/ \E d \in Dep : exec[d].pc = "demote" /\ exec[d].sup # {} /\ box[d] = "up")
  BY DEF SteadyInv, Steady, Anchored, Anchor, CutsOver, BoxFits, Ready
<1> QED
  BY <1>1, SteadyHolds, PTL

---------------------------------------------------------------------------
(***************************************************************************)
(* The environment implements EnvironmentSlot: the slot is the table's row *)
(* in flight, through any fault; the service is what serves, or takes over *)
(* from what did, while nothing fails.                                     *)
(***************************************************************************)

LEMMA NewestOfOne ==
  ASSUME NEW d \in Dep
  PROVE  Newest({d}) = d
BY DEF Newest, Dep

LEMMA HolderIs ==
  ASSUME OneInFlight
  PROVE  /\ InFlightRows = {} => Holder = NoDep
         /\ \A d \in InFlightRows : d \in Dep /\ Holder = d
<1>1. ASSUME NEW d \in InFlightRows PROVE d \in Dep /\ Holder = d
  <2>1. InFlightRows = {d} /\ d \in Dep
    BY DEF OneInFlight, InFlightRows
  <2> QED
    BY <2>1, NewestOfOne DEF Holder
<1> QED
  BY <1>1 DEF Holder

LEMMA HolderWillBe ==
  ASSUME OneInFlight'
  PROVE  /\ InFlightRows' = {} => Holder' = NoDep
         /\ \A d \in InFlightRows' : d \in Dep /\ Holder' = d
<1>1. ASSUME NEW d \in InFlightRows' PROVE d \in Dep /\ Holder' = d
  <2>1. InFlightRows' = {d} /\ d \in Dep
    BY DEF OneInFlight, InFlightRows
  <2>2. Newest(InFlightRows') = d
    BY <2>1, NewestOfOne
  <2> QED
    BY <2>1, <2>2 DEF Holder
<1> QED
  BY <1>1 DEF Holder

\* Whatever happens, the slot is taken when it is free and freed when it is taken.
LEMMA HolderStep ==
  ASSUME OneInFlight, TableStep
  PROVE  \/ Holder' = Holder
         \/ Holder = NoDep /\ Holder' \in Dep
         \/ Holder # NoDep /\ Holder' = NoDep
<1>1. OneInFlight'
  BY OneInFlightKept
<1>2. \A d \in InFlightRows, x \in InFlightRows' : x = d
  <2>1. CASE \A d \in Dep : row'[d].status \in InFlight => row[d].status \in InFlight
    BY <2>1 DEF OneInFlight, InFlightRows
  <2>2. CASE \E d \in Dep : SlotFree(d) /\ \A x \in Dep \ {d} : row'[x] = row[x]
    <3>1. PICK d \in Dep : InFlightRows \subseteq {d} /\ \A x \in Dep \ {d} : row'[x] = row[x]
      BY <2>2 DEF SlotFree
    <3>2. InFlightRows' \subseteq {d}
      BY <3>1 DEF InFlightRows
    <3> QED
      BY <3>1, <3>2
  <2> QED
    BY <2>1, <2>2 DEF TableStep
<1>3. CASE InFlightRows = {}
  BY <1>1, <1>3, HolderIs, HolderWillBe
<1>4. ASSUME NEW d \in InFlightRows PROVE Holder' = Holder \/ (Holder # NoDep /\ Holder' = NoDep)
  <2>1. Holder = d /\ d # NoDep
    BY HolderIs DEF Dep, NoDep
  <2>2. InFlightRows' = {} \/ d \in InFlightRows'
    BY <1>2
  <2> QED
    BY <1>1, <2>1, <2>2, HolderWillBe
<1> QED
  BY <1>3, <1>4

---------------------------------------------------------------------------
(* A step in which nothing has failed, on the service.                     *)

SlotStep == /\ SteadyStep /\ TableStep
            /\ OneInFlight' /\ Calm' /\ Anchored'

\* A cutover holds the slot, and goes on holding it until it promotes.
LEMMA CutoverHolds ==
  ASSUME SlotStep, NEW d \in Dep, exec[d].pc = "demote"
  PROVE  /\ Holder = d
         /\ ~Promote(d) => Holder' = d /\ exec'[d].pc = "demote" /\ exec'[d].sup = exec[d].sup
<1>1. RowFits(d) /\ OneInFlight /\ CallWritten(d)
  BY StepWrites DEF SlotStep, SteadyStep, CalmStep, Calm
<1>2. d \in InFlightRows
  BY <1>1 DEF RowFits, Working, InFlightRows, InFlight
<1>3. ASSUME ~Promote(d) PROVE d \in InFlightRows'
  BY <1>1, <1>3 DEF CallWritten, SlotStep, Calm, RowFits, Working, InFlightRows, InFlight
<1> QED
  BY <1>1, <1>2, <1>3, HolderIs, HolderWillBe DEF SlotStep, CallWritten

\* The service, told by the table.
LEMMA ServiceIs ==
  ASSUME Anchored, \A d \in Dep : SupFits(d), exec \in [Dep -> Exec]
  PROVE  /\ Serving <=> \E x \in Dep : row[x].status \in Served
         /\ Serving => Live # {} \/ CutsOver
<1>1. CutsOver => \E x \in Dep : row[x].status \in Served
  BY DEF CutsOver, SupFits, Exec
<1> QED
  BY <1>1 DEF Serving, Live, CutsOver, Anchored, Anchor, Served

LEMMA ServiceWillBe ==
  ASSUME SlotStep
  PROVE  Serving' <=> \E x \in Dep : row'[x].status \in Served
<1>1. exec' \in [Dep -> Exec]
  BY DEF SlotStep, SteadyStep, CalmStep, TypeInv
<1>2. CutsOver' => \E x \in Dep : row'[x].status \in Served
  BY <1>1 DEF SlotStep, Calm, CutsOver, SupFits, Exec
<1> QED
  BY <1>2 DEF SlotStep, Serving, Live, CutsOver, Anchored, Anchor, Served

\* The last live deployment leaves to a cutover that has begun.
LEMMA LastLeaves ==
  ASSUME SlotStep, Live # {}, Live' = {}
  PROVE  \E d \in Dep : exec[d].pc = "demote"
<1>1. /\ CalmStep /\ Handled /\ [Next]_vars /\ GivenUp /\ Anchored
      /\ \A x \in Dep : RowFits(x) /\ SupFits(x)
  BY DEF SlotStep, SteadyStep, Steady, CalmStep, Calm
<1>2. CASE CutsOver
  BY <1>2 DEF CutsOver
<1>3. ASSUME NEW d \in Dep, Anchor(d) PROVE \E e \in Dep : exec[e].pc = "demote"
  <2>1. row[d].status = "live" /\ ~Retires(d) /\ row'[d].status # "live"
    BY <1>3 DEF Anchor, Live
  <2>2. RowWritten(d)
    BY <1>1, StepWrites
  <2>3. ~(lane.pc = "mark" /\ d = Subject)
    BY <1>1, <2>1 DEF Handled, LaneFits
  <2>4. ~\E w \in Actor : req[w].pc = "giveup" /\ d = Of(w)
    BY <1>1, <1>3 DEF GivenUp, Anchor
  <2>5. \E e \in Dep : CutsInto(e, d)
    BY <2>1, <2>2, <2>3, <2>4 DEF RowWritten, Served
  <2> QED
    BY <2>5 DEF CutsInto
<1>4. \E x \in Dep : row[x].status \in Served
  BY DEF Live, Served
<1> QED
  BY <1>1, <1>2, <1>3, <1>4 DEF Anchored

LEMMA Promotes ==
  ASSUME SlotStep, NEW x \in Dep, Promote(x)
  PROVE  Holder # NoDep /\ Holder' = NoDep /\ Service' = "up"
<1>1. /\ exec[x].pc = "demote" /\ row' = Update(x, [row[x] EXCEPT !.status = "live", !.url = TRUE])
      /\ row \in [Dep -> Row] /\ OneInFlight /\ RowFits(x)
  BY DEF Promote, At, SlotStep, SteadyStep, CalmStep, Calm, TypeInv, RowsTyped
<1>2. row[x].status = "building"
  BY <1>1 DEF RowFits, Working
<1>3. row'[x].status = "live" /\ \A y \in Dep \ {x} : row'[y] = row[y]
  BY <1>1, <1>2 DEF Update, Exists, Row
<1>4. InFlightRows' = {}
  BY <1>1, <1>2, <1>3 DEF OneInFlight, InFlightRows, InFlight
<1>5. Holder = x /\ x # NoDep
  BY <1>1, CutoverHolds DEF Dep, NoDep
<1>6. Holder' = NoDep
  BY <1>4, HolderWillBe DEF SlotStep
<1> QED
  BY <1>3, <1>5, <1>6 DEF Service, Live

\* What a step that promotes nothing does to the service: nothing, or a cutover,
\* which holds the slot, begins or is overtaken by a request.
LEMMA ServiceStep ==
  ASSUME SlotStep, \A x \in Dep : ~Promote(x)
  PROVE  \/ Service' = Service /\ (Service = "handover" => Holder' = Holder)
         \/ /\ Holder # NoDep /\ Holder' = Holder
            /\ \/ Service = "up" /\ Service' = "handover"
               \/ Service = "handover" /\ Service' = "up"
<1>1. /\ CalmStep /\ [Next]_vars /\ exec \in [Dep -> Exec] /\ Anchored /\ \A x \in Dep : SupFits(x)
  BY DEF SlotStep, SteadyStep, Steady, CalmStep, Calm, TypeInv
<1>2. Serving' <=> Serving
  <2>1. \A x \in Dep : row'[x].status \in Served <=> row[x].status \in Served
    BY <1>1, ServedStep
  <2> QED
    BY <1>1, <2>1, ServiceIs, ServiceWillBe
<1>3. ASSUME NEW d \in Dep, exec[d].pc = "demote" PROVE Holder # NoDep /\ Holder' = Holder
  BY <1>3, CutoverHolds DEF Dep, NoDep
<1>4. CASE Live # {} /\ Live' = {}
  <2>1. Serving /\ Serving'
    BY <1>2, <1>4 DEF Serving
  <2>2. Service = "up" /\ Service' = "handover"
    BY <1>4, <2>1 DEF Service
  <2> QED
    BY <1>3, <1>4, <2>2, LastLeaves
<1>5. CASE Live = {} /\ Serving
  <2>1. Service = "handover" /\ Service' \in {"up", "handover"}
    BY <1>2, <1>5 DEF Service
  <2>2. \E d \in Dep : exec[d].pc = "demote"
    BY <1>5 DEF Serving
  <2> QED
    BY <1>3, <2>1, <2>2
<1>6. CASE ~Serving
  BY <1>2, <1>6 DEF Service, Serving
<1>7. CASE Live # {} /\ Live' # {}
  BY <1>7 DEF Service
<1> QED
  BY <1>4, <1>5, <1>6, <1>7

\* An environment is a slot and a service, for any number of deployments, deploys,
\* retries, requests and faults: the slot changes hands only when it is free, and
\* while nothing fails, the service changes only as the holder takes it over.
THEOREM ImplementsSlot == Spec => KeepsSlot
<1>1. Init => Slot!SlotInit
  BY DEF Init, Slot!SlotInit, Holder, Service, Serving, Live, InFlightRows, InFlight, NoRow,
         IdleExec, NoFault
<1>2. ASSUME SteadyInv, SteadyInv', RowsStored, [Next]_vars PROVE [Slot!SlotNext]_(Slot!slotVars)
  <2>1. TableStep /\ OneInFlight
    BY <1>2, StepOfTable DEF SteadyInv, HandledInv, CalmInv
  <2>2. CASE ~NoFault'
    BY <2>1, <2>2, HolderStep
       DEF Slot!SlotNext, Slot!Begin, Slot!Fail, Slot!Disturb
  <2>3. CASE NoFault'
    <3>1. SlotStep /\ NoFault
      BY <1>2, <2>1, <2>3, SteadyBefore, OneInFlightKept
         DEF SlotStep, SteadyInv, HandledInv, CalmInv, Steady, SteadyStep, NoFault, Undisturbed
    <3>2. CASE \E x \in Dep : Promote(x)
      BY <3>1, <3>2, Promotes DEF Slot!SlotNext, Slot!Promote
    <3>3. CASE \A x \in Dep : ~Promote(x)
      BY <2>1, <2>3, <3>1, <3>3, ServiceStep, HolderStep
         DEF Slot!SlotNext, Slot!Begin, Slot!Fail, Slot!HandOver, Slot!Wake, Slot!slotVars
    <3> QED
      BY <3>2, <3>3
  <2> QED
    BY <2>2, <2>3
<1> QED
  BY <1>1, <1>2, SteadyHolds, TableStored, PTL DEF Spec, KeepsSlot, Slot!SlotSpec
=============================================================================
