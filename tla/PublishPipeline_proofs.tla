----------------------- MODULE PublishPipeline_proofs -----------------------
(***************************************************************************)
(* Theorems about PublishPipeline, for any number of publishes, saves,     *)
(* outside pushes, restarts and rejected calls.                            *)
(***************************************************************************)
EXTENDS PublishPipeline, FiniteSetTheorems, SequenceTheorems, TLAPS

\* The steps of a run between its first save and its end.
Working ==
  {"checking", "pin", "building", "missed", "rebuild", "recommit", "cas", "recas",
   "delete", "landed", "restart", "versioning", "deploying", "complete"}
BeforeCommit ==
  {"init", "check", "checking", "pin", "building", "missed", "rebuild", "recommit",
   "cas", "recas"}
AfterCommit ==
  {"delete", "landed", "restart", "versioning", "deploying", "complete"}
RunPc ==
  {"idle", "read", "init", "check", "failAt", "failTask", "afterRebuild", "returned",
   "threw"} \cup Working
CallPc == {"idle", "stage", "staged", "enqueue", "link", "running", "done"}
BootPc == {"fail", "list", "settle", "requeue", "open"}
Handlers == {"none", "check", "commit", "outer"}

Steps == [StepKey -> StepStatus]
Saves == [path : Path, at : Nat, reset : BOOLEAN, gone : Nat]
Prints == [Path -> 0 .. MaxSave + 1]
Tasks == [status : {"none", "running", "succeeded", "failed"}, steps : Steps,
          linked : BOOLEAN]
Calls == [pc : CallPc, print : Prints]
Runs == [pc : RunPc, steps : Steps, drafts : [Path -> Draft], base : Nat,
         built : Nat, handler : Handlers]
Boots == [pc : BootPc, failed : SUBSET Task, todo : SUBSET Task]
Moots == [head : Nat, files : [Path -> Draft]]

\* The inductive invariant behind TypeOK.
Files ==
  /\ saves \in Seq(Saves) /\ Len(saves) <= MaxSave
  /\ draft \in [Path -> 0 .. Len(saves)]
  /\ dropped \cup absorbed \subseteq DOMAIN saves
Rows ==
  /\ branch \in Seq(CommitRecord)
  /\ task \in [Task -> Tasks]
  /\ job \in [Task -> {"none", "queued", "running", "done", "failed"}]
  /\ call \in [Task -> Calls]
  /\ run \in [Task -> Runs] /\ \A t \in Task : run[t].base <= BranchHead
  /\ boot \in Boots
  /\ crashes \in Nat /\ dbErrors \in Nat
  /\ moot \in [Task -> Moots] /\ \A t \in Task : moot[t].head <= BranchHead
TypeInv == Files /\ Rows

---------------------------------------------------------------------------
\* What a run r knows and its task row shows, by what came of it: the commits
\* it landed, and 0 if it had nothing to commit.

Outcome(t) == LandedBy(t) \cup {i \in {0} : moot[t].head # 0}

OnlyConfig(r) == \A p \in Path : r.drafts[p] # 0 => p \in ConfigPath
Built == {"succeeded", "skipped"}
Passed(steps) == steps["check"] = "succeeded" /\ steps["build"] \in Built

\* Where a rejection goes: an exception that leaves the run is a rejected call.
Handled(r, row, errors) ==
  /\ r.pc \in {"idle", "read", "init"} => r.handler = "none"
  /\ r.pc = "check" => r.handler = "outer"
  /\ r.pc \in Working => r.handler # "none" /\ row.steps = r.steps
  /\ r.pc \in {"returned", "afterRebuild"} => row.status # "running"
  /\ r.pc = "afterRebuild" => r.handler = "commit"
  /\ r.pc = "threw" => errors > 0

\* How far the steps are.
Progress(r) ==
  /\ r.pc \in {"check", "checking"} /\ OnlyConfig(r) => r.steps["build"] = "skipped"
  /\ \/ r.pc \in Working \cup {"failAt"}
     \/ r.pc \notin {"idle", "read", "init", "check"} /\ r.handler # "none"
     => r.steps["check"] # "pending"
  /\ r.pc \in {"pin", "building"} => r.steps["check"] = "succeeded"
  /\ r.pc = "pin" => r.steps["build"] = "running" \/ (OnlyConfig(r) /\ r.steps["build"] \in Built)
  /\ r.pc \in {"cas", "recas", "missed", "rebuild", "recommit"} \cup AfterCommit
       => Passed(r.steps)
  /\ r.pc \in {"cas", "recas"} => r.built = r.base \/ OnlyConfig(r)
  /\ r.pc = "recommit" => OnlyConfig(r)
  /\ r.pc \in {"building", "recommit", "cas", "recas"} => r.base # 0
  /\ r.handler = "check" =>
       r.pc \in {"failAt", "failTask", "returned"} /\ r.steps["check"] = "failed"

\* A run ends its commit once, and neither the row nor the run forgets.
Committed(r, row, own) ==
  /\ r.pc \in BeforeCommit => own = {}
  /\ r.pc \in AfterCommit => own # {}
  /\ own # {} => Passed(row.steps)
  /\ own # {} /\ r.pc # "read" /\ (r.pc = "failAt" \/ r.handler # "none")
       => Passed(r.steps)
  /\ r.steps["commit"] = "succeeded" \/ row.steps["commit"] = "succeeded"
       \/ row.status = "succeeded" => own # {}

Sound(r, row, own, errors) ==
  Handled(r, row, errors) /\ Progress(r) /\ Committed(r, row, own)

\* The inductive invariant behind NothingUnbuilt, LandsOnce and ReportHonest.
CommitInv ==
  /\ NothingUnbuilt
  /\ \A t \in Task :
       /\ \A i, j \in LandedBy(t) : i = j
       /\ Sound(run[t], task[t], Outcome(t), dbErrors)

---------------------------------------------------------------------------
\* A run belongs to its job, or to the request that waits for it.
Owner(t) ==
  /\ call[t].pc \in {"idle", "stage", "staged"} <=> task[t].status = "none"
  /\ task[t].status = "none" => job[t] = "none" /\ ~task[t].linked /\ ~Executing(t)
  /\ ~Executing(t) => run[t] = NoRun
  /\ Executing(t) => job[t] = "running" \/ call[t].pc = "running"
  /\ call[t].pc \in {"running", "enqueue"} => job[t] = "none" /\ ~task[t].linked
  /\ task[t].linked \/ call[t].pc = "link" => job[t] # "none"
  /\ boot.pc # "open" /\ job[t] = "running" => ~Executing(t)
  /\ t \in boot.todo => task[t].status # "none"

\* What will settle a running task, apart from the link of its job.
Settled(t) ==
  \/ Executing(t)
  \/ call[t].pc = "enqueue"
  \/ job[t] = "queued"
  \/ boot.pc = "fail" /\ (job[t] = "running" \/ ~task[t].linked)
  \/ boot.pc = "list" /\ (t \in boot.failed \/ ~task[t].linked)
  \/ t \in boot.todo

\* The inductive invariant behind TaskOwned.
OwnInv ==
  /\ \A t \in Task : Owner(t)
  /\ crashes = 0 => boot.pc = "open" /\ boot.todo = {}
  /\ boot.pc \in {"fail", "list"} => boot.todo = {}
  /\ crashes <= 1 /\ dbErrors = 0 =>
       \A t \in Task : Running(t) =>
         /\ Settled(t)
         /\ call[t].pc = "link" => Executing(t) \/ job[t] = "queued"

---------------------------------------------------------------------------
\* Rejections.

LEMMA FirstSteps ==
  /\ initialPublishSteps \in Steps
  /\ \A s \in StepKey : initialPublishSteps[s] = "pending"
  /\ NoRun \in Runs /\ NoRun.pc = "idle" /\ NoRun.handler = "none" /\ NoRun.base = 0
  /\ NoRun.steps = initialPublishSteps
BY BoundAssumption DEF initialPublishSteps, Steps, StepKey, StepStatus, NoRun, Runs,
   RunPc, NoDraft, Draft, Handlers

\* The check and the build have passed, and no handler unsays it.
Survives(t, st) ==
  run[t].handler = "none" \/ (Passed(st) /\ run[t].handler # "check")

\* A failure is never put down to a step that has passed.
LEMMA AnchorsLater ==
  ASSUME NEW st \in Steps
  PROVE  /\ Anchors(st) \subseteq StepKey
         /\ Passed(st) => Anchors(st) \subseteq {"commit", "version", "deploy"}
BY DEF Anchors, Steps, StepKey, StepStatus, Passed, Built

LEMMA CaughtShape ==
  ASSUME Rows, NEW t \in Task, NEW st \in Steps, NEW c, c = Caught(t, st)
  PROVE  /\ c \in Runs /\ c.base = run[t].base
         /\ c.pc \in {"threw", "failAt", "failTask"}
         /\ c.pc = "threw" <=> run[t].handler = "none"
         /\ c.handler # "none" => c.pc = "failAt"
         /\ st["check"] # "pending" => c.steps["check"] # "pending"
         /\ Survives(t, st) => c.pc = "threw" \/ Passed(c.steps)
         /\ c.handler # "check"
         /\ c.steps["commit"] = "succeeded" => st["commit"] = "succeeded"
<1> DEFINE r == [run[t] EXCEPT !.steps = st]
           failAt(s) == [r EXCEPT !.steps[s] = "failed", !.pc = "failAt"]
<1>1. run[t] \in Runs /\ r \in Runs /\ r.steps = st /\ r.base = run[t].base
      /\ r.handler = run[t].handler
  BY DEF Rows, Runs
<1>2. ASSUME NEW s \in StepKey, NEW h \in {"none", "outer"}
      PROVE  LET f == [failAt(s) EXCEPT !.handler = h]
             IN  /\ f \in Runs /\ f.base = run[t].base /\ f.pc = "failAt"
                 /\ f.handler = h /\ f.handler # "check"
                 /\ st["check"] # "pending" => f.steps["check"] # "pending"
                 /\ Passed(st) /\ s \notin {"check", "build"} => Passed(f.steps)
                 /\ f.steps["commit"] = "succeeded" => st["commit"] = "succeeded"
  BY <1>1, <1>2 DEF Runs, RunPc, Steps, StepKey, StepStatus, Handlers, Passed, Built
<1>3. CASE run[t].handler = "none"
  <2>1. c = [r EXCEPT !.pc = "threw"]
    BY <1>1, <1>3 DEF Caught
  <2> QED
    BY <1>1, <1>3, <2>1 DEF Runs, RunPc
<1>4. CASE run[t].handler \in {"check", "commit"}
  <2>1. PICK s \in {"check", "commit"} :
          run[t].handler = s /\ c = [failAt(s) EXCEPT !.handler = "outer"]
    BY <1>1, <1>4 DEF Caught
  <2>2. s \in StepKey
    BY DEF StepKey
  <2> DEFINE f == [failAt(s) EXCEPT !.handler = "outer"]
  <2>3. /\ f \in Runs /\ f.base = run[t].base /\ f.pc = "failAt" /\ f.handler = "outer"
        /\ st["check"] # "pending" => f.steps["check"] # "pending"
        /\ Passed(st) /\ s \notin {"check", "build"} => Passed(f.steps)
        /\ f.steps["commit"] = "succeeded" => st["commit"] = "succeeded"
    BY <1>2, <2>2
  <2> HIDE DEF f
  <2> QED
    BY <1>4, <2>1, <2>3 DEF f, Survives
<1>5. CASE run[t].handler = "outer" /\ Anchors(st) = {}
  <2>1. c = [r EXCEPT !.pc = "failTask", !.handler = "none"]
    BY <1>1, <1>5 DEF Caught
  <2> QED
    BY <1>1, <1>5, <2>1 DEF Runs, RunPc, Handlers, Survives
<1>6. CASE run[t].handler = "outer" /\ Anchors(st) # {}
  <2>1. PICK s \in Anchors(st) : c = [failAt(s) EXCEPT !.handler = "none"]
    BY <1>1, <1>6 DEF Caught
  <2>2. s \in StepKey /\ (Passed(st) => s \notin {"check", "build"})
    BY AnchorsLater
  <2> DEFINE f == [failAt(s) EXCEPT !.handler = "none"]
  <2>3. /\ f \in Runs /\ f.base = run[t].base /\ f.pc = "failAt" /\ f.handler = "none"
        /\ st["check"] # "pending" => f.steps["check"] # "pending"
        /\ Passed(st) /\ s \notin {"check", "build"} => Passed(f.steps)
        /\ f.steps["commit"] = "succeeded" => st["commit"] = "succeeded"
    BY <1>2, <2>2
  <2> HIDE DEF f
  <2> QED
    BY <1>6, <2>1, <2>2, <2>3 DEF f, Survives
<1> QED
  BY <1>1, <1>3, <1>4, <1>5, <1>6 DEF Runs, Handlers

\* A rejected await leaves the run sound, wherever it goes.
LEMMA Rejection ==
  ASSUME Rows, NEW t \in Task, NEW st \in Steps, NEW row \in Tasks,
         NEW own, NEW errors \in Nat,
         run[t].handler = "none" => errors > 0,
         run[t].handler = "none" \/ st["check"] # "pending",
         own # {} => Passed(row.steps) /\ Survives(t, st),
         \/ st["commit"] = "succeeded" \/ row.steps["commit"] = "succeeded"
         \/ row.status = "succeeded"
         => own # {}
  PROVE  Sound(Caught(t, st), row, own, errors)
<1> DEFINE c == Caught(t, st)
<1>1. /\ c \in Runs
      /\ c.pc \in {"threw", "failAt", "failTask"}
      /\ c.pc = "threw" <=> run[t].handler = "none"
      /\ c.handler # "none" => c.pc = "failAt"
      /\ st["check"] # "pending" => c.steps["check"] # "pending"
      /\ Survives(t, st) => c.pc = "threw" \/ Passed(c.steps)
      /\ c.handler # "check"
      /\ c.steps["commit"] = "succeeded" => st["commit"] = "succeeded"
  BY CaughtShape
<1> HIDE DEF c
<1>2. Handled(c, row, errors)
  BY <1>1 DEF Handled, Working
<1>3. Progress(c)
  BY <1>1 DEF Progress, Working, AfterCommit
<1>4. Committed(c, row, own)
  BY <1>1 DEF Committed, BeforeCommit, AfterCommit
<1> QED
  BY <1>2, <1>3, <1>4 DEF Sound, c

---------------------------------------------------------------------------
\* One step of a run, which then has landed the commits "own".

Stepped(t, own) ==
  /\ run' \in [Task -> Runs] /\ task' \in [Task -> Tasks]
  /\ dbErrors' \in Nat /\ dbErrors' >= dbErrors
  /\ \A u \in Task \ {t} : run'[u] = run[u] /\ task'[u] = task[u]
  /\ run'[t].base <= BranchHead /\ run'[t].pc # "idle"
  /\ task'[t].linked = task[t].linked
  /\ task'[t].status \in {task[t].status, "succeeded", "failed"}
  /\ Sound(run'[t], task'[t], own, dbErrors')

LEMMA MoreErrors ==
  ASSUME NEW r, NEW row, NEW own, NEW e \in Nat, NEW f \in Nat, f >= e, Sound(r, row, own, e)
  PROVE  Sound(r, row, own, f)
BY DEF Sound, Handled

\* The run moves on to r, its row to row.
LEMMA Moving ==
  ASSUME Rows, NEW t \in Task, NEW own, NEW r \in Runs, NEW row \in Tasks,
         run' = [run EXCEPT ![t] = r], task' = [task EXCEPT ![t] = row],
         dbErrors' \in Nat, dbErrors' >= dbErrors,
         r.base <= BranchHead, r.pc # "idle",
         row.linked = task[t].linked, row.status \in {task[t].status, "succeeded", "failed"},
         Sound(r, row, own, dbErrors')
  PROVE  Stepped(t, own)
BY DEF Stepped, Rows

\* The run is sent to a handler.
LEMMA Rejecting ==
  ASSUME Rows, NEW t \in Task, NEW own, NEW st \in Steps,
         Reject(t, st), UNCHANGED task, dbErrors' \in Nat, dbErrors' >= dbErrors,
         run[t].handler = "none" => dbErrors' > 0,
         run[t].handler = "none" \/ st["check"] # "pending",
         own # {} => Passed(task[t].steps) /\ Survives(t, st),
         \/ st["commit"] = "succeeded" \/ task[t].steps["commit"] = "succeeded"
         \/ task[t].status = "succeeded"
         => own # {}
  PROVE  Stepped(t, own)
<1> DEFINE c == Caught(t, st)
<1>1. task[t] \in Tasks /\ task' = [task EXCEPT ![t] = task[t]]
  BY DEF Rows
<1>2. c \in Runs /\ c.base = run[t].base /\ c.pc \in {"threw", "failAt", "failTask"}
  BY CaughtShape
<1>3. Sound(c, task[t], own, dbErrors')
  BY <1>1, Rejection
<1>4. run' = [run EXCEPT ![t] = c]
  BY DEF Reject
<1>5. c.base <= BranchHead
  BY <1>2 DEF Rows
<1> HIDE DEF c
<1> QED
  BY <1>1, <1>2, <1>3, <1>4, <1>5, Moving

\* A save of the steps, or the rejection of it.
LEMMA Saving ==
  ASSUME Rows, NEW t \in Task, NEW own, NEW st \in Steps, NEW r \in Runs,
         SaveSteps(t, st, r), r.base <= BranchHead, r.pc # "idle",
         run[t].handler = "none" \/ st["check"] # "pending",
         own # {} => Passed(task[t].steps) /\ Survives(t, st),
         \/ st["commit"] = "succeeded" \/ task[t].steps["commit"] = "succeeded"
         \/ task[t].status = "succeeded"
         => own # {},
         Sound([r EXCEPT !.steps = st], [task[t] EXCEPT !.steps = st], own, dbErrors)
  PROVE  Stepped(t, own)
<1>1. dbErrors \in Nat /\ task \in [Task -> Tasks]
  BY DEF Rows
<1>2. CASE /\ task' = [task EXCEPT ![t].steps = st]
           /\ run' = [run EXCEPT ![t] = [r EXCEPT !.steps = st]]
           /\ UNCHANGED dbErrors
  <2> DEFINE s == [r EXCEPT !.steps = st]
             row == [task[t] EXCEPT !.steps = st]
  <2>1. s \in Runs /\ s.base = r.base /\ s.pc = r.pc
    BY DEF Runs
  <2>2. row \in Tasks /\ row.linked = task[t].linked /\ row.status = task[t].status
    BY <1>1 DEF Tasks
  <2>3. run' = [run EXCEPT ![t] = s] /\ task' = [task EXCEPT ![t] = row]
    BY <1>1, <1>2
  <2>4. Sound(s, row, own, dbErrors') /\ dbErrors' \in Nat /\ dbErrors' >= dbErrors
    BY <1>1, <1>2
  <2>5. s.base <= BranchHead /\ s.pc # "idle"
    BY <2>1
  <2> HIDE DEF s, row
  <2> QED
    BY <2>1, <2>2, <2>3, <2>4, <2>5, Moving
<1>3. CASE DbError /\ Reject(t, st) /\ UNCHANGED task
  <2>1. dbErrors' \in Nat /\ dbErrors' >= dbErrors /\ dbErrors' > 0
    BY <1>1, <1>3 DEF DbError
  <2> QED
    BY <1>3, <2>1, Rejecting
<1> QED
  BY <1>2, <1>3 DEF SaveSteps

---------------------------------------------------------------------------
\* The steps that save.

LEMMA BeginCheckStep ==
  ASSUME Rows, NEW t \in Task, NEW own, Sound(run[t], task[t], own, dbErrors), BeginCheck(t)
  PROVE  Stepped(t, own)
<1>1. run[t] \in Runs /\ task[t] \in Tasks /\ run[t].base <= BranchHead /\ dbErrors \in Nat
  BY DEF Rows
<1>2. run[t].pc = "check"
  BY DEF BeginCheck
<1> QED
  <2> DEFINE st == [run[t].steps EXCEPT !["check"] = "running"]
             r == [run[t] EXCEPT !.pc = "checking"]
             s == [r EXCEPT !.steps = st]
             row == [task[t] EXCEPT !.steps = st]
  <2>1. SaveSteps(t, st, r)
    BY DEF BeginCheck, SaveStep
  <2>2. st \in Steps /\ r \in Runs /\ r.base = run[t].base /\ r.pc # "idle"
    BY <1>1 DEF Runs, RunPc, Working, Steps, StepKey, StepStatus, Handlers
  <2>3. /\ s.pc = r.pc /\ s.handler = r.handler /\ s.steps = st
        /\ s.built = r.built /\ s.base = r.base /\ s.drafts = run[t].drafts
        /\ row.status = task[t].status /\ row.steps = st
    BY <1>1, <2>2 DEF Runs, Tasks
  <2>4. Handled(s, row, dbErrors) /\ Progress(s) /\ Committed(s, row, own)
    BY <1>1, <1>2, <2>3 DEF Sound, Handled, Progress, Committed, OnlyConfig, ConfigOnly, Passed,
       Built, Working, BeforeCommit, AfterCommit, Runs, Steps, StepKey
  <2>5. /\ run[t].handler = "none" \/ st["check"] # "pending"
        /\ own # {} => Passed(task[t].steps) /\ Survives(t, st)
        /\ \/ st["commit"] = "succeeded" \/ task[t].steps["commit"] = "succeeded"
           \/ task[t].status = "succeeded"
           => own # {}
    BY <1>1, <1>2 DEF Sound, Handled, Progress, Committed, Passed, Survives,
       Built, Working, BeforeCommit, AfterCommit, Runs, Steps, StepKey
  <2>6. r.base <= BranchHead
    BY <1>1, <2>2
  <2> HIDE DEF st, r
  <2> QED
    BY <2>1, <2>2, <2>4, <2>5, <2>6, Saving DEF Sound

LEMMA InitStepsStep ==
  ASSUME Rows, NEW t \in Task, NEW own, Sound(run[t], task[t], own, dbErrors), InitSteps(t)
  PROVE  Stepped(t, own)
<1>1. run[t] \in Runs /\ task[t] \in Tasks /\ run[t].base <= BranchHead /\ dbErrors \in Nat
  BY DEF Rows
<1>2. run[t].pc = "init"
  BY DEF InitSteps
<1> QED
  <2> DEFINE st == [s \in StepKey |->
                    IF ConfigOnly(t) /\ s \in {"build", "version", "deploy"} THEN "skipped" ELSE "pending"]
             r == [run[t] EXCEPT !.pc = "check", !.handler = "outer"]
             s == [r EXCEPT !.steps = st]
             row == [task[t] EXCEPT !.steps = st]
  <2>1. SaveSteps(t, st, r)
    BY DEF InitSteps
  <2>2. st \in Steps /\ r \in Runs /\ r.base = run[t].base /\ r.pc # "idle"
    BY <1>1 DEF Runs, RunPc, Working, Steps, StepKey, StepStatus, Handlers
  <2>3. /\ s.pc = r.pc /\ s.handler = r.handler /\ s.steps = st
        /\ s.built = r.built /\ s.base = r.base /\ s.drafts = run[t].drafts
        /\ row.status = task[t].status /\ row.steps = st
    BY <1>1, <2>2 DEF Runs, Tasks
  <2>4. Handled(s, row, dbErrors) /\ Progress(s) /\ Committed(s, row, own)
    BY <1>1, <1>2, <2>3 DEF Sound, Handled, Progress, Committed, OnlyConfig, ConfigOnly, Passed,
       Built, Working, BeforeCommit, AfterCommit, Runs, Steps, StepKey
  <2>5. /\ run[t].handler = "none" \/ st["check"] # "pending"
        /\ own # {} => Passed(task[t].steps) /\ Survives(t, st)
        /\ \/ st["commit"] = "succeeded" \/ task[t].steps["commit"] = "succeeded"
           \/ task[t].status = "succeeded"
           => own # {}
    BY <1>1, <1>2 DEF Sound, Handled, Progress, Committed, Passed, Survives,
       Built, Working, BeforeCommit, AfterCommit, Runs, Steps, StepKey
  <2>6. r.base <= BranchHead
    BY <1>1, <2>2
  <2> HIDE DEF st, r
  <2> QED
    BY <2>1, <2>2, <2>4, <2>5, <2>6, Saving DEF Sound

LEMMA CheckStep ==
  ASSUME Rows, NEW t \in Task, NEW own, Sound(run[t], task[t], own, dbErrors), Check(t)
  PROVE  Stepped(t, own)
<1>1. run[t] \in Runs /\ task[t] \in Tasks /\ run[t].base <= BranchHead /\ dbErrors \in Nat
  BY DEF Rows
<1>2. run[t].pc = "checking"
  BY DEF Check
<1>3. CASE EndStep(t, "check", IF ConfigOnly(t) THEN "commit" ELSE "build",
                   [run[t] EXCEPT !.pc = "pin",
                   !.handler = IF ConfigOnly(t) THEN "commit" ELSE "outer"])
  <2> DEFINE st == [run[t].steps EXCEPT !["check"] = "succeeded",
                        ![IF ConfigOnly(t) THEN "commit" ELSE "build"] = "running"]
             r == [run[t] EXCEPT !.pc = "pin",
                        !.handler = IF ConfigOnly(t) THEN "commit" ELSE "outer"]
             s == [r EXCEPT !.steps = st]
             row == [task[t] EXCEPT !.steps = st]
  <2>1. SaveSteps(t, st, r)
    BY <1>3 DEF EndStep
  <2>2. st \in Steps /\ r \in Runs /\ r.base = run[t].base /\ r.pc # "idle"
    BY <1>3, <1>1 DEF Runs, RunPc, Working, Steps, StepKey, StepStatus, Handlers
  <2>3. /\ s.pc = r.pc /\ s.handler = r.handler /\ s.steps = st
        /\ s.built = r.built /\ s.base = r.base /\ s.drafts = run[t].drafts
        /\ row.status = task[t].status /\ row.steps = st
    BY <1>1, <2>2 DEF Runs, Tasks
  <2>4. Handled(s, row, dbErrors) /\ Progress(s) /\ Committed(s, row, own)
    BY <1>3, <1>1, <1>2, <2>3 DEF Sound, Handled, Progress, Committed, OnlyConfig, ConfigOnly, Passed,
       Built, Working, BeforeCommit, AfterCommit, Runs, Steps, StepKey
  <2>5. /\ run[t].handler = "none" \/ st["check"] # "pending"
        /\ own # {} => Passed(task[t].steps) /\ Survives(t, st)
        /\ \/ st["commit"] = "succeeded" \/ task[t].steps["commit"] = "succeeded"
           \/ task[t].status = "succeeded"
           => own # {}
    BY <1>3, <1>1, <1>2 DEF Sound, Handled, Progress, Committed, Passed, Survives,
       Built, Working, BeforeCommit, AfterCommit, Runs, Steps, StepKey
  <2>6. r.base <= BranchHead
    BY <1>1, <2>2
  <2> HIDE DEF st, r
  <2> QED
    BY <2>1, <2>2, <2>4, <2>5, <2>6, Saving DEF Sound
<1>4. CASE /\ \E h \in {"check", "outer"} :
                run' = [run EXCEPT ![t].steps["check"] = "failed", ![t].pc = "failAt",
                                   ![t].handler = h]
           /\ UNCHANGED <<task, dbErrors>>
  <2>1. PICK h \in {"check", "outer"} :
          run' = [run EXCEPT ![t].steps["check"] = "failed", ![t].pc = "failAt",
                             ![t].handler = h]
    BY <1>4
  <2> DEFINE q == [run[t] EXCEPT !.steps["check"] = "failed", !.pc = "failAt", !.handler = h]
  <2>2. /\ q \in Runs /\ q.base = run[t].base /\ q.pc = "failAt" /\ q.handler = h
        /\ q.steps["check"] = "failed" /\ q.steps["commit"] = run[t].steps["commit"]
    BY <1>1 DEF Runs, RunPc, Steps, StepKey, StepStatus, Handlers
  <2>3. own = {}
    BY <1>2 DEF Sound, Committed, BeforeCommit
  <2>4. Sound(q, task[t], own, dbErrors)
    BY <1>1, <1>2, <2>2, <2>3 DEF Sound, Handled, Progress, Committed, Working, BeforeCommit,
       AfterCommit
  <2>5. run' = [run EXCEPT ![t] = q]
    BY <2>1 DEF Rows
  <2>6. task' = [task EXCEPT ![t] = task[t]]
    BY <1>4 DEF Rows
  <2> HIDE DEF q
  <2>7. /\ dbErrors' \in Nat /\ dbErrors' >= dbErrors /\ Sound(q, task[t], own, dbErrors')
        /\ q.base <= BranchHead /\ q.pc # "idle"
    BY <1>1, <1>4, <2>2, <2>4
  <2> QED
    BY <1>1, <2>2, <2>5, <2>6, <2>7, Moving
<1> QED
  BY <1>3, <1>4 DEF Check

LEMMA BuildStep ==
  ASSUME Rows, NEW t \in Task, NEW own, Sound(run[t], task[t], own, dbErrors), Build(t)
  PROVE  Stepped(t, own)
<1>1. run[t] \in Runs /\ task[t] \in Tasks /\ run[t].base <= BranchHead /\ dbErrors \in Nat
  BY DEF Rows
<1>2. run[t].pc = "building"
  BY DEF Build
<1>3. CASE EndStep(t, "build", "commit",
                   [run[t] EXCEPT !.pc = IF run[t].handler = "commit" THEN "recas" ELSE "cas",
                   !.built = run[t].base, !.handler = "commit"])
  <2> DEFINE st == [run[t].steps EXCEPT !["build"] = "succeeded", !["commit"] = "running"]
             r == [run[t] EXCEPT !.pc = IF run[t].handler = "commit" THEN "recas" ELSE "cas",
                        !.built = run[t].base, !.handler = "commit"]
             s == [r EXCEPT !.steps = st]
             row == [task[t] EXCEPT !.steps = st]
  <2>1. SaveSteps(t, st, r)
    BY <1>3 DEF EndStep
  <2>2. st \in Steps /\ r \in Runs /\ r.base = run[t].base /\ r.pc # "idle"
    BY <1>3, <1>1 DEF Runs, RunPc, Working, Steps, StepKey, StepStatus, Handlers
  <2>3. /\ s.pc = r.pc /\ s.handler = r.handler /\ s.steps = st
        /\ s.built = r.built /\ s.base = r.base /\ s.drafts = run[t].drafts
        /\ row.status = task[t].status /\ row.steps = st
    BY <1>1, <2>2 DEF Runs, Tasks
  <2>4. Handled(s, row, dbErrors) /\ Progress(s) /\ Committed(s, row, own)
    BY <1>3, <1>1, <1>2, <2>3 DEF Sound, Handled, Progress, Committed, OnlyConfig, ConfigOnly, Passed,
       Built, Working, BeforeCommit, AfterCommit, Runs, Steps, StepKey
  <2>5. /\ run[t].handler = "none" \/ st["check"] # "pending"
        /\ own # {} => Passed(task[t].steps) /\ Survives(t, st)
        /\ \/ st["commit"] = "succeeded" \/ task[t].steps["commit"] = "succeeded"
           \/ task[t].status = "succeeded"
           => own # {}
    BY <1>3, <1>1, <1>2 DEF Sound, Handled, Progress, Committed, Passed, Survives,
       Built, Working, BeforeCommit, AfterCommit, Runs, Steps, StepKey
  <2>6. r.base <= BranchHead
    BY <1>1, <2>2
  <2> HIDE DEF st, r
  <2> QED
    BY <2>1, <2>2, <2>4, <2>5, <2>6, Saving DEF Sound
<1>4. CASE FailStep(t, "build")
  <2> DEFINE st == [run[t].steps EXCEPT !["build"] = "failed"]
             r == [run[t] EXCEPT !.pc = "failTask"]
             s == [r EXCEPT !.steps = st]
             row == [task[t] EXCEPT !.steps = st]
  <2>1. SaveSteps(t, st, r)
    BY <1>4 DEF FailStep, SaveStep
  <2>2. st \in Steps /\ r \in Runs /\ r.base = run[t].base /\ r.pc # "idle"
    BY <1>4, <1>1 DEF Runs, RunPc, Working, Steps, StepKey, StepStatus, Handlers
  <2>3. /\ s.pc = r.pc /\ s.handler = r.handler /\ s.steps = st
        /\ s.built = r.built /\ s.base = r.base /\ s.drafts = run[t].drafts
        /\ row.status = task[t].status /\ row.steps = st
    BY <1>1, <2>2 DEF Runs, Tasks
  <2>4. Handled(s, row, dbErrors) /\ Progress(s) /\ Committed(s, row, own)
    BY <1>4, <1>1, <1>2, <2>3 DEF Sound, Handled, Progress, Committed, OnlyConfig, ConfigOnly, Passed,
       Built, Working, BeforeCommit, AfterCommit, Runs, Steps, StepKey
  <2>5. /\ run[t].handler = "none" \/ st["check"] # "pending"
        /\ own # {} => Passed(task[t].steps) /\ Survives(t, st)
        /\ \/ st["commit"] = "succeeded" \/ task[t].steps["commit"] = "succeeded"
           \/ task[t].status = "succeeded"
           => own # {}
    BY <1>4, <1>1, <1>2 DEF Sound, Handled, Progress, Committed, Passed, Survives,
       Built, Working, BeforeCommit, AfterCommit, Runs, Steps, StepKey
  <2>6. r.base <= BranchHead
    BY <1>1, <2>2
  <2> HIDE DEF st, r
  <2> QED
    BY <2>1, <2>2, <2>4, <2>5, <2>6, Saving DEF Sound
<1> QED
  BY <1>3, <1>4 DEF Build

LEMMA CommitMissedTwiceStep ==
  ASSUME Rows, NEW t \in Task, NEW own, Sound(run[t], task[t], own, dbErrors), CommitMissedTwice(t)
  PROVE  Stepped(t, own)
<1>1. run[t] \in Runs /\ task[t] \in Tasks /\ run[t].base <= BranchHead /\ dbErrors \in Nat
  BY DEF Rows
<1>2. run[t].pc = "recas"
  BY DEF CommitMissedTwice
<1> QED
  <2> DEFINE st == [run[t].steps EXCEPT !["commit"] = "failed"]
             r == [run[t] EXCEPT !.pc = "failTask"]
             s == [r EXCEPT !.steps = st]
             row == [task[t] EXCEPT !.steps = st]
  <2>1. SaveSteps(t, st, r)
    BY DEF CommitMissedTwice, FailStep, SaveStep
  <2>2. st \in Steps /\ r \in Runs /\ r.base = run[t].base /\ r.pc # "idle"
    BY <1>1 DEF Runs, RunPc, Working, Steps, StepKey, StepStatus, Handlers
  <2>3. /\ s.pc = r.pc /\ s.handler = r.handler /\ s.steps = st
        /\ s.built = r.built /\ s.base = r.base /\ s.drafts = run[t].drafts
        /\ row.status = task[t].status /\ row.steps = st
    BY <1>1, <2>2 DEF Runs, Tasks
  <2>4. Handled(s, row, dbErrors) /\ Progress(s) /\ Committed(s, row, own)
    BY <1>1, <1>2, <2>3 DEF Sound, Handled, Progress, Committed, OnlyConfig, ConfigOnly, Passed,
       Built, Working, BeforeCommit, AfterCommit, Runs, Steps, StepKey
  <2>5. /\ run[t].handler = "none" \/ st["check"] # "pending"
        /\ own # {} => Passed(task[t].steps) /\ Survives(t, st)
        /\ \/ st["commit"] = "succeeded" \/ task[t].steps["commit"] = "succeeded"
           \/ task[t].status = "succeeded"
           => own # {}
    BY <1>1, <1>2 DEF Sound, Handled, Progress, Committed, Passed, Survives,
       Built, Working, BeforeCommit, AfterCommit, Runs, Steps, StepKey
  <2>6. r.base <= BranchHead
    BY <1>1, <2>2
  <2> HIDE DEF st, r
  <2> QED
    BY <2>1, <2>2, <2>4, <2>5, <2>6, Saving DEF Sound

LEMMA RetryCommitStep ==
  ASSUME Rows, NEW t \in Task, NEW own, Sound(run[t], task[t], own, dbErrors), RetryCommit(t)
  PROVE  Stepped(t, own)
<1>1. run[t] \in Runs /\ task[t] \in Tasks /\ run[t].base <= BranchHead /\ dbErrors \in Nat
  BY DEF Rows
<1>2. run[t].pc = "missed"
  BY DEF RetryCommit
<1> QED
  <2> DEFINE st == [run[t].steps EXCEPT !["commit"] = "pending"]
             r == [run[t] EXCEPT !.pc = IF ConfigOnly(t) THEN "pin" ELSE "rebuild"]
             s == [r EXCEPT !.steps = st]
             row == [task[t] EXCEPT !.steps = st]
  <2>1. SaveSteps(t, st, r)
    BY DEF RetryCommit, SaveStep
  <2>2. st \in Steps /\ r \in Runs /\ r.base = run[t].base /\ r.pc # "idle"
    BY <1>1 DEF Runs, RunPc, Working, Steps, StepKey, StepStatus, Handlers
  <2>3. /\ s.pc = r.pc /\ s.handler = r.handler /\ s.steps = st
        /\ s.built = r.built /\ s.base = r.base /\ s.drafts = run[t].drafts
        /\ row.status = task[t].status /\ row.steps = st
    BY <1>1, <2>2 DEF Runs, Tasks
  <2>4. Handled(s, row, dbErrors) /\ Progress(s) /\ Committed(s, row, own)
    BY <1>1, <1>2, <2>3 DEF Sound, Handled, Progress, Committed, OnlyConfig, ConfigOnly, Passed,
       Built, Working, BeforeCommit, AfterCommit, Runs, Steps, StepKey
  <2>5. /\ run[t].handler = "none" \/ st["check"] # "pending"
        /\ own # {} => Passed(task[t].steps) /\ Survives(t, st)
        /\ \/ st["commit"] = "succeeded" \/ task[t].steps["commit"] = "succeeded"
           \/ task[t].status = "succeeded"
           => own # {}
    BY <1>1, <1>2 DEF Sound, Handled, Progress, Committed, Passed, Survives,
       Built, Working, BeforeCommit, AfterCommit, Runs, Steps, StepKey
  <2>6. r.base <= BranchHead
    BY <1>1, <2>2
  <2> HIDE DEF st, r
  <2> QED
    BY <2>1, <2>2, <2>4, <2>5, <2>6, Saving DEF Sound

LEMMA BeginAgainStep ==
  ASSUME Rows, NEW t \in Task, NEW own, Sound(run[t], task[t], own, dbErrors), BeginAgain(t)
  PROVE  Stepped(t, own)
<1>1. run[t] \in Runs /\ task[t] \in Tasks /\ run[t].base <= BranchHead /\ dbErrors \in Nat
  BY DEF Rows
<1>2. run[t].pc \in {"rebuild", "recommit"}
  BY DEF BeginAgain
<1>3. CASE run[t].pc = "rebuild" /\ SaveStep(t, "build", "running", "pin")
  <2> DEFINE st == [run[t].steps EXCEPT !["build"] = "running"]
             r == [run[t] EXCEPT !.pc = "pin"]
             s == [r EXCEPT !.steps = st]
             row == [task[t] EXCEPT !.steps = st]
  <2>1. SaveSteps(t, st, r)
    BY <1>3 DEF SaveStep
  <2>2. st \in Steps /\ r \in Runs /\ r.base = run[t].base /\ r.pc # "idle"
    BY <1>3, <1>1 DEF Runs, RunPc, Working, Steps, StepKey, StepStatus, Handlers
  <2>3. /\ s.pc = r.pc /\ s.handler = r.handler /\ s.steps = st
        /\ s.built = r.built /\ s.base = r.base /\ s.drafts = run[t].drafts
        /\ row.status = task[t].status /\ row.steps = st
    BY <1>1, <2>2 DEF Runs, Tasks
  <2>4. Handled(s, row, dbErrors) /\ Progress(s) /\ Committed(s, row, own)
    BY <1>3, <1>1, <1>2, <2>3 DEF Sound, Handled, Progress, Committed, OnlyConfig, ConfigOnly, Passed,
       Built, Working, BeforeCommit, AfterCommit, Runs, Steps, StepKey
  <2>5. /\ run[t].handler = "none" \/ st["check"] # "pending"
        /\ own # {} => Passed(task[t].steps) /\ Survives(t, st)
        /\ \/ st["commit"] = "succeeded" \/ task[t].steps["commit"] = "succeeded"
           \/ task[t].status = "succeeded"
           => own # {}
    BY <1>3, <1>1, <1>2 DEF Sound, Handled, Progress, Committed, Passed, Survives,
       Built, Working, BeforeCommit, AfterCommit, Runs, Steps, StepKey
  <2>6. r.base <= BranchHead
    BY <1>1, <2>2
  <2> HIDE DEF st, r
  <2> QED
    BY <2>1, <2>2, <2>4, <2>5, <2>6, Saving DEF Sound
<1>4. CASE run[t].pc = "recommit" /\ SaveStep(t, "commit", "running", "recas")
  <2> DEFINE st == [run[t].steps EXCEPT !["commit"] = "running"]
             r == [run[t] EXCEPT !.pc = "recas"]
             s == [r EXCEPT !.steps = st]
             row == [task[t] EXCEPT !.steps = st]
  <2>1. SaveSteps(t, st, r)
    BY <1>4 DEF SaveStep
  <2>2. st \in Steps /\ r \in Runs /\ r.base = run[t].base /\ r.pc # "idle"
    BY <1>4, <1>1 DEF Runs, RunPc, Working, Steps, StepKey, StepStatus, Handlers
  <2>3. /\ s.pc = r.pc /\ s.handler = r.handler /\ s.steps = st
        /\ s.built = r.built /\ s.base = r.base /\ s.drafts = run[t].drafts
        /\ row.status = task[t].status /\ row.steps = st
    BY <1>1, <2>2 DEF Runs, Tasks
  <2>4. Handled(s, row, dbErrors) /\ Progress(s) /\ Committed(s, row, own)
    BY <1>4, <1>1, <1>2, <2>3 DEF Sound, Handled, Progress, Committed, OnlyConfig, ConfigOnly, Passed,
       Built, Working, BeforeCommit, AfterCommit, Runs, Steps, StepKey
  <2>5. /\ run[t].handler = "none" \/ st["check"] # "pending"
        /\ own # {} => Passed(task[t].steps) /\ Survives(t, st)
        /\ \/ st["commit"] = "succeeded" \/ task[t].steps["commit"] = "succeeded"
           \/ task[t].status = "succeeded"
           => own # {}
    BY <1>4, <1>1, <1>2 DEF Sound, Handled, Progress, Committed, Passed, Survives,
       Built, Working, BeforeCommit, AfterCommit, Runs, Steps, StepKey
  <2>6. r.base <= BranchHead
    BY <1>1, <2>2
  <2> HIDE DEF st, r
  <2> QED
    BY <2>1, <2>2, <2>4, <2>5, <2>6, Saving DEF Sound
<1> QED
  BY <1>3, <1>4 DEF BeginAgain

LEMMA CommitDoneStep ==
  ASSUME Rows, NEW t \in Task, NEW own, Sound(run[t], task[t], own, dbErrors), CommitDone(t)
  PROVE  Stepped(t, own)
<1>1. run[t] \in Runs /\ task[t] \in Tasks /\ run[t].base <= BranchHead /\ dbErrors \in Nat
  BY DEF Rows
<1>2. run[t].pc = "landed"
  BY DEF CommitDone
<1> QED
  <2> DEFINE st == [run[t].steps EXCEPT !["commit"] = "succeeded"]
             r == [run[t] EXCEPT !.pc = "restart"]
             s == [r EXCEPT !.steps = st]
             row == [task[t] EXCEPT !.steps = st]
  <2>1. SaveSteps(t, st, r)
    BY DEF CommitDone, SaveStep
  <2>2. st \in Steps /\ r \in Runs /\ r.base = run[t].base /\ r.pc # "idle"
    BY <1>1 DEF Runs, RunPc, Working, Steps, StepKey, StepStatus, Handlers
  <2>3. /\ s.pc = r.pc /\ s.handler = r.handler /\ s.steps = st
        /\ s.built = r.built /\ s.base = r.base /\ s.drafts = run[t].drafts
        /\ row.status = task[t].status /\ row.steps = st
    BY <1>1, <2>2 DEF Runs, Tasks
  <2>4. Handled(s, row, dbErrors) /\ Progress(s) /\ Committed(s, row, own)
    BY <1>1, <1>2, <2>3 DEF Sound, Handled, Progress, Committed, OnlyConfig, ConfigOnly, Passed,
       Built, Working, BeforeCommit, AfterCommit, Runs, Steps, StepKey
  <2>5. /\ run[t].handler = "none" \/ st["check"] # "pending"
        /\ own # {} => Passed(task[t].steps) /\ Survives(t, st)
        /\ \/ st["commit"] = "succeeded" \/ task[t].steps["commit"] = "succeeded"
           \/ task[t].status = "succeeded"
           => own # {}
    BY <1>1, <1>2 DEF Sound, Handled, Progress, Committed, Passed, Survives,
       Built, Working, BeforeCommit, AfterCommit, Runs, Steps, StepKey
  <2>6. r.base <= BranchHead
    BY <1>1, <2>2
  <2> HIDE DEF st, r
  <2> QED
    BY <2>1, <2>2, <2>4, <2>5, <2>6, Saving DEF Sound

LEMMA CutVersionStep ==
  ASSUME Rows, NEW t \in Task, NEW own, Sound(run[t], task[t], own, dbErrors), CutVersion(t)
  PROVE  Stepped(t, own)
<1>1. run[t] \in Runs /\ task[t] \in Tasks /\ run[t].base <= BranchHead /\ dbErrors \in Nat
  BY DEF Rows
<1>2. run[t].pc = "versioning"
  BY DEF CutVersion
<1>3. CASE EndStep(t, "version", "deploy", [run[t] EXCEPT !.pc = "deploying"])
  <2> DEFINE st == [run[t].steps EXCEPT !["version"] = "succeeded", !["deploy"] = "running"]
             r == [run[t] EXCEPT !.pc = "deploying"]
             s == [r EXCEPT !.steps = st]
             row == [task[t] EXCEPT !.steps = st]
  <2>1. SaveSteps(t, st, r)
    BY <1>3 DEF EndStep
  <2>2. st \in Steps /\ r \in Runs /\ r.base = run[t].base /\ r.pc # "idle"
    BY <1>3, <1>1 DEF Runs, RunPc, Working, Steps, StepKey, StepStatus, Handlers
  <2>3. /\ s.pc = r.pc /\ s.handler = r.handler /\ s.steps = st
        /\ s.built = r.built /\ s.base = r.base /\ s.drafts = run[t].drafts
        /\ row.status = task[t].status /\ row.steps = st
    BY <1>1, <2>2 DEF Runs, Tasks
  <2>4. Handled(s, row, dbErrors) /\ Progress(s) /\ Committed(s, row, own)
    BY <1>3, <1>1, <1>2, <2>3 DEF Sound, Handled, Progress, Committed, OnlyConfig, ConfigOnly, Passed,
       Built, Working, BeforeCommit, AfterCommit, Runs, Steps, StepKey
  <2>5. /\ run[t].handler = "none" \/ st["check"] # "pending"
        /\ own # {} => Passed(task[t].steps) /\ Survives(t, st)
        /\ \/ st["commit"] = "succeeded" \/ task[t].steps["commit"] = "succeeded"
           \/ task[t].status = "succeeded"
           => own # {}
    BY <1>3, <1>1, <1>2 DEF Sound, Handled, Progress, Committed, Passed, Survives,
       Built, Working, BeforeCommit, AfterCommit, Runs, Steps, StepKey
  <2>6. r.base <= BranchHead
    BY <1>1, <2>2
  <2> HIDE DEF st, r
  <2> QED
    BY <2>1, <2>2, <2>4, <2>5, <2>6, Saving DEF Sound
<1>4. CASE FailStep(t, "version")
  <2> DEFINE st == [run[t].steps EXCEPT !["version"] = "failed"]
             r == [run[t] EXCEPT !.pc = "failTask"]
             s == [r EXCEPT !.steps = st]
             row == [task[t] EXCEPT !.steps = st]
  <2>1. SaveSteps(t, st, r)
    BY <1>4 DEF FailStep, SaveStep
  <2>2. st \in Steps /\ r \in Runs /\ r.base = run[t].base /\ r.pc # "idle"
    BY <1>4, <1>1 DEF Runs, RunPc, Working, Steps, StepKey, StepStatus, Handlers
  <2>3. /\ s.pc = r.pc /\ s.handler = r.handler /\ s.steps = st
        /\ s.built = r.built /\ s.base = r.base /\ s.drafts = run[t].drafts
        /\ row.status = task[t].status /\ row.steps = st
    BY <1>1, <2>2 DEF Runs, Tasks
  <2>4. Handled(s, row, dbErrors) /\ Progress(s) /\ Committed(s, row, own)
    BY <1>4, <1>1, <1>2, <2>3 DEF Sound, Handled, Progress, Committed, OnlyConfig, ConfigOnly, Passed,
       Built, Working, BeforeCommit, AfterCommit, Runs, Steps, StepKey
  <2>5. /\ run[t].handler = "none" \/ st["check"] # "pending"
        /\ own # {} => Passed(task[t].steps) /\ Survives(t, st)
        /\ \/ st["commit"] = "succeeded" \/ task[t].steps["commit"] = "succeeded"
           \/ task[t].status = "succeeded"
           => own # {}
    BY <1>4, <1>1, <1>2 DEF Sound, Handled, Progress, Committed, Passed, Survives,
       Built, Working, BeforeCommit, AfterCommit, Runs, Steps, StepKey
  <2>6. r.base <= BranchHead
    BY <1>1, <2>2
  <2> HIDE DEF st, r
  <2> QED
    BY <2>1, <2>2, <2>4, <2>5, <2>6, Saving DEF Sound
<1> QED
  BY <1>3, <1>4 DEF CutVersion

LEMMA QueueDeploysStep ==
  ASSUME Rows, NEW t \in Task, NEW own, Sound(run[t], task[t], own, dbErrors), QueueDeploys(t)
  PROVE  Stepped(t, own)
<1>1. run[t] \in Runs /\ task[t] \in Tasks /\ run[t].base <= BranchHead /\ dbErrors \in Nat
  BY DEF Rows
<1>2. run[t].pc = "deploying"
  BY DEF QueueDeploys
<1>3. CASE SaveStep(t, "deploy", "succeeded", "complete")
  <2> DEFINE st == [run[t].steps EXCEPT !["deploy"] = "succeeded"]
             r == [run[t] EXCEPT !.pc = "complete"]
             s == [r EXCEPT !.steps = st]
             row == [task[t] EXCEPT !.steps = st]
  <2>1. SaveSteps(t, st, r)
    BY <1>3 DEF SaveStep
  <2>2. st \in Steps /\ r \in Runs /\ r.base = run[t].base /\ r.pc # "idle"
    BY <1>3, <1>1 DEF Runs, RunPc, Working, Steps, StepKey, StepStatus, Handlers
  <2>3. /\ s.pc = r.pc /\ s.handler = r.handler /\ s.steps = st
        /\ s.built = r.built /\ s.base = r.base /\ s.drafts = run[t].drafts
        /\ row.status = task[t].status /\ row.steps = st
    BY <1>1, <2>2 DEF Runs, Tasks
  <2>4. Handled(s, row, dbErrors) /\ Progress(s) /\ Committed(s, row, own)
    BY <1>3, <1>1, <1>2, <2>3 DEF Sound, Handled, Progress, Committed, OnlyConfig, ConfigOnly, Passed,
       Built, Working, BeforeCommit, AfterCommit, Runs, Steps, StepKey
  <2>5. /\ run[t].handler = "none" \/ st["check"] # "pending"
        /\ own # {} => Passed(task[t].steps) /\ Survives(t, st)
        /\ \/ st["commit"] = "succeeded" \/ task[t].steps["commit"] = "succeeded"
           \/ task[t].status = "succeeded"
           => own # {}
    BY <1>3, <1>1, <1>2 DEF Sound, Handled, Progress, Committed, Passed, Survives,
       Built, Working, BeforeCommit, AfterCommit, Runs, Steps, StepKey
  <2>6. r.base <= BranchHead
    BY <1>1, <2>2
  <2> HIDE DEF st, r
  <2> QED
    BY <2>1, <2>2, <2>4, <2>5, <2>6, Saving DEF Sound
<1>4. CASE FailStep(t, "deploy")
  <2> DEFINE st == [run[t].steps EXCEPT !["deploy"] = "failed"]
             r == [run[t] EXCEPT !.pc = "failTask"]
             s == [r EXCEPT !.steps = st]
             row == [task[t] EXCEPT !.steps = st]
  <2>1. SaveSteps(t, st, r)
    BY <1>4 DEF FailStep, SaveStep
  <2>2. st \in Steps /\ r \in Runs /\ r.base = run[t].base /\ r.pc # "idle"
    BY <1>4, <1>1 DEF Runs, RunPc, Working, Steps, StepKey, StepStatus, Handlers
  <2>3. /\ s.pc = r.pc /\ s.handler = r.handler /\ s.steps = st
        /\ s.built = r.built /\ s.base = r.base /\ s.drafts = run[t].drafts
        /\ row.status = task[t].status /\ row.steps = st
    BY <1>1, <2>2 DEF Runs, Tasks
  <2>4. Handled(s, row, dbErrors) /\ Progress(s) /\ Committed(s, row, own)
    BY <1>4, <1>1, <1>2, <2>3 DEF Sound, Handled, Progress, Committed, OnlyConfig, ConfigOnly, Passed,
       Built, Working, BeforeCommit, AfterCommit, Runs, Steps, StepKey
  <2>5. /\ run[t].handler = "none" \/ st["check"] # "pending"
        /\ own # {} => Passed(task[t].steps) /\ Survives(t, st)
        /\ \/ st["commit"] = "succeeded" \/ task[t].steps["commit"] = "succeeded"
           \/ task[t].status = "succeeded"
           => own # {}
    BY <1>4, <1>1, <1>2 DEF Sound, Handled, Progress, Committed, Passed, Survives,
       Built, Working, BeforeCommit, AfterCommit, Runs, Steps, StepKey
  <2>6. r.base <= BranchHead
    BY <1>1, <2>2
  <2> HIDE DEF st, r
  <2> QED
    BY <2>1, <2>2, <2>4, <2>5, <2>6, Saving DEF Sound
<1> QED
  BY <1>3, <1>4 DEF QueueDeploys

LEMMA FailAtStep ==
  ASSUME Rows, NEW t \in Task, NEW own, Sound(run[t], task[t], own, dbErrors), FailAt(t)
  PROVE  Stepped(t, own)
<1>1. run[t] \in Runs /\ task[t] \in Tasks /\ run[t].base <= BranchHead /\ dbErrors \in Nat
  BY DEF Rows
<1>2. run[t].pc = "failAt"
  BY DEF FailAt
<1> QED
  <2> DEFINE st == run[t].steps
             r == [run[t] EXCEPT !.pc = "failTask"]
             s == [r EXCEPT !.steps = st]
             row == [task[t] EXCEPT !.steps = st]
  <2>1. SaveSteps(t, st, r)
    BY DEF FailAt
  <2>2. st \in Steps /\ r \in Runs /\ r.base = run[t].base /\ r.pc # "idle"
    BY <1>1 DEF Runs, RunPc, Working, Steps, StepKey, StepStatus, Handlers
  <2>3. /\ s.pc = r.pc /\ s.handler = r.handler /\ s.steps = st
        /\ s.built = r.built /\ s.base = r.base /\ s.drafts = run[t].drafts
        /\ row.status = task[t].status /\ row.steps = st
    BY <1>1, <2>2 DEF Runs, Tasks
  <2>4. Handled(s, row, dbErrors) /\ Progress(s) /\ Committed(s, row, own)
    BY <1>1, <1>2, <2>3 DEF Sound, Handled, Progress, Committed, OnlyConfig, ConfigOnly, Passed,
       Built, Working, BeforeCommit, AfterCommit, Runs, Steps, StepKey
  <2>5. /\ run[t].handler = "none" \/ st["check"] # "pending"
        /\ own # {} => Passed(task[t].steps) /\ Survives(t, st)
        /\ \/ st["commit"] = "succeeded" \/ task[t].steps["commit"] = "succeeded"
           \/ task[t].status = "succeeded"
           => own # {}
    BY <1>1, <1>2 DEF Sound, Handled, Progress, Committed, Passed, Survives,
       Built, Working, BeforeCommit, AfterCommit, Runs, Steps, StepKey
  <2>6. r.base <= BranchHead
    BY <1>1, <2>2
  <2> HIDE DEF st, r
  <2> QED
    BY <2>1, <2>2, <2>4, <2>5, <2>6, Saving DEF Sound

LEMMA SaveAfterRebuildStep ==
  ASSUME Rows, NEW t \in Task, NEW own, Sound(run[t], task[t], own, dbErrors), SaveAfterRebuild(t)
  PROVE  Stepped(t, own)
<1>1. run[t] \in Runs /\ task[t] \in Tasks /\ run[t].base <= BranchHead /\ dbErrors \in Nat
  BY DEF Rows
<1>2. run[t].pc = "afterRebuild"
  BY DEF SaveAfterRebuild
<1> QED
  <2> DEFINE st == run[t].steps
             r == [run[t] EXCEPT !.pc = "returned"]
             s == [r EXCEPT !.steps = st]
             row == [task[t] EXCEPT !.steps = st]
  <2>1. SaveSteps(t, st, r)
    BY DEF SaveAfterRebuild
  <2>2. st \in Steps /\ r \in Runs /\ r.base = run[t].base /\ r.pc # "idle"
    BY <1>1 DEF Runs, RunPc, Working, Steps, StepKey, StepStatus, Handlers
  <2>3. /\ s.pc = r.pc /\ s.handler = r.handler /\ s.steps = st
        /\ s.built = r.built /\ s.base = r.base /\ s.drafts = run[t].drafts
        /\ row.status = task[t].status /\ row.steps = st
    BY <1>1, <2>2 DEF Runs, Tasks
  <2>4. Handled(s, row, dbErrors) /\ Progress(s) /\ Committed(s, row, own)
    BY <1>1, <1>2, <2>3 DEF Sound, Handled, Progress, Committed, OnlyConfig, ConfigOnly, Passed,
       Built, Working, BeforeCommit, AfterCommit, Runs, Steps, StepKey
  <2>5. /\ run[t].handler = "none" \/ st["check"] # "pending"
        /\ own # {} => Passed(task[t].steps) /\ Survives(t, st)
        /\ \/ st["commit"] = "succeeded" \/ task[t].steps["commit"] = "succeeded"
           \/ task[t].status = "succeeded"
           => own # {}
    BY <1>1, <1>2 DEF Sound, Handled, Progress, Committed, Passed, Survives,
       Built, Working, BeforeCommit, AfterCommit, Runs, Steps, StepKey
  <2>6. r.base <= BranchHead
    BY <1>1, <2>2
  <2> HIDE DEF st, r
  <2> QED
    BY <2>1, <2>2, <2>4, <2>5, <2>6, Saving DEF Sound
---------------------------------------------------------------------------
\* The steps that do more than save.

LEMMA ReadTaskStep ==
  ASSUME Rows, Files, NEW t \in Task, NEW own, Sound(run[t], task[t], own, dbErrors),
         ReadTask(t)
  PROVE  Stepped(t, own)
<1> DEFINE r == [run[t] EXCEPT !.drafts = draft]
<1>1. /\ run[t] \in Runs /\ task[t] \in Tasks /\ run[t].base <= BranchHead
      /\ dbErrors \in Nat /\ run[t].pc = "read" /\ task' = task /\ task \in [Task -> Tasks]
      /\ run \in [Task -> Runs]
  BY DEF Rows, ReadTask
<1>2. r \in Runs /\ r.base = run[t].base /\ r.handler = "none" /\ r.steps = run[t].steps
  <2>1. Len(saves) \in 0 .. MaxSave /\ MaxSave \in Nat
    BY BoundAssumption DEF Files
  <2>2. draft \in [Path -> Draft]
    BY <2>1 DEF Files, Draft
  <2> QED
    BY <1>1, <2>2 DEF Runs, Sound, Handled
<1> HIDE DEF r
<1>3. ASSUME NEW q \in Runs, run' = [run EXCEPT ![t] = q], q.base = run[t].base,
             q.pc # "idle", dbErrors' \in Nat, dbErrors' >= dbErrors,
             Sound(q, task[t], own, dbErrors')
      PROVE  Stepped(t, own)
  BY <1>1, <1>3, Moving
<1>4. CASE UNCHANGED dbErrors
  <2> USE <1>4
  <2>1. CASE run' = [run EXCEPT ![t] = [r EXCEPT !.pc = "returned"]] /\ ~Running(t)
    <3> DEFINE q == [r EXCEPT !.pc = "returned"]
    <3>1. q \in Runs /\ q.base = run[t].base /\ q.pc = "returned" /\ q.handler = "none"
          /\ q.steps = run[t].steps
      BY <1>2 DEF Runs, RunPc
    <3>2. Sound(q, task[t], own, dbErrors)
      BY <1>1, <2>1, <3>1 DEF Sound, Handled, Progress, Committed, Running, Working,
         BeforeCommit, AfterCommit
    <3>3. /\ run' = [run EXCEPT ![t] = q] /\ dbErrors' \in Nat /\ dbErrors' >= dbErrors
          /\ Sound(q, task[t], own, dbErrors')
      BY <1>1, <2>1, <3>2
    <3> HIDE DEF q
    <3> QED
      BY <1>3, <3>1, <3>3
  <2>2. CASE run' = [run EXCEPT ![t] = [r EXCEPT !.pc = "failTask"]]
    <3> DEFINE q == [r EXCEPT !.pc = "failTask"]
    <3>1. q \in Runs /\ q.base = run[t].base /\ q.pc = "failTask" /\ q.handler = "none"
          /\ q.steps = run[t].steps
      BY <1>2 DEF Runs, RunPc
    <3>2. Sound(q, task[t], own, dbErrors)
      BY <1>1, <3>1 DEF Sound, Handled, Progress, Committed, Working, BeforeCommit, AfterCommit
    <3>3. /\ run' = [run EXCEPT ![t] = q] /\ dbErrors' \in Nat /\ dbErrors' >= dbErrors
          /\ Sound(q, task[t], own, dbErrors')
      BY <1>1, <2>2, <3>2
    <3> HIDE DEF q
    <3> QED
      BY <1>3, <3>1, <3>3
  <2>3. CASE /\ run' = [run EXCEPT ![t] = [r EXCEPT !.pc = "failAt", !.steps["check"] = "failed"]]
             /\ NeverRan(t)
    <3> DEFINE q == [r EXCEPT !.pc = "failAt", !.steps["check"] = "failed"]
    <3>1. q \in Runs /\ q.base = run[t].base /\ q.pc = "failAt" /\ q.handler = "none"
          /\ q.steps["check"] = "failed" /\ q.steps["commit"] = run[t].steps["commit"]
      BY <1>2 DEF Runs, RunPc, Steps, StepKey, StepStatus
    <3>2. own = {}
      BY <1>1, <2>3 DEF NeverRan, StepKey, Sound, Committed, Passed
    <3>3. Sound(q, task[t], own, dbErrors)
      BY <1>1, <3>1, <3>2 DEF Sound, Handled, Progress, Committed, Working, BeforeCommit,
         AfterCommit
    <3>4. /\ run' = [run EXCEPT ![t] = q] /\ dbErrors' \in Nat /\ dbErrors' >= dbErrors
          /\ Sound(q, task[t], own, dbErrors')
      BY <1>1, <2>3, <3>3
    <3> HIDE DEF q
    <3> QED
      BY <1>3, <3>1, <3>4
  <2>4. CASE run' = [run EXCEPT ![t] = [r EXCEPT !.pc = "init"]] /\ NeverRan(t)
    <3> DEFINE q == [r EXCEPT !.pc = "init"]
    <3>1. q \in Runs /\ q.base = run[t].base /\ q.pc = "init" /\ q.handler = "none"
          /\ q.steps = run[t].steps
      BY <1>2 DEF Runs, RunPc
    <3>2. own = {}
      BY <1>1, <2>4 DEF NeverRan, StepKey, Sound, Committed, Passed
    <3>3. Sound(q, task[t], own, dbErrors)
      BY <1>1, <3>1, <3>2 DEF Sound, Handled, Progress, Committed, Working, BeforeCommit,
         AfterCommit
    <3>4. /\ run' = [run EXCEPT ![t] = q] /\ dbErrors' \in Nat /\ dbErrors' >= dbErrors
          /\ Sound(q, task[t], own, dbErrors')
      BY <1>1, <2>4, <3>3
    <3> HIDE DEF q
    <3> QED
      BY <1>3, <3>1, <3>4
  <2>5. run' = [run EXCEPT ![t] =
                 IF ~Running(t) THEN [r EXCEPT !.pc = "returned"]
                 ELSE IF ~NeverRan(t) THEN [r EXCEPT !.pc = "failTask"]
                 ELSE IF Tampered(t) \/ draft = NoDraft
                   THEN [r EXCEPT !.pc = "failAt", !.steps["check"] = "failed"]
                   ELSE [r EXCEPT !.pc = "init"]]
        \/ DbError
    BY DEF ReadTask, r
  <2>6. ~DbError
    BY <1>1 DEF DbError
  <2> QED
    BY <2>1, <2>2, <2>3, <2>4, <2>5, <2>6
<1>5. CASE DbError /\ Go(t, "threw")
  <2> DEFINE q == [run[t] EXCEPT !.pc = "threw"]
  <2>1. q \in Runs /\ q.base = run[t].base /\ q.pc = "threw" /\ q.handler = "none"
        /\ q.steps = run[t].steps
    BY <1>1 DEF Runs, RunPc, Sound, Handled
  <2>2. dbErrors' \in Nat /\ dbErrors' >= dbErrors /\ dbErrors' > 0
    BY <1>1, <1>5 DEF DbError
  <2>3. Sound(q, task[t], own, dbErrors')
    BY <1>1, <2>1, <2>2 DEF Sound, Handled, Progress, Committed, Working, BeforeCommit,
       AfterCommit
  <2>4. run' = [run EXCEPT ![t] = q]
    BY <1>1, <1>5 DEF Go
  <2> HIDE DEF q
  <2> QED
    BY <1>3, <2>1, <2>2, <2>3, <2>4
<1> QED
  BY <1>4, <1>5 DEF ReadTask

LEMMA getBranchHeadStep ==
  ASSUME Rows, NEW t \in Task, NEW own, Sound(run[t], task[t], own, dbErrors),
         getBranchHead(t)
  PROVE  Stepped(t, own)
<1>1. /\ run[t] \in Runs /\ task[t] \in Tasks /\ run[t].base <= BranchHead
      /\ dbErrors \in Nat /\ run[t].pc = "pin" /\ task' = task /\ dbErrors' = dbErrors
      /\ BranchHead \in Nat \ {0} /\ task' = [task EXCEPT ![t] = task[t]]
  BY DEF Rows, getBranchHead, BranchHead
<1> DEFINE next == IF run[t].steps["build"] = "running" THEN "building"
                   ELSE IF run[t].steps["commit"] = "running" THEN "cas" ELSE "recommit"
           q == [run[t] EXCEPT !.base = BranchHead, !.pc = next]
<1>2. CASE run' = [run EXCEPT ![t] = q]
  <2>1. next \in {"building", "cas", "recommit"}
        /\ (next # "building" => OnlyConfig(run[t]) /\ Passed(run[t].steps))
    BY <1>1 DEF Sound, Progress, Passed
  <2> HIDE DEF next
  <2>2. /\ q \in Runs /\ q.base = BranchHead /\ q.pc = next
        /\ q.handler = run[t].handler /\ q.steps = run[t].steps
        /\ q.drafts = run[t].drafts
    BY <1>1, <2>1 DEF Runs, RunPc, Working
  <2>3. Sound(q, task[t], own, dbErrors)
    BY <1>1, <2>1, <2>2 DEF Sound, Handled, Progress, Committed, OnlyConfig, Working,
       BeforeCommit, AfterCommit
  <2>4. q.base <= BranchHead /\ q.pc # "idle" /\ dbErrors' >= dbErrors
    BY <1>1, <2>1, <2>2
  <2> HIDE DEF q
  <2> QED
    BY <1>1, <1>2, <2>2, <2>3, <2>4, Moving
<1>3. CASE Reject(t, run[t].steps)
  <2>1. /\ run[t].steps \in Steps /\ run[t].handler # "none" /\ own = {}
        /\ run[t].steps["check"] # "pending" /\ dbErrors' >= dbErrors
        /\ run[t].steps["commit"] # "succeeded"
        /\ task[t].steps["commit"] # "succeeded" /\ task[t].status # "succeeded"
    BY <1>1 DEF Runs, Sound, Handled, Progress, Committed, Working, BeforeCommit
  <2> QED
    BY <1>1, <1>3, <2>1, Rejecting
<1> QED
  BY <1>2, <1>3 DEF getBranchHead

LEMMA SettleStep ==
  ASSUME Rows, NEW t \in Task, NEW own, Sound(run[t], task[t], own, dbErrors),
         NEW status \in {"succeeded", "failed"}, SettleTask(t, status),
         \/ run[t].pc = "complete" /\ status = "succeeded"
         \/ run[t].pc = "failTask" /\ status = "failed"
  PROVE  Stepped(t, own)
<1>1. /\ run[t] \in Runs /\ task[t] \in Tasks /\ run[t].base <= BranchHead
      /\ dbErrors \in Nat /\ task \in [Task -> Tasks]
  BY DEF Rows
<1> DEFINE next == IF run[t].steps["build"] = "failed" /\ run[t].handler = "commit"
                   THEN "afterRebuild" ELSE "returned"
           q == [run[t] EXCEPT !.pc = next]
           row == [task[t] EXCEPT !.status = status]
<1>2. CASE task' = [task EXCEPT ![t].status = status] /\ Go(t, next) /\ UNCHANGED dbErrors
  <2>1. next \in {"afterRebuild", "returned"}
        /\ (next = "afterRebuild" => run[t].handler = "commit" /\ run[t].steps["build"] = "failed")
    OBVIOUS
  <2> HIDE DEF next
  <2>2. /\ q \in Runs /\ q.base = run[t].base /\ q.pc = next
        /\ q.handler = run[t].handler /\ q.steps = run[t].steps
    BY <1>1, <2>1 DEF Runs, RunPc
  <2>3. row \in Tasks /\ row.status = status /\ row.linked = task[t].linked
        /\ row.steps = task[t].steps
    BY <1>1 DEF Tasks
  <2>4. Handled(q, row, dbErrors) /\ Progress(q)
    BY <1>1, <2>1, <2>2, <2>3 DEF Sound, Handled, Progress, Working, AfterCommit
  <2>5. Committed(q, row, own)
    BY <1>1, <2>1, <2>2, <2>3 DEF Sound, Committed, BeforeCommit, AfterCommit
  <2>6. run' = [run EXCEPT ![t] = q] /\ task' = [task EXCEPT ![t] = row]
    BY <1>1, <1>2 DEF Go
  <2>7. dbErrors' = dbErrors /\ dbErrors' \in Nat /\ dbErrors' >= dbErrors
        /\ q.base <= BranchHead /\ q.pc # "idle"
    BY <1>1, <1>2, <2>1, <2>2
  <2> HIDE DEF q, row
  <2> QED
    BY <2>2, <2>3, <2>4, <2>5, <2>6, <2>7, Moving DEF Sound
<1>3. CASE DbError /\ Reject(t, run[t].steps) /\ UNCHANGED task
  <2>1. dbErrors' \in Nat /\ dbErrors' >= dbErrors /\ dbErrors' > 0
    BY <1>1, <1>3 DEF DbError
  <2>2. /\ run[t].steps \in Steps
        /\ run[t].handler = "none" \/ run[t].steps["check"] # "pending"
        /\ own # {} => Passed(task[t].steps) /\ Survives(t, run[t].steps)
        /\ \/ run[t].steps["commit"] = "succeeded" \/ task[t].steps["commit"] = "succeeded"
           \/ task[t].status = "succeeded"
           => own # {}
    BY <1>1 DEF Runs, Sound, Progress, Committed, Survives, Passed
  <2> QED
    BY <1>3, <2>1, <2>2, Rejecting
<1> QED
  BY <1>2, <1>3 DEF SettleTask

LEMMA AfterCommitStep ==
  ASSUME Rows, NEW t \in Task, NEW own, Sound(run[t], task[t], own, dbErrors),
         DeleteDrafts(t) \/ EnqueueRestart(t)
  PROVE  Stepped(t, own)
<1>1. /\ run[t] \in Runs /\ task[t] \in Tasks /\ run[t].base <= BranchHead
      /\ dbErrors \in Nat /\ run[t].pc \in {"delete", "restart"}
      /\ task[t] \in Tasks /\ task = [task EXCEPT ![t] = task[t]]
      /\ run \in [Task -> Runs]
  BY DEF Rows, DeleteDrafts, EnqueueRestart
<1>2. /\ run[t].steps \in Steps /\ run[t].handler # "none" /\ own # {}
      /\ run[t].steps["check"] # "pending"
      /\ Passed(run[t].steps) /\ Passed(task[t].steps) /\ task[t].steps = run[t].steps
      /\ Survives(t, run[t].steps)
  BY <1>1 DEF Runs, Sound, Handled, Progress, Committed, Working, AfterCommit, Survives
<1>3. ASSUME NEW pc \in {"landed", "complete"}, Go(t, pc), UNCHANGED <<task, dbErrors>>
      PROVE  Stepped(t, own)
  <2> DEFINE q == [run[t] EXCEPT !.pc = pc]
  <2>1. /\ q \in Runs /\ q.base = run[t].base /\ q.pc = pc
        /\ q.handler = run[t].handler /\ q.steps = run[t].steps
    BY <1>1 DEF Runs, RunPc, Working
  <2>2. Sound(q, task[t], own, dbErrors)
    BY <1>1, <1>2, <2>1 DEF Sound, Handled, Progress, Committed, Working, BeforeCommit,
       AfterCommit
  <2>3. /\ run' = [run EXCEPT ![t] = q] /\ dbErrors' = dbErrors /\ dbErrors' >= dbErrors
        /\ q.base <= BranchHead /\ q.pc # "idle" /\ task' = [task EXCEPT ![t] = task[t]]
    BY <1>1, <1>3, <2>1 DEF Go
  <2> HIDE DEF q
  <2> QED
    BY <1>1, <2>1, <2>2, <2>3, Moving
<1>4. ASSUME DbError, Reject(t, run[t].steps), UNCHANGED task
      PROVE  Stepped(t, own)
  <2>1. dbErrors' \in Nat /\ dbErrors' >= dbErrors
    BY <1>1, <1>4 DEF DbError
  <2> QED
    BY <1>2, <1>4, <2>1, Rejecting
<1>5. ASSUME ~ConfigOnly(t), run[t].pc = "restart", SaveStep(t, "version", "running", "versioning")
      PROVE  Stepped(t, own)
  <2> DEFINE st == [run[t].steps EXCEPT !["version"] = "running"]
             r == [run[t] EXCEPT !.pc = "versioning"]
             s == [r EXCEPT !.steps = st]
             row == [task[t] EXCEPT !.steps = st]
  <2>1. SaveSteps(t, st, r)
    BY <1>5 DEF SaveStep
  <2>2. st \in Steps /\ r \in Runs /\ r.base = run[t].base /\ r.pc # "idle"
    BY <1>5, <1>1 DEF Runs, RunPc, Working, Steps, StepKey, StepStatus, Handlers
  <2>3. /\ s.pc = r.pc /\ s.handler = r.handler /\ s.steps = st
        /\ s.built = r.built /\ s.base = r.base /\ s.drafts = run[t].drafts
        /\ row.status = task[t].status /\ row.steps = st
    BY <1>1, <2>2 DEF Runs, Tasks
  <2>4. Handled(s, row, dbErrors) /\ Progress(s) /\ Committed(s, row, own)
    BY <1>5, <1>1, <1>2, <2>3 DEF Sound, Handled, Progress, Committed, OnlyConfig, ConfigOnly, Passed,
       Built, Working, BeforeCommit, AfterCommit, Runs, Steps, StepKey
  <2>5. /\ run[t].handler = "none" \/ st["check"] # "pending"
        /\ own # {} => Passed(task[t].steps) /\ Survives(t, st)
        /\ \/ st["commit"] = "succeeded" \/ task[t].steps["commit"] = "succeeded"
           \/ task[t].status = "succeeded"
           => own # {}
    BY <1>5, <1>1, <1>2 DEF Sound, Handled, Progress, Committed, Passed, Survives,
       Built, Working, BeforeCommit, AfterCommit, Runs, Steps, StepKey
  <2>6. r.base <= BranchHead
    BY <1>1, <2>2
  <2> HIDE DEF st, r
  <2> QED
    BY <2>1, <2>2, <2>4, <2>5, <2>6, Saving DEF Sound
<1> QED
  BY <1>3, <1>4, <1>5 DEF DeleteDrafts, EnqueueRestart

\* What a branch holds at a head that was read.
LEMMA TreeFiles ==
  ASSUME Rows, NEW h \in Nat, h # 0, h <= BranchHead
  PROVE  Tree(h) \subseteq Path
<1>1. branch \in Seq(CommitRecord) /\ Len(branch) \in Nat
  BY DEF Rows
<1>2. CASE h = 1
  BY <1>2, PathAssumption DEF Tree
<1>3. CASE h # 1
  <2>1. h - 1 \in 1 .. Len(branch)
    BY <1>1, <1>3 DEF BranchHead
  <2>2. branch[h - 1] \in CommitRecord
    BY <1>1, <2>1, ElementOfSeq
  <2> QED
    BY <1>3, <2>2 DEF Tree, CommitRecord
<1> QED
  BY <1>2, <1>3

\* The files after the commit of t.
TreeOf(t) ==
  LET deleted == {p \in Published(t) : Deletes(run[t].drafts[p])}
  IN  (Tree(run[t].base) \cup Published(t)) \ deleted

LEMMA CommitLands ==
  ASSUME Rows, Files, NEW t \in Task, Commit(t), run[t].base # 0
  PROVE  /\ branch' \in Seq(CommitRecord) /\ BranchHead' = BranchHead + 1
         /\ DOMAIN branch' = DOMAIN branch \cup {BranchHead} /\ BranchHead \notin DOMAIN branch
         /\ \A i \in DOMAIN branch : branch'[i] = branch[i]
         /\ branch'[BranchHead] =
              [by |-> t, base |-> run[t].base, files |-> run[t].drafts,
               built |-> run[t].built = run[t].base, tree |-> TreeOf(t)]
<1> DEFINE c == [by |-> t, base |-> run[t].base, files |-> run[t].drafts,
                 built |-> run[t].built = run[t].base, tree |-> TreeOf(t)]
<1>1. run[t] \in Runs /\ branch \in Seq(CommitRecord)
      /\ TreeOf(t) \subseteq Path
  <2>1. run[t] \in Runs /\ branch \in Seq(CommitRecord)
    BY DEF Rows
  <2>2. Tree(run[t].base) \subseteq Path
    BY <2>1, TreeFiles DEF Rows, Runs
  <2> QED
    BY <2>1, <2>2 DEF TreeOf, Published
<1>2. (run[t].built = run[t].base) \in BOOLEAN
  OBVIOUS
<1>3. c \in CommitRecord
  BY <1>1, <1>2 DEF Runs, CommitRecord
<1>4. branch' = Append(branch, c)
  BY DEF Commit, TreeOf
<1> HIDE DEF c
<1>5. branch' \in Seq(CommitRecord) /\ Len(branch') = Len(branch) + 1
  BY <1>1, <1>3, <1>4
<1>6. /\ \A i \in DOMAIN branch : branch'[i] = branch[i]
      /\ branch'[BranchHead] = c
      /\ DOMAIN branch' = DOMAIN branch \cup {BranchHead} /\ BranchHead \notin DOMAIN branch
  BY <1>1, <1>3, <1>4 DEF BranchHead
<1> QED
  BY <1>5, <1>6 DEF BranchHead, c

LEMMA OwnGrows ==
  ASSUME Rows, Files, NEW t \in Task, Commit(t), run[t].base # 0
  PROVE  /\ LandedBy(t)' = LandedBy(t) \cup {BranchHead}
         /\ \A u \in Task \ {t} : LandedBy(u)' = LandedBy(u)
<1> DEFINE c == [by |-> t, base |-> run[t].base, files |-> run[t].drafts,
                 built |-> run[t].built = run[t].base, tree |-> TreeOf(t)]
<1>a. /\ DOMAIN branch' = DOMAIN branch \cup {BranchHead} /\ BranchHead \notin DOMAIN branch
      /\ \A i \in DOMAIN branch : branch'[i] = branch[i]
      /\ branch'[BranchHead] = c
  BY CommitLands
<1>b. c.by = t
  OBVIOUS
<1> HIDE DEF c
<1>1. /\ DOMAIN branch' = DOMAIN branch \cup {BranchHead} /\ BranchHead \notin DOMAIN branch
      /\ \A i \in DOMAIN branch : branch'[i].by = branch[i].by
      /\ branch'[BranchHead].by = t
  BY <1>a, <1>b
<1>2. \A u \in Task : LandedBy(u)' = {i \in DOMAIN branch' : branch'[i].by = u}
  BY DEF LandedBy
<1>3. \A u \in Task : LandedBy(u)' = {i \in DOMAIN branch : branch[i].by = u}
                                     \cup {i \in {BranchHead} : u = t}
  BY <1>1, <1>2
<1> QED
  BY <1>3 DEF LandedBy

\* The run finds nothing to commit.
Finds(t) == moot' = [moot EXCEPT ![t] = [head |-> run[t].base, files |-> run[t].drafts]]

\* What a step of a run does to the branch: nothing, its commit, or that it
\* finds nothing to commit.
Ended(t) ==
  \/ UNCHANGED <<branch, moot>>
  \/ /\ run[t].pc \in {"cas", "recas"}
     /\ \/ Commit(t) /\ BranchHead = run[t].base /\ UNCHANGED moot
        \/ NothingToCommit(t) /\ Finds(t) /\ UNCHANGED branch

LEMMA commitToDefaultBranchStep ==
  ASSUME Rows, Files, NEW t \in Task, Sound(run[t], task[t], Outcome(t), dbErrors),
         commitToDefaultBranch(t)
  PROVE  Stepped(t, Outcome(t)') /\ Ended(t)
<1>1. /\ run[t] \in Runs /\ task[t] \in Tasks /\ run[t].base <= BranchHead
      /\ dbErrors \in Nat /\ run[t].pc \in {"cas", "recas"}
      /\ run \in [Task -> Runs] /\ task \in [Task -> Tasks]
      /\ task' = task /\ dbErrors' = dbErrors
  BY DEF Rows, commitToDefaultBranch
<1>2. /\ run[t].steps \in Steps /\ run[t].handler # "none" /\ Outcome(t) = {} /\ run[t].base # 0
      /\ run[t].steps["check"] # "pending"
      /\ Passed(run[t].steps) /\ Passed(task[t].steps) /\ task[t].steps = run[t].steps
      /\ run[t].steps["commit"] # "succeeded"
      /\ task[t].steps["commit"] # "succeeded" /\ task[t].status # "succeeded"
      /\ Survives(t, run[t].steps)
  BY <1>1 DEF Runs, Sound, Handled, Progress, Committed, Working, BeforeCommit, Survives
<1>3. PICK own : own = Outcome(t)'
  OBVIOUS
<1>4. UNCHANGED <<branch, moot>> => own = {}
  BY <1>2, <1>3 DEF LandedBy, Outcome
<1>5. ASSUME NEW q \in Runs, run' = [run EXCEPT ![t] = q], q.base = run[t].base,
             q.pc # "idle", Sound(q, task[t], own, dbErrors)
      PROVE  Stepped(t, own)
  <2>1. task' = [task EXCEPT ![t] = task[t]] /\ dbErrors' >= dbErrors
        /\ q.base <= BranchHead /\ Sound(q, task[t], own, dbErrors')
    BY <1>1, <1>5
  <2> QED
    BY <1>1, <1>5, <2>1, Moving
<1>6. ASSUME Reject(t, run[t].steps)
      PROVE  Stepped(t, own)
  <2>1. dbErrors' \in Nat /\ dbErrors' >= dbErrors /\ UNCHANGED task
    BY <1>1
  <2> QED
    BY <1>1, <1>2, <1>6, <2>1, Rejecting
<1>7. ASSUME own # {}, run' = [run EXCEPT ![t].pc = "delete", ![t].handler = "outer"]
      PROVE  Stepped(t, own)
  <2> DEFINE q == [run[t] EXCEPT !.pc = "delete", !.handler = "outer"]
  <2>1. /\ q \in Runs /\ q.base = run[t].base /\ q.pc = "delete"
        /\ q.handler = "outer" /\ q.steps = run[t].steps
    BY <1>1 DEF Runs, RunPc, Working, Handlers
  <2>3. Sound(q, task[t], own, dbErrors)
    BY <1>1, <1>2, <1>7, <2>1 DEF Sound, Handled, Progress, Committed, Working,
       BeforeCommit, AfterCommit
  <2>4. run' = [run EXCEPT ![t] = q]
    BY <1>1, <1>7
  <2> HIDE DEF q
  <2> QED
    BY <1>5, <2>1, <2>3, <2>4
<1>8. ASSUME UNCHANGED <<branch, moot>>, Go(t, "missed")
      PROVE  Stepped(t, own)
  <2> DEFINE q == [run[t] EXCEPT !.pc = "missed"]
  <2>1. /\ q \in Runs /\ q.base = run[t].base /\ q.pc = "missed"
        /\ q.handler = run[t].handler /\ q.steps = run[t].steps
    BY <1>1 DEF Runs, RunPc, Working
  <2>2. Sound(q, task[t], own, dbErrors)
    BY <1>1, <1>2, <1>4, <1>8, <2>1 DEF Sound, Handled, Progress, Committed, Working,
       BeforeCommit, AfterCommit
  <2>3. run' = [run EXCEPT ![t] = q]
    BY <1>1, <1>8 DEF Go
  <2> HIDE DEF q
  <2> QED
    BY <1>5, <2>1, <2>2, <2>3
<1>9. ASSUME NothingToCommit(t), UNCHANGED branch, Finds(t)
      PROVE  own # {} /\ Ended(t)
  <2>1. moot'[t].head = run[t].base
    BY <1>9 DEF Rows, Finds
  <2> QED
    BY <1>1, <1>2, <1>3, <1>9, <2>1 DEF Outcome, Ended
<1>10. ASSUME BranchHead = run[t].base, Commit(t), UNCHANGED moot
       PROVE  own # {} /\ Ended(t)
  <2>1. own # {}
    BY <1>2, <1>3, <1>10, OwnGrows DEF Outcome
  <2> QED
    BY <1>1, <1>10, <2>1 DEF Ended
<1>11. UNCHANGED <<branch, moot>> => Ended(t)
  BY DEF Ended
<1>12. Stepped(t, own) /\ Ended(t)
  BY <1>6, <1>7, <1>8, <1>9, <1>10, <1>11 DEF commitToDefaultBranch, Finds
<1> QED
  BY <1>3, <1>12

\* Every step of a run.
LEMMA RunStep ==
  ASSUME Rows, Files, NEW t \in Task, Sound(run[t], task[t], Outcome(t), dbErrors),
         runPublish(t)
  PROVE  /\ Stepped(t, Outcome(t)')
         /\ UNCHANGED <<saves, job, call, boot, crashes, dropped>>
         /\ Ended(t)
         /\ Executing(t)
<1>1. CASE commitToDefaultBranch(t)
  BY <1>1, commitToDefaultBranchStep DEF commitToDefaultBranch, Executing
<1>2. CASE ~commitToDefaultBranch(t)
  <2> DEFINE own == Outcome(t)
  <2>1. /\ UNCHANGED <<saves, job, call, boot, crashes, dropped, branch, moot>>
        /\ Executing(t)
    BY <1>2 DEF runPublish, RunUnchanged, ReadTask, InitSteps, BeginCheck, Check,
       getBranchHead, Build, CommitMissedTwice, RetryCommit, BeginAgain, DeleteDrafts,
       CommitDone, EnqueueRestart, CutVersion, QueueDeploys, completeTask, FailAt,
       failTask, SaveAfterRebuild, Executing
  <2>2. Outcome(t)' = own /\ Ended(t)
    BY <2>1 DEF LandedBy, Outcome, Ended
  <2>3. completeTask(t) \/ failTask(t) => Stepped(t, own)
    BY SettleStep DEF completeTask, failTask
  <2> HIDE DEF own
  <2>4. Stepped(t, own)
    BY <1>2, <2>3, ReadTaskStep, InitStepsStep, BeginCheckStep, CheckStep,
       getBranchHeadStep, BuildStep, CommitMissedTwiceStep, RetryCommitStep, BeginAgainStep,
       AfterCommitStep, CommitDoneStep, CutVersionStep, QueueDeploysStep, FailAtStep,
       SaveAfterRebuildStep DEF runPublish, own
  <2> QED
    BY <2>1, <2>2, <2>4
<1> QED
  BY <1>1, <1>2

---------------------------------------------------------------------------
\* What the other parts of the system leave alone.

Indexed == TypeInv /\ CommitInv /\ OwnInv

LEMMA FilesSame ==
  ASSUME Files, UNCHANGED <<saves, draft, dropped, absorbed>>
  PROVE  Files'
BY DEF Files

\* The drafts table after an upsert.
LEMMA UpsertFiles ==
  ASSUME Files, NEW ps \in SUBSET Path, NEW reset \in BOOLEAN, NEW gone \in Nat,
         Upsert(ps, reset, gone), UNCHANGED absorbed
  PROVE  Files'
<1> DEFINE n == Cardinality(ps)
<1>1. n \in Nat /\ IsFiniteSet(ps)
  BY PathAssumption, FS_Subset, FS_CardinalityType
<1>2. PICK at \in Stamps, order \in [1 .. n -> ps] :
        LET number(p) == Len(saves) + CHOOSE i \in DOMAIN order : order[i] = p
        IN  /\ {order[i] : i \in DOMAIN order} = ps
            /\ saves' = saves \o [i \in DOMAIN order |->
                                    [path |-> order[i], at |-> at, reset |-> reset, gone |-> gone]]
            /\ draft' = [p \in Path |-> IF p \in ps THEN number(p) ELSE draft[p]]
  BY DEF Upsert
<1>3. Len(saves) + n <= MaxSave /\ Len(saves) \in Nat /\ saves \in Seq(Saves)
      /\ dropped' = dropped \cup {draft[p] : p \in {q \in ps : draft[q] # 0}}
  BY DEF Upsert, Files
<1> HIDE DEF n
<1>4. at \in Nat
  <2>1. saves = << >> \/ saves[Len(saves)].at \in Nat
    <3>1. saves # << >> => Len(saves) \in 1 .. Len(saves)
      <4>1. saves # << >> => Len(saves) \in Nat \ {0}
        BY <1>3, EmptySeq, Zenon
      <4> QED
        BY <4>1
    <3>2. saves # << >> => saves[Len(saves)] \in Saves
      BY <1>3, <3>1, ElementOfSeq
    <3> QED
      BY <3>2 DEF Saves
  <2> QED
    BY <1>2, <2>1 DEF Stamps
<1> DEFINE new == [i \in 1 .. n |-> [path |-> order[i], at |-> at, reset |-> reset, gone |-> gone]]
<1>5. new \in Seq(Saves) /\ Len(new) = n
  <2>1. \A i \in 1 .. n : [path |-> order[i], at |-> at, reset |-> reset, gone |-> gone] \in Saves
    BY <1>2, <1>4 DEF Saves
  <2>2. new \in [1 .. n -> Saves]
    BY <2>1
  <2> HIDE DEF new
  <2> QED
    BY <1>1, <2>2
<1>6. saves' = saves \o new
  BY <1>2
<1> HIDE DEF new
<1>7. saves' \in Seq(Saves) /\ Len(saves') = Len(saves) + n
  BY <1>3, <1>5, <1>6
<1>8. DOMAIN saves = 1 .. Len(saves) /\ DOMAIN saves' = 1 .. (Len(saves) + n)
  BY <1>3, <1>7
<1>9. draft \in [Path -> 0 .. Len(saves)]
  BY DEF Files
<1>10. ASSUME NEW p \in Path
       PROVE  draft'[p] \in 0 .. (Len(saves) + n)
  <2>1. CASE p \in ps
    <3> DEFINE i == CHOOSE j \in DOMAIN order : order[j] = p
    <3>1. i \in 1 .. n
      BY <1>2, <2>1
    <3>2. draft'[p] = Len(saves) + i
      BY <1>2, <2>1
    <3> HIDE DEF i
    <3> QED
      BY <1>1, <1>3, <3>1, <3>2
  <2>2. CASE p \notin ps
    BY <1>1, <1>2, <1>3, <1>9, <2>2
  <2> QED
    BY <2>1, <2>2
<1>11. draft' \in [Path -> 0 .. Len(saves')]
  BY <1>2, <1>7, <1>10
<1>12. dropped' \cup absorbed' \subseteq DOMAIN saves'
  <2>1. ASSUME NEW q \in ps, draft[q] # 0
        PROVE  draft[q] \in DOMAIN saves
    BY <1>3, <1>8, <1>9, <2>1
  <2>2. DOMAIN saves \subseteq DOMAIN saves'
    BY <1>1, <1>3, <1>8
  <2> QED
    BY <1>3, <2>1, <2>2 DEF Files
<1> QED
  BY <1>3, <1>7, <1>11, <1>12 DEF Files

LEMMA DraftPrint ==
  ASSUME Files
  PROVE  draft \in Prints /\ NoDraft \in Prints /\ draft \in [Path -> Draft]
         /\ draftSnapshotFingerprint(draft) \in Prints
<1>1. Len(saves) \in 0 .. MaxSave /\ MaxSave \in Nat
  BY BoundAssumption DEF Files
<1> QED
  BY <1>1 DEF Files, Prints, NoDraft, Draft, draftSnapshotFingerprint

\* No step of the members, the callers or the boot chain disturbs a run.
LEMMA CommitKept ==
  ASSUME CommitInv, UNCHANGED <<branch, moot>>,
         \A t \in Task : Sound(run'[t], task'[t], Outcome(t), dbErrors')
  PROVE  CommitInv'
BY DEF CommitInv, NothingUnbuilt, LandedBy, Outcome

\* A run that is not under way, or has only begun, is sound with any row that
\* keeps its steps.
LEMMA Resting ==
  ASSUME NEW r, NEW row, NEW own, NEW e, Sound(r, row, own, e),
         NEW q, q.pc \in {"idle", "read"}, q.steps = initialPublishSteps,
         q.handler = "none", NEW row2, row2.steps = row.steps,
         row2.status = "succeeded" => row.status = "succeeded", NEW f
  PROVE  Sound(q, row2, own, f)
BY FirstSteps DEF Sound, Handled, Progress, Committed, Working, BeforeCommit,
   AfterCommit, StepKey

\* A step on the publish t leaves the others with their owners.
LEMMA OthersKept ==
  ASSUME Rows, OwnInv, NEW t \in Task, UNCHANGED <<boot, crashes>>,
         dbErrors' \in Nat, dbErrors' >= dbErrors,
         \A u \in Task \ {t} : /\ call'[u] = call[u] /\ run'[u] = run[u]
                               /\ job'[u] = job[u] /\ task'[u] = task[u],
         Owner(t)',
         crashes <= 1 /\ dbErrors' = 0 /\ Running(t)' =>
           /\ Settled(t)'
           /\ call'[t].pc = "link" => Executing(t)' \/ job'[t] = "queued"
  PROVE  OwnInv'
<1>1. dbErrors \in Nat
  BY DEF Rows
<1>2. ASSUME NEW u \in Task
      PROVE  Owner(u)'
  BY <1>2 DEF OwnInv, Owner, Executing
<1>3. ASSUME NEW u \in Task, crashes <= 1, dbErrors' = 0, Running(u)'
      PROVE  /\ Settled(u)'
             /\ call'[u].pc = "link" => Executing(u)' \/ job'[u] = "queued"
  BY <1>1, <1>3 DEF OwnInv, Settled, Running, Executing
<1> QED
  BY <1>2, <1>3 DEF OwnInv

---------------------------------------------------------------------------
\* Members: saves, discards, pushes from outside.

LEMMA MemberStep ==
  ASSUME Indexed, NEW p \in Path, stageDraft(p) \/ discardDrafts(p)
  PROVE  Indexed'
<1>1. UNCHANGED <<branch, task, job, call, run, boot, crashes, dbErrors, absorbed, moot>>
  BY DEF stageDraft, discardDrafts
<1>2. Files'
  <2>1. CASE stageDraft(p)
    <3>1. {p} \in SUBSET Path /\ FALSE \in BOOLEAN /\ BranchHead \in Nat
      BY DEF Indexed, TypeInv, Rows, BranchHead
    <3>2. PICK gone \in Nat : Upsert({p}, FALSE, gone)
      BY <2>1, <3>1 DEF stageDraft
    <3> QED
      BY <1>1, <3>1, <3>2, UpsertFiles DEF Indexed, TypeInv
  <2>2. CASE discardDrafts(p)
    <3>1. /\ saves' = saves /\ draft' = [draft EXCEPT ![p] = 0]
          /\ dropped' = dropped \cup {draft[p]} /\ draft[p] # 0 /\ absorbed' = absorbed
      BY <2>2 DEF discardDrafts
    <3>2. Files /\ Len(saves) \in Nat /\ DOMAIN saves = 1 .. Len(saves)
      BY DEF Indexed, TypeInv, Files
    <3>3. draft[p] \in DOMAIN saves
      BY <3>1, <3>2 DEF Files
    <3> QED
      BY <3>1, <3>2, <3>3 DEF Files
  <2> QED
    BY <2>1, <2>2
<1>3. Rows'
  BY <1>1 DEF Indexed, TypeInv, Rows, BranchHead
<1>4. CommitInv'
  BY <1>1 DEF Indexed, CommitInv, NothingUnbuilt, LandedBy, Outcome
<1>5. OwnInv'
  BY <1>1 DEF Indexed, OwnInv, Owner, Settled, Executing, Running
<1> QED
  BY <1>2, <1>3, <1>4, <1>5 DEF Indexed, TypeInv

LEMMA ExternalPushStep ==
  ASSUME Indexed, ExternalPush
  PROVE  Indexed'
<1>0. PICK pushed \in SUBSET PushedPath :
        branch' = Append(branch, [by |-> External, base |-> BranchHead, built |-> FALSE,
                                  files |-> NoDraft,
                                  tree |-> (Tree(BranchHead) \ PushedPath) \cup pushed])
  BY DEF ExternalPush
<1> DEFINE c == [by |-> External, base |-> BranchHead, built |-> FALSE, files |-> NoDraft,
                 tree |-> (Tree(BranchHead) \ PushedPath) \cup pushed]
<1>1. /\ UNCHANGED <<saves, draft, task, job, call, run, boot, crashes, dbErrors,
                     dropped, absorbed, moot>>
      /\ branch' = Append(branch, c)
  BY <1>0 DEF ExternalPush
<1>2. branch \in Seq(CommitRecord) /\ Rows /\ Files
  BY DEF Indexed, TypeInv, Rows
<1>3. BranchHead \in Nat \ {0}
  BY <1>2 DEF BranchHead
<1>3a. c.tree \subseteq Path
  BY <1>2, <1>3, TreeFiles, PathAssumption
<1>4. c \in CommitRecord /\ c.by = External /\ External \notin Task
  BY <1>2, <1>3, <1>3a, BoundAssumption DEF CommitRecord, NoDraft, Draft, External, Task
<1> HIDE DEF c
<1>5. /\ branch' \in Seq(CommitRecord) /\ Len(branch') = Len(branch) + 1
      /\ DOMAIN branch' = DOMAIN branch \cup {BranchHead} /\ BranchHead \notin DOMAIN branch
      /\ \A i \in DOMAIN branch : branch'[i] = branch[i]
      /\ branch'[BranchHead] = c
  BY <1>1, <1>2, <1>4 DEF BranchHead
<1>6. Files'
  BY <1>1, <1>2, FilesSame
<1>7. Rows'
  <2>1. BranchHead' = BranchHead + 1
    BY <1>2, <1>5 DEF BranchHead
  <2>2. \A t \in Task : /\ run[t].base \in Nat /\ run[t].base <= BranchHead
                        /\ moot[t].head \in Nat /\ moot[t].head <= BranchHead
    BY <1>2 DEF Rows, Runs, Moots
  <2>3. \A t \in Task : run'[t].base <= BranchHead' /\ moot'[t].head <= BranchHead'
    BY <1>1, <1>3, <2>1, <2>2
  <2> QED
    BY <1>1, <1>2, <1>5, <2>3 DEF Rows
<1>8. \A t \in Task : LandedBy(t)' = LandedBy(t)
  <2>1. /\ \A i \in DOMAIN branch : branch'[i].by = branch[i].by
        /\ branch'[BranchHead].by \notin Task
    BY <1>4, <1>5
  <2>2. ASSUME NEW t \in Task
        PROVE  {i \in DOMAIN branch' : branch'[i].by = t} = {i \in DOMAIN branch : branch[i].by = t}
    BY <1>5, <2>1
  <2> QED
    BY <2>2 DEF LandedBy
<1>9. NothingUnbuilt'
  <2>1. ASSUME NEW i \in DOMAIN branch', branch'[i].by \in Task
        PROVE  i \in DOMAIN branch /\ branch'[i] = branch[i]
    BY <1>4, <1>5, <2>1
  <2> QED
    BY <2>1 DEF Indexed, CommitInv, NothingUnbuilt
<1>10. CommitInv'
  BY <1>1, <1>8, <1>9 DEF Indexed, CommitInv, Outcome
<1>11. OwnInv'
  BY <1>1 DEF Indexed, OwnInv, Owner, Settled, Executing, Running
<1> QED
  BY <1>6, <1>7, <1>10, <1>11 DEF Indexed, TypeInv

---------------------------------------------------------------------------
\* The calls that ask for a publish: no run moves.

LEMMA AskingKept ==
  ASSUME Indexed, NEW t \in Task, NEW c \in Calls, NEW row \in Tasks,
         NEW j \in {"none", "queued", "running", "done", "failed"},
         call' = [call EXCEPT ![t] = c], task' = [task EXCEPT ![t] = row],
         job' = [job EXCEPT ![t] = j],
         UNCHANGED <<branch, run, boot, crashes, moot>>, Files',
         dbErrors' \in Nat, dbErrors' >= dbErrors,
         row.steps = task[t].steps,
         row.status \in {task[t].status, "running"},
         row.status # task[t].status => task[t].status = "none",
         Owner(t)',
         crashes <= 1 /\ dbErrors' = 0 /\ row.status = "running" =>
           /\ Settled(t)'
           /\ c.pc = "link" => Executing(t)' \/ j = "queued"
  PROVE  Indexed'
<1>1. Rows /\ CommitInv /\ OwnInv /\ task \in [Task -> Tasks] /\ call \in [Task -> Calls]
      /\ run \in [Task -> Runs] /\ dbErrors \in Nat
      /\ job \in [Task -> {"none", "queued", "running", "done", "failed"}]
  BY DEF Indexed, TypeInv, Rows
<1>2. /\ call'[t] = c /\ task'[t] = row /\ job'[t] = j
      /\ \A u \in Task \ {t} : /\ call'[u] = call[u] /\ run'[u] = run[u]
                               /\ job'[u] = job[u] /\ task'[u] = task[u]
  BY <1>1
<1>3. Rows'
  <2>1. /\ task' \in [Task -> Tasks] /\ call' \in [Task -> Calls]
        /\ job' \in [Task -> {"none", "queued", "running", "done", "failed"}]
    BY <1>1
  <2> QED
    BY <1>1, <2>1 DEF Rows, BranchHead
<1>4. ASSUME NEW u \in Task
      PROVE  Sound(run'[u], task'[u], Outcome(u), dbErrors')
  <2>1. Sound(run[u], task[u], Outcome(u), dbErrors') /\ run' = run
    BY <1>1, MoreErrors DEF CommitInv
  <2>2. CASE task'[u] = task[u]
    BY <2>1, <2>2
  <2>3. CASE u = t /\ row.status # task[t].status
    <3>1. run[t] = NoRun
      BY <1>1, <2>3 DEF OwnInv, Owner
    <3>2. row.status # "succeeded" /\ NoRun.pc \in {"idle", "read"}
      BY <2>3, FirstSteps
    <3> QED
      BY <1>2, <2>1, <2>3, <3>1, <3>2, FirstSteps, Resting
  <2>4. CASE u = t /\ row.status = task[t].status
    BY <1>2, <2>1, <2>4 DEF Sound, Handled, Committed
  <2> QED
    BY <1>2, <2>2, <2>3, <2>4
<1>5. CommitInv'
  BY <1>1, <1>4, CommitKept
<1>6. OwnInv'
  BY <1>1, <1>2, OthersKept DEF Running
<1> QED
  BY <1>3, <1>5, <1>6 DEF Indexed, TypeInv

LEMMA AskStep ==
  ASSUME Indexed, NEW t \in Task,
         startPublish(t) \/ ResetRead(t) \/ compareAndStage(t)
         \/ startResetPublish(t) \/ EnqueuePublish(t) \/ setTaskJob(t)
  PROVE  Indexed'
<1>1. /\ Rows /\ Files /\ OwnInv /\ task \in [Task -> Tasks] /\ call \in [Task -> Calls]
      /\ dbErrors \in Nat
      /\ job \in [Task -> {"none", "queued", "running", "done", "failed"}]
      /\ call[t] \in Calls /\ task[t] \in Tasks /\ Owner(t)
  BY DEF Indexed, TypeInv, Rows, OwnInv
<1>2. UNCHANGED <<branch, run, boot, crashes, moot>>
  BY DEF startPublish, ResetRead, compareAndStage, startResetPublish, EnqueuePublish,
     setTaskJob, CallUnchanged
<1>3. Files'
  <2>1. CASE compareAndStage(t)
    <3>1. UNCHANGED absorbed
      BY <2>1 DEF compareAndStage
    <3>2. CASE UNCHANGED <<saves, draft, dropped>>
      BY <1>1, <3>1, <3>2, FilesSame
    <3>3. CASE \E ps \in SUBSET (Path \ ConfigPath) : Upsert(ps, TRUE, 0)
      <4>1. PICK ps \in SUBSET Path : Upsert(ps, TRUE, 0)
        BY <3>3
      <4> QED
        BY <1>1, <3>1, <4>1, UpsertFiles
    <3> QED
      BY <2>1, <3>2, <3>3 DEF compareAndStage
  <2>2. CASE ~compareAndStage(t)
    BY <1>1, <2>2, FilesSame DEF startPublish, ResetRead, startResetPublish, EnqueuePublish,
       setTaskJob, CallUnchanged
  <2> QED
    BY <2>1, <2>2
<1>4. NoCall \in Calls /\ NoCall.pc = "idle"
  BY <1>1, DraftPrint DEF NoCall, Calls, CallPc
<1>5. draft' \in Prints
  <2>1. Len(saves') \in 0 .. MaxSave /\ MaxSave \in Nat
    BY <1>3, BoundAssumption DEF Files
  <2> QED
    BY <1>3, <2>1 DEF Files, Prints
<1>6. ASSUME NEW pc \in {"stage", "enqueue"}, NEW print \in Prints
      PROVE  /\ [pc |-> pc, print |-> print] \in Calls
             /\ [pc |-> pc, print |-> print].pc = pc
  BY <1>6 DEF Calls, CallPc
\* A call that makes no task.
<1>7. ASSUME NEW c \in Calls, c.pc \in {"idle", "stage", "staged"},
             call[t].pc \in {"idle", "stage", "staged"},
             call' = [call EXCEPT ![t] = c], UNCHANGED <<task, job, dbErrors>>
      PROVE  Indexed'
  <2>1. /\ task[t].status = "none" /\ job[t] = "none" /\ ~task[t].linked /\ ~Executing(t)
        /\ task' = [task EXCEPT ![t] = task[t]] /\ job' = [job EXCEPT ![t] = "none"]
        /\ call'[t] = c /\ dbErrors' \in Nat /\ dbErrors' >= dbErrors
    BY <1>1, <1>7 DEF Owner
  <2>2. Owner(t)'
    BY <1>1, <1>2, <1>7, <2>1 DEF Owner, Executing
  <2> QED
    BY <1>1, <1>2, <1>3, <1>7, <2>1, <2>2, AskingKept
\* A call that makes the task.
<1>8. ASSUME NEW print \in Prints, call[t].pc \in {"idle", "staged"},
             createTask(t, "enqueue", print), UNCHANGED <<job, dbErrors>>
      PROVE  Indexed'
  <2> DEFINE c == [pc |-> "enqueue", print |-> print]
             row == [task[t] EXCEPT !.status = "running"]
  <2>1. c \in Calls /\ c.pc = "enqueue"
    BY <1>6
  <2>2. row \in Tasks /\ row.steps = task[t].steps /\ row.status = "running"
        /\ row.linked = task[t].linked
    BY <1>1 DEF Tasks
  <2>3. /\ task[t].status = "none" /\ job[t] = "none" /\ ~task[t].linked /\ ~Executing(t)
        /\ task' = [task EXCEPT ![t] = row] /\ job' = [job EXCEPT ![t] = "none"]
        /\ call' = [call EXCEPT ![t] = c] /\ dbErrors' \in Nat /\ dbErrors' >= dbErrors
    BY <1>1, <1>8 DEF Owner, createTask
  <2> HIDE DEF c, row
  <2>4. call'[t] = c /\ task'[t] = row /\ job'[t] = "none"
    BY <1>1, <2>3
  <2>5. Owner(t)'
    BY <1>1, <1>2, <2>1, <2>2, <2>3, <2>4 DEF Owner, Executing
  <2>6. Settled(t)'
    BY <2>1, <2>4 DEF Settled
  <2> QED
    BY <1>1, <1>2, <1>3, <2>1, <2>2, <2>3, <2>5, <2>6, AskingKept
<1>9. CASE startPublish(t)
  BY <1>1, <1>8, <1>9, DraftPrint DEF startPublish, Unused
<1>10. CASE ResetRead(t)
  <2> DEFINE c == [pc |-> "stage", print |-> draft]
  <2>1. c \in Calls /\ c.pc = "stage"
    BY <1>1, <1>6, DraftPrint
  <2> QED
    BY <1>7, <1>10, <2>1 DEF ResetRead, Unused
<1>11. CASE compareAndStage(t)
  <2>1. CASE call' = [call EXCEPT ![t] = NoCall]
    BY <1>4, <1>7, <1>11, <2>1 DEF compareAndStage
  <2>2. CASE call' = [call EXCEPT ![t].pc = "staged", ![t].print = draft']
    <3> DEFINE c == [call[t] EXCEPT !.pc = "staged", !.print = draft']
    <3>1. c \in Calls /\ c.pc = "staged" /\ call' = [call EXCEPT ![t] = c]
      BY <1>1, <1>5, <2>2 DEF Calls, CallPc
    <3> HIDE DEF c
    <3> QED
      BY <1>7, <1>11, <3>1 DEF compareAndStage
  <2> QED
    BY <1>11, <2>1, <2>2 DEF compareAndStage
<1>12. CASE startResetPublish(t)
  <2> DEFINE print == draftSnapshotFingerprint(call[t].print)
  <2>1. CASE call' = [call EXCEPT ![t] = NoCall] /\ UNCHANGED task
    BY <1>4, <1>7, <1>12, <2>1 DEF startResetPublish
  <2>2. CASE createTask(t, "enqueue", print) /\ draftSnapshotFingerprint(draft) = print
    <3>1. print \in Prints
      BY <1>1, <2>2, DraftPrint
    <3> HIDE DEF print
    <3> QED
      BY <1>8, <1>12, <2>2, <3>1 DEF startResetPublish
  <2> QED
    BY <1>12, <2>1, <2>2 DEF startResetPublish
<1>13. CASE EnqueuePublish(t)
  <2>1. call[t].pc = "enqueue" /\ job[t] = "none" /\ ~task[t].linked
        /\ task' = task /\ task' = [task EXCEPT ![t] = task[t]]
    BY <1>1, <1>13 DEF EnqueuePublish, Owner
  <2>2. CASE job' = [job EXCEPT ![t] = "queued"] /\ SetCall(t, "link") /\ UNCHANGED dbErrors
    <3> DEFINE c == [call[t] EXCEPT !.pc = "link"]
    <3>1. c \in Calls /\ c.pc = "link" /\ call' = [call EXCEPT ![t] = c]
          /\ dbErrors' \in Nat /\ dbErrors' >= dbErrors
      BY <1>1, <2>2 DEF Calls, CallPc, SetCall
    <3> HIDE DEF c
    <3>2. call'[t] = c /\ job'[t] = "queued"
      BY <1>1, <2>2, <3>1
    <3>3. Owner(t)'
      BY <1>1, <1>2, <2>1, <3>1, <3>2 DEF Owner, Executing
    <3>4. Settled(t)'
      BY <3>2 DEF Settled
    <3> QED
      BY <1>1, <1>2, <1>3, <2>1, <2>2, <3>1, <3>2, <3>3, <3>4, AskingKept
  <2>3. CASE DbError /\ SetCall(t, "done") /\ UNCHANGED job
    <3> DEFINE c == [call[t] EXCEPT !.pc = "done"]
    <3>1. c \in Calls /\ c.pc = "done" /\ call' = [call EXCEPT ![t] = c]
          /\ job' = [job EXCEPT ![t] = "none"]
          /\ dbErrors' \in Nat /\ dbErrors' >= dbErrors /\ dbErrors' # 0
      BY <1>1, <2>1, <2>3 DEF Calls, CallPc, SetCall, DbError
    <3> HIDE DEF c
    <3>2. call'[t] = c /\ job'[t] = "none"
      BY <1>1, <3>1
    <3>3. Owner(t)'
      BY <1>1, <1>2, <2>1, <3>1, <3>2 DEF Owner, Executing
    <3> QED
      BY <1>1, <1>2, <1>3, <2>1, <3>1, <3>2, <3>3, AskingKept
  <2> QED
    BY <1>13, <2>1, <2>2, <2>3 DEF EnqueuePublish
<1>14. CASE setTaskJob(t)
  <2> DEFINE c == [call[t] EXCEPT !.pc = "done"]
             row == [task[t] EXCEPT !.linked = TRUE]
  <2>1. c \in Calls /\ c.pc = "done" /\ call' = [call EXCEPT ![t] = c] /\ call'[t] = c
    BY <1>1, <1>14 DEF Calls, CallPc, SetCall, setTaskJob
  <2>2. row \in Tasks /\ row.steps = task[t].steps /\ row.status = task[t].status
        /\ row.linked
    BY <1>1 DEF Tasks
  <2> HIDE DEF c, row
  <2>3. call[t].pc = "link" /\ job[t] # "none" /\ job' = job
        /\ job[t] \in {"none", "queued", "running", "done", "failed"}
        /\ job' = [job EXCEPT ![t] = job[t]]
    BY <1>1, <1>14 DEF setTaskJob, Owner
  <2>4. PICK w \in {row, task[t]} :
           /\ task' = [task EXCEPT ![t] = w] /\ dbErrors' \in Nat /\ dbErrors' >= dbErrors
           /\ w = row \/ dbErrors' # 0
    BY <1>1, <1>14 DEF setTaskJob, DbError, row
  <2>5. w \in Tasks /\ w.steps = task[t].steps /\ w.status = task[t].status
        /\ task'[t] = w
    BY <1>1, <2>2, <2>4
  <2>6. Owner(t)'
    BY <1>1, <1>2, <2>1, <2>3, <2>5 DEF Owner, Executing
  <2>7. dbErrors' = 0 => dbErrors = 0
    BY <1>1, <2>4
  <2>8. crashes <= 1 /\ dbErrors' = 0 /\ w.status = "running" => Settled(t)'
    BY <1>1, <1>2, <2>3, <2>5, <2>7 DEF OwnInv, Running, Settled, Executing
  <2> QED
    BY <1>1, <1>2, <1>3, <2>1, <2>3, <2>4, <2>5, <2>6, <2>8, AskingKept
<1> QED
  BY <1>9, <1>10, <1>11, <1>12, <1>13, <1>14

---------------------------------------------------------------------------
\* A run begins or ends.

LEMMA BeginEndStep ==
  ASSUME Indexed, NEW t \in Task, publishNow(t) \/ Claim(t) \/ Return(t)
  PROVE  Indexed'
<1>1. /\ Rows /\ Files /\ CommitInv /\ OwnInv
      /\ task \in [Task -> Tasks] /\ call \in [Task -> Calls] /\ run \in [Task -> Runs]
      /\ job \in [Task -> {"none", "queued", "running", "done", "failed"}]
      /\ dbErrors \in Nat /\ call[t] \in Calls /\ task[t] \in Tasks /\ run[t] \in Runs
      /\ Owner(t) /\ \A u \in Task : Sound(run[u], task[u], Outcome(u), dbErrors)
  BY DEF Indexed, TypeInv, Rows, OwnInv, CommitInv
<1>2. UNCHANGED <<saves, draft, branch, boot, crashes, dbErrors, dropped, absorbed, moot>>
  BY DEF publishNow, Claim, Return, CallUnchanged
<1> DEFINE first == [NoRun EXCEPT !.pc = "read"]
<1>3. first \in Runs /\ first.pc = "read" /\ first.steps = initialPublishSteps
      /\ first.handler = "none" /\ first.base = 0
  BY FirstSteps DEF Runs, RunPc
<1> HIDE DEF first
\* It is enough to say what becomes of t.
<1>4. ASSUME NEW c \in Calls, NEW row \in Tasks, NEW q \in {first, NoRun},
             NEW j \in {"none", "queued", "running", "done", "failed"},
             call' = [call EXCEPT ![t] = c], task' = [task EXCEPT ![t] = row],
             run' = [run EXCEPT ![t] = q], job' = [job EXCEPT ![t] = j],
             row.steps = task[t].steps, row.status \in {task[t].status, "running"},
             Owner(t)',
             crashes <= 1 /\ dbErrors = 0 /\ row.status = "running" =>
               /\ Settled(t)'
               /\ c.pc = "link" => Executing(t)' \/ j = "queued"
      PROVE  Indexed'
  <2>1. /\ call'[t] = c /\ task'[t] = row /\ run'[t] = q /\ job'[t] = j
        /\ \A u \in Task \ {t} : /\ call'[u] = call[u] /\ run'[u] = run[u]
                                 /\ job'[u] = job[u] /\ task'[u] = task[u]
    BY <1>1, <1>4
  <2>2. q \in Runs /\ q.base = 0 /\ q.pc \in {"idle", "read"} /\ q.handler = "none"
        /\ q.steps = initialPublishSteps
    BY <1>3, <1>4, FirstSteps
  <2>3. Rows'
    <3>1. BranchHead' = BranchHead /\ BranchHead \in Nat
      BY <1>1, <1>2 DEF BranchHead, Rows
    <3>2. \A u \in Task : run'[u].base <= BranchHead'
      BY <1>1, <2>1, <2>2, <3>1 DEF Rows
    <3>3. /\ task' \in [Task -> Tasks] /\ call' \in [Task -> Calls] /\ run' \in [Task -> Runs]
          /\ job' \in [Task -> {"none", "queued", "running", "done", "failed"}]
      BY <1>1, <1>4, <2>2
    <3> QED
      BY <1>1, <1>2, <3>1, <3>2, <3>3 DEF Rows
  <2>4. Sound(q, row, Outcome(t), dbErrors)
    BY <1>1, <1>4, <2>2, Resting
  <2>5. \A u \in Task : Sound(run'[u], task'[u], Outcome(u), dbErrors')
    BY <1>1, <1>2, <2>1, <2>4
  <2>6. CommitInv'
    BY <1>1, <1>2, <2>5, CommitKept
  <2>7. dbErrors' \in Nat /\ dbErrors' >= dbErrors
    BY <1>1, <1>2
  <2>8. OwnInv'
    BY <1>1, <1>2, <1>4, <2>1, <2>7, OthersKept DEF Running
  <2> QED
    BY <1>1, <1>2, <2>3, <2>6, <2>8, FilesSame DEF Indexed, TypeInv
<1>5. CASE publishNow(t)
  <2> DEFINE c == [pc |-> "running", print |-> NoDraft]
             row == [task[t] EXCEPT !.status = "running"]
  <2>1. c \in Calls /\ c.pc = "running"
    BY <1>1, DraftPrint DEF Calls, CallPc
  <2>2. row \in Tasks /\ row.steps = task[t].steps /\ row.status = "running"
        /\ row.linked = task[t].linked
    BY <1>1 DEF Tasks
  <2>3. /\ task[t].status = "none" /\ job[t] = "none" /\ ~task[t].linked /\ run[t] = NoRun
        /\ task' = [task EXCEPT ![t] = row] /\ job' = [job EXCEPT ![t] = "none"]
        /\ call' = [call EXCEPT ![t] = c]
    BY <1>1, <1>5 DEF Owner, createTask, publishNow, Unused
  <2>4. run' = [run EXCEPT ![t] = first]
    BY <1>1, <1>5, <2>3 DEF publishNow, first
  <2> HIDE DEF c, row
  <2>5. call'[t] = c /\ task'[t] = row /\ job'[t] = "none" /\ run'[t].pc = "read"
    BY <1>1, <1>3, <2>3, <2>4
  <2>6. Owner(t)' /\ Settled(t)'
    BY <1>1, <1>2, <2>1, <2>2, <2>3, <2>5 DEF Owner, Executing, Settled
  <2> QED
    BY <1>4, <2>1, <2>2, <2>3, <2>4, <2>6
<1>6. CASE Claim(t)
  <2>1. boot.pc = "open" /\ job[t] = "queued" /\ UNCHANGED <<task, call>>
        /\ job' = [job EXCEPT ![t] = "running"]
    BY <1>6 DEF Claim
  <2>2. run[t] = NoRun
    BY <1>1, <2>1 DEF Owner
  <2>3. run' = [run EXCEPT ![t] = first]
    BY <1>1, <1>6, <2>2 DEF Claim, first
  <2>4. job'[t] = "running" /\ run'[t].pc = "read"
    BY <1>1, <1>3, <2>1, <2>3
  <2>5. Owner(t)' /\ Settled(t)' /\ Executing(t)'
    BY <1>1, <1>2, <2>1, <2>4 DEF Owner, Executing, Settled
  <2>6. call' = [call EXCEPT ![t] = call[t]] /\ task' = [task EXCEPT ![t] = task[t]]
    BY <1>1, <2>1
  <2> QED
    BY <1>1, <1>4, <2>1, <2>3, <2>5, <2>6
<1>7. CASE Return(t)
  <2> DEFINE c == [call[t] EXCEPT !.pc = IF @ = "running" THEN "done" ELSE @]
             j == IF job[t] # "running" THEN job[t]
                  ELSE IF run[t].pc = "threw" THEN "failed" ELSE "done"
  <2>1. c \in Calls /\ c.pc = IF call[t].pc = "running" THEN "done" ELSE call[t].pc
    BY <1>1 DEF Calls, CallPc
  <2>2. /\ call' = [call EXCEPT ![t] = c] /\ job' = [job EXCEPT ![t] = j]
        /\ run' = [run EXCEPT ![t] = NoRun] /\ task' = [task EXCEPT ![t] = task[t]]
        /\ task' = task
    BY <1>1, <1>7 DEF Return
  <2>3. j \in {"none", "queued", "running", "done", "failed"} /\ j # "running"
        /\ (j = "none" <=> job[t] = "none")
    BY <1>1
  <2> HIDE DEF c, j
  <2>4. /\ call'[t] = c /\ job'[t] = j /\ run'[t] = NoRun /\ NoRun.pc = "idle"
        /\ Executing(t)
    BY <1>1, <1>7, <2>2, FirstSteps DEF Executing, Return
  <2>5. Owner(t)'
    BY <1>1, <1>2, <2>1, <2>2, <2>3, <2>4 DEF Owner, Executing
  <2>6. ~(dbErrors = 0 /\ task[t].status = "running")
    BY <1>1, <1>7 DEF Return, Sound, Handled
  <2> QED
    BY <1>1, <1>4, <2>1, <2>2, <2>3, <2>5, <2>6
<1> QED
  BY <1>5, <1>6, <1>7

\* A run takes a step.
LEMMA RunningStep ==
  ASSUME Indexed, NEW t \in Task, runPublish(t)
  PROVE  Indexed'
<1>1. /\ Rows /\ Files /\ CommitInv /\ OwnInv
      /\ task \in [Task -> Tasks] /\ run \in [Task -> Runs]
      /\ dbErrors \in Nat /\ task[t] \in Tasks /\ run[t] \in Runs
      /\ Owner(t) /\ \A u \in Task : Sound(run[u], task[u], Outcome(u), dbErrors)
  BY DEF Indexed, TypeInv, Rows, OwnInv, CommitInv
<1>2. PICK own : own = Outcome(t)'
  OBVIOUS
<1>3. /\ Stepped(t, own)
      /\ UNCHANGED <<saves, job, call, boot, crashes, dropped>>
      /\ Ended(t)
      /\ Executing(t)
  BY <1>1, <1>2, RunStep
<1>4. /\ run' \in [Task -> Runs] /\ task' \in [Task -> Tasks]
      /\ dbErrors' \in Nat /\ dbErrors' >= dbErrors
      /\ \A u \in Task \ {t} : run'[u] = run[u] /\ task'[u] = task[u]
      /\ run'[t].base <= BranchHead /\ run'[t].pc # "idle"
      /\ task'[t].linked = task[t].linked
      /\ task'[t].status \in {task[t].status, "succeeded", "failed"}
      /\ Sound(run'[t], task'[t], own, dbErrors')
  BY <1>3 DEF Stepped
<1>5. Files'
  <2>1. CASE DeleteDrafts(t) /\ deletePublished(t)
    <3> DEFINE was == run[t].drafts
               gone == {p \in Path : was[p] # 0 /\ draft[p] # 0
                                       /\ saves[draft[p]].at <= saves[was[p]].at}
    <3>1. /\ draft' = [p \in Path |-> IF p \in gone THEN 0 ELSE draft[p]]
          /\ absorbed' = absorbed \cup {draft[p] : p \in {q \in gone : draft[q] # was[q]}}
          /\ gone \subseteq Path /\ \A p \in gone : draft[p] # 0
      BY <2>1 DEF deletePublished
    <3> HIDE DEF gone, was
    <3>2. Len(saves) \in Nat /\ DOMAIN saves = 1 .. Len(saves) /\ UNCHANGED <<saves, dropped>>
      BY <1>1, <1>3 DEF Files
    <3>3. \A p \in gone : draft[p] \in DOMAIN saves
      BY <1>1, <3>1, <3>2 DEF Files
    <3>4. draft' \in [Path -> 0 .. Len(saves)]
      BY <1>1, <3>1, <3>2 DEF Files
    <3>5. dropped \cup absorbed' \subseteq DOMAIN saves
      BY <1>1, <3>1, <3>3 DEF Files
    <3> QED
      BY <1>1, <3>2, <3>4, <3>5 DEF Files
  <2>2. CASE UNCHANGED <<draft, absorbed>>
    BY <1>1, <1>3, <2>2, FilesSame
  <2>3. DeleteDrafts(t) => deletePublished(t) \/ UNCHANGED <<draft, absorbed>>
    BY DEF DeleteDrafts
  <2>4. CASE ~DeleteDrafts(t)
    BY <2>2, <2>4 DEF runPublish, RunUnchanged, ReadTask, InitSteps, BeginCheck, Check,
       getBranchHead, Build, CommitMissedTwice, RetryCommit, BeginAgain, commitToDefaultBranch,
       CommitDone, EnqueueRestart, CutVersion, QueueDeploys, completeTask, FailAt,
       failTask, SaveAfterRebuild
  <2> QED
    BY <2>1, <2>2, <2>3, <2>4
<1>6. /\ run[t].pc \in {"cas", "recas"} => run[t].base # 0 /\ Outcome(t) = {}
      /\ \/ UNCHANGED branch
         \/ /\ Commit(t) /\ run[t].pc \in {"cas", "recas"} /\ BranchHead = run[t].base
            /\ UNCHANGED moot
  BY <1>1, <1>3 DEF Sound, Progress, Committed, BeforeCommit, Ended
<1>7. /\ branch' \in Seq(CommitRecord) /\ BranchHead' \in Nat /\ BranchHead' >= BranchHead
      /\ BranchHead \in Nat
  <2>1. BranchHead \in Nat /\ branch \in Seq(CommitRecord)
    BY <1>1 DEF BranchHead, Rows
  <2>2. CASE UNCHANGED branch
    BY <2>1, <2>2 DEF BranchHead
  <2>3. CASE Commit(t) /\ run[t].pc \in {"cas", "recas"}
    <3>1. branch' \in Seq(CommitRecord) /\ BranchHead' = BranchHead + 1
      BY <1>1, <1>6, <2>3, CommitLands
    <3> QED
      BY <2>1, <3>1
  <2> QED
    BY <1>6, <2>2, <2>3
<1>8. Rows'
  <2>1. \A u \in Task : run'[u].base <= BranchHead'
    <3>1. \A u \in Task : run'[u].base <= BranchHead /\ run'[u].base \in Nat
      BY <1>1, <1>4 DEF Rows, Runs
    <3> QED
      BY <1>7, <3>1
  <2>2. moot' \in [Task -> Moots] /\ \A u \in Task : moot'[u].head <= BranchHead
    <3>1. [head |-> run[t].base, files |-> run[t].drafts] \in Moots /\ run[t].base <= BranchHead
      BY <1>1 DEF Runs, Moots, Rows
    <3>2. moot \in [Task -> Moots] /\ \A u \in Task : moot[u].head <= BranchHead
      BY <1>1 DEF Rows
    <3>3. UNCHANGED moot \/ Finds(t)
      BY <1>3 DEF Ended
    <3> QED
      BY <3>1, <3>2, <3>3 DEF Finds
  <2>3. \A u \in Task : moot'[u].head <= BranchHead'
    <3>1. \A u \in Task : moot'[u].head \in Nat
      BY <2>2 DEF Moots
    <3> QED
      BY <1>7, <2>2, <3>1
  <2> QED
    BY <1>1, <1>3, <1>4, <1>7, <2>1, <2>2, <2>3 DEF Rows
<1>9. \A u \in Task \ {t} : Outcome(u)' = Outcome(u)
  <2>1. ASSUME NEW u \in Task \ {t}
        PROVE  LandedBy(u)' = LandedBy(u) /\ moot'[u].head = moot[u].head
    <3>1. moot'[u].head = moot[u].head
      BY <1>1, <1>3 DEF Ended, Finds, Rows
    <3>2. CASE UNCHANGED branch
      BY <3>1, <3>2 DEF LandedBy
    <3>3. CASE Commit(t) /\ run[t].pc \in {"cas", "recas"}
      BY <1>1, <1>6, <3>1, <3>3, OwnGrows
    <3> QED
      BY <1>6, <3>2, <3>3
  <2> QED
    BY <2>1 DEF Outcome
<1>10. \A u \in Task : Sound(run'[u], task'[u], Outcome(u)', dbErrors')
  <2>1. ASSUME NEW u \in Task, u # t
        PROVE  Sound(run'[u], task'[u], Outcome(u)', dbErrors')
    <3>1. Outcome(u)' = Outcome(u) /\ run'[u] = run[u] /\ task'[u] = task[u]
      BY <1>4, <1>9, <2>1
    <3>2. Sound(run[u], task[u], Outcome(u), dbErrors')
      BY <1>1, <1>4, MoreErrors
    <3> QED
      BY <3>1, <3>2
  <2>2. Sound(run'[t], task'[t], Outcome(t)', dbErrors')
    BY <1>2, <1>4
  <2> QED
    BY <2>1, <2>2
<1>11. CommitInv'
  <2>1. CASE UNCHANGED branch
    BY <1>1, <1>10, <2>1 DEF CommitInv, NothingUnbuilt, LandedBy
  <2>2. CASE Commit(t) /\ run[t].pc \in {"cas", "recas"} /\ BranchHead = run[t].base
    <3> DEFINE c == [by |-> t, base |-> run[t].base, files |-> run[t].drafts,
                     built |-> run[t].built = run[t].base, tree |-> TreeOf(t)]
    <3>1. /\ DOMAIN branch' = DOMAIN branch \cup {BranchHead} /\ BranchHead \notin DOMAIN branch
          /\ \A i \in DOMAIN branch : branch'[i] = branch[i]
          /\ branch'[BranchHead] = c
      BY <1>1, <1>6, <2>2, CommitLands
    <3>2. c.base = BranchHead /\ (c.built \/ \A p \in Path : c.files[p] # 0 => p \in ConfigPath)
      BY <1>1, <2>2 DEF Sound, Progress, OnlyConfig
    <3> HIDE DEF c
    <3>3. LandedBy(t) = {}
      BY <1>6, <2>2 DEF Outcome
    <3>4. LandedBy(t)' = {BranchHead} /\ \A u \in Task \ {t} : LandedBy(u)' = LandedBy(u)
      BY <1>1, <1>6, <2>2, <3>3, OwnGrows
    <3>5. NothingUnbuilt'
      BY <1>1, <3>1, <3>2 DEF CommitInv, NothingUnbuilt
    <3>6. ASSUME NEW u \in Task
          PROVE  \A i, j \in LandedBy(u)' : i = j
      BY <1>1, <3>4 DEF CommitInv
    <3> QED
      BY <1>10, <3>5, <3>6 DEF CommitInv
  <2> QED
    BY <1>6, <2>1, <2>2
<1>12. OwnInv'
  <2>1. task[t].status # "none" /\ task'[t].status # "none"
    BY <1>1, <1>3, <1>4 DEF Owner
  <2>2. Executing(t)'
    BY <1>4 DEF Executing
  <2>3. Owner(t)'
    BY <1>1, <1>3, <1>4, <2>1, <2>2 DEF Owner
  <2>4. Settled(t)'
    BY <2>2 DEF Settled
  <2> QED
    BY <1>1, <1>3, <1>4, <2>2, <2>3, <2>4, OthersKept
<1> QED
  BY <1>5, <1>8, <1>11, <1>12 DEF Indexed, TypeInv

---------------------------------------------------------------------------
\* Restarts.

LEMMA CrashStep ==
  ASSUME Indexed, Crash
  PROVE  Indexed'
<1>1. /\ Rows /\ Files /\ CommitInv /\ OwnInv
      /\ task \in [Task -> Tasks] /\ call \in [Task -> Calls]
      /\ crashes \in Nat /\ dbErrors \in Nat
  BY DEF Indexed, TypeInv, Rows
<1>2. /\ UNCHANGED <<saves, draft, branch, task, job, dbErrors, dropped, absorbed, moot>>
      /\ crashes' = crashes + 1 /\ run' = [t \in Task |-> NoRun]
      /\ boot' = [pc |-> "fail", failed |-> {}, todo |-> {}]
      /\ call' = [t \in Task |-> IF task[t].status = "none" THEN NoCall
                                 ELSE [call[t] EXCEPT !.pc = "done"]]
  BY DEF Crash
<1>3. Rows'
  <2>1. BranchHead' = BranchHead /\ BranchHead \in Nat
    BY <1>1, <1>2 DEF BranchHead, Rows
  <2>2. run' \in [Task -> Runs] /\ \A t \in Task : run'[t].base <= BranchHead'
    BY <1>2, <2>1, FirstSteps
  <2>3. call' \in [Task -> Calls]
    <3>1. NoCall \in Calls
      BY <1>1, DraftPrint DEF NoCall, Calls, CallPc
    <3>2. \A t \in Task : [call[t] EXCEPT !.pc = "done"] \in Calls
      BY <1>1 DEF Calls, CallPc
    <3> QED
      BY <1>2, <3>1, <3>2
  <2>4. boot' \in Boots
    BY <1>2 DEF Boots, BootPc
  <2> QED
    BY <1>1, <1>2, <2>1, <2>2, <2>3, <2>4 DEF Rows
<1>4. CommitInv'
  <2>1. ASSUME NEW t \in Task
        PROVE  Sound(run'[t], task'[t], Outcome(t), dbErrors')
    <3>1. Sound(run[t], task[t], Outcome(t), dbErrors) /\ run'[t] = NoRun /\ task'[t] = task[t]
      BY <1>1, <1>2 DEF CommitInv
    <3> QED
      BY <3>1, FirstSteps, Resting
  <2> QED
    BY <1>1, <1>2, <2>1, CommitKept
<1>5. ASSUME NEW t \in Task
      PROVE  /\ run'[t] = NoRun /\ ~Executing(t)'
             /\ task'[t] = task[t] /\ job'[t] = job[t]
             /\ call'[t].pc = IF task[t].status = "none" THEN "idle" ELSE "done"
             /\ Owner(t)
  <2>1. [call[t] EXCEPT !.pc = "done"].pc = "done" /\ NoCall.pc = "idle"
    BY <1>1 DEF Calls, NoCall
  <2> QED
    BY <1>1, <1>2, <2>1, FirstSteps DEF Executing, OwnInv
<1>6. ASSUME NEW t \in Task
      PROVE  Owner(t)'
  BY <1>2, <1>5 DEF Owner
<1>7. ASSUME NEW t \in Task, crashes' <= 1, dbErrors' = 0, Running(t)'
      PROVE  Settled(t)' /\ call'[t].pc # "link"
  <2>1. crashes = 0 /\ crashes <= 1 /\ dbErrors = 0 /\ Running(t) /\ task[t].status # "none"
    BY <1>1, <1>2, <1>7 DEF Running
  <2>2. Settled(t) /\ boot.pc = "open" /\ boot.todo = {}
    BY <1>1, <2>1 DEF OwnInv
  <2>3. Executing(t) \/ call[t].pc = "enqueue" \/ job[t] = "queued"
    BY <2>2 DEF Settled
  <2>4. job[t] = "queued" \/ job[t] = "running" \/ ~task[t].linked
    BY <1>5, <2>3 DEF Owner
  <2>5. boot'.pc = "fail"
    BY <1>2
  <2> QED
    BY <1>5, <2>1, <2>4, <2>5 DEF Settled
<1>8. OwnInv'
  <2>1. crashes' # 0 /\ boot'.todo = {}
    BY <1>1, <1>2
  <2> QED
    BY <1>6, <1>7, <2>1 DEF OwnInv
<1> QED
  BY <1>1, <1>2, <1>3, <1>4, <1>8, FilesSame DEF Indexed, TypeInv

LEMMA BootStep ==
  ASSUME Indexed, Boot
  PROVE  Indexed'
<1>1. /\ Rows /\ Files /\ CommitInv /\ OwnInv
      /\ task \in [Task -> Tasks]
      /\ job \in [Task -> {"none", "queued", "running", "done", "failed"}]
      /\ crashes \in Nat /\ dbErrors \in Nat /\ boot \in Boots
      /\ \A t \in Task : Owner(t) /\ Sound(run[t], task[t], Outcome(t), dbErrors)
  BY DEF Indexed, TypeInv, Rows, OwnInv, CommitInv
<1>2. UNCHANGED <<saves, draft, branch, call, run, crashes, dropped, absorbed, moot>>
      /\ boot.pc # "open"
  BY DEF Boot, failRunningByKind, listRunningByKind, SettleInterrupted, requeueRunning,
     BootUnchanged
\* No run of a job is under way.
<1>3. \A t \in Task : job[t] = "running" => ~Executing(t)
  BY <1>1, <1>2 DEF Owner
\* It is enough to say what becomes of the tasks, the jobs and the boot chain.
<1>4. ASSUME NEW b \in Boots, boot' = b,
             job' \in [Task -> {"none", "queued", "running", "done", "failed"}],
             \A t \in Task : /\ job'[t] = "none" <=> job[t] = "none"
                             /\ job[t] # "running" => job'[t] = job[t]
                             /\ b.pc # "open" /\ job'[t] = "running" => job[t] = "running",
             task' \in [Task -> Tasks],
             \A t \in Task : \/ task'[t] = task[t]
                             \/ /\ task[t].status # "none" /\ task'[t].status = "failed"
                                /\ task'[t].steps = task[t].steps
                                /\ task'[t].linked = task[t].linked,
             dbErrors' \in Nat, dbErrors' >= dbErrors,
             b.pc \in {"fail", "list"} => b.todo = {},
             \A t \in b.todo : task[t].status # "none",
             crashes <= 1 /\ dbErrors' = 0 =>
               \A t \in Task : Running(t)' /\ Settled(t) => Settled(t)'
      PROVE  Indexed'
  <2>1. Rows'
    BY <1>1, <1>2, <1>4 DEF Rows, BranchHead
  <2>2. CommitInv'
    <3>1. ASSUME NEW t \in Task
          PROVE  Sound(run'[t], task'[t], Outcome(t), dbErrors')
      <4>1. Sound(run[t], task[t], Outcome(t), dbErrors') /\ run' = run
        BY <1>1, <1>2, <1>4, MoreErrors
      <4>2. CASE task'[t] = task[t]
        BY <4>1, <4>2
      <4>3. CASE task'[t].status = "failed" /\ task'[t].steps = task[t].steps
        BY <4>1, <4>3 DEF Sound, Handled, Committed
      <4> QED
        BY <1>4, <4>2, <4>3
    <3> QED
      BY <1>1, <1>2, <3>1, CommitKept
  <2>3. ASSUME NEW t \in Task
        PROVE  Owner(t)'
    <3>1. /\ call'[t] = call[t] /\ run'[t] = run[t] /\ Owner(t) /\ (Executing(t)' <=> Executing(t))
          /\ (task'[t].status = "none" <=> task[t].status = "none")
          /\ task'[t].linked = task[t].linked
      BY <1>1, <1>2, <1>4 DEF Executing
    <3>2. t \in boot'.todo => task'[t].status # "none"
      BY <1>4, <3>1
    <3> QED
      BY <1>2, <1>3, <1>4, <3>1, <3>2 DEF Owner
  <2>4. ASSUME NEW t \in Task, crashes' <= 1, dbErrors' = 0, Running(t)'
        PROVE  /\ Settled(t)'
               /\ call'[t].pc = "link" => Executing(t)' \/ job'[t] = "queued"
    <3>1. crashes <= 1 /\ dbErrors = 0 /\ Running(t)
      BY <1>1, <1>2, <1>4, <2>4 DEF Running
    <3>2. Settled(t) /\ (call[t].pc = "link" => Executing(t) \/ job[t] = "queued")
      BY <1>1, <3>1 DEF OwnInv
    <3> QED
      BY <1>2, <1>4, <2>4, <3>1, <3>2 DEF Executing
  <2>5. crashes' # 0
    BY <1>1, <1>2 DEF OwnInv
  <2>6. OwnInv'
    BY <1>4, <2>3, <2>4, <2>5 DEF OwnInv
  <2> QED
    BY <1>1, <1>2, <2>1, <2>2, <2>6, FilesSame DEF Indexed, TypeInv
<1>5. \A t \in boot.todo : t \in Task /\ task[t].status # "none"
  BY <1>1 DEF Boots, Owner
<1>6. ASSUME DbError
      PROVE  dbErrors' \in Nat /\ dbErrors' >= dbErrors /\ dbErrors' # 0
  BY <1>1, <1>6 DEF DbError
<1>7. CASE failRunningByKind
  <2>1. boot.pc = "fail" /\ boot.todo = {} /\ task' = task
    BY <1>1, <1>7 DEF failRunningByKind, OwnInv
  <2> DEFINE left == {t \in Task : job[t] = "running"}
  <2>2. CASE /\ job' = [t \in Task |-> IF t \in left THEN "failed" ELSE job[t]]
             /\ boot' = [boot EXCEPT !.pc = "list", !.failed = left]
             /\ UNCHANGED dbErrors
    <3> DEFINE b == [boot EXCEPT !.pc = "list", !.failed = left]
    <3>1. b \in Boots /\ b.pc = "list" /\ b.failed = left /\ b.todo = {}
      BY <1>1, <2>1 DEF Boots, BootPc
    <3> HIDE DEF b
    <3>2. \A t \in Task : job'[t] = IF job[t] = "running" THEN "failed" ELSE job[t]
      BY <1>1, <2>2
    <3>3. ASSUME NEW t \in Task, Settled(t)
          PROVE  Settled(t)'
      <4>1. boot'.pc = "list" /\ boot'.failed = left /\ run' = run /\ call' = call
        BY <1>2, <2>2, <3>1 DEF b
      <4> QED
        BY <2>1, <3>2, <3>3, <4>1 DEF Settled, Executing
    <3>4. /\ boot' = b
          /\ job' \in [Task -> {"none", "queued", "running", "done", "failed"}]
          /\ dbErrors' \in Nat /\ dbErrors' >= dbErrors
      BY <1>1, <2>2 DEF b
    <3> QED
      BY <1>1, <1>4, <2>1, <3>1, <3>2, <3>3, <3>4
  <2>3. CASE DbError /\ boot' = [boot EXCEPT !.pc = "requeue"] /\ UNCHANGED job
    <3> DEFINE b == [boot EXCEPT !.pc = "requeue"]
    <3>1. b \in Boots /\ b.pc = "requeue" /\ b.todo = {}
      BY <1>1, <2>1 DEF Boots, BootPc
    <3> HIDE DEF b
    <3> QED
      BY <1>1, <1>4, <1>6, <2>1, <2>3, <3>1 DEF b
  <2> QED
    BY <1>7, <2>2, <2>3 DEF failRunningByKind
<1>8. CASE listRunningByKind
  <2>1. boot.pc = "list" /\ boot.todo = {} /\ task' = task /\ job' = job
    BY <1>1, <1>8 DEF listRunningByKind, OwnInv
  <2> DEFINE todo == {t \in Task : Running(t) /\ (task[t].linked => t \in boot.failed)}
  <2>2. CASE boot' = [boot EXCEPT !.pc = "settle", !.todo = todo] /\ UNCHANGED dbErrors
    <3> DEFINE b == [boot EXCEPT !.pc = "settle", !.todo = todo]
    <3>1. b \in Boots /\ b.pc = "settle" /\ b.todo = todo
      BY <1>1, <2>1 DEF Boots, BootPc
    <3> HIDE DEF b
    <3>2. ASSUME NEW t \in Task, Running(t)', Settled(t)
          PROVE  Settled(t)'
      <4>1. /\ boot'.todo = {u \in Task : Running(u) /\ (task[u].linked => u \in boot.failed)}
            /\ run' = run /\ call' = call /\ Running(t)
        BY <1>2, <2>1, <2>2, <3>1, <3>2 DEF b, Running
      <4> QED
        BY <2>1, <3>2, <4>1 DEF Settled, Executing
    <3>3. \A t \in b.todo : task[t].status # "none"
      BY <3>1 DEF Running
    <3>4. boot' = b /\ dbErrors' \in Nat /\ dbErrors' >= dbErrors
      BY <1>1, <2>2 DEF b
    <3>5. b \in Boots /\ b.pc = "settle"
      BY <3>1
    <3> HIDE DEF todo
    <3> QED
      BY <1>1, <1>4, <2>1, <3>2, <3>3, <3>4, <3>5
  <2>3. CASE DbError /\ boot' = [boot EXCEPT !.pc = "requeue"]
    <3> DEFINE b == [boot EXCEPT !.pc = "requeue"]
    <3>1. b \in Boots /\ b.pc = "requeue" /\ b.todo = {}
      BY <1>1, <2>1 DEF Boots, BootPc
    <3> HIDE DEF b
    <3> QED
      BY <1>1, <1>4, <1>6, <2>1, <2>3, <3>1 DEF b
  <2> QED
    BY <1>8, <2>2, <2>3 DEF listRunningByKind
<1>9. CASE SettleInterrupted
  <2>1. boot.pc = "settle" /\ job' = job
    BY <1>9 DEF SettleInterrupted
  <2>2. ASSUME NEW t \in boot.todo, task' = [task EXCEPT ![t].status = "failed"],
               boot' = [boot EXCEPT !.todo = @ \ {t}], UNCHANGED dbErrors
        PROVE  Indexed'
    <3> DEFINE b == [boot EXCEPT !.todo = @ \ {t}]
               row == [task[t] EXCEPT !.status = "failed"]
    <3>1. b \in Boots /\ b.pc = "settle" /\ b.todo = boot.todo \ {t}
      BY <1>1, <2>1 DEF Boots, BootPc
    <3>2. t \in Task /\ row \in Tasks /\ row.status = "failed"
          /\ row.steps = task[t].steps /\ row.linked = task[t].linked
      BY <1>1, <1>5 DEF Tasks
    <3>3. task' = [task EXCEPT ![t] = row]
      BY <1>1, <2>2
    <3> HIDE DEF b, row
    <3>4. task' \in [Task -> Tasks] /\ task'[t] = row
          /\ \A u \in Task : u # t => task'[u] = task[u]
      BY <1>1, <3>2, <3>3
    <3>5. ASSUME NEW u \in Task, Running(u)', Settled(u)
          PROVE  Settled(u)'
      <4>1. boot'.pc = "settle" /\ boot'.todo = boot.todo \ {t} /\ run' = run /\ call' = call
        BY <1>2, <2>2, <3>1 DEF b
      <4>2. u # t
        BY <3>2, <3>4, <3>5 DEF Running
      <4> QED
        BY <2>1, <3>4, <3>5, <4>1, <4>2 DEF Settled, Executing
    <3>6. \A u \in Task : \/ task'[u] = task[u]
                          \/ /\ task[u].status # "none" /\ task'[u].status = "failed"
                             /\ task'[u].steps = task[u].steps
                             /\ task'[u].linked = task[u].linked
      BY <1>5, <3>2, <3>4
    <3>7. /\ boot' = b /\ dbErrors' \in Nat /\ dbErrors' >= dbErrors
          /\ \A u \in b.todo : task[u].status # "none"
      BY <1>1, <1>5, <2>2, <3>1 DEF b
    <3>8. \A u \in Task : Running(u)' /\ Settled(u) => Settled(u)'
      BY <3>5
    <3> QED
      BY <1>1, <1>4, <2>1, <3>1, <3>4, <3>6, <3>7, <3>8
  <2>3. ASSUME boot' = [boot EXCEPT !.pc = "requeue", !.todo = {}], UNCHANGED task,
               IF boot.todo = {} THEN UNCHANGED dbErrors ELSE DbError
        PROVE  Indexed'
    <3> DEFINE b == [boot EXCEPT !.pc = "requeue", !.todo = {}]
    <3>1. b \in Boots /\ b.pc = "requeue" /\ b.todo = {}
      BY <1>1 DEF Boots, BootPc
    <3> HIDE DEF b
    <3>2. dbErrors' \in Nat /\ dbErrors' >= dbErrors /\ (dbErrors' = 0 => boot.todo = {})
      BY <1>1, <1>6, <2>3
    <3>3. ASSUME NEW u \in Task, boot.todo = {}, Settled(u)
          PROVE  Settled(u)'
      <4>1. run' = run /\ call' = call
        BY <1>2
      <4> QED
        BY <2>1, <2>3, <3>3, <4>1 DEF Settled, Executing
    <3> QED
      BY <1>1, <1>4, <2>1, <2>3, <3>1, <3>2, <3>3 DEF b
  <2> QED
    BY <1>9, <2>2, <2>3 DEF SettleInterrupted
<1>10. CASE requeueRunning
  <2>1. boot.pc = "requeue" /\ boot' = [boot EXCEPT !.pc = "open"] /\ task' = task
    BY <1>10 DEF requeueRunning
  <2> DEFINE b == [boot EXCEPT !.pc = "open"]
  <2>2. b \in Boots /\ b.pc = "open" /\ b.todo = boot.todo
    BY <1>1 DEF Boots, BootPc
  <2> HIDE DEF b
  <2>3. CASE /\ job' = [t \in Task |-> IF job[t] = "running" THEN "queued" ELSE job[t]]
             /\ UNCHANGED dbErrors
    <3>1. /\ \A t \in Task : job'[t] = IF job[t] = "running" THEN "queued" ELSE job[t]
          /\ job' \in [Task -> {"none", "queued", "running", "done", "failed"}]
      BY <1>1, <2>3
    <3>2. ASSUME NEW u \in Task, Settled(u)
          PROVE  Settled(u)'
      <4>1. run' = run /\ call' = call /\ boot'.todo = boot.todo
        BY <1>2, <2>1, <2>2 DEF b
      <4> QED
        BY <2>1, <3>1, <3>2, <4>1 DEF Settled, Executing
    <3>3. /\ boot' = b /\ dbErrors' \in Nat /\ dbErrors' >= dbErrors
          /\ \A u \in b.todo : task[u].status # "none"
      BY <1>1, <1>5, <2>1, <2>2, <2>3 DEF b
    <3>4. \A t \in Task : /\ job'[t] = "none" <=> job[t] = "none"
                         /\ job[t] # "running" => job'[t] = job[t]
      BY <1>1, <3>1
    <3> QED
      BY <1>1, <1>4, <2>1, <2>2, <3>1, <3>2, <3>3, <3>4
  <2>4. CASE DbError /\ UNCHANGED job
    BY <1>1, <1>4, <1>5, <1>6, <2>1, <2>2, <2>4 DEF b
  <2> QED
    BY <1>10, <2>3, <2>4 DEF requeueRunning
<1> QED
  BY <1>7, <1>8, <1>9, <1>10 DEF Boot

---------------------------------------------------------------------------
LEMMA InitIndexed ==
  ASSUME Init
  PROVE  Indexed
<1>1. Files
  <2>1. << >> \in Seq(Saves) /\ Len(<< >>) = 0
    BY EmptySeq
  <2>2. NoDraft \in [Path -> 0 .. 0]
    BY DEF NoDraft
  <2> QED
    BY <2>1, <2>2, BoundAssumption DEF Init, Files
<1>2. branch = << >> /\ DOMAIN branch = {} /\ BranchHead \in Nat /\ BranchHead = 1
  BY DEF Init, BranchHead
<1>3. Rows
  <2>1. /\ \A t \in Task : [status |-> "none", steps |-> initialPublishSteps,
                            linked |-> FALSE] \in Tasks
        /\ NoCall \in Calls
    BY <1>1, FirstSteps, DraftPrint DEF Tasks, Calls, CallPc, NoCall
  <2>2. branch \in Seq(CommitRecord)
    BY <1>2, EmptySeq
  <2>3. boot \in Boots
    BY DEF Init, Boots, BootPc
  <2>4. task \in [Task -> Tasks] /\ call \in [Task -> Calls] /\ run \in [Task -> Runs]
    BY <2>1, FirstSteps DEF Init
  <2>5. \A t \in Task : run[t].base <= BranchHead
    BY <1>2, FirstSteps DEF Init
  <2>6. /\ job \in [Task -> {"none", "queued", "running", "done", "failed"}]
        /\ crashes \in Nat /\ dbErrors \in Nat
    BY DEF Init
  <2>7. NotMoot \in Moots /\ NotMoot.head = 0
    BY BoundAssumption DEF Moots, NotMoot, NoDraft, Draft
  <2>8. moot \in [Task -> Moots] /\ \A t \in Task : moot[t].head <= BranchHead
    BY <1>2, <2>7 DEF Init
  <2> QED
    BY <2>2, <2>3, <2>4, <2>5, <2>6, <2>8 DEF Rows
<1>4. \A t \in Task : /\ LandedBy(t) = {} /\ Outcome(t) = {} /\ run[t] = NoRun
                      /\ task[t].status = "none" /\ ~task[t].linked
                      /\ task[t].steps = initialPublishSteps
                      /\ call[t].pc = "idle" /\ job[t] = "none" /\ ~Executing(t)
  BY <1>2, FirstSteps DEF Init, LandedBy, Outcome, NotMoot, NoCall, Executing
<1>5. CommitInv
  <2>1. ASSUME NEW t \in Task
        PROVE  Sound(run[t], task[t], Outcome(t), dbErrors)
    BY <1>4, FirstSteps DEF Sound, Handled, Progress, Committed, Working, BeforeCommit,
       AfterCommit, StepKey
  <2> QED
    BY <1>2, <1>4, <2>1 DEF CommitInv, NothingUnbuilt
<1>6. OwnInv
  <2>1. boot.pc = "open" /\ boot.todo = {}
    BY DEF Init
  <2>2. \A t \in Task : Owner(t) /\ ~Running(t)
    BY <1>4, <2>1 DEF Owner, Running
  <2> QED
    BY <2>1, <2>2 DEF OwnInv
<1> QED
  BY <1>1, <1>3, <1>5, <1>6 DEF Indexed, TypeInv

LEMMA NextIndexed ==
  ASSUME Indexed, [Next]_vars
  PROVE  Indexed'
<1>1. ASSUME NEW t \in Task, Serve(t)
      PROVE  Indexed'
  BY <1>1, AskStep, BeginEndStep, RunningStep DEF Serve
<1>2. ASSUME NEW t \in Task, startPublish(t) \/ publishNow(t) \/ ResetRead(t)
      PROVE  Indexed'
  BY <1>2, AskStep, BeginEndStep
<1>3. CASE UNCHANGED vars
  <2>1. TypeInv'
    BY <1>3 DEF vars, Indexed, TypeInv, Files, Rows, BranchHead
  <2>2. CommitInv'
    BY <1>3 DEF vars, Indexed, CommitInv, NothingUnbuilt, LandedBy, Outcome
  <2>3. OwnInv'
    BY <1>3 DEF vars, Indexed, OwnInv, Owner, Settled, Executing, Running
  <2> QED
    BY <2>1, <2>2, <2>3 DEF Indexed
<1> QED
  BY <1>1, <1>2, <1>3, MemberStep, ExternalPushStep, CrashStep, BootStep DEF Next

LEMMA Invariant == Spec => []Indexed
BY InitIndexed, NextIndexed, PTL DEF Spec

\* Every variable keeps its type: in particular a publish never pins a head
\* past the branch, and only changes that exist are dropped or absorbed.
THEOREM TypeCorrect == Spec => []TypeOK
<1>1. Indexed => TypeOK
  <2> SUFFICES ASSUME Indexed PROVE TypeOK
    OBVIOUS
  <2>1. Files /\ Rows
    BY DEF Indexed, TypeInv
  <2>2. \A t \in Task : /\ call[t] \in Calls /\ run[t] \in Runs
                        /\ moot[t] \in [head : 0 .. BranchHead, files : [Path -> Draft]]
    BY <2>1 DEF Rows, Moots, BranchHead
  <2>3. boot.pc \in {"fail", "list", "settle", "requeue", "open"}
    BY <2>1 DEF Rows, Boots, BootPc
  <2> QED
    BY <2>1, <2>2, <2>3 DEF TypeOK, Files, Rows, Saves, Tasks, Steps, Calls, Runs, Prints,
       Handlers
<1> QED
  BY <1>1, Invariant, PTL

\* What a publish commits is what it built on the head it was built on, or
\* configuration alone, whoever pushes meanwhile (publish/pipeline.server.ts).
THEOREM BuiltOnly == Spec => []NothingUnbuilt
<1>1. Indexed => NothingUnbuilt
  BY DEF Indexed, CommitInv
<1> QED
  BY <1>1, Invariant, PTL

\* However often the commit is retried, the job delivered again or a call
\* rejected after the ref moved, a publish lands at most one commit.
THEOREM LandedOnce == Spec => []LandsOnce
<1>1. Indexed => LandsOnce
  <2> SUFFICES ASSUME Indexed, NEW t \in Task
               PROVE  Cardinality(LandedBy(t)) <= 1
    BY DEF LandsOnce
  <2>1. \A i, j \in LandedBy(t) : i = j
    BY DEF Indexed, CommitInv
  <2>2. CASE LandedBy(t) = {}
    BY <2>2, FS_EmptySet
  <2>3. CASE LandedBy(t) # {}
    <3>1. PICK i : LandedBy(t) = {i}
      BY <2>1, <2>3
    <3>2. Cardinality({i}) = 1
      BY FS_Singleton
    <3> QED
      BY <3>1, <3>2
  <2> QED
    BY <2>2, <2>3
<1> QED
  BY <1>1, Invariant, PTL

\* Unless a database call was rejected or a second restart cut off the
\* reconciliation after the first, a running task will be settled.
THEOREM TaskSettled == Spec => []TaskOwned
<1>1. Indexed => TaskOwned
  BY DEF Indexed, OwnInv, Settled, Settling, TaskOwned
<1> QED
  BY <1>1, Invariant, PTL
=============================================================================
