-------------------------- MODULE PublishPipeline --------------------------
(***************************************************************************)
(* Publishing a project's saved changes: the drafts table, the workspace   *)
(* task of a publish, the job that carries it, the pipeline check, build,  *)
(* commit, version, deploy, and what a restart does to all of them.        *)
(* (publish/pipeline.server.ts, tasks/, drafts/, jobs/worker.server.ts)    *)
(*                                                                         *)
(* A change is the number of the save that made it: it writes its file or  *)
(* deletes it.  The branch is the sequence of its commits, and its length  *)
(* is its head.                                                            *)
(***************************************************************************)
EXTENDS Naturals, Sequences, FiniteSets

CONSTANTS
  Path,          \* the files of the project
  ConfigPath,    \* those that configure the assistant: they need no build
  RestartPath,   \* those whose publish restarts it: its configuration and the lock
  FirstTree,     \* the files of the first commit
  PushedPath,    \* those that outside pushes may add or remove
  MaxTask, MaxSave, MaxPush, MaxCrash, MaxDbError    \* bounds of an instance: its
                 \* publishes, saves, outside pushes, restarts, rejected calls

ASSUME PathAssumption == /\ IsFiniteSet(Path) /\ {FirstTree, PushedPath} \subseteq SUBSET Path
                         /\ ConfigPath \subseteq RestartPath /\ RestartPath \subseteq Path
ASSUME BoundAssumption == {MaxTask, MaxSave, MaxPush, MaxCrash, MaxDbError} \subseteq Nat

VARIABLES
  saves,      \* every save ever made: its file, its millisecond, reset or not,
              \* and for a deletion the head it was saved on
  draft,      \* the drafts table: the change saved for a path, or 0
  branch,     \* the commits on the default branch
  task,       \* the workspace_tasks rows
  job,        \* the publish job of a task
  call,       \* the startPublish, publishNow or model reset behind a task
  run,        \* the runPublish call on a task
  boot,       \* the boot chain of the worker
  crashes, dbErrors,    \* restarts and rejected database calls so far
  dropped,    \* the changes a person replaced or discarded (of the checks,
              \* not of the code)
  absorbed,   \* the changes deleted with a published one of their millisecond
              \* (likewise)
  moot        \* of a publish that had nothing to commit, the head it read and
              \* the changes it took for published (likewise)

vars == <<saves, draft, branch, task, job, call, run, boot, crashes, dbErrors,
          dropped, absorbed, moot>>

Task == 1 .. MaxTask
External == 0       \* the author of a push from outside
NoDraft == [p \in Path |-> 0]
StepKey == {"check", "build", "commit", "version", "deploy"}
StepStatus == {"pending", "running", "succeeded", "failed", "skipped"}

NotMoot == [head |-> 0, files |-> NoDraft]

initialPublishSteps == [s \in StepKey |-> "pending"]

NoCall == [pc |-> "idle", print |-> NoDraft]
NoRun == [pc |-> "idle", steps |-> initialPublishSteps, drafts |-> NoDraft,
          base |-> 0, built |-> 0, handler |-> "none"]    \* 0: no head read yet

Init ==
  /\ saves = << >>
  /\ draft = NoDraft
  /\ branch = << >>
  /\ task = [t \in Task |-> [status |-> "none", steps |-> initialPublishSteps,
                             linked |-> FALSE]]
  /\ job = [t \in Task |-> "none"]
  /\ call = [t \in Task |-> NoCall]
  /\ run = [t \in Task |-> NoRun]
  /\ boot = [pc |-> "open", failed |-> {}, todo |-> {}]
  /\ crashes = 0 /\ dbErrors = 0
  /\ dropped = {} /\ absorbed = {}
  /\ moot = [t \in Task |-> NotMoot]

Running(t) == task[t].status = "running"
Executing(t) == run[t].pc # "idle"
Landed(v) == \E i \in DOMAIN branch : branch[i].files[saves[v].path] = v
BranchHead == Len(branch) + 1    \* the repository has a first commit already
LandedBy(t) == {i \in DOMAIN branch : branch[i].by = t}
Tree(head) == IF head = 1 THEN FirstTree ELSE branch[head - 1].tree
Deletes(v) == saves[v].gone # 0

---------------------------------------------------------------------------
\* Drafts.

\* The millisecond of the last save, or a later one.
Stamps == IF saves = << >> THEN {0}
          ELSE {saves[Len(saves)].at, saves[Len(saves)].at + 1}

\* drafts.upsert of the paths in ps: writes (gone is 0), or deletions.
Upsert(ps, reset, gone) ==
  /\ Len(saves) + Cardinality(ps) <= MaxSave
  /\ \E at \in Stamps, order \in [1 .. Cardinality(ps) -> ps] :
       LET number(p) == Len(saves) + CHOOSE i \in DOMAIN order : order[i] = p
       IN  /\ {order[i] : i \in DOMAIN order} = ps
           /\ saves' = saves \o [i \in DOMAIN order |->
                                   [path |-> order[i], at |-> at, reset |-> reset, gone |-> gone]]
           /\ draft' = [p \in Path |-> IF p \in ps THEN number(p) ELSE draft[p]]
  /\ dropped' = dropped \cup {draft[p] : p \in {q \in ps : draft[q] # 0}}

\* A file is written or, with no content, deleted.
stageDraft(p) ==
  /\ \E gone \in {0, BranchHead} : Upsert({p}, FALSE, gone)
  /\ UNCHANGED <<branch, task, job, call, run, boot, crashes, dbErrors, absorbed, moot>>

discardDrafts(p) ==
  /\ draft[p] # 0
  /\ draft' = [draft EXCEPT ![p] = 0]
  /\ dropped' = dropped \cup {draft[p]}
  /\ UNCHANGED <<saves, branch, task, job, call, run, boot, crashes, dbErrors, absorbed, moot>>

\* Someone pushes to the repository, or merges a pull request there.
ExternalPush ==
  /\ Len(SelectSeq(branch, LAMBDA c : c.by = External)) < MaxPush
  /\ \E pushed \in SUBSET PushedPath :
       branch' = Append(branch, [by |-> External, base |-> BranchHead, built |-> FALSE,
                                 files |-> NoDraft,
                                 tree |-> (Tree(BranchHead) \ PushedPath) \cup pushed])
  /\ UNCHANGED <<saves, draft, task, job, call, run, boot, crashes, dbErrors, dropped,
                 absorbed, moot>>

\* A reset writes the same content each time, any other save content of its own.
draftSnapshotFingerprint(d) ==
  [p \in Path |-> IF d[p] # 0 /\ saves[d[p]].reset THEN MaxSave + 1 ELSE d[p]]

---------------------------------------------------------------------------
\* Asking for a publish.  call[t].pc names the next database call.

SetCall(t, pc) == call' = [call EXCEPT ![t].pc = pc]

CallUnchanged == UNCHANGED <<saves, draft, branch, boot, crashes, dropped, absorbed, moot>>

DbError == dbErrors < MaxDbError /\ dbErrors' = dbErrors + 1

\* Publishes are numbered in the order they are asked for.
Unused(t) == call[t].pc = "idle" /\ \A u \in 1 .. t - 1 : call[u].pc # "idle"

\* workspace_tasks_running_subject_uq: one running publish of a project.
SlotTaken == \E u \in Task : Running(u)

createTask(t, pc, print) ==
  /\ ~SlotTaken
  /\ task' = [task EXCEPT ![t].status = "running"]
  /\ call' = [call EXCEPT ![t] = [pc |-> pc, print |-> print]]

startPublish(t) ==
  /\ Unused(t)
  /\ draft # NoDraft
  /\ createTask(t, "enqueue", NoDraft)
  /\ UNCHANGED <<job, run, dbErrors>> /\ CallUnchanged

\* The MCP server's publish runs inside its request, without a job.
publishNow(t) ==
  /\ Unused(t)
  /\ draft # NoDraft
  /\ createTask(t, "running", NoDraft)
  /\ run' = [run EXCEPT ![t].pc = "read"]
  /\ UNCHANGED <<job, dbErrors>> /\ CallUnchanged

\* The model reset reads the drafts, and goes on if it wrote all of them itself.
ResetRead(t) ==
  /\ Unused(t)
  /\ \A p \in Path : draft[p] # 0 => saves[draft[p]].reset
  /\ call' = [call EXCEPT ![t] = [pc |-> "stage", print |-> draft]]
  /\ UNCHANGED <<task, job, run, dbErrors>> /\ CallUnchanged

\* compareAndStage: nothing is staged over drafts that changed since the read.
compareAndStage(t) ==
  /\ call[t].pc = "stage"
  /\ IF draft # call[t].print
     THEN /\ call' = [call EXCEPT ![t] = NoCall]
          /\ UNCHANGED <<saves, draft, dropped>>
     ELSE /\ \E ps \in SUBSET (Path \ ConfigPath) :
               /\ ps # {} /\ {p \in Path : draft[p] # 0} \subseteq ps
               /\ Upsert(ps, TRUE, 0)
          /\ call' = [call EXCEPT ![t].pc = "staged", ![t].print = draft']
  /\ UNCHANGED <<branch, task, job, run, boot, crashes, dbErrors, absorbed, moot>>

\* startPublish for a reset: no other publish runs, and the drafts are still
\* the ones that were staged.
startResetPublish(t) ==
  /\ call[t].pc = "staged"
  /\ LET print == draftSnapshotFingerprint(call[t].print)
     IN  IF ~SlotTaken /\ draftSnapshotFingerprint(draft) = print
         THEN createTask(t, "enqueue", print)
         ELSE call' = [call EXCEPT ![t] = NoCall] /\ UNCHANGED task
  /\ UNCHANGED <<job, run, dbErrors>> /\ CallUnchanged

EnqueuePublish(t) ==
  /\ call[t].pc = "enqueue"
  /\ \/ job' = [job EXCEPT ![t] = "queued"] /\ SetCall(t, "link") /\ UNCHANGED dbErrors
     \/ DbError /\ SetCall(t, "done") /\ UNCHANGED job
  /\ UNCHANGED <<task, run>> /\ CallUnchanged

setTaskJob(t) ==
  /\ call[t].pc = "link"
  /\ SetCall(t, "done")
  /\ \/ task' = [task EXCEPT ![t].linked = TRUE] /\ UNCHANGED dbErrors
     \/ DbError /\ UNCHANGED task
  /\ UNCHANGED <<job, run>> /\ CallUnchanged

---------------------------------------------------------------------------
\* The job of a publish.

\* The worker claims it: publishes run one at a time, after the boot chain.
Claim(t) ==
  /\ boot.pc = "open" /\ job[t] = "queued"
  /\ \A u \in Task : job[u] = "running" => ~Executing(u)
  /\ job' = [job EXCEPT ![t] = "running"]
  /\ run' = [run EXCEPT ![t].pc = "read"]
  /\ UNCHANGED <<task, call, dbErrors>> /\ CallUnchanged

\* runPublish is over: the worker records it (maxAttempts is 1, so a rejection
\* parks the job), or the MCP caller has its answer.
Return(t) ==
  /\ run[t].pc \in {"returned", "threw"}
  /\ job' = [job EXCEPT ![t] = IF @ # "running" THEN @
                               ELSE IF run[t].pc = "threw" THEN "failed" ELSE "done"]
  /\ run' = [run EXCEPT ![t] = NoRun]
  /\ call' = [call EXCEPT ![t].pc = IF @ = "running" THEN "done" ELSE @]
  /\ UNCHANGED <<task, dbErrors>> /\ CallUnchanged

---------------------------------------------------------------------------
\* runPublish.  run[t].pc names the next await; run[t].steps is the array the
\* call keeps, task[t].steps the one it last saved.  run[t].handler is where a
\* rejected await goes: out of the function ("none"), to the catch around the
\* gates of the check ("check"), around the commit ("commit") or around the whole
\* pipeline ("outer").

Go(t, pc) == run' = [run EXCEPT ![t].pc = pc]

RunUnchanged == UNCHANGED <<saves, draft, branch, job, call, boot, crashes,
                            dropped, absorbed, moot>>

\* Seeded bug: a failure is always put down to the first step.
AnchorsCheck(st) == {"check"}

\* The failure is put down to the step that runs, else to the first one that
\* was never begun, else to the task alone.
Anchors(st) ==
  LET first(status) == CASE st["check"] = status -> {"check"}
                         [] st["build"] = status -> {"build"}
                         [] st["commit"] = status -> {"commit"}
                         [] st["version"] = status -> {"version"}
                         [] st["deploy"] = status -> {"deploy"}
                         [] OTHER -> {}
  IN  IF first("running") # {} THEN first("running") ELSE first("pending")

\* The run record after an await rejected with the array at st.
Caught(t, st) ==
  LET r == [run[t] EXCEPT !.steps = st]
      failAt(s) == [r EXCEPT !.steps[s] = "failed", !.pc = "failAt"]
  IN  CASE r.handler = "none" -> [r EXCEPT !.pc = "threw"]
        [] r.handler \in {"check", "commit"} -> [failAt(r.handler) EXCEPT !.handler = "outer"]
        [] OTHER ->
             IF Anchors(st) = {} THEN [r EXCEPT !.pc = "failTask", !.handler = "none"]
             ELSE [failAt(CHOOSE s \in Anchors(st) : TRUE) EXCEPT !.handler = "none"]

Reject(t, st) == run' = [run EXCEPT ![t] = Caught(t, st)]

\* One save(): the array, and with it whatever the call went through since the
\* last one.
SaveSteps(t, st, r) ==
  \/ /\ task' = [task EXCEPT ![t].steps = st]
     /\ run' = [run EXCEPT ![t] = [r EXCEPT !.steps = st]]
     /\ UNCHANGED dbErrors
  \/ DbError /\ Reject(t, st) /\ UNCHANGED task

SaveStep(t, s, status, pc) ==
  SaveSteps(t, [run[t].steps EXCEPT ![s] = status], [run[t] EXCEPT !.pc = pc])

\* Step s has succeeded and the step after it runs.
EndStep(t, s, after, r) ==
  SaveSteps(t, [run[t].steps EXCEPT ![s] = "succeeded", ![after] = "running"], r)

\* failAt(s): save the step as failed, then fail the task.
FailStep(t, s) == SaveStep(t, s, "failed", "failTask")

ConfigOnly(t) == \A p \in Path : run[t].drafts[p] # 0 => p \in ConfigPath

\* Seeded bugs: the job of a publish runs whatever its task shows; the drafts of
\* a reset are not compared again when its job runs.
NeverRanAssumed(t) == TRUE
TamperedUnseen(t) == FALSE

\* The rerun guard: a task that shows progress, or is over, is not run again.
NeverRan(t) == \A s \in StepKey : task[t].steps[s] = "pending"

\* A reset publishes nothing but the drafts it was asked to.
Tampered(t) ==
  call[t].print # NoDraft /\ draftSnapshotFingerprint(draft) # call[t].print

\* The reads at the head.
ReadTask(t) ==
  /\ run[t].pc = "read"
  /\ LET r == [run[t] EXCEPT !.drafts = draft]
     IN  \/ /\ run' = [run EXCEPT ![t] =
                 IF ~Running(t) THEN [r EXCEPT !.pc = "returned"]
                 ELSE IF ~NeverRan(t) THEN [r EXCEPT !.pc = "failTask"]
                 ELSE IF Tampered(t) \/ draft = NoDraft
                   THEN [r EXCEPT !.pc = "failAt", !.steps["check"] = "failed"]
                   ELSE [r EXCEPT !.pc = "init"]]
            /\ UNCHANGED dbErrors
         \/ DbError /\ Go(t, "threw")
  /\ UNCHANGED task /\ RunUnchanged

InitSteps(t) ==
  /\ run[t].pc = "init"
  /\ LET st == [s \in StepKey |->
                 IF ConfigOnly(t) /\ s \in {"build", "version", "deploy"}
                   THEN "skipped" ELSE "pending"]
     IN  SaveSteps(t, st, [run[t] EXCEPT !.pc = "check", !.handler = "outer"])
  /\ RunUnchanged

BeginCheck(t) ==
  /\ run[t].pc = "check" /\ SaveStep(t, "check", "running", "checking") /\ RunUnchanged

\* The gates, the coherence pass and the choice of the environment.  The gates
\* call failAt within the try whose catch puts down what the others throw.  The
\* save that ends a step and the one that begins the next are one write here: a
\* rejection of either goes to the same step.
Check(t) ==
  /\ run[t].pc = "checking"
  /\ \/ EndStep(t, "check", IF ConfigOnly(t) THEN "commit" ELSE "build",
                [run[t] EXCEPT !.pc = "pin",
                   !.handler = IF ConfigOnly(t) THEN "commit" ELSE "outer"])
     \/ /\ \E handler \in {"check", "outer"} :
             run' = [run EXCEPT ![t].steps["check"] = "failed", ![t].pc = "failAt",
                                ![t].handler = handler]
        /\ UNCHANGED <<task, dbErrors>>
  /\ RunUnchanged

\* Seeded bug: the head is taken for the commit to come.
getBranchHeadNext(t) ==
  /\ run[t].pc = "pin"
  /\ run' = [run EXCEPT ![t].base = BranchHead + 1, ![t].pc = "building"]
  /\ UNCHANGED <<task, dbErrors>> /\ RunUnchanged

\* getBranchHead, before the build or, when only configuration is published,
\* before the commit.
getBranchHead(t) ==
  /\ run[t].pc = "pin"
  /\ \/ run' = [run EXCEPT ![t].base = BranchHead,
                           ![t].pc = IF run[t].steps["build"] = "running" THEN "building"
                                     ELSE IF run[t].steps["commit"] = "running" THEN "cas"
                                     ELSE "recommit"]
     \/ Reject(t, run[t].steps)
  /\ UNCHANGED <<task, dbErrors>> /\ RunUnchanged

\* checkBuild of every root, pinned to the head that was read.
Build(t) ==
  /\ run[t].pc = "building"
  /\ \/ EndStep(t, "build", "commit",
                [run[t] EXCEPT !.pc = IF run[t].handler = "commit" THEN "recas" ELSE "cas",
                               !.built = run[t].base, !.handler = "commit"])
     \/ FailStep(t, "build")
  /\ RunUnchanged

NonFastForward(t) == BranchHead # run[t].base

Published(t) == {p \in Path : run[t].drafts[p] # 0}

\* Seeded bug: every deletion is taken for done.
AllDeletions(t) == \A p \in Published(t) : Deletes(run[t].drafts[p])

\* Everything is already true at the base: only deletions of files it lacks.
NothingToCommit(t) ==
  \A p \in Published(t) : Deletes(run[t].drafts[p]) /\ p \notin Tree(run[t].base)

\* The coherence pass may add a file of its own, which is then written, unless
\* only configuration is published.
MakesCommit(t) == NothingToCommit(t) => ~ConfigOnly(t)

Commit(t) ==
  LET deleted == {p \in Published(t) : Deletes(run[t].drafts[p])}
  IN  branch' = Append(branch, [by |-> t, base |-> run[t].base, files |-> run[t].drafts,
                                built |-> run[t].built = run[t].base,
                                tree |-> (Tree(run[t].base) \cup Published(t)) \ deleted])

\* commitToDefaultBranch: the ref moves only if the head is the expected one.
\* Any other rejection may come before or after the ref moved.  With nothing to
\* commit it returns the base, and the ref is not compared with anything.
commitToDefaultBranch(t) ==
  LET done == [run EXCEPT ![t].pc = "delete", ![t].handler = "outer"]
  IN  /\ run[t].pc \in {"cas", "recas"}
      /\ \/ /\ NothingToCommit(t) /\ run' = done /\ UNCHANGED branch
            /\ moot' = [moot EXCEPT ![t] = [head |-> run[t].base, files |-> run[t].drafts]]
         \/ /\ MakesCommit(t) /\ BranchHead = run[t].base /\ Commit(t)
            /\ run' = done \/ Reject(t, run[t].steps)
            /\ UNCHANGED moot
         \/ Reject(t, run[t].steps) /\ UNCHANGED <<branch, moot>>
         \/ /\ MakesCommit(t) /\ NonFastForward(t) /\ run[t].pc = "cas" /\ Go(t, "missed")
            /\ UNCHANGED <<branch, moot>>
      /\ UNCHANGED <<saves, draft, task, job, call, boot, crashes, dbErrors, dropped, absorbed>>

\* The retry missed as well: the publish gives up.
CommitMissedTwice(t) ==
  /\ run[t].pc = "recas" /\ MakesCommit(t) /\ NonFastForward(t)
  /\ FailStep(t, "commit")
  /\ RunUnchanged

\* Seeded bug: the commit is retried on the new head without a build of it.
RetryCommitUnbuilt(t) ==
  /\ run[t].pc = "missed" /\ SaveStep(t, "commit", "pending", "pin") /\ RunUnchanged

\* The head moved since the build: build once more on the new one.
RetryCommit(t) ==
  /\ run[t].pc = "missed"
  /\ SaveStep(t, "commit", "pending", IF ConfigOnly(t) THEN "pin" ELSE "rebuild")
  /\ RunUnchanged

BeginAgain(t) ==
  /\ \/ run[t].pc = "rebuild" /\ SaveStep(t, "build", "running", "pin")
     \/ run[t].pc = "recommit" /\ SaveStep(t, "commit", "running", "recas")
  /\ RunUnchanged

\* Seeded bug: the published paths are deleted, whatever was saved since.
deletePublishedPaths(t) ==
  /\ draft' = [p \in Path |-> IF run[t].drafts[p] # 0 THEN 0 ELSE draft[p]]
  /\ UNCHANGED absorbed

\* deletePublished: of the captured paths, the rows not saved since, to the
\* resolution of a millisecond.
deletePublished(t) ==
  LET was == run[t].drafts
      gone == {p \in Path : was[p] # 0 /\ draft[p] # 0
                              /\ saves[draft[p]].at <= saves[was[p]].at}
  IN  /\ draft' = [p \in Path |-> IF p \in gone THEN 0 ELSE draft[p]]
      /\ absorbed' = absorbed \cup {draft[p] : p \in {q \in gone : draft[q] # was[q]}}

DeleteDrafts(t) ==
  /\ run[t].pc = "delete"
  /\ \/ deletePublished(t) /\ Go(t, "landed") /\ UNCHANGED dbErrors
     \/ DbError /\ Reject(t, run[t].steps) /\ UNCHANGED <<draft, absorbed>>
  /\ UNCHANGED <<saves, branch, task, job, call, boot, crashes, dropped, moot>>

CommitDone(t) ==
  /\ run[t].pc = "landed"
  /\ SaveStep(t, "commit", "succeeded", "restart")
  /\ RunUnchanged

\* The restart of an assistant whose configuration or lock was published is enqueued;
\* configuration alone makes no version.
EnqueueRestart(t) ==
  /\ run[t].pc = "restart"
  /\ \/ ~ConfigOnly(t) /\ SaveStep(t, "version", "running", "versioning")
     \/ ConfigOnly(t) /\ Go(t, "complete") /\ UNCHANGED <<task, dbErrors>>
     \/ /\ \E p \in RestartPath : run[t].drafts[p] # 0
        /\ DbError /\ Reject(t, run[t].steps) /\ UNCHANGED task
  /\ RunUnchanged

\* ensureReleasesForCommit and the promotion of the images that were built.
CutVersion(t) ==
  /\ run[t].pc = "versioning"
  /\ \/ EndStep(t, "version", "deploy", [run[t] EXCEPT !.pc = "deploying"])
     \/ FailStep(t, "version")
  /\ RunUnchanged

\* queueDeploy of every member: one that is refused fails the step.
QueueDeploys(t) ==
  /\ run[t].pc = "deploying"
  /\ SaveStep(t, "deploy", "succeeded", "complete") \/ FailStep(t, "deploy")
  /\ RunUnchanged

SettleTask(t, status) ==
  \/ /\ task' = [task EXCEPT ![t].status = status]
     /\ Go(t, IF run[t].steps["build"] = "failed" /\ run[t].handler = "commit"
              THEN "afterRebuild" ELSE "returned")
     /\ UNCHANGED dbErrors
  \/ DbError /\ Reject(t, run[t].steps) /\ UNCHANGED task

completeTask(t) ==
  /\ run[t].pc = "complete" /\ SettleTask(t, "succeeded") /\ RunUnchanged

\* The save inside failAt, when the failure came from a rejected await.
FailAt(t) ==
  /\ run[t].pc = "failAt"
  /\ SaveSteps(t, run[t].steps, [run[t] EXCEPT !.pc = "failTask"])
  /\ RunUnchanged

failTask(t) ==
  /\ run[t].pc = "failTask" /\ SettleTask(t, "failed") /\ RunUnchanged

\* The save that follows a failed rebuild, within the catch of the commit.
SaveAfterRebuild(t) ==
  /\ run[t].pc = "afterRebuild"
  /\ SaveSteps(t, run[t].steps, [run[t] EXCEPT !.pc = "returned"])
  /\ RunUnchanged

runPublish(t) ==
  \/ ReadTask(t) \/ InitSteps(t) \/ BeginCheck(t) \/ Check(t) \/ getBranchHead(t)
  \/ Build(t) \/ commitToDefaultBranch(t) \/ CommitMissedTwice(t) \/ RetryCommit(t)
  \/ BeginAgain(t) \/ DeleteDrafts(t) \/ CommitDone(t) \/ EnqueueRestart(t)
  \/ CutVersion(t) \/ QueueDeploys(t) \/ completeTask(t) \/ FailAt(t) \/ failTask(t)
  \/ SaveAfterRebuild(t)

---------------------------------------------------------------------------
\* Restart.  The process dies; the new one serves requests while its worker
\* goes through the boot chain.

Crash ==
  /\ crashes < MaxCrash /\ crashes' = crashes + 1
  /\ call' = [t \in Task |-> IF task[t].status = "none" THEN NoCall
                             ELSE [call[t] EXCEPT !.pc = "done"]]
  /\ run' = [t \in Task |-> NoRun]
  /\ boot' = [pc |-> "fail", failed |-> {}, todo |-> {}]
  /\ UNCHANGED <<saves, draft, branch, task, job, dbErrors, dropped, absorbed, moot>>

BootUnchanged == UNCHANGED <<saves, draft, branch, call, run, crashes,
                             dropped, absorbed, moot>>

\* reconcilePublishesOnBoot: fail the publish jobs left running ...
failRunningByKind ==
  /\ boot.pc = "fail"
  /\ LET left == {t \in Task : job[t] = "running"}
     IN  \/ /\ job' = [t \in Task |-> IF t \in left THEN "failed" ELSE job[t]]
            /\ boot' = [boot EXCEPT !.pc = "list", !.failed = left]
            /\ UNCHANGED dbErrors
         \/ DbError /\ boot' = [boot EXCEPT !.pc = "requeue"] /\ UNCHANGED job
  /\ UNCHANGED task /\ BootUnchanged

\* Seeded bug: the tasks without a job are left alone.
listRunningWithJob ==
  /\ boot.pc = "list"
  /\ boot' = [boot EXCEPT !.pc = "settle",
                !.todo = {t \in Task : Running(t) /\ t \in boot.failed}]
  /\ UNCHANGED <<task, job, dbErrors>> /\ BootUnchanged

\* ... list the running tasks, except those whose job is still queued ...
listRunningByKind ==
  /\ boot.pc = "list"
  /\ \/ /\ boot' = [boot EXCEPT !.pc = "settle",
                      !.todo = {t \in Task : Running(t) /\ (task[t].linked => t \in boot.failed)}]
        /\ UNCHANGED dbErrors
     \/ DbError /\ boot' = [boot EXCEPT !.pc = "requeue"]
  /\ UNCHANGED <<task, job>> /\ BootUnchanged

\* ... and fail them, one after the other.
SettleInterrupted ==
  /\ boot.pc = "settle"
  /\ \/ \E t \in boot.todo :
          /\ task' = [task EXCEPT ![t].status = "failed"]
          /\ boot' = [boot EXCEPT !.todo = @ \ {t}]
          /\ UNCHANGED dbErrors
     \/ /\ IF boot.todo = {} THEN UNCHANGED dbErrors ELSE DbError
        /\ boot' = [boot EXCEPT !.pc = "requeue", !.todo = {}]
        /\ UNCHANGED task
  /\ UNCHANGED job /\ BootUnchanged

\* The generic requeue of the jobs that are still running opens the queue.
requeueRunning ==
  /\ boot.pc = "requeue"
  /\ boot' = [boot EXCEPT !.pc = "open"]
  /\ \/ job' = [t \in Task |-> IF job[t] = "running" THEN "queued" ELSE job[t]]
        /\ UNCHANGED dbErrors
     \/ DbError /\ UNCHANGED job
  /\ UNCHANGED task /\ BootUnchanged

Boot == failRunningByKind \/ listRunningByKind \/ SettleInterrupted \/ requeueRunning

---------------------------------------------------------------------------
Serve(t) ==
  \/ compareAndStage(t) \/ startResetPublish(t) \/ EnqueuePublish(t) \/ setTaskJob(t)
  \/ Claim(t) \/ Return(t) \/ runPublish(t)

Next ==
  \/ \E p \in Path : stageDraft(p) \/ discardDrafts(p)
  \/ ExternalPush
  \/ \E t \in Task : startPublish(t) \/ publishNow(t) \/ ResetRead(t)
  \/ \E t \in Task : Serve(t)
  \/ Boot
  \/ Crash

Spec == Init /\ [][Next]_vars

---------------------------------------------------------------------------
Draft == 0 .. MaxSave
CommitRecord == [by : Task \cup {External}, base : Nat, files : [Path -> Draft],
                 built : BOOLEAN, tree : SUBSET Path]

TypeOK ==
  /\ saves \in Seq([path : Path, at : Nat, reset : BOOLEAN, gone : Nat])
  /\ Len(saves) <= MaxSave
  /\ draft \in [Path -> 0 .. Len(saves)]
  /\ branch \in Seq(CommitRecord)
  /\ task \in [Task -> [status : {"none", "running", "succeeded", "failed"},
                        steps : [StepKey -> StepStatus], linked : BOOLEAN]]
  /\ job \in [Task -> {"none", "queued", "running", "done", "failed"}]
  /\ \A t \in Task :
       /\ call[t].print \in [Path -> 0 .. MaxSave + 1]
       /\ run[t].steps \in [StepKey -> StepStatus]
       /\ run[t].drafts \in [Path -> Draft]
       /\ run[t].base <= BranchHead
       /\ run[t].handler \in {"none", "check", "commit", "outer"}
       /\ moot[t] \in [head : 0 .. BranchHead, files : [Path -> Draft]]
  /\ boot.pc \in {"fail", "list", "settle", "requeue", "open"}
  /\ dropped \cup absorbed \subseteq DOMAIN saves

\* What a publish commits is what it built, on the head it was built on: no
\* push and no other publish gets between the build and the commit.
NothingUnbuilt ==
  \A i \in DOMAIN branch :
    branch[i].by \in Task =>
      /\ branch[i].base = i
      /\ \/ branch[i].built
         \/ \A p \in Path : branch[i].files[p] # 0 => p \in ConfigPath

\* A publish lands at most one commit, through retries of the commit, a job
\* delivered again after a restart, and failures after the ref moved.
LandsOnce == \A t \in Task : Cardinality(LandedBy(t)) <= 1

\* A publish that ended without a commit: each of its changes deletes a file
\* that was missing at the head it read.
NothingToDo(t) ==
  /\ moot[t].head # 0
  /\ \A p \in Path : moot[t].files[p] # 0 =>
       Deletes(moot[t].files[p]) /\ p \notin Tree(moot[t].head)

\* What the task shows is what happened: a publish that failed at check or
\* build landed nothing; one whose commit step or whole task succeeded landed
\* its commit, or every change it took was true already at the head it read.
ReportHonest ==
  \A t \in Task :
    /\ "failed" \in {task[t].steps["check"], task[t].steps["build"]} => LandedBy(t) = {}
    /\ task[t].steps["commit"] = "succeeded" \/ task[t].status = "succeeded"
         => LandedBy(t) # {} \/ NothingToDo(t)

\* A model reset publishes exactly what it staged, whatever was saved between
\* its request and the run of its job.
ResetExact ==
  \A t \in Task : \A i \in LandedBy(t) :
    call[t].print # NoDraft => draftSnapshotFingerprint(branch[i].files) = call[t].print

\* The fate of a change, in the terms of ChangeLedger.
Fate(v) ==
  IF Landed(v) THEN "landed"
  ELSE IF \E t \in Task : moot[t].files[saves[v].path] = v THEN "moot"
  ELSE IF draft[saves[v].path] = v THEN "saved"
  ELSE IF v \in dropped THEN "dropped"
  ELSE IF v \in absorbed THEN "absorbed"
  ELSE "lost"

\* A deletion whose file the branch was without at some head since it was saved.
Met(v) == Deletes(v) /\ \E head \in saves[v].gone .. BranchHead : saves[v].path \notin Tree(head)

Ledger == INSTANCE ChangeLedger
  WITH ledger <- [v \in DOMAIN saves |->
                    [path |-> saves[v].path, at |-> saves[v].at, fate |-> Fate(v)]],
       met <- {v \in DOMAIN saves : Met(v)}

\* Every change that was saved stays saved until a person drops it or a commit
\* lands it, whatever is saved while a publish is under way; or, for a deletion,
\* until a publish finds the branch without its file.
KeepsChanges == Ledger!LedgerSpec

\* A running task will be settled, whatever a restart left of it: its call or
\* its job is still to come, its pipeline runs, or the boot chain will fail it.
\* (A rejected call may leave a task that nothing settles, and so may a second
\* restart, when it cuts off the reconciliation after the first.)
Settling(t) ==
  \/ Executing(t)
  \/ call[t].pc \in {"enqueue", "link"}
  \/ job[t] = "queued"
  \/ boot.pc = "fail" /\ (job[t] = "running" \/ ~task[t].linked)
  \/ boot.pc = "list" /\ (t \in boot.failed \/ ~task[t].linked)
  \/ t \in boot.todo
TaskOwned ==
  crashes <= 1 /\ dbErrors = 0 => \A t \in Task : Running(t) => Settling(t)
=============================================================================
