------------------------------- MODULE JobQueue -------------------------------
(***************************************************************************)
(* The durable job queue (jobs/queue.server.ts over the jobs table) and    *)
(* the in-process worker that drains it (jobs/worker.server.ts): one claim *)
(* loop, deploys dispatched into a bounded pool, every other kind run      *)
(* inline, boot recovery before the first pass.  What a job does is left   *)
(* to the modules of the jobs' kinds: here it ends well or throws.         *)
(*                                                                         *)
(* A queued job is in ready when its runAt has passed.  ready is ordered   *)
(* by runAt, which is the order in which jobs become due.                  *)
(***************************************************************************)
EXTENDS Naturals, Sequences, FiniteSets

CONSTANTS
  Job,                \* the jobs that may be enqueued
  Pooled,             \* those of kind deploy_release or rollback_release
  Publish,            \* those of kind publish (enqueued with maxAttempts 1)
  MaxAttempts,        \* the default max_attempts of the jobs table (3)
  DeployConcurrency,  \* HARNESST_DEPLOY_CONCURRENCY
  MaxCrash,           \* bound: process restarts
  MaxDbError,         \* bound: failed database calls of the worker
  NoJob               \* no job is in the hands of the claim loop

ASSUME QueueAssumption ==
  /\ IsFiniteSet(Job)
  /\ Pooled \subseteq Job /\ Publish \subseteq Job /\ Pooled \cap Publish = {}
  /\ MaxAttempts \in Nat \ {0}
  /\ DeployConcurrency \in Nat \ {0}
  /\ MaxCrash \in Nat /\ MaxDbError \in Nat
  /\ NoJob \notin Job

VARIABLES
  status,    \* jobs.status, "absent" before the insert
  attempts,  \* jobs.attempts
  ready,     \* the queued jobs that are due, oldest runAt first
  phase,     \* the step of the boot chain in startWorker, then "booted"
  passing,   \* the interval's running flag: a processQueue pass is on
  current,   \* the job the claim loop holds: waiting for a slot, or inline
  inflight,  \* the pool of dispatched deploys
  doing,     \* the step of runJob each held job is at
  crashes,   \* restarts so far
  dbErrors   \* failed database calls so far

vars == <<status, attempts, ready, phase, passing, current, inflight, doing,
          crashes, dbErrors>>
rowVars == <<status, attempts, ready>>
loopVars == <<phase, passing, current, inflight, doing>>
faultVars == <<crashes, dbErrors>>

Statuses == {"absent", "queued", "running", "done", "failed"}
Phases == {"publishes", "requeue", "env", "booted"}
Steps == {"none", "execute", "complete", "fail"}

TypeOK ==
  /\ status \in [Job -> Statuses]
  /\ attempts \in [Job -> Nat]
  /\ ready \in Seq(Job)
  /\ phase \in Phases
  /\ passing \in BOOLEAN
  /\ current \in Job \cup {NoJob}
  /\ inflight \in SUBSET Job
  /\ doing \in [Job -> Steps]
  /\ crashes \in Nat
  /\ dbErrors \in Nat

maxAttempts(j) == IF j \in Publish THEN 1 ELSE MaxAttempts
Due == {ready[i] : i \in DOMAIN ready}
Running == {j \in Job : status[j] = "running"}
Held == inflight \cup ({current} \ {NoJob})

\* A database call of the worker rejects.
DbError == dbErrors < MaxDbError /\ dbErrors' = dbErrors + 1

Init == /\ status = [j \in Job |-> "absent"]
        /\ attempts = [j \in Job |-> 0]
        /\ ready = <<>>
        /\ phase = "publishes"
        /\ passing = FALSE
        /\ current = NoJob
        /\ inflight = {}
        /\ doing = [j \in Job |-> "none"]
        /\ crashes = 0
        /\ dbErrors = 0

---------------------------------------------------------------------------
(* Producers and time.  Request handlers run from the first moment of the  *)
(* process, boot or not.                                                   *)

Enqueue(j) == /\ status[j] = "absent"
              /\ status' = [status EXCEPT ![j] = "queued"]
              /\ ready' = Append(ready, j)
              /\ UNCHANGED <<attempts, loopVars, faultVars>>

\* enqueue with a runAt in the future.
EnqueueLater(j) == /\ status[j] = "absent"
                   /\ status' = [status EXCEPT ![j] = "queued"]
                   /\ UNCHANGED <<attempts, ready, loopVars, faultVars>>

\* runAt passes.
BecomeDue(j) == /\ status[j] = "queued"
                /\ j \notin Due
                /\ ready' = Append(ready, j)
                /\ UNCHANGED <<status, attempts, loopVars, faultVars>>

---------------------------------------------------------------------------
(* The boot chain of startWorker.  Each link runs even if the one before   *)
(* it rejected, except that a rejected requeue skips the env sweep.        *)

\* Seeded bug: publishes are left to the generic requeue.
ReconcilePublishesSkipped ==
  /\ phase = "publishes"
  /\ phase' = "requeue"
  /\ UNCHANGED <<rowVars, passing, current, inflight, doing, faultVars>>

ReconcilePublishes ==
  /\ phase = "publishes"
  /\ status' = [j \in Job |-> IF j \in Publish /\ status[j] = "running"
                              THEN "failed" ELSE status[j]]
  /\ phase' = "requeue"
  /\ UNCHANGED <<attempts, ready, passing, current, inflight, doing, faultVars>>

ReconcilePublishesError ==
  /\ phase = "publishes"
  /\ DbError
  /\ phase' = "requeue"
  /\ UNCHANGED <<rowVars, passing, current, inflight, doing, crashes>>

\* The rows share one runAt, so they are due in any order.
Orders(S) == {s \in [1 .. Cardinality(S) -> S] :
                \A a, b \in 1 .. Cardinality(S) : s[a] = s[b] => a = b}

\* Seeded bug: only pooled jobs are recovered.
RequeuePooledOnly ==
  /\ phase = "requeue"
  /\ status' = [j \in Job |-> IF status[j] = "running" /\ j \in Pooled
                              THEN "queued" ELSE status[j]]
  /\ \E order \in Orders(Running \cap Pooled) : ready' = ready \o order
  /\ phase' = "env"
  /\ UNCHANGED <<attempts, passing, current, inflight, doing, faultVars>>

RequeueRunning ==
  /\ phase = "requeue"
  /\ status' = [j \in Job |-> IF status[j] = "running" THEN "queued"
                                                       ELSE status[j]]
  /\ \E order \in Orders(Running) : ready' = ready \o order
  /\ phase' = "env"
  /\ UNCHANGED <<attempts, passing, current, inflight, doing, faultVars>>

RequeueRunningError ==
  /\ phase = "requeue"
  /\ DbError
  /\ phase' = "booted"
  /\ UNCHANGED <<rowVars, passing, current, inflight, doing, crashes>>

\* reconcileAllEnvironmentEnv only produces jobs (Enqueue).
FinishBoot ==
  /\ phase = "env"
  /\ phase' = "booted"
  /\ UNCHANGED <<rowVars, passing, current, inflight, doing, faultVars>>

---------------------------------------------------------------------------
(* The interval tick and processQueue.                                     *)

\* Seeded bug: the interval does not wait for the boot chain.
StartPassUnbooted ==
  /\ ~passing
  /\ passing' = TRUE
  /\ UNCHANGED <<rowVars, phase, current, inflight, doing, faultVars>>

StartPass == /\ phase = "booted"
             /\ ~passing
             /\ passing' = TRUE
             /\ UNCHANGED <<rowVars, phase, current, inflight, doing, faultVars>>

EndPass == /\ passing /\ current = NoJob
           /\ ready = <<>>
           /\ passing' = FALSE
           /\ UNCHANGED <<rowVars, phase, current, inflight, doing, faultVars>>

ClaimError == /\ passing /\ current = NoJob
              /\ DbError
              /\ passing' = FALSE
              /\ UNCHANGED <<rowVars, phase, current, inflight, doing, crashes>>

\* claimNext: the oldest due queued row, marked running in one transaction.
\* An inline job goes straight to execute; a pooled one waits for a slot.
ClaimNext(j) ==
  /\ passing /\ current = NoJob
  /\ ready # <<>>
  /\ j = Head(ready)
  /\ status[j] = "queued"
  /\ status' = [status EXCEPT ![j] = "running"]
  /\ attempts' = [attempts EXCEPT ![j] = @ + 1]
  /\ ready' = Tail(ready)
  /\ current' = j
  /\ doing' = [doing EXCEPT ![j] = IF j \in Pooled THEN "none" ELSE "execute"]
  /\ UNCHANGED <<phase, passing, inflight, faultVars>>

Dispatch(j) == /\ current = j
               /\ j \in Pooled
               /\ Cardinality(inflight) < DeployConcurrency
               /\ inflight' = inflight \cup {j}
               /\ current' = NoJob
               /\ doing' = [doing EXCEPT ![j] = "execute"]
               /\ UNCHANGED <<rowVars, phase, passing, faultVars>>

---------------------------------------------------------------------------
(* runJob.                                                                 *)

\* Seeded bug: a finished deploy keeps its slot.
ReleaseKeepsSlot(j) ==
  /\ inflight' = inflight
  /\ current' = IF current = j THEN NoJob ELSE current
  /\ doing' = [doing EXCEPT ![j] = "none"]

Release(j) == /\ inflight' = inflight \ {j}
              /\ current' = IF current = j THEN NoJob ELSE current
              /\ doing' = [doing EXCEPT ![j] = "none"]

ExecuteOk(j) == /\ doing[j] = "execute"
                /\ doing' = [doing EXCEPT ![j] = "complete"]
                /\ UNCHANGED <<rowVars, phase, passing, current, inflight, faultVars>>

ExecuteThrow(j) == /\ doing[j] = "execute"
                   /\ doing' = [doing EXCEPT ![j] = "fail"]
                   /\ UNCHANGED <<rowVars, phase, passing, current, inflight, faultVars>>

MarkDone(j) == /\ doing[j] = "complete"
               /\ status' = [status EXCEPT ![j] = "done"]
               /\ Release(j)
               /\ UNCHANGED <<attempts, ready, phase, passing, faultVars>>

\* A rejected complete sends a job that did its work down the failure path.
MarkDoneError(j) == /\ doing[j] = "complete"
                    /\ DbError
                    /\ doing' = [doing EXCEPT ![j] = "fail"]
                    /\ UNCHANGED <<rowVars, phase, passing, current, inflight, crashes>>

\* Seeded bugs: one attempt too many; a status the table does not have.
planFailureOneMore(j) == IF attempts[j] <= maxAttempts(j) THEN "queued" ELSE "failed"
planFailureParks(j) == IF attempts[j] < maxAttempts(j) THEN "queued" ELSE "parked"

planFailure(j) == IF attempts[j] < maxAttempts(j) THEN "queued" ELSE "failed"

MarkFailed(j) == /\ doing[j] = "fail"
                 /\ status' = [status EXCEPT ![j] = planFailure(j)]
                 /\ Release(j)
                 /\ UNCHANGED <<attempts, ready, phase, passing, faultVars>>

\* A rejected fail write is only logged: the row stays running, unheld.
MarkFailedError(j) == /\ doing[j] = "fail"
                      /\ DbError
                      /\ Release(j)
                      /\ UNCHANGED <<rowVars, phase, passing, crashes>>

---------------------------------------------------------------------------
\* The process dies and restarts: its memory is lost, the table stays.
Crash == /\ crashes < MaxCrash
         /\ crashes' = crashes + 1
         /\ phase' = "publishes"
         /\ passing' = FALSE
         /\ current' = NoJob
         /\ inflight' = {}
         /\ doing' = [j \in Job |-> "none"]
         /\ UNCHANGED <<rowVars, dbErrors>>

Boot == \/ ReconcilePublishes \/ ReconcilePublishesError
        \/ RequeueRunning \/ RequeueRunningError \/ FinishBoot
Loop == \/ StartPass \/ EndPass \/ ClaimError
        \/ \E j \in Job : ClaimNext(j) \/ Dispatch(j)
RunJob(j) == \/ ExecuteOk(j) \/ ExecuteThrow(j) \/ MarkDone(j)
             \/ MarkDoneError(j) \/ MarkFailed(j) \/ MarkFailedError(j)

Next == \/ Boot \/ Loop \/ Crash
        \/ \E j \in Job : \/ Enqueue(j) \/ EnqueueLater(j) \/ BecomeDue(j)
                          \/ RunJob(j)

\* The timers fire, the database answers and handlers return (every build,
\* probe and stream they await has a timeout of its own).
Fairness == /\ WF_vars(Boot)
            /\ WF_vars(Loop)
            /\ \A j \in Job : WF_vars(BecomeDue(j)) /\ WF_vars(RunJob(j))

Spec == Init /\ [][Next]_vars /\ Fairness

---------------------------------------------------------------------------
(***************************************************************************)
(* Properties                                                              *)
(***************************************************************************)

\* A job is executed by at most one lane, and only while the table says it is
\* running: boot recovery never requeues a job this process is executing, so
\* no job is ever claimed twice at a time (the booted gate of the interval and
\* the one-worker-per-box argument of startWorker).
Exclusive ==
  /\ \A j \in Held : status[j] = "running" /\ phase = "booted"
  /\ current \notin inflight
  /\ \A j \in Job : doing[j] # "none" => j \in Held

\* Once booted, a row says running without a lane executing it only if some
\* database call of the worker failed: a restart by itself strands nothing.
StrandedOnlyByDbError ==
  \A j \in Job :
    (phase = "booted" /\ status[j] = "running" /\ j \notin Held) => dbErrors > 0

\* The retry budget: requeueRunning does not look at attempts, so a restart can
\* grant one run more than max_attempts, and nothing else can.
RetriesBounded == \A j \in Job : attempts[j] <= maxAttempts(j) + crashes

\* A publish is claimed at most once: a restart fails it instead of rerunning
\* it, unless the boot step that fails it met a database error.
PublishRunsOnce == dbErrors = 0 => \A j \in Publish : attempts[j] <= 1

\* Every queued job ends done or failed, or is stranded by a lost write until
\* the next restart: neither a full pool nor a stream of other jobs starves it.
JobsSettle ==
  \A j \in Job :
    status[j] = "queued"
      ~> \/ status[j] \in {"done", "failed"}
         \/ phase = "booted" /\ status[j] = "running" /\ j \notin Held /\ dbErrors > 0
=============================================================================
