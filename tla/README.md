# harnesst: a verification project

harnesst is a web application that builds, manages and deploys agents. One Node
process serves the UI, the webhooks and the chat relays, and also runs the
background worker; its state is in Postgres, and the agents it deploys are
containers. This directory holds TLA+ models of the parts where its concurrency
meets: the job queue, the release registry, everything that changes the
deployments of an environment, the publishing of drafts, and turns delegated from
one agent to another.

Contents: [inventory](#inventory) · [modules](#modules) ·
[what is abstracted](#what-is-abstracted) · [runs](#runs) ·
[divergences found](#divergences-found) · [proofs](#proofs) ·
[what is not modelled](#what-is-not-modelled) · [plan](#plan)

## Inventory

Paths are under `src/app`.

| Component | State | Operations | What is hard |
|---|---|---|---|
| Job queue and worker (`jobs/`) | `jobs` rows; in memory: the claim loop, the deploy pool, the boot chain | enqueue, claim, complete, fail with backoff; boot recovery | restarts strand running jobs; the pool; rejected writes; publishes must not rerun |
| Release registry (`deploy/controller`, `deploy/versioning`, `assistant/instance`) | `releases` rows | find or create for a commit, label `vN` | two merge triggers, label races, bounded retry |
| Deploy controller (`deploy/controller`) | `deployments` rows; one call per deployment | queue, deploy, cut over, fail, clear failed | two callers of one environment; failing between steps of the cutover |
| Drain watcher (`deploy/drain`) | job payload: a deadline | one tick: wait, or stop and settle | must be scheduled again until the end; must not interrupt early |
| Container cleanup (`deploy/cleanup`) | none | check, then destroy | the check may be stale when acted on |
| Env reconciler (`deploy/env-reconcile`) | `environments.env_revision`, `deployments.env_revision` | bump, reconcile, boot sweep | a revision racing a deploy that already read its env |
| Liveness and wake (`deploy/liveness`, `deploy/wake`) | row status and URL, containers | probe, restart, promote, replace | slow container operations between a listing and a write |
| Agent runs (`observability/store`) | `runs` rows | start while live, finish, fail when drained | a run starting while its deployment is superseded |
| Publishing (`publish/`, `drafts/`, `tasks/`, `models/reset-model`) | `draft_changes`, the publish's `workspace_tasks` row, the default branch on GitHub | save, discard, stage a reset; start, check, build, commit, delete drafts, cut a version, deploy; boot reconciliation | edits during a publish; a branch that moves; in-request and queued publishes together; restarts and rejected writes at every await |
| Delegation (`team/ask`, `team/reattach`, `team/resume`) | `delegations`, the `reattach_delegation` jobs, the relay call | ask, tell, hand off, park; one tick: wait, or settle in six writes; settle after an answer | two actors that settle; retries of a half-done settlement; restarts |
| Chat and front of house (`playground/`, `foh/`, `chat/turn-stream`) | `playground_sessions`, `inbox_items` | claim a turn, ask, end, stop, archive, file and resolve questions | a person acting on a conversation that is watched |
| Connections (`connections/`) | OAuth grants, one refresh chain per grant | connect, refresh, rotate | a refresh token spent twice |
| Environments, shipping, splitter, reaper | environments, repositories, sandboxes | create, delete, ship, route, reap | deletion against running work |
| Gateway, models, marketplace, provisioners, approvals, MCP, GitHub, Discord, auth, UI | settings, ledgers, external services | request handlers | mostly sequential or I/O |

How they interact. Handlers and the publishing pipeline enqueue jobs; the worker
claims them and calls the deploy controller (pooled) or the drain watcher, the
cleanup and the reconciler (inline, one at a time). The controller's cutover
demotes the old rows and schedules their drain; the drain schedules the cleanup;
a deploy that failed for the last time schedules a reconciliation, which queues
deploys of its own. Requests that need an agent call wake, which writes the same
rows outside the queue and may run a whole deploy inside the request. All of
these share the rows of one environment with no lock: what orders them is one
partial unique index (at most one row pending or building), compare-and-set
updates in wake and liveness, and the status every reader filters on.

A publish is a job too, except where it runs inside the request that asked for
it: it holds a copy of the drafts while members keep saving, builds, commits to
the branch on GitHub, deletes the drafts it published if they are unchanged, and
records releases and queues deploys through the registry and the controller. A
delegated turn starts in a request of the agent that delegates (the relay); when
the relay loses its stream, or only dispatched the turn, it adopts the teammate's
session as a conversation and leaves it to a chain of jobs (the watcher), which
the same inline worker runs. A turn that asks for input is parked: its
delegation waits, its question is filed in the inbox, and the turn of the person
who answers settles it.

What makes each component correct is stated with the runs below; the hazards
behind those properties, at their lines, are in `PROJECT.json`.

## Modules

| Module | Models | Its state |
|---|---|---|
| `JobQueue` | `jobs/queue`, `jobs/policy`, `jobs/worker` | job rows, claim order, boot phase, the pass, the pool, the step of `runJob` each held job is at |
| `ReleaseRegistry` | `createRelease`, `ensureReleaseForCommit`, `ensureAssistantRelease` | release rows, one call record per caller |
| `DeployState` | what the actors of one environment share | rows, env revision, containers, job sets, runs, boot phase |
| `DeployController` | `queueDeploy`, `deployRelease`, the job around it, `deleteFailed` | `exec`: the `deployRelease` call on each row |
| `DeployInline` | drain, cleanup, env reconciliation and its boot sweep | `lane`: the worker's inline job |
| `DeployWake` | ensure, refresh, the boot liveness sweep | `req`: one call per request, and one for the sweep |
| `DeployEnvironment` | the composition, with revision bumps, runs, container deaths and restarts | all of the above; the properties |
| `EnvironmentSlot` | what deploying promises about one environment | the abstract specification: a slot that one deployment holds at a time, a service that its holder takes over |
| `PublishPipeline` | `startPublish`, `publishNow`, `runPublish`, the reset's staging, the drafts' writes, boot reconciliation | drafts and their stamps, the branch, the task row, the job, `call` (the request), `run` (the pipeline) and `boot` |
| `ChangeLedger` | what publishing promises each change a member saves | the abstract specification: a change is saved, dropped, landed, moot or absorbed |
| `Delegation` | ask, tell, park, reattach, resume, and what a person does to the conversation | the delegation, session, question and run rows; the `relay` call, the `tick` of the watcher, its `queue`, the `person`'s turn |
| `MC*` | the instances TLC checks | |
| `DeployEnvironment_proofs` ← `DeployJobs_proofs` ← `DeployCalm_proofs` | the theorems on deploys: the table; types and jobs; the calls while nothing is rejected | |
| `ReleaseRegistry_proofs`, `JobQueue_proofs`, `Delegation_proofs`, `PublishPipeline_proofs`, `PublishLedger_proofs` | the theorems on the other components | |

`DeployState` ← `DeployController` ← `DeployInline` ← `DeployWake` ←
`DeployEnvironment` is a chain of EXTENDS: each adds an actor to the state it
shares with the earlier ones, and the last puts their next-state relations side
by side.

**Correspondence.** One database call, or one operation on the container
runtime, is one step, so anything another actor can do between two awaits of the
code can happen between two steps. A call in progress is a record with a `pc`
naming the next await (`exec[d].pc = "demote"`) and the local variables still
needed (`sup` is `superseded`, `todo` the updates of a `Promise.all` not yet
done). A rejected database call (`DbError`) goes to the `catch` in force where the
code awaits it, which is not always the nearest: an update that is returned from a
`try` without being awaited, or that stands beside a row's write in a `Promise.all`
outside every `try`, leaves the function (`FailRowError`, `TakeRowError`). Definitions keep the code's names where they can (`planFailure`,
`versionLabel`, `StopDeploymentInfra`, `InsertRow`, ...); `PROJECT.json` maps
each to its lines. Definitions marked *Seeded bug* are never part of the model:
they are the mutated forms that show that a property can fail.

Some steps that are easy to miss:

- `deployRelease` on a queued row *takes* it with an unconditional update; the
  unique index rejects the update if another row is in flight (`TakeRowThrows`),
  outside the `try`, so the row is left as it was.
- The outer `catch` of `deployRelease` also catches a rejected promotion or audit
  insert, after the old rows were demoted (`PromoteError`, `AuditError`, then
  `AbortInfra`, `FailRow`).
- Two rejections leave a row in flight with no call on it: the write of a failure
  itself, which no `catch` covers (`FailRowError`), and a read beside the row's own
  write (`TakeRowError`, and `ReplaceInsertError` for a wake's replacement), which
  throws whether or not that write was made. The job's retry takes the row again; in
  a request nothing does.
- A stop whose health probe throws counts as rejected although the container may be
  down (`StopDeploymentInfraThrows`).
- A crash ends calls, never rows: `Crash` resets `exec`, `lane`, `req` and the
  half-done enqueues, keeps rows and jobs, and may take the containers down. The
  boot chain then runs in the code's order: liveness sweep, requeue, env sweep,
  first pass. A failing requeue skips the env sweep, as its `.then` chain does.
- A publish rejected at any await goes to the handler that is in force there
  (`run[t].handler`, `Caught`): out of the function, to the catch around the
  commit, or to the one around the pipeline, which puts the failure down to the
  running step, else to the first pending one (`Anchors`). GitHub may have moved
  the ref before the call rejected (`commitToDefaultBranch`). The gates' own
  failures, recorded inside the inner `try`, are caught there again (`Check`).
- A publish of nothing but deletions whose files are all absent at the head it read
  commits nothing, compares no ref, and counts as published: its drafts are deleted
  (`NothingToCommit`). When a push brings such a file back during the build, the
  deletion is gone with no commit; the ledger calls it moot.
- A publish that misses the head once builds again on the new head; one that
  carries only configuration commits again without a build (`RetryCommit`).
- Whatever saves a session's row leaves a stopped or archived one alone
  (`Retired`), and the park that loses to it fails the delegated turn
  (`MarkPending`).
- The watcher's six writes are in the order of the code; the first and the last
  are best-effort, a rejection of the others throws the tick, and its retry reads
  everything anew (`ReadRows`).
- A restart requeues the running tick beside the successor it may already have
  scheduled: two watchers (`Crash`, `Claim`).
- The worker's failure to *record* a failure leaves the job row running
  (`RetryDeployError`, `MarkFailedError`).

## What is abstracted

- *One environment.* No row, job or call of one environment is read by another's;
  the pool and the claim order they share are `JobQueue`'s subject. In the deploy
  modules due jobs are claimed in any order and the pool has room for every
  deploy, which allows every order the queue does.
- *Job sets.* Equal queued jobs of an environment (same kind, row, attempts,
  deadline) are one element; the copies would run one after the other, and every
  handler begins by reading the rows again. A job that has parked as failed
  leaves the set.
- *Preparation and launch.* Assembling the env, building and launching are one
  step that succeeds or fails in any way a container can be left. What is kept is
  the moment secrets are resolved (`ResolveEnv`), because the revision depends
  on it.
- *Env revision.* Writing a secret and bumping the revision are one step; the
  code writes first, so a container may know more than its revision says and
  never less.
- *Reads.* `cleanupDeploymentContainer`'s two reads are one step, as are reads
  the code issues together. A listing is a snapshot.
- *URLs* are present or absent; the correction of a running instance's changed
  URL is left out. *Weights* are zero or not.
- *Time.* Backoffs and poll intervals are "later" (`BecomeDue`); the drain's
  deadline passes for a waiting tick (`Deadline`).
- *Publishing.* One project with one repository. The contents of a file are the
  number of its save; normalising them changes neither what is saved nor when.
  The gates, the builds, the release records and the queueing of deploys succeed
  or fail, one outcome each: `ReleaseRegistry` and the deploy modules say what
  the last two do. The text of a step and its sub-steps are left out. The save
  that ends a step and the one that begins the next are one write (both rejections
  end alike), and so are the reads at the head of `startPublish` and the insert
  that follows them, which the unique index decides. Of the branch's contents a
  commit keeps which paths exist there (`Tree`): a push may add or remove those of
  `PushedPath`, a change writes its file or deletes it, and a deletion remembers the
  head it was saved on. GitHub's listing of a tree is complete (a truncated one makes
  the code attempt the deletions it could not rule out). The pruning of model overrides,
  the roster's synchronisation and the discarded checkout change nothing the
  properties see. How the job's
  outcome is recorded is `JobQueue`'s subject. Drafts are compared by
  millisecond, as in the code: a save in the very millisecond of a published one
  is deleted with it, and `ChangeLedger` has a step for it (`Absorb`).
- *Late writes.* When one update of a `Promise.all` rejects, those already issued
  land before anything else happens; in the code they may land a little later
  (`DemoteError`, `TakeRowError`).
- *Delegation.* One delegated turn in one conversation with its newest question;
  a later delegation has rows of its own. The checks and caps that deny a call
  change no state. The reads at the head of a tick are one step, and so are the
  claim of a person's turn and what it begins with, and the writes that end it,
  each with the partial outcomes a rejection can leave. A person's turn that asks
  marks and files in one step. Left out: the loader's repairs when a page
  is opened, the takeover of a turn that has been running too long, unarchiving,
  the notices of ordinary turns, deployments that come back. After the
  delegation is settled nothing but its watcher is modelled, until it ends. A
  job that has ended is forgotten, and equal queued jobs are counted (a bag): two
  watchers of one turn are two.
- *Labels* are the number in `vN`; a commit is a model value.

## Runs

The runs that pass, with the properties they check:

| Run | Instance | States | Shows |
|---|---|---|---|
| `release` | 3 calls, a member and the assistant, 2 commits, 1 retry (8 in the code) | 16 k | labels are contiguous and unique; a create fails only after as many others as its retry budget succeeded; only overlapping calls record a commit twice; the assistant fails only if the label it raced for went to another template; calls end |
| `queue` | 2 deploys, 1 publish, 1 inline job, pool of 1, 2 attempts, a restart, a rejected call | 0.35 M | one execution per job at a time, nothing stranded but by a rejected call, attempts bounded, publishes claimed once, due jobs settle |
| `deploy` | 2 user deploys, 2 attempts, a run; two faults of {rejected call, container} | 1.5 M | one row in flight and one execution; the slot is owned; serving never stops without a fault; drains are watched and interrupt only after the deadline |
| `restart` | 2 user deploys, 1 restart, 1 rejected call followed through the boot chain | 0.37 M | no deploy's job is lost; the sweep restores every current live row |
| `wake` | 1 user deploy, 1 request, 1 bump, two container faults or one rejected call | 1.4 M | types; a draining row is put back in service by no wake (a stopped one may be: `two_live`); a live row never claims newer credentials than its container's; refinement of `EnvironmentSlot` |
| `converge` | 1 user deploy, 1 bump, a run, no fault | 17 k | deploys settle, drains end, a stale environment is replaced or stalls |
| `publish` | 1 publish of any kind, 2 files (one configures the assistant, a push may add or remove the other), 2 saves or deletions, 2 outside pushes, a restart, a rejected call | 0.68 M | what lands was built on the head it lands on; at most one commit per publish; the task tells what happened (landed, or nothing to commit) and is settled; a reset publishes what it staged; refinement of `ChangeLedger` |
| `delegation` | 1 delegated turn, 1 turn of a person, 2 attempts, one restart or rejected call | 0.59 M | what is watched is settled or has given up; one notice, of a completed delegation; no run left running; who waits has been asked |

*Why the bounds are enough.* Two deployments make a cutover, a deploy against its
replacement, and a retry against a newer deploy; the in-flight index lets no
third take part in the same step. One more deployment multiplies the states by
hundreds and adds a second old row to demote, which the plan keeps for a run of
its own. One restart at any point, including inside the boot chain, covers
recovery; a second restart finds rows and jobs the first could also have left,
except inside the reconciliation of publishes (see the second restart below).
For `publish`, a second
publish starts from drafts and a branch that the first one's steps, the saves and
the push also leave, and the unique index keeps the two apart; instances with two
publishes (0.5 to 2.1 million states, fewer saves or faults) and one with four saves were checked
apart from the runs and hold too. `FourDisturbances` lets what can disturb that publish
come in every combination of four, where a save that deletes and a push that changes
the tree count twice; the lost deletion takes just one of each. `UntilOver` cuts off what follows the end of the publish, where only saves
and pushes remain. `OneKind` keeps container faults and rejected calls to different
behaviours of `wake`; `deploy` mixes them. For `delegation`, the three-attempt budget of
the code was checked with one restart or one rejected call (2.3 million
states), and with two faults and three attempts (3.1 million); the safety
properties hold there too. `WaitingAsked` is stated for one fault, because with two it may
fail: a retry past the deadline resolves the question it had filed and is cut off
before its last write, and the next retry, whose slice sees the turn ask, finds
the item by its request id, resolved, and parks on it.
`restart` does not follow a rejected call past the boot chain (`FollowRejected`): what it
checks is conditioned on none, and `deploy` follows them.
Retry limits are lowered (1 or 2 attempts for 3, 1 failure for 3) to reach their
ends. `MaxFaults` bounds the kinds of fault together; each configuration says
which kinds it admits. `CHECK_DEADLOCK FALSE` is set because every bounded
instance ends: all deploys made, all requests served, the task or the delegation settled.

*Fairness.* Weak fairness on what the process does by itself: the worker's
interval fires and a promise the code awaits settles (`Execute`, `LaneNext`,
`Serve`, the boot chain). Nothing is assumed of users, requests, runs, faults or
restarts. `WatchedSettles` assumes it of
the watcher (the worker's timer fires, a slice is bounded by the code's own
clock and database calls end) and of `DeadlinePasses` (time passes), not of the
teammate's turn, which may never end. In `converge` a claim of a due job is not passed over for ever because
jobs are claimed in the order they became due, which `queue` checks
(`JobsSettle`). Strong fairness is assumed of one action only, `Deadline`: a
waiting tick exists again and again but not continuously, since it is claimed
and re-queued, while the wall clock behind the deadline advances regardless.

*The refinements.* `KeepsSlot` is `EnvironmentSlot!SlotSpec` with the row in flight
as the slot's holder, and the service up while a row is live, in handover while a
cutover that has demoted some row has yet to promote its own (the code's one
moment without a live row), and else none. Its abstract steps are `Begin` (a row enters flight),
`Fail`, `Promote`, `HandOver` (the demotion of the last live row), `Wake` (a request
promotes a stopped row during it) and, once anything outside the deployments has
failed, `Disturb`, which leaves the slot alone but not the service. In particular
a deploy cannot fail while it has superseded what served, and a service that
began is never without a deployment that serves or takes over. The run `wake` checks
it with two deployments; instances with three of them and no fault (2.0 M states), in
which `Wake` happens, and with rejected calls and no requests (1.7 M) were checked
apart and hold too. It is proved for all of them (`ImplementsSlot`).

`KeepsChanges` is `ChangeLedger!LedgerSpec` under the mapping
that gives each save its fate: landed if a commit has it, saved if the drafts
table has it, dropped if a person replaced or discarded it, moot if a publish
that took it found nothing to commit, absorbed as above, else lost, which no step
of the ledger allows. `dropped`, `moot` and `absorbed` are history variables,
written by the steps of a person, of the commit and of `deletePublished`; no guard
reads them. `met`, the ledger's second variable, is the deletions whose file the branch
was without at some head since they were saved: only those may become moot. So the
abstract steps are `Save`, `Discard`, `Land` (the commit, of a whole snapshot at
once, including changes replaced meanwhile), `Forgo` (a snapshot that becomes moot)
and `Absorb` (of the files one delete covers), and everything else a publish does leaves the
ledger as it is. It too is checked by TLC and proved (`Refines`).

*Exceptions written into the properties.* `SlotAlwaysOwned`, `DrainWatched` and
`ServingContinuous` speak of behaviours without the faults after which the code
does not promise them (the divergences below, and the best-effort scheduling
`drain.server.ts` documents). `RevisionHonest` excepts rejected calls and restarts:
a larger instance refutes the unconditional form (below).
`InterruptedOnlyAfterDeadline` excepts a deployment that a request put back in
service between the two last steps of its drain (below): its row is no longer
stopped, or its container is gone again, or a container failed on the way.
`SweepRestores` lets the URL of a row be missing while a request is refreshing it:
one that probed before the sweep may clear the URL after the sweep has passed the
row, to write the fresh one a step later; the container is up all the while.
`TaskOwned` speaks of behaviours without a
rejected call and with at most one restart: a call rejected at the wrong place
leaves a running task nothing settles before the next restart, and a second
restart may leave one for good (below). `EnvConverges` gives up where a failed row was
deleted between two attempts: the retry then throws before it can re-enter the
reconciliation.

## Divergences found

Four runs expect a violation: the property is what a comment says, and the code
does otherwise. The quotes are in `PROJECT.json`.

| Run | Claim | What happens |
|---|---|---|
| `duplicate_release` | both merge triggers converge on one release | both miss `findByCommit`; the second collides on the label, recounts and inserts the same commit as the next version |
| `wedged_slot` | requeueing running jobs recovers rows left pending or building | a row inserted before its job was enqueued (or deployed inside a wake) has no job: it stays in flight and blocks every later deploy |
| `two_live` | one live deployment per environment | a wake promotes a stopped row after the cutover listed the live ones |
| `audit_takes_down` | a failed deploy never takes anything down | a call rejected after the demotion fails the new deployment; the old ones are draining already |

Further behaviours met while modelling, that contradict no text or that no run
has a slot for:

- *A second restart.* `reconcilePublishesOnBoot` fails the running publish jobs,
  then the tasks (`worker.server.ts:253-269`). A restart between the two leaves a
  running task whose job is already `failed`: the next boot does not find it
  among the jobs it fails, takes the linked task for one whose job is still
  queued (line 263), and skips it. The task runs for ever and no publish of the project
  starts, which the comment above the function says it prevents. TLC
  finds it with `MaxCrash = 2` and without the `crashes <= 1` of `TaskOwned`.
- *Publishing.* A rejected call can leave the task running until the next
  restart, and no publish starts until then. Boot reconciliation takes a running
  task without a job for an interrupted one: a publish started, or run in its
  request, between the boot of the server and the end of the chain is failed
  while it runs, and a second one may start beside it. A rejection of
  `deletePublished` marks the commit step failed although it landed. Deletions
  of files absent at the head that a build read are published without a commit and
  without a look at the present head: a push that brings such a file back during the
  build keeps it, while the draft is gone. The comments at
  `pipeline.server.ts:626` and `917` say that a push in that window makes the
  commit miss, and that what is deleted from the drafts lives on the branch. The
  ledger's step `Forgo` stands for it. The retry of
  the commit repeats the build but not the check.
- *A retry over a served row.* If `CompleteDeploy` is rejected after the row went
  live, the job is retried and `TakeRow` stamps the row with the present
  revision. When a second deployment has started to drain the first, the tick's
  `markStopped`, which is unconditional (`drain.server.ts:217`), can overwrite the
  retry's `building`; should the second container die, a wake puts the first one back,
  with its old container under the new revision, until the retry launches it.
  TLC finds it in 44 states, with 2 deployments, 1 bump, 1 request, 1
  rejected call and 1 container fault; it is why `RevisionHonest` excepts rejected calls.
- *Rejections that leave a row in flight.* A rejected read beside the write that
  inserts or takes a row, or a rejected write of a deploy's failure, throws with the row
  still pending or building. In a wake no job retries it, and for the last attempt of
  a job nothing does: the slot is then blocked as in `wedged_slot`.
- *A wake between a drain's two last steps.* A drain marks the row stopped and then
  fails the runs left on it. If the live container dies in between, a request wakes
  the stopped deployment, a run may start on it, and the drain fails that run
  although its deadline has not passed: TLC finds it in 37 states with 1 request, 1
  run and 2 container faults. Two requests do it without any fault: both list a
  stopped deployment, the first wakes it and a deploy supersedes and drains it,
  and the second, still holding its listing, promotes it again between the two
  steps. `InterruptedOnlyAfterDeadline` excepts exactly this; the run `deploy`, which
  has no requests, checks it in full.
- *Delegation.* Stopping or archiving a parked conversation leaves the delegation
  waiting. A stop that falls between `markSessionPendingInput` and
  `openInboxQuestion` of the watcher leaves a question on a stopped conversation,
  and the delegation waits on it, which the comments at `reattach.server.ts:460`
  and `turn-stream.server.ts:545` mean to exclude. A restart between the relay's
  `waiting` and the conversation it then opens leaves a delegation nobody can
  answer, and one while `sendTurn` runs leaves it running. The settling after an
  answer is a read and an unconditional write, so it can overwrite a settlement
  made in between. A turn that ends without a reply is failed by the relay and
  completed by the watcher. With no deployment to reach, the run stays running.

## Proofs

`tlapm` proves, for every value of the constants (any number of calls, agents,
commits, jobs; any pool size, attempt budget and number of faults), from the
constants' assumptions only:

**`ReleaseRegistry_proofs`.** `TypeOK`, `VersionsContiguous`,
`FailsOnlyUnderContention`, `AssistantAdopts`, `DuplicatesOnlyOverlap`. None but the first
is inductive. The invariant says in addition that an agent's labels are exactly
1 to the number of its rows, and for each call what it knows: the count it read
is at most the present number of rows, the number has grown by at least its
round since it began, and a call that is about to insert, or has, found no row of its
commit among those counted when it looked (`Missed`). A label collision
is thus evidence of a stale count (`CollisionIsStale`), which is what makes the
retry count a measure of contention. Cardinalities of the rows of one agent are
carried through an insert by `AddRow`, from the library's theorems on finite
sets.

**`JobQueue_proofs`.** `TypeOK`, `Exclusive`, `StrandedOnlyByDbError`, `RetriesBounded`, `PublishRunsOnce`. The invariant adds
that no pass runs before the boot chain ends (`Gated`: otherwise `requeueRunning`
would queue a job in the loop's hands), that a running job outside every hand
means the boot chain has not yet passed it or a call was rejected (`Recovered`),
that attempts exceed the budget only by restarts (`Budget`), and that a publish
claimed once is never again queued (`PublishOnce`). One lemma per conjunct shows
that every action preserves it.

These two modules end with `Invariance == Spec => []IInv` and one theorem per
property.

**`DeployEnvironment_proofs`.** `InflightUnique` and `NoResurrection`, with
every fault and restart allowed. `TableStep` says what a step may do to the
deployments table: rows keep their shape, a row enters flight only through a
free slot and then alone changes, a draining row becomes live only in its own
cutover. `StepOfTable` shows it of every action of every actor; the two theorems
follow. The argument uses only what the statements guard (the unique index, the
compare-and-set updates) and nothing of what a call remembers from an earlier
read, which is why it needs no invariant on the calls beyond the shape of the
stored rows (`RowsStored`), and why no restart can break it.

**`DeployJobs_proofs`.** `TypeOK` and `DeployJobKept`, again with every fault and
restart. Types alone are not inductive: a call that retries reads the attempts of
its job, so `TypeInv` adds that a call the worker runs has its job among the
running ones, and that the worker runs none during the boot chain (`Backed`).
A deploy's job can go in two ways only: its call ends, or a boot sweep requeues
it. `JobInv` says that a call past its cutover or its failure (`Over`) has a row
out of flight unless a call was rejected, and that whatever works on a deployment
has a row (`Held`). So the step that removes the last job of a row has taken
the row out of flight before.

**`DeployCalm_proofs`.** `OneExecution`, `SlotAlwaysOwned`, `DrainWatched`,
`RevisionHonest`, `ServingContinuous` and `InterruptedOnlyAfterDeadline`: what
holds while no database call is rejected and the process is not restarted, for
any number of deploys, requests, bumps and container faults (none of these for
`DrainWatched`, whose first drain tick is best-effort, and for
`ServingContinuous`). The properties carry these conditions themselves; the theorems are
`Spec => []Inv` or `Spec => [][A]_vars` as they stand. And `SweepRestores`, after any restart.

- *One place at a time* (`Calm`). A deploy is waiting for its enqueue, queued once,
  or with the one call that works on it (`JobFits`), the status of its row says
  how far that call is (`RowFits`), what a cutover has yet to demote was promoted
  before (`SupFits`), a drain job's deployment was in service (`DrainFits`), and the call a request
  awaits is its own (`ReqFits`). Neither `OneExecution` nor `SlotAlwaysOwned`
  follows from the table alone: a job
  queued twice, or a call on a row another call has taken, breaks both. One
  lemma per action of each actor shows that it leaves every other deployment's
  part alone and what it does to its own.
- *Watched.* Every draining row has a queued drain job, a running tick, or the
  cutover that has demoted it and will schedule one.
- *RevFits.* From `ResolveEnv` to the cutover, the revision a call read bounds the
  row's revision, and after the launch the container's bounds it. A wake then finds
  a row and a container that agree, whichever order the bump and the deploy ran in.
- *Who writes what* (`RowWritten`, `BoxWritten`, `CallWritten`): every way a step may
  change the status of a row, a container or a cutover, shown once of every
  action (`StepWrites`). What is about to take a deployment down (`Retires`: a drain
  or cleanup job, a replaced row of a request, a finished cutover) names only
  deployments that were promoted, and what requests list was live (`Handled`).
- *Serving* (`Steady`). Nothing in a state says that the deployment which serves is
  not about to be drained, so `ServingContinuous` is far from inductive. Added is
  an anchor: once anything was promoted there is a live deployment whose
  container is up and that nothing retires, or a cutover whose new container is up
  (`Anchored`); a call ready to cut over has its container (`BoxFits`), and a request gives
  up only what has none (`GivenUp`). `ServesForGood` states the anchor itself. The
  run `deploy` has no requests; the theorem has any number of them.
- *Drains* (`Drains`). From the count of a tick on, a run on its deployment was there
  at a late count, or began on a deployment put back in service since; without requests a
  stopped row stays stopped, and what a cutover has yet to demote is live.
- *One live* (`OneLive`). Without requests, every live row is on the list of the
  cutover under way, so its promotion is alone: `OneLiveWithoutWakes`, which says how
  much of the claim refuted by `two_live` holds, and that wakes are its one exception.
- *The refinement* (`ImplementsSlot`). That the slot changes hands only when it is free
  follows from the table (`HolderStep`). For the service the anchor is needed: if the
  last live row leaves in a step, the anchor did, which only a cutover can do
  (`LastLeaves`), and a cutover holds the slot until it promotes (`CutoverHolds`).
- *The boot sweep* (`SweepInv`). It needs nothing from before the restart but the
  types: whatever rows and containers are left, a restart ends every call, and
  until the chain ends the worker starts none. While it runs, every current live row
  is still on the sweep's list, or has its container and its URL, or a request is
  refreshing it (`BootSwept`); what requests list, start and replace meanwhile is
  promoted and running (`ReqSwept`, `CallSwept`). Users, wakes, replacements
  and revision bumps may all interleave with the sweep.

**`Delegation_proofs`.** `TypeOK`, `FinishedOnce`, `RunClosed` and `WaitingAsked`, for
any number of a person's turns, of restarts and rejected calls (one in all for
`WaitingAsked`), and any retry budget. Each has an invariant of its own, built on
the types.

- *Types* (`TypeInv`): a queued job has an attempt left or was requeued by a
  restart (`Budget`), so attempts exceed the budget by the restarts only.
- *The notice* (`NoticeInv`): until the relay hands over, nothing is queued and no
  tick runs (`Armed`); a tick that settles has found the delegation running, and
  still does until its own `Finalize`, because nobody else settles a running
  delegation once the relay has let go, and the worker runs one tick at a time
  (`Settling`). A second watcher hence stands down, and the one notice follows.
- *The run* (`RunInv`): the relay starts a run only when it knows the turn, and
  hands that turn over (`HandOff`); until the run is closed every job and tick
  knows the turn and the deployment, and a tick that goes on past the run's
  step has closed it (`Known`, `Closing`). A late start of a tell finds the run
  finished, since a start never reopens one (`Started`).
- *The question* (`AskInv`): who may open a question, and in which order, while nobody
  touches the conversation (`Begun`, `Asking`). A question that is open while the
  delegation still runs is that of a tick which failed after filing it: the one fault
  is then spent, so no later tick can fail again between resolving it and its last write.

**`PublishPipeline_proofs`.** `TypeOK`, `NothingUnbuilt`, `LandsOnce` and `TaskOwned`, for any files, publishes, saves, pushes, restarts
and rejected calls. The invariant `Indexed` has three parts.

- *Types* (`TypeInv`), with every draft the number of a save.
- *Commits* (`CommitInv`): for each publish, what its call has done (`Sound`). Before
  the commit the publish has landed nothing and the row shows none of it; a call
  at the compare-and-set has built on the head it expects, or carries
  configuration only; after the commit check and build are behind it in the row
  and in the array the call keeps, so no handler puts a failure down to them
  (`AnchorsLater`, `Caught`). Hence one commit each.
- *Ownership* (`OwnInv`): a call is in one pair of hands, a task is running only with
  a call, a job, a run or the boot chain to settle it, as long as no call was
  rejected and the reconciliation was not cut off.

**`PublishLedger_proofs`.** `ReportHonest`, `ResetExact`, and the refinement: `Spec`
implies `ChangeLedger`'s specification under the mapping of `KeepsChanges`. To `Indexed` it adds
three invariants (`Known`). `BookInv` says
that stamps never decrease along the saves, that drafts, runs and commits name
saves of their own paths, that no draft in the table was dropped, that a run's copy
of a path is never newer than the table's, and that a run that deletes has its
copy on the branch or found it moot. So whatever `deletePublished` removes has landed, is moot, or is
of the millisecond of such a change, and `MarkBook` and `SaveBook` turn each step
into one of the ledger or a stutter. `HeadInv` says that a deletion was saved no later
than on the head its run reads for the commit, and that a publish found moot had only
deletions of files missing there: so the deletions that become moot were met, and a
publish that succeeded landed or had nothing to do. `ResetInv` ties the drafts of a reset's run
to the fingerprint it was asked for, from its first read to its commit.

Every safety property and every action property of the runs that pass is thus a
theorem. What only TLC checks: liveness (`CallsEnd`, `JobsSettle`, `DeploysSettle`,
`DrainsEnd`, `EnvConverges`, `WatchedSettles`), which is outside the prover's reach.

## What is not modelled

`PROJECT.json` lists every component with its status. Left out of the modelled
parts: deletion of environments and repositories, the assistant's own deploy
path, `setTrafficSplit` (which has no callers), the image reference a deploy
records on its release, the reads of listings for the UI, dismissing a finished
task, the roster and the wake of a teammate. Left out altogether: what is I/O
(Docker, GitHub, Discord, e-mail, model providers), rendering, parsing and
formatting. OAuth refreshes are one promise chain per grant in one process and a
compare-and-set on a version; what is left is the provider's behaviour.

In lines the models stand for a small part of the repository: most of it is the
catalogue's templates and skills, the interface's routes and components, and
clients of services. They stand for most of the statements of the files listed
as modelled, which hold the queue, deploys, publishes and delegations.

## Plan

1. Proofs beyond the runs: `OneLiveWithoutWakes` and `SlotAlwaysOwned` through
   restarts, from an invariant on what a restart may leave in flight.
2. Deletion of environments and repositories against running deploys; the
   assistant's deploy path.
3. A second publish in the `publish` run's instance if its state space can be
   brought down.
4. Three deployments, for the demotion of two old rows and for a retry over a
   superseded row; a property for the cleanup that acts on an old check.
