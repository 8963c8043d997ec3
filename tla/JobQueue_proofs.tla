---------------------------- MODULE JobQueue_proofs ----------------------------
(***************************************************************************)
(* Theorems about JobQueue, for every finite set of jobs, every pool bound, *)
(* every retry budget and every number of restarts and database errors.    *)
(***************************************************************************)
EXTENDS JobQueue, FiniteSetTheorems, TLAPS

\* The claim loop runs only in a booted process.
Gated == Exclusive /\ (passing => phase = "booted")

\* Nothing is left running by the requeue, and nothing is stranded after it.
Recovered ==
  \A j \in Job :
    (phase \in {"env", "booted"} /\ status[j] = "running" /\ j \notin Held)
      => dbErrors > 0

\* A row that can still be claimed has an attempt left; one that boot may still
\* requeue was claimed before the last restart.
Budget ==
  \A j \in Job :
    /\ attempts[j] <= maxAttempts(j) + crashes
    /\ (status[j] \in {"absent", "queued"}
         \/ (status[j] = "running" /\ phase # "booted"))
         => attempts[j] < maxAttempts(j) + crashes

\* Without database errors a publish is queued unclaimed, and none is running
\* when the generic requeue is reached.
PublishOnce ==
  dbErrors = 0 =>
    \A j \in Publish :
      /\ status[j] \in {"absent", "queued"} => attempts[j] = 0
      /\ status[j] \in {"running", "done", "failed"} => attempts[j] = 1
      /\ phase = "requeue" => status[j] # "running"

\* The inductive invariant.
IInv == TypeOK /\ Gated /\ Recovered /\ Budget /\ PublishOnce

---------------------------------------------------------------------------
\* A permutation of a set of jobs is a sequence of jobs.
LEMMA OrdersAreSequences ==
  ASSUME NEW S, S \subseteq Job, NEW order \in Orders(S)
  PROVE  order \in Seq(Job)
<1>1. Cardinality(S) \in Nat
  BY QueueAssumption, FS_Subset, FS_CardinalityType
<1> QED
  BY <1>1 DEF Orders

LEMMA InitIInv == Init => IInv
<1> SUFFICES ASSUME Init PROVE IInv
  OBVIOUS
<1>1. TypeOK
  <2>1. /\ status \in [Job -> Statuses] /\ attempts \in [Job -> Nat]
        /\ ready \in Seq(Job) /\ phase \in Phases /\ doing \in [Job -> Steps]
        /\ current \in Job \cup {NoJob} /\ inflight \in SUBSET Job
        /\ crashes \in Nat /\ dbErrors \in Nat
    BY DEF Init, Statuses, Phases, Steps
  <2>2. passing \in BOOLEAN
    BY DEF Init
  <2> QED
    BY <2>1, <2>2, Zenon DEF TypeOK
<1>2. Held = {}
  BY DEF Init, Held
<1>3. Gated /\ Recovered
  BY <1>2 DEF Init, Gated, Exclusive, Recovered
<1>4. Budget
  <2>1. \A j \in Job : maxAttempts(j) \in Nat \ {0}
    BY QueueAssumption DEF maxAttempts
  <2> QED
    BY <2>1 DEF Init, Budget
<1>5. PublishOnce
  BY QueueAssumption DEF Init, PublishOnce
<1> QED
  BY <1>1, <1>3, <1>4, <1>5 DEF IInv

\* What Next is made of: a step of the process, or a step of one job.
ProcessStep ==
  \/ ReconcilePublishes \/ ReconcilePublishesError \/ RequeueRunning
  \/ RequeueRunningError \/ FinishBoot \/ StartPass \/ EndPass \/ ClaimError \/ Crash
JobStep(j) ==
  \/ Enqueue(j) \/ EnqueueLater(j) \/ BecomeDue(j) \/ ClaimNext(j) \/ Dispatch(j)
  \/ ExecuteOk(j) \/ ExecuteThrow(j) \/ MarkDone(j) \/ MarkDoneError(j)
  \/ MarkFailed(j) \/ MarkFailedError(j)

LEMMA StepKinds ==
  ASSUME [Next]_vars
  PROVE  ProcessStep \/ (\E j \in Job : JobStep(j)) \/ UNCHANGED vars
BY DEF Next, Boot, Loop, RunJob, ProcessStep, JobStep

---------------------------------------------------------------------------
\* Every step keeps the types.
LEMMA TypeStep ==
  ASSUME TypeOK, [Next]_vars
  PROVE  TypeOK'
<1> USE QueueAssumption
<1>1. CASE ProcessStep
  <2>1. CASE ReconcilePublishes
    BY <2>1 DEF ReconcilePublishes, TypeOK, Statuses, Phases, Steps, faultVars
  <2>2. CASE ReconcilePublishesError
    BY <2>2 DEF ReconcilePublishesError, DbError, TypeOK, Statuses, Phases,
       Steps, rowVars
  <2>3. CASE RequeueRunning
    <3>1. PICK order \in Orders(Running) : ready' = ready \o order
      BY <2>3 DEF RequeueRunning
    <3>2. order \in Seq(Job)
      BY OrdersAreSequences DEF Running
    <3>3. ready' \in Seq(Job)
      BY <3>1, <3>2 DEF TypeOK
    <3> QED
      BY <2>3, <3>3 DEF RequeueRunning, TypeOK, Statuses, Phases, faultVars
  <2>4. CASE RequeueRunningError
    BY <2>4 DEF RequeueRunningError, DbError, TypeOK, Statuses, Phases, Steps,
       rowVars
  <2>5. CASE FinishBoot
    BY <2>5 DEF FinishBoot, TypeOK, Statuses, Phases, Steps, rowVars, faultVars
  <2>6. CASE StartPass
    BY <2>6 DEF StartPass, TypeOK, Statuses, Phases, Steps, rowVars, faultVars
  <2>7. CASE EndPass
    BY <2>7 DEF EndPass, TypeOK, Statuses, Phases, Steps, rowVars, faultVars
  <2>8. CASE ClaimError
    <3>1. dbErrors' \in Nat
      BY <2>8 DEF ClaimError, DbError, TypeOK
    <3> QED
      BY <2>8, <3>1, Zenon DEF ClaimError, TypeOK, rowVars
  <2>9. CASE Crash
    <3>1. crashes' \in Nat
      BY <2>9 DEF Crash, TypeOK
    <3>2. doing' \in [Job -> Steps]
      BY <2>9 DEF Crash, Steps
    <3> QED
      BY <2>9, <3>1, <3>2, Zenon DEF Crash, TypeOK, Phases, rowVars
  <2> QED
    BY <1>1, <2>1, <2>2, <2>3, <2>4, <2>5, <2>6, <2>7, <2>8, <2>9 DEF
       ProcessStep
<1>2. ASSUME NEW j \in Job, JobStep(j) PROVE TypeOK'
  <2>1. CASE Enqueue(j)
    BY <2>1 DEF Enqueue, TypeOK, Statuses, Phases, Steps, loopVars, faultVars
  <2>2. CASE EnqueueLater(j)
    BY <2>2 DEF EnqueueLater, TypeOK, Statuses, Phases, Steps, loopVars,
       faultVars
  <2>3. CASE BecomeDue(j)
    BY <2>3 DEF BecomeDue, TypeOK, Statuses, Phases, Steps, loopVars, faultVars
  <2>4. CASE ClaimNext(j)
    BY <2>4 DEF ClaimNext, TypeOK, Statuses, Phases, Steps, faultVars
  <2>5. CASE Dispatch(j)
    BY <2>5 DEF Dispatch, TypeOK, Statuses, Phases, Steps, rowVars, faultVars
  <2>6. CASE ExecuteOk(j)
    BY <2>6 DEF ExecuteOk, TypeOK, Statuses, Phases, Steps, rowVars, faultVars
  <2>7. CASE ExecuteThrow(j)
    BY <2>7 DEF ExecuteThrow, TypeOK, Statuses, Phases, Steps, rowVars,
       faultVars
  <2>8. CASE MarkDone(j)
    BY <2>8 DEF MarkDone, Release, TypeOK, Statuses, Phases, Steps, faultVars
  <2>9. CASE MarkDoneError(j)
    BY <2>9 DEF MarkDoneError, DbError, TypeOK, Statuses, Phases, Steps, rowVars
  <2>10. CASE MarkFailed(j)
    BY <2>10 DEF MarkFailed, planFailure, Release, TypeOK, Statuses, Phases,
       Steps, faultVars
  <2>11. CASE MarkFailedError(j)
    BY <2>11 DEF MarkFailedError, DbError, Release, TypeOK, Statuses, Phases,
       Steps, rowVars
  <2> QED
    BY <1>2, <2>1, <2>2, <2>3, <2>4, <2>5, <2>6, <2>7, <2>8, <2>9, <2>10, <2>11
       DEF JobStep
<1>3. CASE UNCHANGED vars
  BY <1>3 DEF vars, TypeOK
<1> QED
  BY <1>1, <1>2, <1>3, StepKinds

---------------------------------------------------------------------------
\* Every step keeps a job with the one lane that claimed it.
LEMMA GatedStep ==
  ASSUME TypeOK, Gated, [Next]_vars
  PROVE  Gated'
<1> USE QueueAssumption
<1>1. CASE ProcessStep
  <2>1. CASE ReconcilePublishes
    BY <2>1 DEF ReconcilePublishes, Gated, Exclusive, Held, TypeOK, faultVars
  <2>2. CASE ReconcilePublishesError
    BY <2>2 DEF ReconcilePublishesError, Gated, Exclusive, Held, TypeOK, rowVars
  <2>3. CASE RequeueRunning
    BY <2>3 DEF RequeueRunning, Gated, Exclusive, Held, TypeOK, faultVars
  <2>4. CASE RequeueRunningError
    BY <2>4 DEF RequeueRunningError, Gated, Exclusive, Held, TypeOK, rowVars
  <2>5. CASE FinishBoot
    BY <2>5 DEF FinishBoot, Gated, Exclusive, Held, TypeOK, rowVars, faultVars
  <2>6. CASE StartPass
    BY <2>6 DEF StartPass, Gated, Exclusive, Held, TypeOK, rowVars, faultVars
  <2>7. CASE EndPass
    BY <2>7 DEF EndPass, Gated, Exclusive, Held, TypeOK, rowVars, faultVars
  <2>8. CASE ClaimError
    BY <2>8 DEF ClaimError, Gated, Exclusive, Held, TypeOK, rowVars
  <2>9. CASE Crash
    BY <2>9 DEF Crash, Gated, Exclusive, Held, TypeOK, rowVars
  <2> QED
    BY <1>1, <2>1, <2>2, <2>3, <2>4, <2>5, <2>6, <2>7, <2>8, <2>9 DEF
       ProcessStep
<1>2. ASSUME NEW j \in Job, JobStep(j) PROVE Gated'
  <2>1. CASE Enqueue(j)
    BY <2>1 DEF Enqueue, Gated, Exclusive, Held, TypeOK, loopVars, faultVars
  <2>2. CASE EnqueueLater(j)
    BY <2>2 DEF EnqueueLater, Gated, Exclusive, Held, TypeOK, loopVars,
       faultVars
  <2>3. CASE BecomeDue(j)
    BY <2>3 DEF BecomeDue, Gated, Exclusive, Held, TypeOK, loopVars, faultVars
  <2>4. CASE ClaimNext(j)
    BY <2>4 DEF ClaimNext, Gated, Exclusive, Held, TypeOK, faultVars
  <2>5. CASE Dispatch(j)
    BY <2>5 DEF Dispatch, Gated, Exclusive, Held, TypeOK, rowVars, faultVars
  <2>6. CASE ExecuteOk(j)
    BY <2>6 DEF ExecuteOk, Gated, Exclusive, Held, TypeOK, rowVars, faultVars
  <2>7. CASE ExecuteThrow(j)
    BY <2>7 DEF ExecuteThrow, Gated, Exclusive, Held, TypeOK, rowVars, faultVars
  <2>8. CASE MarkDone(j)
    BY <2>8 DEF MarkDone, Release, Gated, Exclusive, Held, TypeOK, faultVars
  <2>9. CASE MarkDoneError(j)
    BY <2>9 DEF MarkDoneError, Gated, Exclusive, Held, TypeOK, rowVars
  <2>10. CASE MarkFailed(j)
    BY <2>10 DEF MarkFailed, Release, Gated, Exclusive, Held, TypeOK, faultVars
  <2>11. CASE MarkFailedError(j)
    BY <2>11 DEF MarkFailedError, Release, Gated, Exclusive, Held, TypeOK,
       rowVars
  <2> QED
    BY <1>2, <2>1, <2>2, <2>3, <2>4, <2>5, <2>6, <2>7, <2>8, <2>9, <2>10, <2>11
       DEF JobStep
<1>3. CASE UNCHANGED vars
  BY <1>3 DEF vars, Gated, Exclusive, Held
<1> QED
  BY <1>1, <1>2, <1>3, StepKinds

---------------------------------------------------------------------------
\* Every step leaves a running row with its lane, or follows a database error.
LEMMA RecoveredStep ==
  ASSUME TypeOK, Gated, Recovered, [Next]_vars
  PROVE  Recovered'
<1> USE QueueAssumption
<1>1. CASE ProcessStep
  <2>1. CASE ReconcilePublishes
    BY <2>1 DEF ReconcilePublishes, Recovered, Held, TypeOK, faultVars
  <2>2. CASE ReconcilePublishesError
    BY <2>2 DEF ReconcilePublishesError, DbError, Recovered, Held, TypeOK,
       rowVars
  <2>3. CASE RequeueRunning
    BY <2>3 DEF RequeueRunning, Recovered, Held, TypeOK, faultVars
  <2>4. CASE RequeueRunningError
    BY <2>4 DEF RequeueRunningError, DbError, Recovered, Held, TypeOK, rowVars
  <2>5. CASE FinishBoot
    BY <2>5 DEF FinishBoot, Recovered, Held, TypeOK, rowVars, faultVars
  <2>6. CASE StartPass
    BY <2>6 DEF StartPass, Recovered, Held, TypeOK, rowVars, faultVars
  <2>7. CASE EndPass
    BY <2>7 DEF EndPass, Recovered, Held, TypeOK, rowVars, faultVars
  <2>8. CASE ClaimError
    BY <2>8 DEF ClaimError, DbError, Recovered, Held, TypeOK, rowVars
  <2>9. CASE Crash
    BY <2>9 DEF Crash, Recovered, Held, TypeOK, rowVars
  <2> QED
    BY <1>1, <2>1, <2>2, <2>3, <2>4, <2>5, <2>6, <2>7, <2>8, <2>9 DEF
       ProcessStep
<1>2. ASSUME NEW j \in Job, JobStep(j) PROVE Recovered'
  <2>1. CASE Enqueue(j)
    BY <2>1 DEF Enqueue, Recovered, Held, TypeOK, loopVars, faultVars
  <2>2. CASE EnqueueLater(j)
    BY <2>2 DEF EnqueueLater, Recovered, Held, TypeOK, loopVars, faultVars
  <2>3. CASE BecomeDue(j)
    BY <2>3 DEF BecomeDue, Recovered, Held, TypeOK, loopVars, faultVars
  <2>4. CASE ClaimNext(j)
    BY <2>4 DEF ClaimNext, Recovered, Held, TypeOK, faultVars
  <2>5. CASE Dispatch(j)
    BY <2>5 DEF Dispatch, Recovered, Held, TypeOK, rowVars, faultVars
  <2>6. CASE ExecuteOk(j)
    BY <2>6 DEF ExecuteOk, Recovered, Held, TypeOK, rowVars, faultVars
  <2>7. CASE ExecuteThrow(j)
    BY <2>7 DEF ExecuteThrow, Recovered, Held, TypeOK, rowVars, faultVars
  <2>8. CASE MarkDone(j)
    BY <2>8 DEF MarkDone, Release, Recovered, Held, TypeOK, faultVars
  <2>9. CASE MarkDoneError(j)
    BY <2>9 DEF MarkDoneError, DbError, Recovered, Held, TypeOK, rowVars
  <2>10. CASE MarkFailed(j)
    BY <2>10 DEF MarkFailed, Release, planFailure, Recovered, Held, TypeOK,
       faultVars
  <2>11. CASE MarkFailedError(j)
    BY <2>11 DEF MarkFailedError, Release, DbError, Recovered, Held, TypeOK,
       rowVars
  <2> QED
    BY <1>2, <2>1, <2>2, <2>3, <2>4, <2>5, <2>6, <2>7, <2>8, <2>9, <2>10, <2>11
       DEF JobStep
<1>3. CASE UNCHANGED vars
  BY <1>3 DEF vars, Recovered, Held
<1> QED
  BY <1>1, <1>2, <1>3, StepKinds

---------------------------------------------------------------------------
\* Every step keeps the attempts within the retry budget.
LEMMA BudgetStep ==
  ASSUME TypeOK, Gated, Budget, [Next]_vars
  PROVE  Budget'
<1> USE QueueAssumption
<1>0. \A j \in Job : maxAttempts(j) \in Nat \ {0}
  BY DEF maxAttempts
<1>1. CASE ProcessStep
  <2>1. CASE ReconcilePublishes
    BY <2>1, <1>0 DEF ReconcilePublishes, Budget, TypeOK, faultVars
  <2>2. CASE ReconcilePublishesError
    BY <2>2, <1>0 DEF ReconcilePublishesError, Budget, TypeOK, rowVars
  <2>3. CASE RequeueRunning
    BY <2>3, <1>0 DEF RequeueRunning, Budget, TypeOK, faultVars
  <2>4. CASE RequeueRunningError
    BY <2>4, <1>0 DEF RequeueRunningError, Budget, TypeOK, rowVars
  <2>5. CASE FinishBoot
    BY <2>5, <1>0 DEF FinishBoot, Budget, TypeOK, rowVars, faultVars
  <2>6. CASE StartPass
    BY <2>6, <1>0 DEF StartPass, Budget, TypeOK, rowVars, faultVars
  <2>7. CASE EndPass
    BY <2>7, <1>0 DEF EndPass, Budget, TypeOK, rowVars, faultVars
  <2>8. CASE ClaimError
    BY <2>8, <1>0 DEF ClaimError, Budget, TypeOK, rowVars
  <2>9. CASE Crash
    BY <2>9, <1>0 DEF Crash, Statuses, Budget, TypeOK, rowVars
  <2> QED
    BY <1>1, <2>1, <2>2, <2>3, <2>4, <2>5, <2>6, <2>7, <2>8, <2>9 DEF
       ProcessStep
<1>2. ASSUME NEW j \in Job, JobStep(j) PROVE Budget'
  <2>1. CASE Enqueue(j)
    BY <2>1, <1>0 DEF Enqueue, Budget, TypeOK, loopVars, faultVars
  <2>2. CASE EnqueueLater(j)
    BY <2>2, <1>0 DEF EnqueueLater, Budget, TypeOK, loopVars, faultVars
  <2>3. CASE BecomeDue(j)
    BY <2>3, <1>0 DEF BecomeDue, Budget, TypeOK, loopVars, faultVars
  <2>4. CASE ClaimNext(j)
    BY SMTT(60), <2>4, <1>0 DEF ClaimNext, Gated, Budget, TypeOK, faultVars
  <2>5. CASE Dispatch(j)
    BY <2>5, <1>0 DEF Dispatch, Budget, TypeOK, rowVars, faultVars
  <2>6. CASE ExecuteOk(j)
    BY <2>6, <1>0 DEF ExecuteOk, Budget, TypeOK, rowVars, faultVars
  <2>7. CASE ExecuteThrow(j)
    BY <2>7, <1>0 DEF ExecuteThrow, Budget, TypeOK, rowVars, faultVars
  <2>8. CASE MarkDone(j)
    BY <2>8, <1>0 DEF MarkDone, Release, Budget, TypeOK, faultVars
  <2>9. CASE MarkDoneError(j)
    BY <2>9, <1>0 DEF MarkDoneError, Budget, TypeOK, rowVars
  <2>10. CASE MarkFailed(j)
    BY <2>10, <1>0 DEF MarkFailed, Release, planFailure, Budget, TypeOK,
       faultVars
  <2>11. CASE MarkFailedError(j)
    BY <2>11, <1>0 DEF MarkFailedError, Release, Budget, TypeOK, rowVars
  <2> QED
    BY <1>2, <2>1, <2>2, <2>3, <2>4, <2>5, <2>6, <2>7, <2>8, <2>9, <2>10, <2>11
       DEF JobStep
<1>3. CASE UNCHANGED vars
  BY <1>3 DEF vars, Budget
<1> QED
  BY <1>1, <1>2, <1>3, StepKinds

---------------------------------------------------------------------------
\* Every step keeps a publish to one claim, short of database errors.
LEMMA PublishOnceStep ==
  ASSUME TypeOK, Gated, PublishOnce, [Next]_vars
  PROVE  PublishOnce'
<1> USE QueueAssumption
<1>1. CASE ProcessStep
  <2>1. CASE ReconcilePublishes
    BY <2>1 DEF ReconcilePublishes, PublishOnce, TypeOK, Statuses, faultVars
  <2>2. CASE ReconcilePublishesError
    BY <2>2 DEF ReconcilePublishesError, DbError, PublishOnce, TypeOK, Statuses,
       rowVars
  <2>3. CASE RequeueRunning
    BY <2>3 DEF RequeueRunning, PublishOnce, TypeOK, Statuses, faultVars
  <2>4. CASE RequeueRunningError
    BY <2>4 DEF RequeueRunningError, DbError, PublishOnce, TypeOK, Statuses,
       rowVars
  <2>5. CASE FinishBoot
    BY <2>5 DEF FinishBoot, PublishOnce, TypeOK, Statuses, rowVars, faultVars
  <2>6. CASE StartPass
    BY <2>6 DEF StartPass, PublishOnce, TypeOK, Statuses, rowVars, faultVars
  <2>7. CASE EndPass
    BY <2>7 DEF EndPass, PublishOnce, TypeOK, Statuses, rowVars, faultVars
  <2>8. CASE ClaimError
    BY <2>8 DEF ClaimError, DbError, PublishOnce, TypeOK, Statuses, rowVars
  <2>9. CASE Crash
    BY <2>9 DEF Crash, PublishOnce, TypeOK, Statuses, rowVars
  <2> QED
    BY <1>1, <2>1, <2>2, <2>3, <2>4, <2>5, <2>6, <2>7, <2>8, <2>9 DEF
       ProcessStep
<1>2. ASSUME NEW j \in Job, JobStep(j) PROVE PublishOnce'
  <2>1. CASE Enqueue(j)
    BY <2>1 DEF Enqueue, PublishOnce, TypeOK, Statuses, loopVars, faultVars
  <2>2. CASE EnqueueLater(j)
    BY <2>2 DEF EnqueueLater, PublishOnce, TypeOK, Statuses, loopVars, faultVars
  <2>3. CASE BecomeDue(j)
    BY <2>3 DEF BecomeDue, PublishOnce, TypeOK, Statuses, loopVars, faultVars
  <2>4. CASE ClaimNext(j)
    BY <2>4 DEF ClaimNext, Gated, PublishOnce, TypeOK, Statuses, faultVars
  <2>5. CASE Dispatch(j)
    BY <2>5 DEF Dispatch, PublishOnce, TypeOK, Statuses, rowVars, faultVars
  <2>6. CASE ExecuteOk(j)
    BY <2>6 DEF ExecuteOk, PublishOnce, TypeOK, Statuses, rowVars, faultVars
  <2>7. CASE ExecuteThrow(j)
    BY <2>7 DEF ExecuteThrow, PublishOnce, TypeOK, Statuses, rowVars, faultVars
  <2>8. CASE MarkDone(j)
    BY <2>8 DEF MarkDone, Release, Gated, Exclusive, PublishOnce, TypeOK,
       Statuses, faultVars
  <2>9. CASE MarkDoneError(j)
    BY <2>9 DEF MarkDoneError, DbError, PublishOnce, TypeOK, Statuses, rowVars
  <2>10. CASE MarkFailed(j)
    BY <2>10 DEF MarkFailed, Release, planFailure, maxAttempts, Gated,
       Exclusive, PublishOnce, TypeOK, Statuses, faultVars
  <2>11. CASE MarkFailedError(j)
    BY <2>11 DEF MarkFailedError, Release, DbError, PublishOnce, TypeOK,
       Statuses, rowVars
  <2> QED
    BY <1>2, <2>1, <2>2, <2>3, <2>4, <2>5, <2>6, <2>7, <2>8, <2>9, <2>10, <2>11
       DEF JobStep
<1>3. CASE UNCHANGED vars
  BY <1>3 DEF vars, PublishOnce
<1> QED
  BY <1>1, <1>2, <1>3, StepKinds

---------------------------------------------------------------------------
LEMMA NextIInv == IInv /\ [Next]_vars => IInv'
BY TypeStep, GatedStep, RecoveredStep, BudgetStep, PublishOnceStep DEF IInv

\* The inductive invariant holds throughout.
THEOREM Invariance == Spec => []IInv
<1> QED
  BY InitIInv, NextIInv, PTL DEF Spec

\* Rows and the worker's memory keep their types.
THEOREM TypeCorrect == Spec => []TypeOK
<1>1. IInv => TypeOK
  BY DEF IInv
<1> QED
  BY <1>1, Invariance, PTL

\* No job is ever executed by two lanes, or by a process that has not booted.
THEOREM JobsExclusive == Spec => []Exclusive
<1>1. IInv => Exclusive
  BY DEF IInv, Gated
<1> QED
  BY <1>1, Invariance, PTL

\* A restart by itself strands no job.
THEOREM NothingStranded == Spec => []StrandedOnlyByDbError
<1>1. IInv => StrandedOnlyByDbError
  BY DEF IInv, Recovered, StrandedOnlyByDbError
<1> QED
  BY <1>1, Invariance, PTL

\* A job runs at most max_attempts times plus once per restart.
THEOREM RetriesWithinBudget == Spec => []RetriesBounded
<1>1. IInv => RetriesBounded
  BY DEF IInv, Budget, RetriesBounded
<1> QED
  BY <1>1, Invariance, PTL

\* A publish runs once, whatever restarts, short of a database error.
THEOREM PublishClaimedOnce == Spec => []PublishRunsOnce
<1>1. IInv => PublishRunsOnce
  BY QueueAssumption DEF IInv, PublishOnce, PublishRunsOnce, TypeOK, Statuses
<1> QED
  BY <1>1, Invariance, PTL
=============================================================================
