----------------------- MODULE DeployEnvironment_proofs -----------------------
(***************************************************************************)
(* What the actors of an environment may do to its deployments rows, for   *)
(* every number of deployments, requests and runs, and however many        *)
(* restarts and faults there are.  Both theorems rest on what the          *)
(* statements against the table guard (its unique index, the               *)
(* compare-and-set updates), not on what the actors remember; so the only  *)
(* invariant they need of the state is the shape of a stored row.          *)
(***************************************************************************)
EXTENDS DeployEnvironment, FiniteSetTheorems, TLAPS

\* The revision is whatever the statement stored: the memory of the calls it
\* comes from is not typed here.
StoredRow(r) ==
  r \in [status : RowStatus, weighted : BOOLEAN, url : BOOLEAN, rev : {r.rev}]

RowsStored == row = [d \in Dep |-> row[d]] /\ \A d \in Dep : StoredRow(row[d])

\* What a step may write to row d: a row enters flight only through a free slot,
\* and leaves draining for live only in its own cutover.
Allowed(d) ==
  /\ StoredRow(row'[d])
  /\ row'[d].status \in InFlight => row[d].status \in InFlight \/ SlotFree(d)
  /\ row[d].status = "draining" /\ row'[d].status = "live" => exec[d].pc = "demote"

\* A step over the table: no row enters flight, or one does and it alone changes.
TableStep ==
  /\ RowsStored'
  /\ \A d \in Dep : Allowed(d)
  /\ \/ \A d \in Dep : row'[d].status \in InFlight => row[d].status \in InFlight
     \/ \E d \in Dep : SlotFree(d) /\ \A x \in Dep \ {d} : row'[x] = row[x]

---------------------------------------------------------------------------
(* Three ways to keep the table.                                           *)

\* A step that leaves the table alone.
LEMMA TableUntouched ==
  ASSUME RowsStored, UNCHANGED row
  PROVE  TableStep
BY DEF RowsStored, TableStep, Allowed, StoredRow

\* A statement against one row, which need not exist.
LEMMA OneRowWritten ==
  ASSUME RowsStored, NEW d, d \in Dep => Allowed(d),
         row' = [row EXCEPT ![d] = row'[d]]
  PROVE  TableStep
<1>1. row' = [x \in Dep |-> row'[x]] /\ \A x \in Dep \ {d} : row'[x] = row[x]
  BY DEF RowsStored
<1>2. ASSUME NEW x \in Dep PROVE Allowed(x)
  BY <1>1 DEF Allowed, RowsStored
<1>3. RowsStored'
  BY <1>1, <1>2 DEF Allowed, RowsStored
<1> QED
  BY <1>1, <1>2, <1>3 DEF Allowed, TableStep

\* Statements that each retire a row: neither in flight nor live afterwards.
LEMMA RowsRetired ==
  ASSUME RowsStored, row' = [d \in Dep |-> row'[d]],
         \A d \in Dep : \/ row'[d] = row[d]
                        \/ /\ StoredRow(row'[d])
                           /\ row'[d].status \notin InFlight \cup {"live"}
  PROVE  TableStep
BY DEF RowsStored, TableStep, Allowed, StoredRow

---------------------------------------------------------------------------
(* queueDeploy and deployRelease.                                          *)

\* The insert of a pending or building row, whoever makes it.
LEMMA RowInserted ==
  ASSUME RowsStored, NEW d \in Dep, NEW rev,
         NEW status \in InFlight, InsertRow(d, status, rev)
  PROVE  TableStep
<1>1. row' = [row EXCEPT ![d] = row'[d]]
  BY DEF InsertRow, RowsStored
<1>2. Allowed(d)
  BY DEF InsertRow, RowsStored, StoredRow, Allowed, RowStatus, InFlight
<1> QED
  BY <1>1, <1>2, OneRowWritten

\* The steps of a deployRelease call, with the job around it.
LEMMA ExecuteTable ==
  ASSUME RowsStored, NEW d \in Dep, Execute(d)
  PROVE  TableStep
<1>1. CASE TakeRow(d)
  <2>1. row' = [row EXCEPT ![d] = row'[d]]
    BY <1>1 DEF TakeRow, Taken, RowsStored
  <2>2. Allowed(d)
    BY <1>1 DEF TakeRow, Taken, RowsStored, StoredRow, Allowed, RowStatus, InFlight
  <2> QED
    BY <2>1, <2>2, OneRowWritten
<1>8. CASE TakeRowError(d)
  <2>1. CASE UNCHANGED row
    BY <2>1, TableUntouched
  <2>2. CASE Exists(d) /\ SlotFree(d) /\ row' = Taken(d)
    <3>1. row' = [row EXCEPT ![d] = row'[d]]
      BY <2>2 DEF Taken, RowsStored
    <3>2. Allowed(d)
      BY <2>2 DEF Taken, RowsStored, StoredRow, Allowed, RowStatus, InFlight
    <3> QED
      BY <3>1, <3>2, OneRowWritten
  <2> QED
    BY <1>8, <2>1, <2>2 DEF TakeRowError
<1>2. CASE Demote(d)
  <2>1. PICK x \in exec[d].todo : row' = Update(x, Draining(x))
    BY <1>2 DEF Demote
  <2>2. row' = [row EXCEPT ![x] = row'[x]]
    BY <2>1 DEF Update, RowsStored
  <2>3. x \in Dep => Allowed(x)
    BY <2>1 DEF Update, Draining, RowsStored, StoredRow, Allowed, RowStatus, InFlight
  <2> QED
    BY <2>2, <2>3, OneRowWritten
<1>3. CASE DemoteError(d)
  <2>1. PICK landed : row' = [y \in Dep |-> IF y \in landed /\ Exists(y)
                                            THEN Draining(y) ELSE row[y]]
    BY <1>3 DEF DemoteError
  <2>2. \A y \in Dep : \/ row'[y] = row[y]
                       \/ /\ StoredRow(row'[y])
                          /\ row'[y].status \notin InFlight \cup {"live"}
    BY <2>1 DEF Draining, RowsStored, StoredRow, RowStatus, InFlight
  <2> QED
    BY <2>1, <2>2, RowsRetired
<1>4. CASE Promote(d)
  <2>1. row' = [row EXCEPT ![d] = row'[d]]
    BY <1>4 DEF Promote, Update, RowsStored
  <2>2. Allowed(d)
    BY <1>4 DEF Promote, At, Update, RowsStored, StoredRow, Allowed, RowStatus, InFlight
  <2> QED
    BY <2>1, <2>2, OneRowWritten
<1>5. CASE FailRow(d)
  <2>1. row' = [row EXCEPT ![d] = row'[d]]
    BY <1>5 DEF FailRow, Update, RowsStored
  <2>2. Allowed(d)
    BY <1>5 DEF FailRow, Update, RowsStored, StoredRow, Allowed, RowStatus, InFlight
  <2> QED
    BY <2>1, <2>2, OneRowWritten
<1>6. CASE \/ BeginDeploy(d) \/ ReadEnv(d) \/ TakeRowThrows(d) \/ ResolveEnv(d)
           \/ LaunchLive(d) \/ LaunchFails(d) \/ ReadSiblings(d) \/ PromoteError(d)
           \/ Audit(d) \/ AuditError(d) \/ ScheduleDrain(d) \/ Finish(d)
           \/ AbortInfra(d) \/ FailRowError(d)
  <2>1. UNCHANGED row
    BY <1>6 DEF BeginDeploy, ReadEnv, TakeRowThrows, ResolveEnv, LaunchLive,
                LaunchFails, ReadSiblings, PromoteError, Audit, AuditError,
                ScheduleDrain, Finish, AbortInfra, FailRowError, rowVars
  <2> QED
    BY <2>1, TableUntouched
<1>7. CASE \/ CompleteDeploy(d) \/ CompleteDeployError(d) \/ DeployFailed(d)
           \/ RetryDeploy(d) \/ RetryDeployError(d)
  <2>1. UNCHANGED row
    BY <1>7 DEF CompleteDeploy, CompleteDeployError, DeployFailed, RetryDeploy,
                RetryDeployError, JobStep, rowVars
  <2> QED
    BY <2>1, TableUntouched
<1> QED
  BY <1>1, <1>2, <1>3, <1>4, <1>5, <1>6, <1>7, <1>8 DEF Execute

LEMMA ControllerTable ==
  ASSUME RowsStored, ControllerNext
  PROVE  TableStep
<1>1. CASE DeleteFailed
  <2>1. \A d \in Dep : \/ row'[d] = row[d]
                       \/ /\ StoredRow(row'[d])
                          /\ row'[d].status \notin InFlight \cup {"live"}
    BY <1>1 DEF DeleteFailed, NoRow, RowsStored, StoredRow, RowStatus, InFlight
  <2>2. row' = [d \in Dep |-> row'[d]]
    BY <1>1 DEF DeleteFailed
  <2> QED
    BY <2>1, <2>2, RowsRetired
<1>2. ASSUME NEW d \in Dep, QueueDeploy(d) PROVE TableStep
  BY <1>2, RowInserted DEF QueueDeploy, InFlight
<1>3. ASSUME NEW d \in Dep, EnqueueDeploy(d) \/ EnqueueDeployError(d)
      PROVE  TableStep
  BY <1>3, TableUntouched DEF EnqueueDeploy, EnqueueDeployError, rowVars
<1> QED
  BY <1>1, <1>2, <1>3, ExecuteTable DEF ControllerNext

---------------------------------------------------------------------------
(* The inline jobs.                                                        *)

LEMMA LaneTable ==
  ASSUME RowsStored, LaneNext
  PROVE  TableStep
<1>1. CASE MarkStopped
  <2>1. row' = [row EXCEPT ![Subject] = row'[Subject]]
    BY <1>1 DEF MarkStopped, Update, RowsStored
  <2>2. Subject \in Dep => Allowed(Subject)
    BY <1>1 DEF MarkStopped, Update, RowsStored, StoredRow, Allowed, RowStatus, InFlight
  <2> QED
    BY <2>1, <2>2, OneRowWritten
<1>2. CASE ReconcileInserts
  BY <1>2, RowInserted DEF ReconcileInserts, InFlight
<1>3. CASE \/ ClaimInline \/ LaneDbError \/ ReadDrained \/ DrainWaits \/ DrainOver
           \/ DrainStops \/ ReapRuns \/ ScheduleCleanup \/ CheckCleanup \/ DestroyBox
  <2>1. UNCHANGED row
    BY <1>3 DEF ClaimInline, LaneDbError, ReadDrained, DrainWaits, DrainOver,
                DrainStops, ReapRuns, ScheduleCleanup, CheckCleanup, DestroyBox,
                LaneStep, rowVars
  <2> QED
    BY <2>1, TableUntouched
<1>4. CASE \/ StartSweep \/ ReadDesired \/ ReadRows \/ ReconcileLater
           \/ ReconcileInsertThrows \/ ReconcileEnqueues
           \/ EndSweep \/ CompleteInline \/ RetryInline
  <2>1. UNCHANGED row
    BY <1>4 DEF StartSweep, ReadDesired, ReadRows, ReconcileLater,
                ReconcileInsertThrows, ReconcileEnqueues, EndSweep,
                CompleteInline, RetryInline, LaneStep, LaneEnds, rowVars
  <2> QED
    BY <2>1, TableUntouched
<1> QED
  BY <1>1, <1>2, <1>3, <1>4 DEF LaneNext

---------------------------------------------------------------------------
(* Wakes, refreshes and the boot sweep.                                    *)

LEMMA ServeTable ==
  ASSUME RowsStored, NEW w \in Actor, Serve(w)
  PROVE  TableStep
<1> DEFINE d == Of(w)
           s == Newest(req[w].stopped)
           o == req[w].stale
<1>1. CASE ClaimUrl(w)
  <2>1. CASE row[d].status = "live" /\ row' = [row EXCEPT ![d].url = FALSE]
    <3> HIDE DEF d
    <3>1. row' = [row EXCEPT ![d] = row'[d]]
      BY <2>1 DEF RowsStored
    <3>2. d \in Dep => Allowed(d)
      BY <2>1 DEF RowsStored, StoredRow, Allowed, RowStatus, InFlight
    <3> QED
      BY <3>1, <3>2, OneRowWritten
  <2> QED
    BY <1>1, <2>1, TableUntouched DEF ClaimUrl
<1>2. CASE RefreshUrl(w)
  <2>1. CASE row[d].status = "live" /\ row' = [row EXCEPT ![d].url = TRUE]
    <3> HIDE DEF d
    <3>1. row' = [row EXCEPT ![d] = row'[d]]
      BY <2>1 DEF RowsStored
    <3>2. d \in Dep => Allowed(d)
      BY <2>1 DEF RowsStored, StoredRow, Allowed, RowStatus, InFlight
    <3> QED
      BY <3>1, <3>2, OneRowWritten
  <2> QED
    BY <1>2, <2>1, TableUntouched DEF RefreshUrl
<1>3. CASE GiveUp(w)
  <2>1. CASE /\ row[d].status = "live"
             /\ row' = [row EXCEPT ![d].status = "stopped", ![d].url = FALSE]
    <3> HIDE DEF d
    <3>1. row' = [row EXCEPT ![d] = row'[d]]
      BY <2>1 DEF RowsStored
    <3>2. d \in Dep => Allowed(d)
      BY <2>1 DEF RowsStored, StoredRow, Allowed, RowStatus, InFlight
    <3> QED
      BY <3>1, <3>2, OneRowWritten
  <2> QED
    BY <1>3, <2>1, TableUntouched DEF GiveUp
<1>4. CASE WakePromote(w)
  <2>1. CASE /\ row[s].status = "stopped"
             /\ row' = [row EXCEPT ![s].status = "live", ![s].url = TRUE]
    <3> HIDE DEF s
    <3>1. row' = [row EXCEPT ![s] = row'[s]]
      BY <2>1 DEF RowsStored
    <3>2. s \in Dep => Allowed(s)
      BY <2>1 DEF RowsStored, StoredRow, Allowed, RowStatus, InFlight
    <3> QED
      BY <3>1, <3>2, OneRowWritten
  <2> QED
    BY <1>4, <2>1, TableUntouched DEF WakePromote
<1>5. CASE ReplaceInsert(w) \/ ReplaceInsertError(w)
  BY <1>5, RowInserted DEF ReplaceInsert, ReplaceInsertError, InFlight
<1>6. CASE Retire(w)
  <2>1. CASE row[o].status = "stopped" /\ row' = [row EXCEPT ![o].weighted = FALSE]
    <3> HIDE DEF o
    <3>1. row' = [row EXCEPT ![o] = row'[o]]
      BY <2>1 DEF RowsStored
    <3>2. o \in Dep => Allowed(o)
      BY <2>1 DEF RowsStored, StoredRow, Allowed, RowStatus, InFlight
    <3> QED
      BY <3>1, <3>2, OneRowWritten
  <2> QED
    BY <1>6, <2>1, TableUntouched DEF Retire
<1>7. CASE \/ Probe(w) \/ Restart(w) \/ Decide(w) \/ WakeStart(w)
           \/ ReplaceReadEnv(w) \/ ReplaceLoses(w) \/ Replaced(w)
           \/ CheckRetired(w) \/ DestroyRetired(w) \/ ReqDbError(w) \/ End(w)
  <2>1. UNCHANGED row
    BY <1>7 DEF Probe, Restart, Decide, WakeStart, ReplaceReadEnv, ReplaceLoses,
                Replaced, CheckRetired, DestroyRetired, ReqDbError, End, rowVars
  <2> QED
    BY <2>1, TableUntouched
<1> QED
  BY <1>1, <1>2, <1>3, <1>4, <1>5, <1>6, <1>7 DEF Serve

---------------------------------------------------------------------------
(* Any step of the environment.                                            *)

LEMMA StepOfTable ==
  ASSUME RowsStored, [Next]_vars
  PROVE  TableStep
<1>1. CASE WakeNext
  <2>1. ASSUME NEW w \in Actor, Begin(w) PROVE TableStep
    BY <2>1, TableUntouched DEF Begin
  <2> QED
    BY <1>1, <2>1, ServeTable DEF WakeNext
<1>2. CASE \/ Bump \/ Invalidate \/ Deadline \/ BoxDies \/ Crash \/ Requeue
           \/ \E r \in Run : RunStart(r) \/ RunFinish(r)
           \/ UNCHANGED vars
  <2>1. UNCHANGED row
    BY <1>2 DEF Bump, Invalidate, Deadline, BoxDies, Crash, Requeue, RunStart,
                RunFinish, vars, rowVars
  <2> QED
    BY <2>1, TableUntouched
<1> QED
  BY <1>1, <1>2, ControllerTable, LaneTable DEF Next

LEMMA InitStored == Init => RowsStored
BY DEF Init, NoRow, RowsStored, StoredRow, RowStatus

---------------------------------------------------------------------------
(* The theorems.                                                           *)

\* InflightUnique, in the form a step preserves.
OneInFlight == \A d, x \in InFlightRows : d = x

LEMMA OneInFlightSuffices == OneInFlight => InflightUnique
<1>1. SUFFICES ASSUME OneInFlight PROVE InflightUnique
  OBVIOUS
<1>2. CASE InFlightRows = {}
  BY <1>2, FS_EmptySet DEF InflightUnique
<1>3. ASSUME NEW d \in InFlightRows PROVE InflightUnique
  <2>1. InFlightRows = {d}
    BY <1>1 DEF OneInFlight
  <2>2. Cardinality({d}) = 1
    BY FS_Singleton
  <2> QED
    BY <2>1, <2>2 DEF InflightUnique
<1> QED
  BY <1>2, <1>3

LEMMA OneInFlightKept ==
  ASSUME OneInFlight, TableStep
  PROVE  OneInFlight'
<1>1. CASE \A d \in Dep : row'[d].status \in InFlight => row[d].status \in InFlight
  BY <1>1 DEF OneInFlight, InFlightRows
<1>2. CASE \E d \in Dep : SlotFree(d) /\ \A x \in Dep \ {d} : row'[x] = row[x]
  BY <1>2 DEF OneInFlight, InFlightRows, SlotFree
<1> QED
  BY <1>1, <1>2 DEF TableStep

\* The table keeps its shape.
THEOREM TableStored == Spec => []RowsStored
<1>1. RowsStored /\ [Next]_vars => RowsStored'
  BY StepOfTable DEF TableStep
<1> QED
  BY <1>1, InitStored, PTL DEF Spec

\* At most one deployment of the environment is in flight, for any number of
\* deployments, concurrent deploys, retries, wakes, restarts and rejected calls.
THEOREM OneDeployInFlight == Spec => []InflightUnique
<1>1. Init => OneInFlight
  BY DEF Init, NoRow, OneInFlight, InFlightRows, InFlight
<1>2. RowsStored /\ OneInFlight /\ [Next]_vars => OneInFlight'
  BY StepOfTable, OneInFlightKept
<1> QED
  BY <1>1, <1>2, TableStored, OneInFlightSuffices, PTL DEF Spec

\* No wake, refresh or boot sweep working from an older listing puts a draining
\* deployment back in service: only its own cutover does.
THEOREM DrainingNotResurrected == Spec => NoResurrection
<1>1. RowsStored /\ [Next]_vars =>
        [\A d \in Dep : row[d].status = "draining" /\ row'[d].status = "live"
                          => exec[d].pc = "demote"]_vars
  BY StepOfTable DEF TableStep, Allowed
<1> QED
  BY <1>1, TableStored, PTL DEF Spec, NoResurrection
=============================================================================
