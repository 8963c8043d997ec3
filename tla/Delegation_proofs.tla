------------------------- MODULE Delegation_proofs -------------------------
(***************************************************************************)
(* Theorems about Delegation, for every number of turns, restarts and      *)
(* rejected calls, and every retry budget.                                 *)
(***************************************************************************)
EXTENDS Delegation, TLAPS

RelayPc ==
  {"idle", "send", "recordStart", "recordFinish", "finishRun", "adopt", "arm",
   "fail", "complete", "park", "parkSession", "parkQuestion", "parkFailed", "cut off",
   "denied", "replied", "handed_off", "waiting_on_human", "threw"}
SettlePc ==
  {"slice", "cursor", "enqueue", "row", "run", "needsYou", "question", "finalize"}
TickPc == {"idle", "read", "notice", "done", "threw"} \cup SettlePc
PersonPc == {"idle", "turn", "asked", "read", "write"}

JobShape == [attempts : Nat, turn : BOOLEAN]

Calls == [pc : RelayPc, mode : {"ask", "tell"}, turn : BOOLEAN, started : BOOLEAN,
          handingOff : BOOLEAN, armed : BOOLEAN]
Rows == [status : {"none", "running", "waiting", "failed", "stopped", "gone"},
         pending : BOOLEAN, archived : BOOLEAN]
Ticks == [pc : TickPc, job : JobShape, target : BOOLEAN, drained : BOOLEAN,
          turn : BOOLEAN, outcome : {"none", "parked", "completed", "failed"}]
Persons == [pc : PersonPc, turns : 0 .. MaxTurn,
            outcome : {"none", "completed", "failed"}]

Scalars ==
  /\ delegation \in DelegationStatus
  /\ peer \in Settlements \cup {"none", "running"}
  /\ target \in BOOLEAN /\ gaveUp \in BOOLEAN /\ late \in BOOLEAN
  /\ question \in {"none", "open", "answered"}
  /\ run \in {"none", "running", "finished"}
  /\ notices \in Nat

Types ==
  /\ relay \in Calls /\ tick \in Ticks /\ session \in Rows /\ person \in Persons
  /\ IsABag(queue) /\ BagToSet(queue) \subseteq JobShape
  /\ Scalars

\* A queued job has an attempt left, or was requeued by a restart.
Budget ==
  /\ \A job \in BagToSet(queue) : job.attempts < ReattachAttempts + faults
  /\ tick.job.attempts <= ReattachAttempts + faults
  /\ faults \in 0 .. MaxFault

\* The inductive invariant behind TypeOK.
TypeInv == Types /\ Budget

\* Before the hand-off nothing watches; after it the relay only records the
\* start of a tell.  Until then nobody else touches the delegation.
Armed ==
  /\ tick.pc = "idle" => tick = NoTick
  /\ ~relay.armed => notices = 0 /\ BagToSet(queue) = {} /\ tick = NoTick
  /\ relay.armed =>
       \/ relay.pc \in {"handed_off", "cut off"}
       \/ relay.pc = "recordStart" /\ relay.mode = "tell"

\* Only a running delegation is settled, and its notice posted by the tick that
\* completed it, at most once; a person's turn settles only a waiting one.
Settling ==
  /\ relay.pc = "idle" => delegation = "none"
  /\ tick.pc \in SettlePc => delegation = "running"
  /\ tick.pc = "notice" => delegation = "completed" /\ notices = 0 /\ person.pc # "write"
  /\ person.pc = "write" => delegation \notin {"none", "running"} /\ notices = 0
  /\ notices > 0 => notices = 1 /\ delegation = "completed"

\* The inductive invariant behind FinishedOnce.
NoticeInv == Types /\ Armed /\ Settling

\* What the relay hands over: a running delegation, in a conversation that exists
\* as long as its deployment does, and the turn of a run it has started.
HandOff ==
  /\ relay.pc \in {"idle", "send"} => run = "none"
  /\ relay.pc \in {"recordStart", "recordFinish"} => relay.turn
  /\ ~relay.armed /\ relay.pc \in {"send", "recordStart", "recordFinish", "adopt", "arm"}
       => delegation = "running"
  /\ ~relay.armed /\ relay.pc \in {"adopt", "arm"} /\ run = "running" => relay.turn
  /\ relay.pc = "arm" /\ target => HasSession

\* The run is not running, and will not be started.
Closed == run # "running" /\ (relay.pc = "recordStart" => run = "finished")

\* Until the run is closed, whoever watches knows the turn it belongs to, and
\* the deployment; a tick that goes on to close the delegation has closed it.
Known ==
  /\ \A job \in BagToSet(queue) : job.turn
  /\ tick.pc # "idle" => tick.job.turn
  /\ tick.pc \in {"slice", "cursor", "enqueue", "row", "run"} => tick.turn /\ tick.target
Closing ==
  relay.armed /\ target =>
    /\ HasSession
    /\ Closed \/ Known
    /\ tick.pc \in {"needsYou", "question", "finalize"} \/ delegation # "running" => Closed

\* The inductive invariant behind RunClosed.
RunInv == NoticeInv /\ HandOff /\ Closing
---------------------------------------------------------------------------
\* What an update of a record keeps.

LEMMA CallUpdates ==
  ASSUME NEW r \in Calls
  PROVE  /\ \A pc \in RelayPc : [r EXCEPT !.pc = pc] \in Calls
         /\ Relayed(r) \in Calls
         /\ Relayed(r).pc = r.pc /\ Relayed(r).armed = r.armed
         /\ r.pc \notin RelayOver => Relayed(r) = r
<1>1. NoCall \in Calls
  BY DEF NoCall, Calls, RelayPc
<1>2. [NoCall EXCEPT !.pc = r.pc, !.armed = r.armed] \in Calls
  BY DEF Calls, NoCall, RelayPc
<1>3. \A pc \in RelayPc : [r EXCEPT !.pc = pc] \in Calls
  BY DEF Calls
<1>4. Relayed(r).pc = r.pc /\ Relayed(r).armed = r.armed
  BY DEF Relayed, NoCall, Calls
<1> QED
  BY <1>2, <1>3, <1>4 DEF Relayed

LEMMA RelayKeeps ==
  ASSUME relay \in Calls, NEW pc \in RelayPc, Relay(pc)
  PROVE  /\ relay' \in Calls
         /\ relay'.pc = pc /\ relay'.armed = relay.armed
         /\ pc \notin RelayOver => relay'.turn = relay.turn /\ relay'.mode = relay.mode
<1>1. [relay EXCEPT !.pc = pc] \in Calls /\ [relay EXCEPT !.pc = pc].pc = pc
      /\ [relay EXCEPT !.pc = pc].armed = relay.armed
      /\ [relay EXCEPT !.pc = pc].turn = relay.turn
      /\ [relay EXCEPT !.pc = pc].mode = relay.mode
  BY CallUpdates DEF Calls
<1> QED
  BY <1>1, CallUpdates DEF Relay

LEMMA IdleTick ==
  ASSUME NEW job \in JobShape
  PROVE  /\ Idle(job) \in Ticks
         /\ Idle(job).pc = "idle" /\ Idle(job).job = job /\ Idle(job).outcome = "none"
BY DEF Idle, Ticks, TickPc, JobShape

LEMMA TickUpdates ==
  ASSUME NEW t \in Ticks
  PROVE  /\ \A pc \in TickPc : 
              /\ [t EXCEPT !.pc = pc] \in Ticks
              /\ [t EXCEPT !.pc = pc].pc = pc
              /\ [t EXCEPT !.pc = pc].job = t.job
              /\ [t EXCEPT !.pc = pc].turn = t.turn
              /\ [t EXCEPT !.pc = pc].target = t.target
              /\ [t EXCEPT !.pc = pc].outcome = t.outcome
BY DEF Ticks

LEMMA TickKeeps ==
  ASSUME tick \in Ticks, NEW pc \in TickPc, Tick(pc)
  PROVE  /\ tick' \in Ticks
         /\ tick'.pc = pc /\ tick'.job = tick.job
         /\ pc \notin {"done", "threw"} =>
              tick'.turn = tick.turn /\ tick'.target = tick.target /\ tick'.outcome = tick.outcome
<1>1. tick.job \in JobShape
  BY DEF Ticks
<1>2. Idle(tick.job) \in Ticks /\ Idle(tick.job).job = tick.job
  BY <1>1, IdleTick
<1> QED
  BY <1>2, TickUpdates DEF Tick

---------------------------------------------------------------------------
\* The bag of queued jobs.

LEMMA BagAdd ==
  ASSUME NEW B, IsABag(B), NEW x
  PROVE  IsABag(B (+) SetToBag({x})) /\ BagToSet(B (+) SetToBag({x})) = BagToSet(B) \cup {x}
BY DEF IsABag, BagToSet, SetToBag, (+)

LEMMA BagRemove ==
  ASSUME NEW B, IsABag(B), NEW x
  PROVE  IsABag(B (-) SetToBag({x})) /\ BagToSet(B (-) SetToBag({x})) \subseteq BagToSet(B)
BY DEF IsABag, BagToSet, SetToBag, (-)

LEMMA BagEmpty == IsABag(EmptyBag) /\ BagToSet(EmptyBag) = {}
BY DEF IsABag, BagToSet, SetToBag, EmptyBag

LEMMA NewJobs ==
  ASSUME NEW turn \in BOOLEAN
  PROVE  NewJob(turn) \in JobShape /\ NewJob(turn).attempts = 0 /\ NewJob(turn).turn = turn
BY DEF NewJob, JobShape

LEMMA EnqueueKeeps ==
  ASSUME IsABag(queue), NEW turn \in BOOLEAN, EnqueueWatcher(turn)
  PROVE  IsABag(queue') /\ BagToSet(queue') = BagToSet(queue) \cup {NewJob(turn)}
BY BagAdd DEF EnqueueWatcher

LEMMA RequeueKeeps ==
  ASSUME Types, queue' = queue \/ queue' = queue (+) SetToBag({tick.job})
  PROVE  /\ IsABag(queue') /\ BagToSet(queue') \subseteq JobShape
         /\ BagToSet(queue') \subseteq BagToSet(queue) \cup {tick.job}
<1>1. tick.job \in JobShape /\ IsABag(queue) /\ BagToSet(queue) \subseteq JobShape
  BY DEF Types, Ticks
<1>2. IsABag(queue (+) SetToBag({tick.job}))
      /\ BagToSet(queue (+) SetToBag({tick.job})) = BagToSet(queue) \cup {tick.job}
  BY <1>1, BagAdd
<1> QED
  BY <1>1, <1>2

---------------------------------------------------------------------------
\* The records that an action writes several fields of.

LEMMA NextPc ==
  ASSUME NEW r, NEW p
  PROVE  AfterRecord(r, p) \in {"handed_off", "adopt", "park", "complete", "fail"}
BY DEF AfterRecord

LEMMA TurnEndsCall ==
  ASSUME Types, TurnEnds
  PROVE  /\ relay' \in Calls /\ relay'.armed = relay.armed
         /\ relay'.pc = "recordStart" => relay'.turn
         /\ relay'.pc \in {"recordStart", "handed_off", "adopt", "park", "complete", "fail"}
<1>1. PICK p \in Settlements \cup {"running"}, turn \in BOOLEAN :
        LET r == [relay EXCEPT !.turn = turn, !.handingOff = p = "running"]
        IN  relay' = [r EXCEPT !.pc = IF turn THEN "recordStart" ELSE AfterRecord(r, p)]
  BY DEF TurnEnds
<1> DEFINE r == [relay EXCEPT !.turn = turn, !.handingOff = p = "running"]
           next == IF turn THEN "recordStart" ELSE AfterRecord(r, p)
<1>2. r \in Calls /\ r.armed = relay.armed /\ r.turn = turn
  BY DEF Types, Calls
<1>3. next \in {"recordStart", "handed_off", "adopt", "park", "complete", "fail"}
      /\ (next = "recordStart" => turn)
  BY NextPc
<1> HIDE DEF r, next
<1>4. /\ [r EXCEPT !.pc = next] \in Calls /\ [r EXCEPT !.pc = next].pc = next
      /\ [r EXCEPT !.pc = next].armed = r.armed /\ [r EXCEPT !.pc = next].turn = r.turn
  BY <1>2, <1>3 DEF Calls, RelayPc, RelayOver
<1>5. relay' = [r EXCEPT !.pc = next]
  BY <1>1 DEF r, next
<1> QED
  BY <1>2, <1>3, <1>4, <1>5

LEMMA TurnDispatchedCall ==
  ASSUME Types, TurnDispatched
  PROVE  relay' \in Calls /\ relay'.armed = relay.armed /\ relay'.pc = "adopt"
<1>1. PICK turn \in BOOLEAN : relay' = [relay EXCEPT !.turn = turn, !.pc = "adopt"]
  BY DEF TurnDispatched
<1> QED
  BY <1>1 DEF RelayPc, Types, Calls

\* A tell ends with the record of its start, an ask goes on.
LEMMA RecordStartCall ==
  ASSUME Types, RecordStart
  PROVE  /\ relay' \in Calls /\ relay'.armed = relay.armed
         /\ relay.mode = "tell" => relay'.pc = "handed_off"
         /\ relay'.pc \in {"handed_off", "adopt", "park", "complete", "fail", "recordFinish"}
         /\ relay'.pc \in {"adopt", "recordFinish"} => relay'.turn = relay.turn
<1> DEFINE after == AfterRecord(relay, peer)
           next == IF after \in {"adopt", "handed_off"} THEN after ELSE "recordFinish"
           call == [relay EXCEPT !.pc = next, !.started = TRUE]
<1>1. /\ after \in {"handed_off", "adopt", "park", "complete", "fail"}
      /\ next \in {"handed_off", "adopt", "recordFinish"}
      /\ relay.mode = "tell" => after = "handed_off" /\ next = "handed_off"
  BY NextPc DEF AfterRecord
<1>2. \/ relay' = Relayed(call)
      \/ Relay(after)
  BY DEF RecordStart
<1> HIDE DEF after, next
<1>3. /\ call \in Calls /\ call.pc = next /\ call.armed = relay.armed
      /\ call.turn = relay.turn
  BY <1>1 DEF Types, Calls, RelayPc, RelayOver
<1>4. CASE Relay(after)
  BY <1>4, <1>1, RelayKeeps DEF Types, RelayPc, RelayOver
<1>5. CASE relay' = Relayed(call)
  BY <1>5, <1>1, <1>3, CallUpdates DEF RelayOver
<1> QED
  BY <1>2, <1>4, <1>5

LEMMA ArmCall ==
  ASSUME Types, scheduleDelegationReattach
  PROVE  /\ relay' \in Calls
         /\ \/ /\ relay'.armed
               /\ \/ relay'.pc = "recordStart" /\ relay'.mode = "tell" /\ relay.turn /\ relay'.turn
                  \/ relay'.pc = "handed_off"
            \/ relay'.armed = relay.armed /\ queue' = queue
               /\ relay'.pc \in {"finishRun", "fail"}
<1> DEFINE next == IF relay.mode = "tell" /\ relay.turn THEN "recordStart" ELSE "handed_off"
           call == [relay EXCEPT !.armed = TRUE, !.pc = next]
<1>1. \/ relay' = Relayed(call)
      \/ HandOffFails /\ queue' = queue
  BY DEF scheduleDelegationReattach
<1>2. \/ next = "recordStart" /\ relay.mode = "tell" /\ relay.turn
      \/ next = "handed_off"
  OBVIOUS
<1> HIDE DEF next
<1>3. /\ call \in Calls /\ call.pc = next /\ call.armed = TRUE
      /\ call.turn = relay.turn /\ call.mode = relay.mode
  BY <1>2 DEF Types, Calls, RelayPc, RelayOver
<1>4. CASE relay' = Relayed(call)
  BY <1>4, <1>2, <1>3, CallUpdates DEF RelayOver
<1>5. CASE HandOffFails /\ queue' = queue
  BY <1>5, RelayKeeps DEF HandOffFails, RelayPc, RelayOver, Types
<1> QED
  BY <1>1, <1>4, <1>5

LEMMA ArmQueue ==
  ASSUME Types, scheduleDelegationReattach
  PROVE  /\ IsABag(queue') /\ BagToSet(queue') \subseteq JobShape
         /\ BagToSet(queue') \subseteq BagToSet(queue) \cup {NewJob(relay.turn)}
<1>1. relay.turn \in BOOLEAN
  BY DEF Types, Calls
<1> QED
  BY <1>1, EnqueueKeeps, NewJobs DEF Types, scheduleDelegationReattach

LEMMA SuccessorQueue ==
  ASSUME Types, EnqueueSuccessor
  PROVE  /\ IsABag(queue') /\ BagToSet(queue') \subseteq JobShape
         /\ BagToSet(queue') \subseteq BagToSet(queue) \cup {NewJob(tick.turn)}
<1>1. tick.turn \in BOOLEAN
  BY DEF Types, Ticks
<1> QED
  BY <1>1, EnqueueKeeps, NewJobs DEF Types, EnqueueSuccessor

\* What a tick is left with by the rows it reads.
LEMMA ReadRowsTick ==
  ASSUME Types, ReadRows
  PROVE  /\ tick' \in Ticks /\ tick'.job = tick.job
         /\ tick'.pc \in {"threw", "done", "finalize", "run", "row", "slice"}
         /\ tick'.pc \in {"finalize", "run", "row", "slice"} => delegation = "running"
         /\ tick'.pc = "finalize" => ~HasSession
         /\ tick'.pc \in {"run", "row", "slice"} => tick'.target = target /\ tick'.turn = tick.job.turn
<1>1. tick.job \in JobShape /\ tick.job.turn \in BOOLEAN
  BY DEF Types, Ticks, JobShape
<1>2. Reread \in Ticks /\ Reread.target = target /\ Reread.turn = tick.job.turn
      /\ Reread.job = tick.job
  BY <1>1 DEF Reread, Ticks, Types, Scalars
<1>3. /\ SettleStopped \in Ticks /\ SettleStopped.pc = "run"
      /\ SettleStopped.target = target /\ SettleStopped.turn = tick.job.turn
      /\ SettleStopped.job = tick.job
  BY <1>2 DEF SettleStopped, Ticks, TickPc, SettlePc
<1>4. /\ SettleUndrained(Reread) \in Ticks /\ SettleUndrained(Reread).pc = "row"
      /\ SettleUndrained(Reread).target = target
      /\ SettleUndrained(Reread).turn = tick.job.turn
      /\ SettleUndrained(Reread).job = tick.job
  BY <1>2 DEF SettleUndrained, Ticks, TickPc, SettlePc
<1>5. /\ [Reread EXCEPT !.pc = "slice"] \in Ticks
      /\ [Reread EXCEPT !.pc = "slice"].pc = "slice"
      /\ [Reread EXCEPT !.pc = "slice"].target = target
      /\ [Reread EXCEPT !.pc = "slice"].turn = tick.job.turn
      /\ [Reread EXCEPT !.pc = "slice"].job = tick.job
  BY <1>2, TickUpdates DEF TickPc, SettlePc
<1>6. /\ [tick EXCEPT !.outcome = "failed", !.pc = "finalize"] \in Ticks
      /\ [tick EXCEPT !.outcome = "failed", !.pc = "finalize"].pc = "finalize"
      /\ [tick EXCEPT !.outcome = "failed", !.pc = "finalize"].job = tick.job
  BY DEF Ticks, TickPc, SettlePc, Types
<1>7. /\ [Idle(tick.job) EXCEPT !.pc = "done"] \in Ticks
      /\ [Idle(tick.job) EXCEPT !.pc = "done"].pc = "done"
      /\ [Idle(tick.job) EXCEPT !.pc = "done"].job = tick.job
  BY <1>1, IdleTick, TickUpdates DEF TickPc
<1>8. CASE Tick("threw")
  BY <1>8, TickKeeps DEF TickPc, Types
<1> QED
  BY ZenonT(60), <1>3, <1>4, <1>5, <1>6, <1>7, <1>8 DEF ReadRows

LEMMA DrainSliceTick ==
  ASSUME Types, DrainSlice
  PROVE  /\ tick' \in Ticks /\ tick'.job = tick.job /\ tick'.target = tick.target
         /\ tick'.pc \in {"row", "cursor"}
         /\ tick.turn => tick'.turn
<1>1. PICK turn \in {tick.turn, TRUE}, drained \in BOOLEAN :
        LET t == [tick EXCEPT !.turn = turn, !.drained = drained]
        IN  \/ tick' = [t EXCEPT !.outcome = Outcome(peer), !.pc = "row"]
            \/ tick' = [t EXCEPT !.pc = "cursor"]
            \/ tick' = SettleUndrained(t)
  BY DEF DrainSlice
<1> DEFINE t == [tick EXCEPT !.turn = turn, !.drained = drained]
<1>2. turn \in BOOLEAN /\ (tick.turn => turn)
  BY DEF Types, Ticks
<1>3. t \in Ticks /\ t.job = tick.job /\ t.target = tick.target /\ t.turn = turn
  BY <1>2 DEF Types, Ticks
<1> HIDE DEF t
<1>4. Outcome(peer) \in {"parked", "failed", "completed"}
  BY DEF Outcome
<1>5. CASE tick' = [t EXCEPT !.outcome = Outcome(peer), !.pc = "row"]
  BY <1>2, <1>3, <1>4, <1>5 DEF Ticks, TickPc, SettlePc
<1>6. CASE tick' = [t EXCEPT !.pc = "cursor"]
  BY <1>2, <1>3, <1>6 DEF Ticks, TickPc, SettlePc
<1>7. CASE tick' = SettleUndrained(t)
  BY <1>2, <1>3, <1>7 DEF SettleUndrained, Ticks, TickPc, SettlePc
<1> QED
  BY <1>1, <1>5, <1>6, <1>7 DEF t

LEMMA SettleRunTick ==
  ASSUME Types, SettleRun
  PROVE  tick' \in Ticks /\ tick'.job = tick.job /\ tick'.pc \in {"needsYou", "threw"}
<1>1. tick.job \in JobShape /\ tick.outcome \in {"none", "parked", "completed", "failed"}
  BY DEF Types, Ticks
<1>2. Idle(tick.job) \in Ticks /\ Idle(tick.job).job = tick.job
  BY <1>1, IdleTick
<1>3. /\ [Idle(tick.job) EXCEPT !.pc = "needsYou", !.outcome = tick.outcome] \in Ticks
      /\ [Idle(tick.job) EXCEPT !.pc = "needsYou", !.outcome = tick.outcome].pc = "needsYou"
      /\ [Idle(tick.job) EXCEPT !.pc = "needsYou", !.outcome = tick.outcome].job = tick.job
  BY <1>1, <1>2 DEF Ticks, TickPc, SettlePc
<1> QED
  BY <1>3, TickKeeps DEF SettleRun, TickPc, Types

LEMMA ClaimTick ==
  ASSUME Types, NEW job \in BagToSet(queue), Claim(job)
  PROVE  /\ tick' \in Ticks /\ tick'.pc = "read"
         /\ tick'.job.turn = job.turn /\ tick'.job.attempts = job.attempts + 1
<1> DEFINE next == [job EXCEPT !.attempts = @ + 1]
<1>1. next \in JobShape /\ next.turn = job.turn /\ next.attempts = job.attempts + 1
  BY DEF Types, JobShape
<1>2. tick' = [Idle(next) EXCEPT !.pc = "read"]
  BY DEF Claim
<1> HIDE DEF next
<1>3. Idle(next) \in Ticks /\ Idle(next).job = next
  BY <1>1, IdleTick
<1> QED
  BY <1>1, <1>2, <1>3, TickUpdates DEF TickPc

---------------------------------------------------------------------------
\* Every step keeps the types.
LEMMA TypeStep ==
  ASSUME Types, Next
  PROVE  Types'
<1> USE DEF Types
<1>1. ASSUME NEW mode \in {"ask", "tell"}, Ask(mode) PROVE Types'
  <2>1. relay' \in Calls
    BY <1>1 DEF Ask, Calls, RelayPc
  <2> QED
    BY <1>1, <2>1 DEF Ask, RelayUnchanged, Scalars, DelegationStatus,
       Settlements
<1>2. CASE TurnEnds
  <2>1. relay' \in Calls
    BY <1>2, TurnEndsCall
  <2> QED
    BY <1>2, <2>1 DEF TurnEnds, RelayUnchanged, Scalars, DelegationStatus,
       Settlements
<1>3. CASE TurnDispatched
  <2>1. relay' \in Calls
    BY <1>3, TurnDispatchedCall
  <2> QED
    BY <1>3, <2>1 DEF TurnDispatched, RelayUnchanged, Scalars,
       DelegationStatus, Settlements
<1>4. CASE NotReached
  <2>1. relay' \in Calls
    BY <1>4, CallUpdates, RelayKeeps DEF NotReached, AfterRecord, HandOffFails,
       RelayPc, RelayOver
  <2> QED
    BY <1>4, <2>1 DEF NotReached, RelayUnchanged, Scalars, DelegationStatus,
       Settlements
<1>5. CASE RecordStart
  <2>1. relay' \in Calls
    BY <1>5, RecordStartCall
  <2> QED
    BY <1>5, <2>1 DEF RecordStart, RelayUnchanged, Scalars, DelegationStatus,
       Settlements, Started
<1>6. CASE RecordFinish
  <2>1. relay' \in Calls
    BY <1>6, CallUpdates, RelayKeeps DEF RecordFinish, AfterRecord,
       HandOffFails, RelayPc, RelayOver
  <2> QED
    BY <1>6, <2>1 DEF RecordFinish, RelayUnchanged, Scalars, DelegationStatus,
       Settlements
<1>7. CASE AdoptSession
  <2>1. relay' \in Calls
    BY <1>7, CallUpdates, RelayKeeps DEF AdoptSession, AfterRecord,
       HandOffFails, RelayPc, RelayOver
  <2>2. session' \in Rows
    BY <1>7 DEF AdoptSession, Rows
  <2> QED
    BY <1>7, <2>1, <2>2 DEF AdoptSession, RelayUnchanged, Scalars,
       DelegationStatus, Settlements
<1>8. CASE scheduleDelegationReattach
  <2>1. relay' \in Calls /\ IsABag(queue') /\ BagToSet(queue') \subseteq JobShape
    BY <1>8, ArmCall, ArmQueue
  <2> QED
    BY <1>8, <2>1 DEF scheduleDelegationReattach, RelayUnchanged, Scalars,
       DelegationStatus, Settlements
<1>9. CASE RelayFinalize
  <2>1. relay' \in Calls
    BY <1>9, CallUpdates, RelayKeeps DEF RelayFinalize, AfterRecord,
       HandOffFails, RelayPc, RelayOver
  <2> QED
    BY <1>9, <2>1 DEF RelayFinalize, RelayUnchanged, Scalars, DelegationStatus,
       Settlements
<1>10. CASE ParkDelegation
  <2>1. relay' \in Calls
    BY <1>10, CallUpdates, RelayKeeps DEF ParkDelegation, AfterRecord,
       HandOffFails, RelayPc, RelayOver
  <2> QED
    BY <1>10, <2>1 DEF ParkDelegation, RelayUnchanged, Scalars,
       DelegationStatus, Settlements
<1>11. CASE ParkSession
  <2>1. relay' \in Calls
    BY <1>11, CallUpdates, RelayKeeps DEF ParkSession, AfterRecord,
       HandOffFails, RelayPc, RelayOver
  <2>2. session' \in Rows
    BY <1>11 DEF ParkSession, Rows
  <2> QED
    BY <1>11, <2>1, <2>2 DEF ParkSession, RelayUnchanged, Scalars,
       DelegationStatus, Settlements
<1>12. CASE ParkQuestion
  <2>1. relay' \in Calls
    BY <1>12, CallUpdates, RelayKeeps DEF ParkQuestion, AfterRecord,
       HandOffFails, RelayPc, RelayOver
  <2> QED
    BY <1>12, <2>1 DEF ParkQuestion, RelayUnchanged, Scalars, DelegationStatus,
       Settlements, Opened
<1>13. CASE ParkFailed
  <2>1. relay' \in Calls
    BY <1>13, CallUpdates, RelayKeeps DEF ParkFailed, AfterRecord,
       HandOffFails, RelayPc, RelayOver
  <2> QED
    BY <1>13, <2>1 DEF ParkFailed, RelayUnchanged, Scalars, DelegationStatus,
       Settlements
<1>14. CASE ReadRows
  <2>1. tick' \in Ticks
    BY <1>14, ReadRowsTick
  <2> QED
    BY <1>14, <2>1 DEF ReadRows, TickUnchanged, Scalars, DelegationStatus,
       Settlements
<1>15. CASE DrainSlice
  <2>1. tick' \in Ticks
    BY <1>15, DrainSliceTick
  <2> QED
    BY <1>15, <2>1 DEF DrainSlice, TickUnchanged, Scalars, DelegationStatus,
       Settlements
<1>16. CASE SaveLiveness
  <2>1. tick' \in Ticks
    BY <1>16, TickKeeps, TickUpdates DEF SaveLiveness, TickPc, SettlePc, Ticks
  <2>2. session' \in Rows
    BY <1>16 DEF SaveLiveness, SaveCursor, Rows
  <2> QED
    BY <1>16, <2>1, <2>2 DEF SaveLiveness, TickUnchanged, Scalars,
       DelegationStatus, Settlements
<1>17. CASE EnqueueSuccessor
  <2>1. tick' \in Ticks
    BY <1>17, TickKeeps, TickUpdates DEF EnqueueSuccessor, TickPc, SettlePc,
       Ticks
  <2>2. IsABag(queue') /\ BagToSet(queue') \subseteq JobShape
    BY <1>17, SuccessorQueue
  <2> QED
    BY <1>17, <2>1, <2>2 DEF EnqueueSuccessor, TickUnchanged, Scalars,
       DelegationStatus, Settlements
<1>18. CASE SettleRow
  <2>1. tick' \in Ticks
    BY <1>18 DEF SettleRow, Ticks, TickPc, SettlePc
  <2>2. session' \in Rows
    BY <1>18 DEF SettleRow, SaveCursor, Rows
  <2> QED
    BY <1>18, <2>1, <2>2 DEF SettleRow, TickUnchanged, Scalars,
       DelegationStatus, Settlements
<1>19. CASE SettleRun
  <2>1. tick' \in Ticks
    BY <1>19, SettleRunTick
  <2> QED
    BY <1>19, <2>1 DEF SettleRun, TickUnchanged, Scalars, DelegationStatus,
       Settlements
<1>20. CASE MarkPending
  <2>1. tick' \in Ticks
    BY <1>20, TickKeeps DEF MarkPending, Ticks, TickPc, SettlePc
  <2>2. session' \in Rows
    BY <1>20 DEF MarkPending, Rows
  <2> QED
    BY <1>20, <2>1, <2>2 DEF MarkPending, TickUnchanged, Scalars,
       DelegationStatus, Settlements
<1>21. CASE ClearNeedsYou
  <2>1. tick' \in Ticks
    BY <1>21, TickKeeps, TickUpdates DEF ClearNeedsYou, TickPc, SettlePc, Ticks
  <2>2. session' \in Rows
    BY <1>21 DEF ClearNeedsYou, Cleared, Rows
  <2> QED
    BY <1>21, <2>1, <2>2 DEF ClearNeedsYou, TickUnchanged, Scalars,
       DelegationStatus, Settlements, Resolved
<1>22. CASE OpenQuestion
  <2>1. tick' \in Ticks
    BY <1>22, TickKeeps, TickUpdates DEF OpenQuestion, TickPc, SettlePc, Ticks
  <2> QED
    BY <1>22, <2>1 DEF OpenQuestion, TickUnchanged, Scalars, DelegationStatus,
       Settlements, Opened
<1>23. CASE Finalize
  <2>1. tick' \in Ticks
    BY <1>23, TickKeeps, TickUpdates DEF Finalize, TickPc, SettlePc, Ticks
  <2> QED
    BY <1>23, <2>1 DEF Finalize, TickUnchanged, Scalars, DelegationStatus,
       Settlements, Ticks
<1>24. CASE Notify
  <2>1. tick' \in Ticks
    BY <1>24, TickKeeps, TickUpdates DEF Notify, TickPc, SettlePc, Ticks
  <2> QED
    BY <1>24, <2>1 DEF Notify, TickUnchanged, Scalars, DelegationStatus,
       Settlements, Posted
<1>25. CASE EndTick
  <2>1. tick' \in Ticks
    BY <1>25, IdleTick, NewJobs DEF EndTick, NoTick
  <2>2. IsABag(queue') /\ BagToSet(queue') \subseteq JobShape
    BY <1>25, RequeueKeeps DEF EndTick
  <2> QED
    BY <1>25, <2>1, <2>2 DEF EndTick, TickUnchanged, Scalars, DelegationStatus,
       Settlements
<1>26. ASSUME NEW job \in BagToSet(queue), Claim(job) PROVE Types'
  <2>1. tick' \in Ticks
    BY <1>26, ClaimTick
  <2>2. IsABag(queue') /\ BagToSet(queue') \subseteq JobShape
    BY <1>26, BagRemove DEF Claim
  <2> QED
    BY ZenonT(60), <1>26, <2>1, <2>2 DEF Claim, TickUnchanged, Scalars, DelegationStatus,
       Settlements
<1>27. CASE ClaimTurn
  <2>1. person' \in Persons
    BY <1>27, BoundAssumption DEF ClaimTurn, Persons, PersonPc, NoTurn, Person
  <2>2. session' \in Rows
    BY <1>27 DEF ClaimTurn, Rows, Retire, Cleared
  <2> QED
    BY <1>27, <2>1, <2>2 DEF ClaimTurn, PersonUnchanged, Scalars,
       DelegationStatus, Settlements, Resolved, Retire
<1>28. CASE PersonAsked
  <2>1. person' \in Persons
    BY <1>28, BoundAssumption DEF PersonAsked, Persons, PersonPc, NoTurn,
       Person
  <2>2. session' \in Rows
    BY <1>28 DEF PersonAsked, Rows, Retire, Cleared
  <2> QED
    BY <1>28, <2>1, <2>2 DEF PersonAsked, PersonUnchanged, Scalars,
       DelegationStatus, Settlements, Resolved, Retire
<1>29. ASSUME NEW outcome \in {"completed", "failed"},
               PersonSettles(outcome)
        PROVE  Types'
  <2>1. person' \in Persons
    BY <1>29, BoundAssumption DEF PersonSettles, Persons, PersonPc, NoTurn,
       Person
  <2>2. session' \in Rows
    BY <1>29 DEF PersonSettles, Rows, Retire, Cleared
  <2> QED
    BY <1>29, <2>1, <2>2 DEF PersonSettles, PersonUnchanged, Scalars,
       DelegationStatus, Settlements, Resolved, Retire
<1>30. CASE ResumeRead
  <2>1. person' \in Persons
    BY <1>30, BoundAssumption DEF ResumeRead, Persons, PersonPc, NoTurn, Person
  <2> QED
    BY <1>30, <2>1 DEF ResumeRead, PersonUnchanged, Scalars, DelegationStatus,
       Settlements
<1>31. CASE ResumeWrite
  <2>1. person' \in Persons
    BY <1>31, BoundAssumption DEF ResumeWrite, Persons, PersonPc, NoTurn,
       Person
  <2> QED
    BY <1>31, <2>1 DEF ResumeWrite, PersonUnchanged, Scalars, DelegationStatus,
       Settlements, Persons
<1>32. CASE ResumeLost
  <2>1. person' \in Persons
    BY <1>32, BoundAssumption DEF ResumeLost, Persons, PersonPc, NoTurn, Person
  <2> QED
    BY <1>32, <2>1 DEF ResumeLost, PersonUnchanged, Scalars, DelegationStatus,
       Settlements
<1>33. CASE Stop
  <2>1. person' \in Persons
    BY <1>33, BoundAssumption DEF Stop, Persons, PersonPc, NoTurn, Person
  <2>2. session' \in Rows
    BY <1>33 DEF Stop, Rows, Retire, Cleared
  <2> QED
    BY <1>33, <2>1, <2>2 DEF Stop, PersonUnchanged, Scalars, DelegationStatus,
       Settlements, Resolved, Retire
<1>34. CASE Archive
  <2>1. person' \in Persons
    BY <1>34, BoundAssumption DEF Archive, Persons, PersonPc, NoTurn, Person
  <2>2. session' \in Rows
    BY <1>34 DEF Archive, Rows, Retire, Cleared
  <2> QED
    BY <1>34, <2>1, <2>2 DEF Archive, PersonUnchanged, Scalars,
       DelegationStatus, Settlements, Resolved, Retire
<1>35. CASE PeerSettles
  BY <1>35 DEF PeerSettles, WorldUnchanged, conversation, Scalars,
       DelegationStatus, Settlements
<1>36. CASE Undeploy
  BY <1>36 DEF Undeploy, WorldUnchanged, conversation, Scalars,
       DelegationStatus, Settlements
<1>37. CASE RemoveTeammate
  <2>1. session' \in Rows
    BY <1>37 DEF RemoveTeammate, Rows
  <2> QED
    BY <1>37, <2>1 DEF RemoveTeammate, WorldUnchanged, Scalars,
       DelegationStatus, Settlements
<1>38. CASE DeadlinePasses
  BY <1>38 DEF DeadlinePasses, WorldUnchanged, conversation, Scalars,
       DelegationStatus, Settlements
<1>39. CASE Crash
  <2>1. relay' \in Calls
    BY <1>39, RelayKeeps DEF Crash, RelayPc, RelayOver
  <2>2. tick' \in Ticks
    BY <1>39, IdleTick, NewJobs DEF Crash, NoTick
  <2>3. IsABag(queue') /\ BagToSet(queue') \subseteq JobShape
    BY <1>39, RequeueKeeps DEF Crash
  <2>4. person' \in Persons
    BY <1>39 DEF Crash, NoTurn, Persons, PersonPc
  <2> QED
    BY ZenonT(60), <1>39, <2>1, <2>2, <2>3, <2>4 DEF Crash, Scalars, DelegationStatus,
       Settlements
<1> QED
  BY <1>1, <1>2, <1>3, <1>4, <1>5, <1>6, <1>7, <1>8, <1>9, <1>10, <1>11, <1>12,
     <1>13, <1>14, <1>15, <1>16, <1>17, <1>18, <1>19, <1>20, <1>21, <1>22,
     <1>23, <1>24, <1>25, <1>26, <1>27, <1>28, <1>29, <1>30, <1>31, <1>32,
     <1>33, <1>34, <1>35, <1>36, <1>37, <1>38, <1>39 DEF Next, RelayStep,
     Watcher, TickStep, PersonStep
---------------------------------------------------------------------------
\* What the steps of an actor leave alone, and what they are taken for.

LEMMA RelayEffect ==
  ASSUME Types, RelayStep
  PROVE  /\ UNCHANGED <<tick, target, person, notices>>
         /\ relay.pc \notin RelayOver /\ relay.pc # "idle" /\ relay'.pc # "idle"
         /\ delegation' # delegation =>
              /\ relay.pc \in {"fail", "complete", "park", "parkFailed"}
              /\ delegation' \in {"completed", "failed", "waiting"}
         /\ relay.pc = "recordStart" /\ relay.mode = "tell" => relay'.pc = "handed_off"
         /\ \/ relay'.armed = relay.armed /\ queue' = queue
            \/ /\ relay'.armed /\ scheduleDelegationReattach
               /\ \/ relay'.pc = "recordStart" /\ relay'.mode = "tell" /\ relay.turn
                  \/ relay'.pc = "handed_off"
<1> USE DEF RelayUnchanged
<1>1. relay \in Calls
  BY DEF Types
<1>2. CASE TurnEnds
  BY <1>2, TurnEndsCall DEF RelayOver, TurnEnds
<1>3. CASE TurnDispatched
  BY <1>3, TurnDispatchedCall DEF RelayOver, TurnDispatched
<1>4. CASE NotReached
  <2>1. relay'.armed = relay.armed /\ queue' = queue /\ relay'.pc # "idle"
    BY <1>1, <1>4, RelayKeeps DEF RelayPc, NotReached
  <2> QED
    BY <1>4, <2>1 DEF RelayOver, NotReached
<1>5. CASE RecordStart
  BY <1>5, RecordStartCall DEF RelayOver, RecordStart
<1>6. CASE RecordFinish
  <2>1. relay'.armed = relay.armed /\ queue' = queue /\ relay'.pc # "idle"
    BY <1>1, <1>6, RelayKeeps, NextPc DEF RelayPc, RecordFinish
  <2> QED
    BY <1>6, <2>1 DEF RelayOver, RecordFinish
<1>7. CASE AdoptSession
  <2>1. relay'.armed = relay.armed /\ queue' = queue /\ relay'.pc # "idle"
    BY <1>1, <1>7, RelayKeeps DEF RelayPc, AdoptSession, HandOffFails
  <2> QED
    BY <1>7, <2>1 DEF RelayOver, AdoptSession
<1>8. CASE scheduleDelegationReattach
  BY <1>8, ArmCall DEF RelayOver, scheduleDelegationReattach
<1>9. CASE RelayFinalize
  <2>1. relay'.armed = relay.armed /\ queue' = queue /\ relay'.pc # "idle"
    BY <1>1, <1>9, RelayKeeps DEF RelayPc, RelayFinalize
  <2> QED
    BY <1>9, <2>1 DEF RelayOver, RelayFinalize
<1>10. CASE ParkDelegation
  <2>1. relay'.armed = relay.armed /\ queue' = queue /\ relay'.pc # "idle"
    BY <1>1, <1>10, RelayKeeps DEF RelayPc, ParkDelegation
  <2> QED
    BY <1>10, <2>1 DEF RelayOver, ParkDelegation
<1>11. CASE ParkSession
  <2>1. relay'.armed = relay.armed /\ queue' = queue /\ relay'.pc # "idle"
    BY <1>1, <1>11, RelayKeeps DEF RelayPc, ParkSession
  <2> QED
    BY <1>11, <2>1 DEF RelayOver, ParkSession
<1>12. CASE ParkQuestion
  <2>1. relay'.armed = relay.armed /\ queue' = queue /\ relay'.pc # "idle"
    BY <1>1, <1>12, RelayKeeps DEF RelayPc, ParkQuestion
  <2> QED
    BY <1>12, <2>1 DEF RelayOver, ParkQuestion
<1>13. CASE ParkFailed
  <2>1. relay'.armed = relay.armed /\ queue' = queue /\ relay'.pc # "idle"
    BY <1>1, <1>13, RelayKeeps DEF RelayPc, ParkFailed
  <2> QED
    BY <1>13, <2>1 DEF RelayOver, ParkFailed
<1> QED
  BY <1>2, <1>3, <1>4, <1>5, <1>6, <1>7, <1>8, <1>9, <1>10, <1>11, <1>12, <1>13
     DEF RelayStep

LEMMA TickEffect ==
  ASSUME Types, TickStep
  PROVE  /\ UNCHANGED <<relay, target, person>>
         /\ tick.pc # "idle"
         /\ \/ tick' = NoTick
            \/ tick'.pc # "idle" /\ tick'.job = tick.job
         /\ tick'.pc \in SettlePc =>
              /\ delegation' = delegation
              /\ \/ tick.pc \in SettlePc
                 \/ tick.pc = "read" /\ delegation = "running"
         /\ tick'.pc = "notice" => tick.pc = "finalize" /\ delegation' = "completed"
         /\ delegation' # delegation => tick.pc = "finalize" /\ notices' = notices
         /\ notices' # notices =>
              tick.pc = "notice" /\ notices' = notices + 1 /\ tick'.pc = "done"
<1> USE DEF TickUnchanged, TickPc, SettlePc
<1>1. tick \in Ticks
  BY DEF Types
<1>2. CASE ReadRows
  BY <1>2, ReadRowsTick DEF ReadRows
<1>3. CASE DrainSlice
  BY <1>3, DrainSliceTick DEF DrainSlice
<1>4. CASE SaveLiveness
  BY <1>1, <1>4, TickKeeps DEF SaveLiveness
<1>5. CASE EnqueueSuccessor
  BY <1>1, <1>5, TickKeeps DEF EnqueueSuccessor
<1>6. CASE SettleRow
  <2>1. tick'.pc = "run" /\ tick'.job = tick.job
    BY <1>1, <1>6 DEF SettleRow, Ticks
  <2> QED
    BY <1>6, <2>1 DEF SettleRow
<1>7. CASE SettleRun
  BY <1>7, SettleRunTick DEF SettleRun
<1>8. CASE MarkPending
  <2>1. tick'.pc \in {"finalize", "question", "threw"} /\ tick'.job = tick.job
    BY <1>1, <1>8, TickKeeps DEF MarkPending, Ticks
  <2> QED
    BY <1>8, <2>1 DEF MarkPending
<1>9. CASE ClearNeedsYou
  BY <1>1, <1>9, TickKeeps DEF ClearNeedsYou
<1>10. CASE OpenQuestion
  BY <1>1, <1>10, TickKeeps DEF OpenQuestion
<1>11. CASE Finalize
  BY <1>1, <1>11, TickKeeps DEF Finalize
<1>12. CASE Notify
  BY <1>1, <1>12, TickKeeps DEF Notify, Posted
<1>13. CASE EndTick
  <2>1. tick' = NoTick /\ NoTick.pc = "idle"
    BY <1>13, IdleTick, NewJobs DEF EndTick, NoTick
  <2> QED
    BY <1>13, <2>1 DEF EndTick
<1> QED
  BY <1>2, <1>3, <1>4, <1>5, <1>6, <1>7, <1>8, <1>9, <1>10, <1>11, <1>12, <1>13
     DEF TickStep

LEMMA PersonEffect ==
  ASSUME Types, PersonStep
  PROVE  /\ UNCHANGED <<relay, target, run, queue, tick, notices>>
         /\ HasSession => HasSession'
         /\ person'.pc = "write" =>
              delegation' = delegation /\ (person.pc = "write" \/ delegation = "waiting")
         /\ delegation' # delegation => person.pc = "write" /\ person'.pc # "write"
<1> USE DEF PersonUnchanged, HasSession, Retired, Types, Rows, Persons
<1>2. CASE ClaimTurn
  BY <1>2 DEF ClaimTurn
<1>3. CASE PersonAsked
  BY <1>3 DEF PersonAsked
<1>4. ASSUME NEW outcome \in {"completed", "failed"}, PersonSettles(outcome)
      PROVE  /\ UNCHANGED <<relay, target, run, queue, tick, notices, delegation>>
             /\ HasSession => HasSession'
             /\ person'.pc # "write"
  BY <1>4 DEF PersonSettles, NoTurn
<1>5. CASE ResumeRead
  BY <1>5 DEF ResumeRead, Person, NoTurn
<1>6. CASE ResumeWrite
  BY <1>6 DEF ResumeWrite, Person, NoTurn
<1>7. CASE ResumeLost
  BY <1>7 DEF ResumeLost, Person, NoTurn
<1>8. CASE Stop
  BY <1>8 DEF Stop, Retire
<1>9. CASE Archive
  BY <1>9 DEF Archive, Retire
<1> QED
  BY <1>2, <1>3, <1>4, <1>5, <1>6, <1>7, <1>8, <1>9 DEF PersonStep

---------------------------------------------------------------------------
\* The initial state.
LEMMA Initially == Init => TypeInv /\ RunInv
<1> SUFFICES ASSUME Init PROVE TypeInv /\ RunInv
  OBVIOUS
<1>1. relay \in Calls /\ relay.pc = "idle" /\ relay.armed = FALSE
  BY DEF Init, NoCall, Calls, RelayPc
<1>2. /\ NoTick \in Ticks /\ NoTick.pc = "idle" /\ NoTick.job.attempts = 0
      /\ NoTick.outcome = "none"
  BY NewJobs, IdleTick DEF NoTick
<1>3. session \in Rows
  BY DEF Init, Rows
<1>4. person \in Persons /\ person.pc = "idle"
  BY BoundAssumption DEF Init, Persons, PersonPc
<1>5. Scalars
  BY DEF Init, Scalars, DelegationStatus, Settlements
<1>6. Types
  BY <1>1, <1>2, <1>3, <1>4, <1>5, BagEmpty DEF Init, Types
<1>7. Budget
  BY <1>2, BagEmpty, BoundAssumption DEF Init, Budget
<1>8. Armed /\ Settling
  BY <1>1, <1>2, <1>4, BagEmpty DEF Init, Armed, Settling, SettlePc
<1>9. HandOff /\ Closing
  BY <1>1, <1>2 DEF Init, HandOff, Closing
<1> QED
  BY <1>6, <1>7, <1>8, <1>9 DEF TypeInv, RunInv, NoticeInv

---------------------------------------------------------------------------
\* The retry budget of the jobs.
LEMMA BudgetStep ==
  ASSUME TypeInv, Next
  PROVE  Budget'
<1> USE BoundAssumption
<1>1. /\ tick \in Ticks /\ tick.job.attempts \in Nat /\ IsABag(queue)
      /\ \A job \in BagToSet(queue) : job.attempts \in Nat
      /\ faults \in Nat /\ faults' \in 0 .. MaxFault /\ faults <= faults'
  <2>1. tick \in Ticks /\ tick.job.attempts \in Nat /\ IsABag(queue)
        /\ \A job \in BagToSet(queue) : job.attempts \in Nat
    BY DEF TypeInv, Types, Ticks, JobShape
  <2>2. faults' = faults \/ Fault
    BY DEF Next, Ask, RelayStep, TurnEnds, TurnDispatched, NotReached, RecordStart, RecordFinish,
      AdoptSession, HandOffFails, scheduleDelegationReattach, RelayFinalize, ParkDelegation,
      ParkSession, ParkQuestion, ParkFailed, Watcher, TickStep, Claim, ReadRows, DrainSlice,
      SaveLiveness, EnqueueSuccessor, SettleRow, SettleRun, MarkPending, ClearNeedsYou,
      OpenQuestion, Finalize, Notify, EndTick, PersonStep, ClaimTurn, PersonAsked,
      PersonSettles, ResumeRead, ResumeWrite, ResumeLost, Stop, Archive, Retire, PeerSettles,
      Undeploy, RemoveTeammate, DeadlinePasses, WorldUnchanged, Crash, DbError
  <2> QED
    BY <2>1, <2>2 DEF Fault, TypeInv, Budget
<1>2. CASE queue' = queue /\ tick' = tick
  BY <1>1, <1>2 DEF TypeInv, Budget
<1>3. CASE RelayStep
  <2>1. CASE queue' = queue
    BY <1>2, <1>3, <2>1, RelayEffect DEF TypeInv
  <2>2. CASE scheduleDelegationReattach
    <3>1. relay.turn \in BOOLEAN
      BY DEF TypeInv, Types, Calls
    <3> QED
      BY <1>1, <1>3, <2>2, <3>1, ArmQueue, NewJobs, RelayEffect DEF TypeInv, Budget
  <2> QED
    BY <1>3, <2>1, <2>2, RelayEffect DEF TypeInv
<1>4. CASE TickStep
  <2>1. tick'.job.attempts = 0 \/ tick'.job.attempts = tick.job.attempts
    BY <1>4, TickEffect, IdleTick, NewJobs DEF NoTick, TypeInv
  <2>2. CASE EnqueueSuccessor
    <3>1. tick.turn \in BOOLEAN
      BY DEF TypeInv, Types, Ticks
    <3> QED
      BY <1>1, <2>1, <2>2, <3>1, SuccessorQueue, NewJobs DEF TypeInv, Budget
  <2>3. CASE EndTick
    <3>1. \/ queue' = queue
          \/ /\ queue' = queue (+) SetToBag({tick.job})
             /\ tick.job.attempts < ReattachAttempts
      BY <2>3 DEF EndTick, planFailure
    <3>2. \A job \in BagToSet(queue') :
            \/ job \in BagToSet(queue)
            \/ job.attempts = tick.job.attempts /\ job.attempts < ReattachAttempts
      BY <3>1, RequeueKeeps DEF TypeInv
    <3> QED
      BY <1>1, <2>1, <3>2 DEF TypeInv, Budget
  <2>4. CASE queue' = queue
    BY <1>1, <2>1, <2>4 DEF TypeInv, Budget
  <2> QED
    BY <1>4, <2>2, <2>3, <2>4 DEF TickStep, ReadRows, DrainSlice, SaveLiveness,
      SettleRow, SettleRun, MarkPending, ClearNeedsYou, OpenQuestion, Finalize, Notify
<1>5. ASSUME NEW job \in BagToSet(queue), Claim(job)
      PROVE  Budget'
  <2>1. BagToSet(queue') \subseteq BagToSet(queue)
    BY <1>1, <1>5, BagRemove DEF Claim
  <2> QED
    BY <1>1, <1>5, <2>1, ClaimTick DEF TypeInv, Budget
<1>6. CASE PersonStep
  BY <1>2, <1>6, PersonEffect DEF TypeInv
<1>7. CASE Crash
  <2>1. BagToSet(queue') \subseteq BagToSet(queue) \cup {tick.job}
    BY <1>7, RequeueKeeps DEF Crash, TypeInv
  <2>2. tick'.job.attempts = 0
    BY <1>7, IdleTick, NewJobs DEF Crash, NoTick
  <2>3. faults' = faults + 1
    BY <1>7 DEF Crash, Fault
  <2> QED
    BY <1>1, <2>1, <2>2, <2>3 DEF TypeInv, Budget
<1> QED
  BY <1>2, <1>3, <1>4, <1>5, <1>6, <1>7 DEF Next, Ask, RelayUnchanged, Watcher,
     PeerSettles, Undeploy, RemoveTeammate, DeadlinePasses

---------------------------------------------------------------------------
\* What finishes a delegation, and announces it.
LEMMA NoticeStep ==
  ASSUME NoticeInv, Next
  PROVE  Armed' /\ Settling'
<1> USE DEF NoticeInv
<1>1. NoTick.pc = "idle" /\ notices \in Nat
  BY IdleTick, NewJobs DEF NoTick, Types, Scalars
<1>2. ASSUME NEW mode \in {"ask", "tell"}, Ask(mode)
      PROVE  Armed' /\ Settling'
  <2>1. relay'.pc = "send" /\ relay'.armed = relay.armed /\ ~relay.armed
    BY <1>2 DEF Ask, Types, Calls, Armed
  <2> QED
    BY <1>1, <1>2, <2>1 DEF Ask, RelayUnchanged, Armed, Settling, SettlePc
<1>3. CASE RelayStep
  <2>1. Armed'
    BY <1>3, RelayEffect DEF Armed, RelayOver, scheduleDelegationReattach
  <2>2. CASE relay.armed
    <3>1. delegation' = delegation
      BY <1>3, <2>2, RelayEffect DEF Armed, RelayOver
    <3>2. UNCHANGED <<tick, person, notices>> /\ relay'.pc # "idle"
      BY <1>3, RelayEffect
    <3> QED
      BY <2>1, <3>1, <3>2 DEF Settling
  <2>3. CASE ~relay.armed
    <3>1. tick.pc = "idle" /\ notices = 0
      BY <1>1, <2>3 DEF Armed
    <3>2. person.pc = "write" => delegation' \notin {"none", "running"}
      BY <1>3, RelayEffect DEF Settling
    <3>3. UNCHANGED <<tick, person, notices>> /\ relay'.pc # "idle"
      BY <1>3, RelayEffect
    <3> QED
      BY <2>1, <3>1, <3>2, <3>3 DEF Settling, SettlePc
  <2> QED
    BY <2>1, <2>2, <2>3
<1>4. CASE TickStep
  <2>1. relay.armed
    BY <1>1, <1>4, TickEffect DEF Armed
  <2>2. Armed'
    BY <1>4, <2>1, TickEffect DEF Armed
  <2>3. Settling'
    <3>1. relay'.pc # "idle"
      BY <1>4, <2>1, TickEffect DEF Armed
    <3>2. tick'.pc \in SettlePc => delegation' = "running"
      BY <1>1, <1>4, TickEffect DEF Settling
    <3>3. tick'.pc = "notice" =>
            delegation' = "completed" /\ notices' = 0 /\ person'.pc # "write"
      BY <1>1, <1>4, TickEffect DEF Settling, SettlePc
    <3>4. person'.pc = "write" => delegation' \notin {"none", "running"} /\ notices' = 0
      BY <1>1, <1>4, TickEffect DEF Settling, SettlePc
    <3>5. notices' > 0 => notices' = 1 /\ delegation' = "completed"
      BY <1>1, <1>4, TickEffect DEF Settling, SettlePc
    <3> QED
      BY <3>1, <3>2, <3>3, <3>4, <3>5 DEF Settling
  <2> QED
    BY <2>2, <2>3
<1>5. ASSUME NEW job \in BagToSet(queue), Claim(job)
      PROVE  Armed' /\ Settling'
  <2>1. relay.armed /\ tick'.pc = "read"
    BY <1>5, ClaimTick DEF Armed
  <2> QED
    BY <1>5, <2>1 DEF Claim, TickUnchanged, Armed, Settling, SettlePc
<1>6. CASE PersonStep
  <2>1. Armed'
    BY <1>6, PersonEffect DEF Armed
  <2>2. CASE delegation' = delegation
    <3>1. /\ UNCHANGED <<relay, tick, notices>>
          /\ person'.pc = "write" => person.pc = "write" \/ delegation = "waiting"
      BY <1>6, PersonEffect
    <3>2. delegation = "waiting" => notices = 0 /\ tick.pc # "notice"
      BY <1>1 DEF Settling
    <3> QED
      BY <2>1, <2>2, <3>1, <3>2 DEF Settling
  <2>3. CASE person.pc = "write" /\ person'.pc # "write"
    <3>1. /\ notices = 0 /\ delegation \notin {"none", "running"}
          /\ tick.pc \notin SettlePc /\ tick.pc # "notice" /\ relay.pc # "idle"
      BY <2>3 DEF Settling, SettlePc
    <3>2. UNCHANGED <<relay, tick, notices>>
      BY <1>6, PersonEffect
    <3> QED
      BY <2>1, <2>3, <3>1, <3>2 DEF Settling
  <2> QED
    BY <1>6, <2>1, <2>2, <2>3, PersonEffect
<1>7. CASE PeerSettles \/ Undeploy \/ RemoveTeammate \/ DeadlinePasses
  BY <1>7 DEF PeerSettles, Undeploy, RemoveTeammate, DeadlinePasses, WorldUnchanged,
     conversation, Armed, Settling
<1>8. CASE Crash
  <2>1. /\ relay'.armed = relay.armed
        /\ \/ relay' = relay
           \/ relay'.pc = "cut off" /\ relay.pc # "idle"
    BY <1>8, RelayKeeps DEF Crash, Types, RelayPc
  <2>2. person'.pc = "idle"
    BY <1>8 DEF Crash, NoTurn
  <2>3. Armed'
    BY <1>1, <1>8, <2>1 DEF Crash, Armed
  <2>4. Settling'
    BY <1>1, <1>8, <2>1, <2>2 DEF Crash, Armed, Settling, SettlePc
  <2> QED
    BY <2>3, <2>4
<1> QED
  BY <1>2, <1>3, <1>4, <1>5, <1>6, <1>7, <1>8 DEF Next, Watcher

---------------------------------------------------------------------------
\* What becomes of the run.

LEMMA RunRelayStep ==
  ASSUME RunInv, RelayStep
  PROVE  HandOff' /\ Closing'
<1> USE DEF RunInv, NoticeInv
<1>1. /\ relay \in Calls /\ session \in Rows
      /\ UNCHANGED <<tick, target, person, notices>>
      /\ relay.pc \notin RelayOver /\ relay.pc # "idle" /\ relay'.pc # "idle"
  BY RelayEffect DEF Types
<1>2. CASE relay.armed
  <2>1. /\ relay.pc = "recordStart" /\ relay.mode = "tell" /\ RecordStart
        /\ relay'.pc = "handed_off" /\ relay'.armed
    BY <1>1, <1>2, RecordStartCall DEF Armed, RelayOver, RelayStep, TurnEnds,
       TurnDispatched, NotReached, RecordFinish, AdoptSession, scheduleDelegationReattach,
       RelayFinalize, ParkDelegation, ParkSession, ParkQuestion, ParkFailed
  <2>2. UNCHANGED <<delegation, session, queue>> /\ (run' = Started(run) \/ run' = run)
    BY <2>1 DEF RecordStart
  <2>3. Closed => run = "finished"
    BY <2>1 DEF Closed
  <2>4. Closed => Closed'
    BY <2>1, <2>2, <2>3 DEF Closed, Started
  <2>5. Closing'
    BY <1>1, <1>2, <2>1, <2>2, <2>4 DEF Closing, Known, HasSession
  <2> QED
    BY <2>1, <2>5 DEF HandOff
<1>3. CASE ~relay.armed /\ relay'.armed
  <2>1. /\ scheduleDelegationReattach
        /\ \/ relay'.pc = "recordStart" /\ relay'.mode = "tell" /\ relay.turn
           \/ relay'.pc = "handed_off"
    BY <1>3, RelayEffect
  <2>2. relay.pc = "arm" /\ UNCHANGED <<delegation, session, run>>
    BY <2>1 DEF scheduleDelegationReattach
  <2>3. delegation = "running" /\ (target => HasSession) /\ (run = "running" => relay.turn)
    BY <1>3, <2>2 DEF HandOff
  <2>4. tick.pc = "idle" /\ BagToSet(queue) = {}
    BY <1>3, IdleTick, NewJobs DEF Armed, NoTick
  <2>5. relay.turn => Known'
    <3>1. ASSUME relay.turn PROVE NewJob(relay.turn).turn
      BY <3>1, NewJobs
    <3> QED
      BY <1>1, <2>1, <2>4, <3>1, ArmQueue DEF Known
  <2>6. Closed' \/ relay.turn
    BY <2>1, <2>2, <2>3 DEF Closed
  <2>7. Closing'
    BY <1>1, <2>2, <2>3, <2>4, <2>5, <2>6 DEF Closing, HasSession
  <2> QED
    BY <1>3, <2>1, <2>7, ArmCall DEF HandOff
<1>4. CASE ~relay.armed /\ ~relay'.armed
  <2>1. Closing'
    BY <1>4 DEF Closing
  <2> USE DEF HandOff, RelayPc, HasSession
  <2>2. CASE TurnEnds
    BY <1>1, <1>4, <2>1, <2>2, TurnEndsCall DEF TurnEnds
  <2>3. CASE TurnDispatched
    BY <1>1, <1>4, <2>1, <2>3, TurnDispatchedCall DEF TurnDispatched
  <2>4. CASE NotReached
    BY <1>1, <1>4, <2>1, <2>4, RelayKeeps DEF NotReached
  <2>5. CASE RecordStart
    BY <1>1, <1>4, <2>1, <2>5, RecordStartCall DEF RecordStart
  <2>6. CASE RecordFinish
    <3>1. relay'.pc \in {"fail", "handed_off", "adopt", "park", "complete"}
          /\ (relay'.pc = "adopt" => relay.pc = "recordFinish" /\ relay'.turn = relay.turn)
      BY <1>1, <2>6, RelayKeeps, NextPc DEF RecordFinish, RelayOver
    <3> QED
      BY <1>1, <1>4, <2>1, <2>6, <3>1 DEF RecordFinish
  <2>7. CASE AdoptSession
    <3>1. \/ /\ session' = [session EXCEPT !.status = "running"]
             /\ relay'.pc = "arm" /\ relay'.turn = relay.turn
          \/ relay'.pc \in {"fail", "finishRun"}
      BY <1>1, <2>7, RelayKeeps DEF AdoptSession, HandOffFails, RelayOver
    <3>2. relay'.pc = "arm" => HasSession'
      BY <1>1, <3>1 DEF Rows
    <3> QED
      BY <1>1, <1>4, <2>1, <2>7, <3>1, <3>2 DEF AdoptSession
  <2>8. CASE scheduleDelegationReattach
    <3>1. relay'.pc \in {"finishRun", "fail"}
      BY <1>4, <2>8, ArmCall
    <3> QED
      BY <1>4, <2>1, <3>1
  <2>9. CASE RelayFinalize \/ ParkDelegation \/ ParkSession \/ ParkQuestion \/ ParkFailed
    <3>1. relay'.pc \in {"denied", "replied", "threw", "parkSession", "parkFailed",
                         "parkQuestion", "waiting_on_human"}
      BY <1>1, <2>9, RelayKeeps DEF RelayFinalize, ParkDelegation, ParkSession,
         ParkQuestion, ParkFailed
    <3> QED
      BY <1>4, <2>1, <3>1
  <2> QED
    BY <2>2, <2>3, <2>4, <2>5, <2>6, <2>7, <2>8, <2>9 DEF RelayStep
<1> QED
  BY <1>2, <1>3, <1>4

LEMMA RunTickStep ==
  ASSUME RunInv, TickStep
  PROVE  HandOff' /\ Closing'
<1> USE DEF RunInv, NoticeInv
<1>1. /\ UNCHANGED <<relay, target, person>> /\ tick.pc # "idle"
      /\ tick \in Ticks /\ session \in Rows
  BY TickEffect DEF Types
<1>2. relay.armed
  BY <1>1, IdleTick, NewJobs DEF Armed, NoTick
<1>3. HasSession => HasSession'
  BY <1>1 DEF TickStep, ReadRows, DrainSlice, SaveLiveness, EnqueueSuccessor, SettleRow,
     SettleRun, MarkPending, ClearNeedsYou, OpenQuestion, Finalize, Notify, EndTick,
     SaveCursor, Cleared, Retired, HasSession, Rows
<1>4. run' = run \/ run' = "finished"
  BY DEF TickStep, ReadRows, DrainSlice, SaveLiveness, EnqueueSuccessor, SettleRow,
     SettleRun, MarkPending, ClearNeedsYou, OpenQuestion, Finalize, Notify, EndTick
<1>5. Closed => Closed'
  BY <1>1, <1>4 DEF Closed
<1>6. HandOff'
  <2>1. relay.pc \notin {"idle", "send", "adopt", "arm", "recordFinish"}
    BY <1>2 DEF Armed
  <2> QED
    BY <1>1, <1>2, <2>1 DEF HandOff
<1>7. CASE ~target
  BY <1>1, <1>6, <1>7 DEF Closing
<1>8. CASE target
  <2>1. /\ HasSession /\ HasSession' /\ (Closed \/ Known)
        /\ tick.pc \in {"needsYou", "question", "finalize"} \/ delegation # "running" => Closed
    BY <1>2, <1>3, <1>8 DEF Closing
  <2>2. CASE Closed
    BY <1>5, <1>6, <2>1, <2>2 DEF Closing
  <2>3. CASE ~Closed
    <3>1. Known /\ delegation = "running" /\ tick.pc \notin {"needsYou", "question", "finalize"}
      BY <2>1, <2>3
    <3>2. tick.job \in JobShape /\ tick.turn \in BOOLEAN /\ tick.target \in BOOLEAN
      BY <1>1 DEF Ticks
    <3>3. \/ Closed'
          \/ Known' /\ delegation' = "running" /\ tick'.pc \notin {"needsYou", "question", "finalize"}
      <4> USE <3>1 DEF Known
      <4>1. CASE ReadRows
        BY <1>8, <2>1, <4>1, ReadRowsTick DEF ReadRows
      <4>2. CASE DrainSlice
        BY <1>1, <4>2, DrainSliceTick DEF DrainSlice
      <4>3. CASE SaveLiveness
        BY <1>1, <4>3, TickKeeps DEF SaveLiveness, TickPc, SettlePc
      <4>4. CASE EnqueueSuccessor
        <5>1. tick.turn /\ tick'.pc \in {"done", "threw"} /\ tick'.job = tick.job
          BY <1>1, <4>4, TickKeeps DEF EnqueueSuccessor, TickPc
        <5>2. \A job \in BagToSet(queue') : job.turn
          BY <5>1, <4>4, SuccessorQueue, NewJobs
        <5> QED
          BY <4>4, <5>1, <5>2 DEF EnqueueSuccessor
      <4>5. CASE SettleRow
        <5>1. /\ tick'.pc = "run" /\ tick'.job = tick.job
              /\ tick'.turn = tick.turn /\ tick'.target = tick.target
          BY <1>1, <4>5 DEF SettleRow, Ticks
        <5> QED
          BY <4>5, <5>1 DEF SettleRow
      <4>6. CASE SettleRun
        <5>1. CASE run' = "finished"
          BY <5>1 DEF Closed
        <5>2. CASE Tick("threw")
          BY <1>1, <4>6, <5>2, TickKeeps DEF SettleRun, TickPc
        <5> QED
          BY <4>6, <5>1, <5>2 DEF SettleRun
      <4>7. CASE MarkPending \/ ClearNeedsYou \/ OpenQuestion \/ Finalize \/ Notify
        BY <4>7 DEF MarkPending, ClearNeedsYou, OpenQuestion, Finalize, Notify, Settling
      <4>8. CASE EndTick
        <5>1. tick'.pc = "idle" /\ delegation' = delegation
          BY <4>8, IdleTick, NewJobs DEF EndTick, NoTick
        <5>2. \A job \in BagToSet(queue') : job.turn
          BY <1>1, <4>8, RequeueKeeps DEF EndTick
        <5> QED
          BY <5>1, <5>2
      <4> QED
        BY <4>1, <4>2, <4>3, <4>4, <4>5, <4>6, <4>7, <4>8 DEF TickStep
    <3> QED
      BY <1>6, <2>1, <3>3 DEF Closing
  <2> QED
    BY <2>2, <2>3
<1> QED
  BY <1>7, <1>8

LEMMA RunStep ==
  ASSUME RunInv, Next
  PROVE  HandOff' /\ Closing'
<1> USE DEF RunInv, NoticeInv
<1>1. ASSUME NEW mode \in {"ask", "tell"}, Ask(mode)
      PROVE  HandOff' /\ Closing'
  <2>1. /\ relay'.pc = "send" /\ relay'.armed = relay.armed /\ ~relay.armed
        /\ run' = "none" /\ delegation' = "running"
    BY <1>1 DEF Ask, Types, Calls, Armed, HandOff
  <2> QED
    BY <2>1 DEF HandOff, Closing
<1>2. ASSUME NEW job \in BagToSet(queue), Claim(job)
      PROVE  HandOff' /\ Closing'
  <2>1. /\ UNCHANGED <<relay, target, session, run, delegation>>
        /\ tick'.pc = "read" /\ tick'.job.turn = job.turn
        /\ BagToSet(queue') \subseteq BagToSet(queue)
    BY <1>2, ClaimTick, BagRemove DEF Claim, TickUnchanged, Types
  <2> QED
    BY <2>1 DEF HandOff, Closing, Closed, Known, HasSession
<1>3. CASE PersonStep
  <2>1. /\ UNCHANGED <<relay, target, run, queue, tick>>
        /\ HasSession => HasSession'
        /\ delegation' # delegation => person.pc = "write"
    BY <1>3, PersonEffect
  <2>2. delegation' # delegation => delegation \notin {"none", "running"}
    BY <2>1 DEF Settling
  <2> QED
    BY <2>1, <2>2 DEF HandOff, Closing, Closed, Known
<1>4. CASE PeerSettles \/ Undeploy \/ RemoveTeammate \/ DeadlinePasses
  <2>1. /\ UNCHANGED <<relay, queue, tick, delegation, run>>
        /\ target' => target /\ session' = session
    BY <1>4 DEF PeerSettles, Undeploy, RemoveTeammate, DeadlinePasses, WorldUnchanged,
       conversation
  <2> QED
    BY <2>1 DEF HandOff, Closing, Closed, Known, HasSession
<1>5. CASE Crash
  <2>1. /\ UNCHANGED <<delegation, run, session, target>>
        /\ tick' = NoTick /\ NoTick.pc = "idle"
    BY <1>5, IdleTick, NewJobs DEF Crash, NoTick
  <2>2. /\ relay'.armed = relay.armed
        /\ \/ relay' = relay
           \/ relay'.pc = "cut off"
    BY <1>5, RelayKeeps DEF Crash, Types, RelayPc
  <2>3. Known => Known'
    <3>1. CASE tick = NoTick
      BY <1>5, <2>1, <3>1 DEF Crash, Known
    <3>2. CASE tick # NoTick
      BY <1>5, <2>1, <3>2, RequeueKeeps DEF Crash, Known, Armed
    <3> QED
      BY <3>1, <3>2
  <2> QED
    BY <2>1, <2>2, <2>3 DEF HandOff, Closing, Closed, HasSession
<1> QED
  BY <1>1, <1>2, <1>3, <1>4, <1>5, RunRelayStep, RunTickStep DEF Next, Watcher

---------------------------------------------------------------------------
\* A step that changes nothing.
LEMMA Stutter ==
  ASSUME TypeInv, RunInv, UNCHANGED vars
  PROVE  TypeInv' /\ RunInv'
<1>1. /\ delegation' = delegation /\ relay' = relay /\ peer' = peer
      /\ target' = target /\ session' = session /\ question' = question
      /\ run' = run /\ queue' = queue /\ tick' = tick /\ notices' = notices
      /\ person' = person /\ faults' = faults
      /\ gaveUp' = gaveUp /\ late' = late
  BY DEF vars, conversation
<1>2. Scalars'
  BY <1>1, Zenon DEF TypeInv, Types, Scalars
<1>3. Types'
  BY <1>1, <1>2 DEF TypeInv, Types
<1>4. Budget'
  BY <1>1 DEF TypeInv, Budget
<1>5. Armed' /\ Settling'
  BY <1>1, Zenon DEF RunInv, NoticeInv, Armed, Settling
<1>6. HandOff'
  BY <1>1, Zenon DEF RunInv, HandOff, HasSession
<1>7. Closing'
  BY <1>1, Zenon DEF RunInv, Closing, Closed, Known, HasSession
<1> QED
  BY <1>3, <1>4, <1>5, <1>6, <1>7 DEF TypeInv, RunInv, NoticeInv

LEMMA Invariant == Spec => [](TypeInv /\ RunInv)
<1>1. TypeInv /\ RunInv /\ [Next]_vars => TypeInv' /\ RunInv'
  BY Stutter, TypeStep, BudgetStep, NoticeStep, RunStep DEF TypeInv, RunInv, NoticeInv
<1> QED
  BY Initially, <1>1, PTL DEF Spec

\* The rows, the calls and the jobs stay well typed.
THEOREM TypeCorrect == Spec => []TypeOK
<1>1. TypeInv => TypeOK
  <2> SUFFICES ASSUME TypeInv PROVE TypeOK
    OBVIOUS
  <2>1. ReattachAttempts \in Nat /\ MaxFault \in Nat /\ faults \in 0 .. MaxFault
    BY BoundAssumption DEF TypeInv, Budget
  <2>2. tick.job \in Jobs
    BY <2>1 DEF TypeInv, Types, Budget, Ticks, JobShape, Jobs
  <2>3. BagToSet(queue) \subseteq Jobs
    BY <2>1 DEF TypeInv, Types, Budget, JobShape, Jobs
  <2>4. relay.mode \in {"ask", "tell"}
        /\ {relay.turn, relay.started, relay.handingOff, relay.armed} \subseteq BOOLEAN
    BY DEF TypeInv, Types, Calls
  <2>5. tick.outcome \in {"none", "parked", "completed", "failed"}
        /\ {tick.target, tick.drained, tick.turn, gaveUp, late} \subseteq BOOLEAN
    BY DEF TypeInv, Types, Ticks, Scalars
  <2>6. person.turns \in 0 .. MaxTurn
    BY DEF TypeInv, Types, Persons
  <2> QED
    BY <2>2, <2>3, <2>4, <2>5, <2>6 DEF TypeInv, Types, Scalars, Rows, TypeOK
<1> QED
  BY Invariant, <1>1, PTL

\* The end of a delegation is announced at most once, and only a completed one,
\* however many watchers, restarts and rejected calls there are.
THEOREM AnnouncedOnce == Spec => []FinishedOnce
<1>1. RunInv => FinishedOnce
  BY DEF RunInv, NoticeInv, Settling, Types, Scalars, FinishedOnce
<1> QED
  BY Invariant, <1>1, PTL

\* A handed-off delegation is not settled with its run still running.
THEOREM RunSettled == Spec => []RunClosed
<1>1. RunInv => RunClosed
  BY DEF RunInv, Closing, Closed, RunClosed
<1> QED
  BY Invariant, <1>1, PTL

---------------------------------------------------------------------
\* The question a person finds.

\* Before the call opens a conversation.
Early == {"idle", "send", "recordStart", "recordFinish", "adopt", "park", "parkSession"}

\* What the relay leaves behind: no question before it parks, its own question
\* once it has said so to its caller, and a conversation to watch.
Begun ==
  /\ person.pc # "idle" => person.turns > 0
  /\ ~relay.armed /\ relay.pc \in Early =>
       session.status = "none" /\ ~session.archived /\ question = "none" /\ person.turns = 0
  /\ ~relay.armed /\ Untouched =>
       /\ relay.pc \in {"arm", "parkQuestion"} => question = "none"
       /\ relay.pc = "parkQuestion" => session.pending
       /\ relay.pc = "waiting_on_human" => question = "open" /\ session.pending
  /\ relay.armed \/ relay.pc = "arm" => session.status # "none"

Parking == tick.pc = "finalize" /\ tick.outcome = "parked"

\* What the watcher's ticks leave behind in a conversation nobody touched.  A
\* question that is open though the delegation still runs is that of a tick which
\* failed after it had filed it; the one fault is then spent, and the next tick can
\* only repeat the park or, of a turn that has gone on to end, resolve it.
Asking ==
  relay.armed /\ Untouched /\ faults <= 1 =>
    /\ tick.pc = "question" => session.pending /\ tick.outcome = "parked"
    /\ Parking \/ delegation = "waiting" => question = "open" /\ session.pending
    /\ question = "open" /\ delegation = "running" => faults = 1 \/ Parking
    /\ question = "answered" /\ delegation = "running" =>
         faults = 1 /\ tick.pc = "finalize"

\* The inductive invariant behind WaitingAsked.
AskInv == TypeInv /\ RunInv /\ Begun /\ Asking

\* A fault is counted, and never forgotten.
LEMMA FaultCount ==
  ASSUME TypeInv, Next
  PROVE  /\ faults \in Nat /\ faults' \in Nat
         /\ faults' = faults \/ faults' = faults + 1
<1>1. faults' = faults \/ Fault
  BY DEF Next, Ask, RelayStep, TurnEnds, TurnDispatched, NotReached, RecordStart, RecordFinish,
    AdoptSession, HandOffFails, scheduleDelegationReattach, RelayFinalize, ParkDelegation,
    ParkSession, ParkQuestion, ParkFailed, Watcher, TickStep, Claim, ReadRows, DrainSlice,
    SaveLiveness, EnqueueSuccessor, SettleRow, SettleRun, MarkPending, ClearNeedsYou,
    OpenQuestion, Finalize, Notify, EndTick, PersonStep, ClaimTurn, PersonAsked,
    PersonSettles, ResumeRead, ResumeWrite, ResumeLost, Stop, Archive, Retire, PeerSettles,
    Undeploy, RemoveTeammate, DeadlinePasses, WorldUnchanged, Crash, DbError
<1> QED
  BY <1>1, BoundAssumption DEF Fault, TypeInv, Budget

\* A step that leaves the question, the park and the delegation alone, and is no
\* step of a tick that puts the question.
LEMMA AskKept ==
  ASSUME AskInv, Next, relay.armed, Untouched,
         UNCHANGED <<delegation, question>>, session'.pending = session.pending,
         \/ tick' = tick
         \/ tick.pc \notin {"question", "finalize"} /\ tick'.pc \notin {"question", "finalize"}
  PROVE  Asking'
BY FaultCount DEF AskInv, Asking, Parking

LEMMA AskRelayStep ==
  ASSUME AskInv, RelayStep
  PROVE  Begun' /\ Asking'
<1>0. AskInv /\ Types /\ Armed /\ HandOff /\ Begun
  BY DEF AskInv, RunInv, NoticeInv
<1> USE <1>0
<1>1. /\ relay \in Calls /\ session \in Rows /\ question \in {"none", "open", "answered"}
      /\ UNCHANGED <<tick, person>> /\ Next
      /\ relay.pc \notin RelayOver /\ relay.pc # "idle" /\ relay'.pc # "idle"
  BY RelayEffect DEF Types, Scalars, Next
<1>2. CASE relay.armed
  <2>1. /\ RecordStart /\ relay'.pc = "handed_off" /\ relay'.armed
    BY <1>1, <1>2, RecordStartCall DEF Armed, RelayOver, RelayStep, TurnEnds,
       TurnDispatched, NotReached, RecordFinish, AdoptSession, scheduleDelegationReattach,
       RelayFinalize, ParkDelegation, ParkSession, ParkQuestion, ParkFailed
  <2>2. UNCHANGED <<delegation, session, question>>
    BY <2>1 DEF RecordStart
  <2>3. Begun'
    BY <1>1, <1>2, <2>1, <2>2 DEF Begun
  <2>4. Untouched' => Untouched
    BY <1>1, <2>2 DEF Untouched
  <2>5. Untouched => Asking'
    BY <1>1, <1>2, <2>2, AskKept
  <2> QED
    BY <2>3, <2>4, <2>5 DEF Asking
<1>3. CASE ~relay.armed /\ relay'.armed
  <2>1. /\ scheduleDelegationReattach /\ relay.pc = "arm"
        /\ UNCHANGED <<delegation, session, question>>
    BY <1>3, RelayEffect DEF scheduleDelegationReattach
  <2>2. delegation = "running" /\ tick.pc = "idle"
    BY <1>3, <2>1, IdleTick, NewJobs DEF HandOff, Armed, NoTick
  <2>3. Begun'
    BY <1>1, <1>3, <2>1 DEF Begun
  <2>4. Untouched' => Untouched /\ question = "none"
    BY <1>1, <1>3, <2>1 DEF Untouched, Begun
  <2>5. Asking'
    BY <1>1, <2>1, <2>2, <2>4 DEF Asking, Parking
  <2> QED
    BY <2>3, <2>5
<1>4. CASE ~relay.armed /\ ~relay'.armed
  <2>1. Asking'
    BY <1>4 DEF Asking
  <2>2. person'.pc # "idle" => person'.turns > 0
    BY <1>1 DEF Begun
  <2> USE DEF Early, RelayPc, RelayOver
  <2>3. CASE UNCHANGED <<session, question>> /\ relay.pc \in Early
             /\ relay'.pc \notin {"arm", "parkQuestion", "waiting_on_human"}
    BY <1>1, <1>4, <2>1, <2>2, <2>3 DEF Begun
  <2>4. CASE UNCHANGED <<session, question>> /\ relay'.pc \notin Early
             /\ relay'.pc \notin {"arm", "parkQuestion", "waiting_on_human"}
    BY <1>4, <2>1, <2>2, <2>4 DEF Begun
  <2>5. CASE TurnEnds
    BY <1>1, <2>3, <2>5, TurnEndsCall DEF TurnEnds
  <2>6. CASE TurnDispatched
    BY <1>1, <2>3, <2>6, TurnDispatchedCall DEF TurnDispatched
  <2>7. CASE NotReached
    BY <1>1, <2>3, <2>7, RelayKeeps DEF NotReached
  <2>8. CASE RecordStart
    BY <1>1, <2>3, <2>8, RecordStartCall DEF RecordStart
  <2>9. CASE RecordFinish
    <3>1. \/ relay.pc = "finishRun" /\ relay'.pc = "fail"
          \/ relay.pc = "recordFinish"
             /\ relay'.pc \in {"fail", "handed_off", "adopt", "park", "complete"}
      BY <1>1, <2>9, RelayKeeps, NextPc DEF RecordFinish
    <3> QED
      BY <2>3, <2>4, <2>9, <3>1 DEF RecordFinish
  <2>10. CASE AdoptSession
    <3>1. \/ /\ session' = [session EXCEPT !.status = "running"]
             /\ relay'.pc = "arm"
          \/ relay'.pc \in {"fail", "finishRun"} /\ session' = session
      BY <1>1, <2>10, RelayKeeps DEF AdoptSession, HandOffFails
    <3>2. session' = [session EXCEPT !.status = "running"] => session'.status # "none"
      BY <1>1 DEF Rows
    <3>3. question = "none" /\ question' = question
      BY <1>4, <2>10 DEF AdoptSession, Begun
    <3> QED
      BY <1>4, <2>1, <2>2, <2>4, <3>1, <3>2, <3>3 DEF Begun
  <2>11. CASE scheduleDelegationReattach
    <3>1. relay'.pc \in {"finishRun", "fail"}
      BY <1>4, <2>11, ArmCall
    <3> QED
      BY <2>4, <2>11, <3>1 DEF scheduleDelegationReattach
  <2>12. CASE RelayFinalize \/ ParkFailed
    <3>1. relay'.pc \in {"denied", "replied", "threw"}
      BY <1>1, <2>12, RelayKeeps DEF RelayFinalize, ParkFailed
    <3> QED
      BY <2>4, <2>12, <3>1 DEF RelayFinalize, ParkFailed
  <2>13. CASE ParkDelegation
    <3>1. relay'.pc \in {"parkSession", "parkFailed"}
      BY <1>1, <2>13, RelayKeeps DEF ParkDelegation
    <3> QED
      BY <2>3, <2>13, <3>1 DEF ParkDelegation
  <2>14. CASE ParkSession
    <3>1. \/ /\ session' = [session EXCEPT !.status = "waiting", !.pending = TRUE]
             /\ relay'.pc = "parkQuestion"
          \/ relay'.pc = "parkFailed" /\ session' = session
      BY <1>1, <2>14, RelayKeeps DEF ParkSession
    <3>2. session' = [session EXCEPT !.status = "waiting", !.pending = TRUE]
            => session'.pending
      BY <1>1 DEF Rows
    <3>3. question = "none" /\ question' = question
      BY <1>4, <2>14 DEF ParkSession, Begun
    <3> QED
      BY <1>4, <2>1, <2>2, <2>4, <3>1, <3>2, <3>3 DEF Begun
  <2>15. CASE ParkQuestion
    <3>1. \/ relay'.pc = "waiting_on_human" /\ question' = Opened(question)
          \/ relay'.pc = "parkFailed" /\ question' = question
      BY <1>1, <2>15, RelayKeeps DEF ParkQuestion
    <3>2. session' = session /\ relay.pc = "parkQuestion"
      BY <2>15 DEF ParkQuestion
    <3>3. Untouched => question = "none" /\ session.pending
      BY <1>4, <3>2 DEF Begun
    <3>4. Untouched' => Untouched
      BY <1>1, <3>2 DEF Untouched
    <3> QED
      BY <1>4, <2>1, <2>2, <2>4, <3>1, <3>2, <3>3, <3>4 DEF Begun, Opened
  <2> QED
    BY <2>1, <2>5, <2>6, <2>7, <2>8, <2>9, <2>10, <2>11, <2>12, <2>13, <2>14, <2>15
       DEF RelayStep
<1> QED
  BY <1>2, <1>3, <1>4

\* The rows a tick writes: nothing it does makes a conversation, or un-retires one.
LEMMA TickRows ==
  ASSUME Types, TickStep
  PROVE  /\ session'.archived = session.archived
         /\ session'.status = "none" <=> session.status = "none"
         /\ session.status \in {"stopped", "gone"} => session'.status = session.status
         /\ tick.pc # "needsYou" => session'.pending = session.pending
<1> USE DEF Types, Rows
<1>1. CASE session' = session
  BY <1>1
<1>2. CASE SaveLiveness
  BY <1>2 DEF SaveLiveness, SaveCursor, Retired, HasSession
<1>3. CASE SettleRow
  BY <1>3 DEF SettleRow, SaveCursor, Retired, HasSession
<1>4. CASE MarkPending
  BY <1>4 DEF MarkPending
<1>5. CASE ClearNeedsYou
  BY <1>5 DEF ClearNeedsYou, Cleared
<1> QED
  BY <1>1, <1>2, <1>3, <1>4, <1>5 DEF TickStep, ReadRows, DrainSlice, EnqueueSuccessor,
     SettleRun, OpenQuestion, Finalize, Notify, EndTick

LEMMA AskTickStep ==
  ASSUME AskInv, TickStep
  PROVE  Begun' /\ Asking'
<1> USE DEF AskInv, RunInv, NoticeInv
<1>1. /\ UNCHANGED <<relay, person>> /\ tick.pc # "idle" /\ Next
      /\ tick \in Ticks /\ session \in Rows /\ question \in {"none", "open", "answered"}
  BY TickEffect DEF Types, Scalars, Next, Watcher
<1>2. relay.armed
  BY <1>1, IdleTick, NewJobs DEF Armed, NoTick
<1>3. Begun'
  BY <1>1, <1>2, TickRows DEF Begun
<1>4. SUFFICES ASSUME Untouched', faults' <= 1
               PROVE  Asking'
  BY <1>3 DEF Asking
<1>5. Untouched /\ faults \in Nat /\ faults <= 1 /\ (faults' = faults \/ faults' = faults + 1)
  BY <1>1, <1>4, TickRows, FaultCount DEF Untouched
<1>6. HasSession /\ ~Retired
  BY <1>2, <1>5 DEF Untouched, Begun, HasSession, Retired
<1>7. CASE tick.pc \notin {"needsYou", "question", "finalize"}
           /\ tick'.pc \notin {"question", "finalize"} /\ UNCHANGED <<delegation, question>>
  BY <1>1, <1>2, <1>5, <1>7, TickRows, AskKept
<1> USE DEF TickPc, SettlePc
<1>8. CASE ReadRows
  BY <1>6, <1>7, <1>8, ReadRowsTick DEF ReadRows
<1>9. CASE DrainSlice
  BY <1>7, <1>9, DrainSliceTick DEF DrainSlice
<1>10. CASE SaveLiveness
  BY <1>1, <1>7, <1>10, TickKeeps DEF SaveLiveness
<1>11. CASE EnqueueSuccessor
  BY <1>1, <1>7, <1>11, TickKeeps DEF EnqueueSuccessor
<1>12. CASE SettleRow
  <2>1. tick'.pc = "run"
    BY <1>1, <1>12 DEF SettleRow, Ticks
  <2> QED
    BY <1>7, <1>12, <2>1 DEF SettleRow
<1>13. CASE SettleRun
  BY <1>7, <1>13, SettleRunTick DEF SettleRun
<1>14. CASE MarkPending
  <2>1. /\ delegation = "running" /\ tick.pc = "needsYou" /\ tick.outcome = "parked"
        /\ UNCHANGED <<delegation, question>>
    BY <1>14 DEF MarkPending, Settling
  <2>2. question # "answered" /\ (question = "open" => faults = 1)
    BY <1>1, <1>2, <1>5, <2>1 DEF Asking, Parking
  <2>3. \/ /\ session' = [session EXCEPT !.pending = TRUE]
           /\ tick' = [tick EXCEPT !.pc = "question"]
        \/ Tick("threw")
    BY <1>6, <1>14 DEF MarkPending
  <2>4. \/ session'.pending /\ tick'.pc = "question" /\ tick'.outcome = "parked"
        \/ tick'.pc = "threw"
    BY <1>1, <2>1, <2>3, TickKeeps DEF Rows, Ticks
  <2> QED
    BY <1>4, <1>5, <2>1, <2>2, <2>4 DEF Asking, Parking
<1>15. CASE ClearNeedsYou
  <2>1. /\ delegation = "running" /\ delegation' = delegation
        /\ tick.pc = "needsYou" /\ tick.outcome # "parked"
        /\ tick'.pc = "finalize" /\ tick'.outcome # "parked"
    BY <1>1, <1>15, TickKeeps DEF ClearNeedsYou, Settling
  <2>2. question # "answered" /\ (question = "open" => faults = 1)
    BY <1>1, <1>2, <1>5, <2>1 DEF Asking, Parking
  <2>3. \/ question' = Resolved(question) /\ faults' = faults
        \/ question' = question /\ faults' = faults + 1
    BY <1>15 DEF ClearNeedsYou, DbError, Fault
  <2> QED
    BY <1>1, <1>4, <1>5, <2>1, <2>2, <2>3 DEF Asking, Parking, Resolved
<1>16. CASE OpenQuestion
  <2>1. /\ delegation = "running" /\ UNCHANGED <<delegation, session>> /\ tick.pc = "question"
    BY <1>16 DEF OpenQuestion, Settling
  <2>2. /\ session.pending /\ tick.outcome = "parked"
        /\ question # "answered" /\ (question = "open" => faults = 1)
    BY <1>1, <1>2, <1>5, <2>1 DEF Asking, Parking
  <2>3. \/ question' = Opened(question) /\ Tick("finalize")
        \/ question' = question /\ faults' = faults + 1 /\ Tick("threw")
    BY <1>6, <1>16 DEF OpenQuestion, DbError, Fault
  <2>4. \/ /\ question' = Opened(question)
           /\ tick'.pc = "finalize" /\ tick'.outcome = "parked"
        \/ question' = question /\ faults' = faults + 1 /\ tick'.pc = "threw"
    BY <1>1, <2>2, <2>3, TickKeeps
  <2> QED
    BY <1>1, <1>4, <1>5, <2>1, <2>2, <2>4 DEF Asking, Parking, Opened
<1>17. CASE Finalize
  <2>1. /\ delegation = "running" /\ UNCHANGED <<question, session>> /\ tick.pc = "finalize"
    BY <1>17 DEF Finalize, Settling
  <2>2. /\ tick.outcome = "parked" => question = "open" /\ session.pending
        /\ question = "answered" => faults = 1
    BY <1>1, <1>2, <1>5, <2>1 DEF Asking, Parking
  <2>3. \/ /\ delegation' = IF tick.outcome = "parked" THEN "waiting" ELSE tick.outcome
           /\ Tick("notice") \/ Tick("done")
        \/ delegation' = delegation /\ faults' = faults + 1 /\ Tick("threw")
    BY <1>17 DEF Finalize, DbError, Fault
  <2>4. \/ /\ delegation' # "running" /\ (delegation' = "waiting" => tick.outcome = "parked")
           /\ tick'.pc \notin {"question", "finalize"}
        \/ delegation' = delegation /\ faults' = faults + 1 /\ tick'.pc = "threw"
    BY <1>1, <2>3, TickKeeps DEF Ticks
  <2> QED
    BY <1>1, <1>4, <1>5, <2>1, <2>2, <2>4 DEF Asking, Parking
<1>18. CASE Notify
  BY <1>1, <1>7, <1>18, TickKeeps DEF Notify
<1>19. CASE EndTick
  <2>1. tick'.pc = "idle"
    BY <1>19, IdleTick, NewJobs DEF EndTick, NoTick
  <2> QED
    BY <1>7, <1>19, <2>1 DEF EndTick
<1> QED
  BY <1>8, <1>9, <1>10, <1>11, <1>12, <1>13, <1>14, <1>15, <1>16, <1>17, <1>18, <1>19
     DEF TickStep

\* Whatever a person does touches the conversation.
LEMMA AskPersonStep ==
  ASSUME AskInv, PersonStep
  PROVE  Begun' /\ Asking'
<1> USE DEF AskInv, RunInv, NoticeInv
<1>1. /\ person \in Persons /\ session \in Rows /\ relay' = relay
  BY PersonEffect DEF Types
<1>2. /\ ~Untouched'
      /\ person'.pc # "idle" => person'.turns > 0
      /\ person.turns > 0 \/ HasSession
      /\ session'.status = "none" => session.status = "none"
  <2> USE <1>1 DEF Persons, Rows, Begun, Untouched
  <2>1. CASE ClaimTurn
    BY <2>1 DEF ClaimTurn
  <2>2. CASE PersonAsked
    BY <2>2 DEF PersonAsked
  <2>3. ASSUME NEW outcome \in {"completed", "failed"}, PersonSettles(outcome)
        PROVE  <1>2!1 /\ <1>2!2 /\ <1>2!3 /\ <1>2!4
    <3>1. person.turns > 0
      BY <2>3 DEF PersonSettles
    <3>2. person'.turns = person.turns
      BY <2>3 DEF PersonSettles, NoTurn
    <3>3. session'.status = "none" => session.status = "none"
      BY <2>3 DEF PersonSettles
    <3> QED
      BY <3>1, <3>2, <3>3
  <2>4. CASE ResumeRead
    BY <2>4 DEF ResumeRead, Person, NoTurn
  <2>5. CASE ResumeWrite
    BY <2>5 DEF ResumeWrite, Person, NoTurn
  <2>6. CASE ResumeLost
    BY <2>6 DEF ResumeLost, Person, NoTurn
  <2>7. CASE Stop
    BY <2>7 DEF Stop, Retire
  <2>8. CASE Archive
    BY <2>8 DEF Archive, Retire
  <2> QED
    BY <2>1, <2>2, <2>3, <2>4, <2>5, <2>6, <2>7, <2>8 DEF PersonStep
<1>3. relay.armed \/ relay.pc \notin Early
  BY <1>1, <1>2 DEF Begun, HasSession, Persons
<1> QED
  BY <1>1, <1>2, <1>3 DEF Begun, Asking

LEMMA AskStep ==
  ASSUME AskInv, Next
  PROVE  Begun' /\ Asking'
<1> USE DEF AskInv, RunInv, NoticeInv
<1>1. /\ relay \in Calls /\ tick \in Ticks /\ session \in Rows
  BY DEF Types
<1>2. ASSUME NEW mode \in {"ask", "tell"}, Ask(mode)
      PROVE  Begun' /\ Asking'
  <2>1. /\ relay.pc = "idle" /\ relay'.pc = "send" /\ ~relay.armed /\ ~relay'.armed
        /\ UNCHANGED <<session, question, person>>
    BY <1>1, <1>2 DEF Ask, RelayUnchanged, Calls, Armed
  <2> QED
    BY <2>1 DEF Begun, Asking, Early
<1>3. CASE \E job \in BagToSet(queue) : Claim(job)
  <2>1. /\ UNCHANGED <<relay, session, question, person, delegation>>
        /\ tick.pc = "idle" /\ tick'.pc = "read"
    BY <1>3, ClaimTick DEF Claim, TickUnchanged
  <2>2. Begun' /\ (Untouched' => Untouched)
    BY <2>1 DEF Begun, Untouched
  <2>3. relay.armed /\ Untouched => Asking'
    BY <2>1, AskKept
  <2> QED
    BY <2>1, <2>2, <2>3 DEF Asking
<1>4. CASE PeerSettles \/ Undeploy \/ DeadlinePasses
  <2>1. UNCHANGED <<relay, session, question, person, delegation, tick>>
    BY <1>4 DEF PeerSettles, Undeploy, DeadlinePasses, WorldUnchanged, conversation
  <2>2. Begun' /\ (Untouched' => Untouched)
    BY <2>1 DEF Begun, Untouched
  <2>3. relay.armed /\ Untouched => Asking'
    BY <2>1, AskKept
  <2> QED
    BY <2>1, <2>2, <2>3 DEF Asking
<1>5. CASE RemoveTeammate
  <2>1. /\ UNCHANGED <<relay, person>> /\ session'.status = "gone" /\ HasSession
    BY <1>5 DEF RemoveTeammate
  <2> QED
    BY <2>1 DEF Begun, Asking, Untouched, HasSession
<1>6. CASE Crash
  <2>1. /\ UNCHANGED <<delegation, session, question>> /\ faults' = faults + 1
        /\ tick'.pc = "idle" /\ person'.pc = "idle" /\ person'.turns = person.turns
    BY <1>6, IdleTick, NewJobs DEF Crash, Fault, NoTick, NoTurn
  <2>2. /\ relay'.armed = relay.armed
        /\ relay' = relay \/ relay'.pc = "cut off"
    BY <1>1, <1>6, RelayKeeps DEF Crash, RelayPc
  <2>3. Untouched' => Untouched
    BY <2>1 DEF Untouched
  <2>4. Begun'
    BY <2>1, <2>2, <2>3 DEF Begun, Early
  <2>5. Asking'
    <3>1. faults \in Nat
      BY FaultCount
    <3> SUFFICES ASSUME relay'.armed, Untouched', faults' <= 1 PROVE Asking'
      BY DEF Asking
    <3>2. faults = 0 /\ faults' = 1
      BY <2>1, <3>1
    <3>3. Asking /\ relay.armed /\ Untouched
      BY <2>2, <2>3
    <3>4. /\ tick'.pc \notin {"question", "finalize"}
          /\ delegation = "waiting" => question = "open" /\ session.pending
          /\ ~(question = "answered" /\ delegation = "running")
      BY <2>1, <3>2, <3>3 DEF Asking
    <3> QED
      BY <2>1, <3>2, <3>4 DEF Asking, Parking
  <2> QED
    BY <2>4, <2>5
<1> QED
  BY <1>2, <1>3, <1>4, <1>5, <1>6, AskRelayStep, AskTickStep, AskPersonStep DEF Next, Watcher

\* A delegation that waits for a person has put its question in front of them,
\* through one restart or rejected call, whoever parked it.
THEOREM QuestionFound == Spec => []WaitingAsked
<1>1. Init => Begun /\ Asking
  BY DEF Init, NoCall, Begun, Asking
<1>2. TypeInv /\ RunInv /\ Begun /\ Asking /\ [Next]_vars => Begun' /\ Asking'
  <2>1. ASSUME Begun, Asking, UNCHANGED vars
        PROVE  Begun' /\ Asking'
    <3>1. UNCHANGED <<relay, session, question, person, tick, delegation, faults>>
      BY <2>1 DEF vars, conversation
    <3> QED
      BY <2>1, <3>1, Zenon DEF Begun, Asking, Untouched, Parking
  <2> QED
    BY <2>1, AskStep DEF AskInv
<1>3. RunInv /\ Begun /\ Asking => WaitingAsked
  BY DEF RunInv, NoticeInv, Armed, Begun, Asking, WaitingAsked
<1> QED
  BY Invariant, <1>1, <1>2, <1>3, PTL DEF Spec
=============================================================================
