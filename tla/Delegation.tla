----------------------------- MODULE Delegation -----------------------------
(***************************************************************************)
(* One turn delegated to a teammate: the relay that asks or tells it       *)
(* (team/ask.server.ts), the watcher that takes over when the relay lets   *)
(* go (team/reattach.server.ts), the conversation a person sees, stops,    *)
(* archives or answers (playground/, foh/, chat/turn-stream.server.ts) and *)
(* the settling of an answered turn (team/resume.server.ts).               *)
(***************************************************************************)
EXTENDS Naturals, Bags

CONSTANTS MaxTurn,      \* bound: turns of a person in the conversation
          MaxFault,     \* bound: restarts and rejected database calls
          ReattachAttempts    \* maxAttempts of the watcher's jobs (3)

ASSUME BoundAssumption == {MaxTurn, MaxFault} \subseteq Nat /\ ReattachAttempts \in Nat \ {0}

VARIABLES
  delegation,   \* delegations.status
  relay,        \* the runAsk call
  peer,         \* the delegated turn inside the teammate's container
  target,       \* the teammate's environment has a deployment to reach
  session,      \* the playground_sessions row of the conversation
  question,     \* the inbox item of the conversation's newest question
  run,          \* the runs row of the delegated turn
  queue,        \* the reattach_delegation jobs that are queued, a bag
  tick,         \* the one the worker executes
  gaveUp,       \* one of them has failed for good
  late,         \* the deadline of the watcher has passed
  person,       \* the turn a person sends into the conversation
  notices,      \* finished notices posted by the watcher
  faults        \* restarts and rejected calls so far

conversation == <<session, question, person>>
vars == <<delegation, relay, peer, target, conversation, run, queue, tick,
          gaveUp, late, notices, faults>>

NewJob(turn) == [attempts |-> 0, turn |-> turn]    \* the turn's id is known or not
Idle(job) == [pc |-> "idle", job |-> job, target |-> FALSE, drained |-> FALSE,
              turn |-> FALSE, outcome |-> "none"]
NoTick == Idle(NewJob(FALSE))
NoCall == [pc |-> "idle", mode |-> "ask", turn |-> FALSE, started |-> FALSE,
           handingOff |-> FALSE, armed |-> FALSE]

Init ==
  /\ delegation = "none"
  /\ relay = NoCall
  /\ peer = "none" /\ target = TRUE
  /\ session = [status |-> "none", pending |-> FALSE, archived |-> FALSE]
  /\ question = "none" /\ run = "none"
  /\ queue = EmptyBag /\ tick = NoTick /\ gaveUp = FALSE /\ late = FALSE
  /\ person = [pc |-> "idle", turns |-> 0, outcome |-> "none"]
  /\ notices = 0
  /\ faults = 0

Fault == faults < MaxFault /\ faults' = faults + 1
DbError == Fault    \* a database call rejects

---------------------------------------------------------------------------
\* The rows.

\* Seeded bug: a start overwrites a run that has ended.
StartedAgain(r) == "running"

\* A start never reopens a run that has ended.
Started(r) == IF r = "finished" THEN r ELSE "running"

\* openInboxQuestion: a question once filed is not filed again.
Opened(q) == IF q = "none" THEN "open" ELSE q
Resolved(q) == IF q = "open" THEN "answered" ELSE q

HasSession == session.status \notin {"none", "gone"}
\* The guards of the writers: a stopped or archived conversation is nobody's.
Retired == ~HasSession \/ session.status = "stopped" \/ session.archived

\* savePlaygroundSessionCursor.
SaveCursor(status) ==
  session' = IF Retired THEN session ELSE [session EXCEPT !.status = status]

\* clearSessionPendingInput.
Cleared == IF session.status = "stopped" THEN session ELSE [session EXCEPT !.pending = FALSE]

---------------------------------------------------------------------------
\* runAsk and runTell.  relay.pc names the next await, then what the caller
\* was told ("denied", "replied", "waiting_on_human", "handed_off", which stands
\* for the "dispatched" of a tell too), or that the call "threw".

RelayOver == {"cut off", "denied", "replied", "handed_off", "waiting_on_human",
              "threw"}

\* What the call knew is gone when it is over.
Relayed(r) == IF r.pc \in RelayOver THEN [NoCall EXCEPT !.pc = r.pc, !.armed = r.armed] ELSE r
Relay(pc) == relay' = Relayed([relay EXCEPT !.pc = pc])

RelayUnchanged == UNCHANGED <<target, person, tick, gaveUp, late, notices>>

\* The checks and caps that may deny the call first change nothing.
Ask(mode) ==
  /\ relay.pc = "idle"
  /\ delegation' = "running"
  /\ relay' = [relay EXCEPT !.pc = "send", !.mode = mode]
  /\ UNCHANGED <<peer, session, question, run, queue, faults>> /\ RelayUnchanged

\* Where the relay goes once the turn is recorded, or could not be.
AfterRecord(r, p) ==
  IF r.mode = "tell" THEN "handed_off"
  ELSE IF r.handingOff THEN "adopt"
  ELSE IF p = "asked" THEN "park"
  ELSE IF p = "replied" THEN "complete"
  ELSE "fail"    \* failed, or without a reply

Settlements == {"asked", "replied", "mute", "failed"}

\* sendTurn returns with the turn settled, or loses its stream with the session
\* of the turn known; the id of the turn may be known or not.
TurnEnds ==
  /\ relay.pc = "send" /\ relay.mode = "ask"
  /\ \E p \in Settlements \cup {"running"}, turn \in BOOLEAN :
       LET r == [relay EXCEPT !.turn = turn, !.handingOff = p = "running"]
       IN  /\ peer' = p
           /\ relay' = [r EXCEPT !.pc = IF turn THEN "recordStart" ELSE AfterRecord(r, p)]
  /\ UNCHANGED <<delegation, session, question, run, queue, faults>> /\ RelayUnchanged

\* dispatchTurn returns with the session of the turn.
TurnDispatched ==
  /\ relay.pc = "send" /\ relay.mode = "tell"
  /\ \E turn \in BOOLEAN : relay' = [relay EXCEPT !.turn = turn, !.pc = "adopt"]
  /\ peer' = "running"
  /\ UNCHANGED <<delegation, session, question, run, queue, faults>> /\ RelayUnchanged

\* The peer is not reached, or the turn has no session to go on with.
NotReached ==
  /\ relay.pc = "send"
  /\ Relay("fail")
  /\ UNCHANGED <<delegation, peer, session, question, run, queue, faults>> /\ RelayUnchanged

\* Recording the run is best-effort, and its start needs a live deployment.
RecordStart ==
  /\ relay.pc = "recordStart"
  /\ LET after == AfterRecord(relay, peer)
         next == IF after \in {"adopt", "handed_off"} THEN after ELSE "recordFinish"
     IN  \/ /\ run' = Started(run) \/ UNCHANGED run
            /\ relay' = Relayed([relay EXCEPT !.pc = next, !.started = TRUE])
            /\ UNCHANGED faults
         \/ DbError /\ Relay(after) /\ UNCHANGED run
  /\ UNCHANGED <<delegation, peer, session, question, queue>> /\ RelayUnchanged

RecordFinish ==
  /\ relay.pc \in {"recordFinish", "finishRun"}
  /\ Relay(IF relay.pc = "finishRun" THEN "fail" ELSE AfterRecord(relay, peer))
  /\ \/ run' = "finished" /\ UNCHANGED faults
     \/ DbError /\ UNCHANGED run
  /\ UNCHANGED <<delegation, peer, session, question, queue>> /\ RelayUnchanged

\* The hand-off failed: the call ends here after all.
HandOffFails == DbError /\ Relay(IF relay.started THEN "finishRun" ELSE "fail")

\* The peer's session becomes a conversation of the team.
AdoptSession ==
  /\ relay.pc = "adopt"
  /\ \/ session' = [session EXCEPT !.status = "running"] /\ Relay("arm") /\ UNCHANGED faults
     \/ HandOffFails /\ UNCHANGED session
  /\ UNCHANGED <<delegation, peer, question, run, queue>> /\ RelayUnchanged

EnqueueWatcher(turn) == queue' = queue (+) SetToBag({NewJob(turn)})

scheduleDelegationReattach ==
  /\ relay.pc = "arm"
  /\ \/ /\ EnqueueWatcher(relay.turn)
        /\ relay' = Relayed([relay EXCEPT !.armed = TRUE,
                       !.pc = IF relay.mode = "tell" /\ relay.turn THEN "recordStart"
                              ELSE "handed_off"])
        /\ UNCHANGED faults
     \/ HandOffFails /\ UNCHANGED queue
  /\ UNCHANGED <<delegation, peer, session, question, run>> /\ RelayUnchanged

\* The relay settles the delegation itself; a rejection reaches the caller.
RelayFinalize ==
  /\ relay.pc \in {"fail", "complete"}
  /\ \/ /\ relay.pc = "fail" /\ delegation' = "failed" /\ Relay("denied")
        /\ UNCHANGED faults
     \/ /\ relay.pc = "complete" /\ delegation' = "completed" /\ Relay("replied")
        /\ UNCHANGED faults
     \/ DbError /\ Relay("threw") /\ UNCHANGED delegation
  /\ UNCHANGED <<peer, session, question, run, queue>> /\ RelayUnchanged

\* Relay parking: the delegation waits, the conversation opens, the question is
\* filed; if any of the three rejects, the delegation is failed after all.
ParkDelegation ==
  /\ relay.pc = "park"
  /\ \/ delegation' = "waiting" /\ Relay("parkSession") /\ UNCHANGED faults
     \/ DbError /\ Relay("parkFailed") /\ UNCHANGED delegation
  /\ UNCHANGED <<peer, session, question, run, queue>> /\ RelayUnchanged

ParkSession ==
  /\ relay.pc = "parkSession"
  /\ \/ /\ session' = [session EXCEPT !.status = "waiting", !.pending = TRUE]
        /\ Relay("parkQuestion") /\ UNCHANGED faults
     \/ DbError /\ Relay("parkFailed") /\ UNCHANGED session
  /\ UNCHANGED <<delegation, peer, question, run, queue>> /\ RelayUnchanged

ParkQuestion ==
  /\ relay.pc = "parkQuestion"
  /\ \/ HasSession /\ question' = Opened(question) /\ Relay("waiting_on_human")
        /\ UNCHANGED faults
     \/ ~HasSession /\ Relay("parkFailed") /\ UNCHANGED <<question, faults>>
     \/ DbError /\ Relay("parkFailed") /\ UNCHANGED question
  /\ UNCHANGED <<delegation, peer, session, run, queue>> /\ RelayUnchanged

ParkFailed ==
  /\ relay.pc = "parkFailed"
  /\ Relay("denied")
  /\ \/ delegation' = "failed" /\ UNCHANGED faults
     \/ DbError /\ UNCHANGED delegation
  /\ UNCHANGED <<peer, session, question, run, queue>> /\ RelayUnchanged

RelayStep ==
  \/ TurnEnds \/ TurnDispatched \/ NotReached \/ RecordStart \/ RecordFinish
  \/ AdoptSession \/ scheduleDelegationReattach \/ RelayFinalize
  \/ ParkDelegation \/ ParkSession \/ ParkQuestion \/ ParkFailed

---------------------------------------------------------------------------
\* The watcher.  The worker runs one tick at a time; tick.pc names its next
\* await, "done" and "threw" are what the worker is left with.

Tick(pc) == tick' = IF pc \in {"done", "threw"} THEN [Idle(tick.job) EXCEPT !.pc = pc]
                    ELSE [tick EXCEPT !.pc = pc]

TickUnchanged == UNCHANGED <<relay, peer, target, person, late>>

Claim(job) ==
  /\ tick.pc = "idle"
  /\ queue' = queue (-) SetToBag({job})
  /\ tick' = [Idle([job EXCEPT !.attempts = @ + 1]) EXCEPT !.pc = "read"]
  /\ UNCHANGED <<delegation, session, question, run, gaveUp, notices, faults>> /\ TickUnchanged

planFailure(attempts) == IF attempts < ReattachAttempts THEN "queued" ELSE "failed"

EndTick ==
  /\ tick.pc \in {"done", "threw"}
  /\ LET plan == IF tick.pc = "done" THEN "done" ELSE planFailure(tick.job.attempts)
     IN  /\ queue' = IF plan = "queued" THEN queue (+) SetToBag({tick.job}) ELSE queue
         /\ gaveUp' = (gaveUp \/ plan = "failed")
  /\ tick' = NoTick
  /\ UNCHANGED <<delegation, session, question, run, notices, faults>> /\ TickUnchanged

Reread == [tick EXCEPT !.target = target, !.turn = tick.job.turn]
\* A conversation that was stopped has its row left alone.
SettleStopped == [Reread EXCEPT !.outcome = "failed", !.pc = "run"]
SettleUndrained(t) == [t EXCEPT !.outcome = "failed", !.pc = "row"]

\* Seeded bug: a stopped conversation is left to the person who stopped it.
ReadRowsStandsDown ==
  /\ tick.pc = "read"
  /\ tick' =
       IF delegation # "running" \/ session.status = "stopped" THEN [Idle(tick.job) EXCEPT !.pc = "done"]
       ELSE IF ~HasSession THEN [tick EXCEPT !.outcome = "failed", !.pc = "finalize"]
       ELSE IF ~target THEN SettleUndrained(Reread)
       ELSE [Reread EXCEPT !.pc = "slice"]
  /\ UNCHANGED <<delegation, session, question, run, queue, gaveUp, notices, faults>> /\ TickUnchanged

\* The rows read at the head of a tick.
ReadRows ==
  /\ tick.pc = "read"
  /\ \/ /\ tick' =
             IF delegation # "running" THEN [Idle(tick.job) EXCEPT !.pc = "done"]
             ELSE IF ~HasSession THEN [tick EXCEPT !.outcome = "failed", !.pc = "finalize"]
             ELSE IF session.status = "stopped" THEN SettleStopped
             ELSE IF ~target THEN SettleUndrained(Reread)
             ELSE [Reread EXCEPT !.pc = "slice"]
        /\ UNCHANGED faults
     \/ DbError /\ Tick("threw")
  /\ UNCHANGED <<delegation, session, question, run, queue, gaveUp, notices>> /\ TickUnchanged

\* Seeded bug: the outcome of a turn that asks is not one settle knows.
OutcomeWaiting(p) == IF p = "asked" THEN "waiting" ELSE "completed"

\* settleFohTurn.
Outcome(p) == CASE p = "asked" -> "parked"
                [] p = "failed" -> "failed"
                [] OTHER -> "completed"

\* drainSlice: the turn is seen to settle, or the slice ends without it.  The
\* id of the turn may be learned on the way.
DrainSlice ==
  /\ tick.pc = "slice"
  /\ \E turn \in {tick.turn, TRUE}, drained \in BOOLEAN :
       LET t == [tick EXCEPT !.turn = turn, !.drained = drained]
       IN  \/ /\ peer \in Settlements /\ drained
              /\ tick' = [t EXCEPT !.outcome = Outcome(peer), !.pc = "row"]
           \/ /\ ~late /\ ~drained
              /\ tick' = [t EXCEPT !.pc = "cursor"]
           \/ /\ late
              /\ tick' = SettleUndrained(t)
  /\ UNCHANGED <<delegation, session, question, run, queue, gaveUp, notices, faults>> /\ TickUnchanged

SaveLiveness ==
  /\ tick.pc = "cursor"
  /\ Tick("enqueue")
  /\ \/ SaveCursor("running") /\ UNCHANGED faults
     \/ DbError /\ UNCHANGED session
  /\ UNCHANGED <<delegation, question, run, queue, gaveUp, notices>> /\ TickUnchanged

EnqueueSuccessor ==
  /\ tick.pc = "enqueue"
  /\ \/ EnqueueWatcher(tick.turn) /\ Tick("done") /\ UNCHANGED faults
     \/ DbError /\ Tick("threw") /\ UNCHANGED queue
  /\ UNCHANGED <<delegation, session, question, run, gaveUp, notices>> /\ TickUnchanged

\* settle, step 1: the conversation's row, with its end if a slice saw it.
SettleRow ==
  /\ tick.pc = "row"
  /\ tick' = [tick EXCEPT !.pc = "run", !.drained = FALSE]
  /\ \/ /\ IF tick.drained /\ tick.target
           THEN SaveCursor(IF tick.outcome = "failed" THEN "failed" ELSE "waiting")
           ELSE session' = IF session.status = "running"
                           THEN [session EXCEPT !.status = "failed"] ELSE session
        /\ UNCHANGED faults
     \/ DbError /\ UNCHANGED session
  /\ UNCHANGED <<delegation, question, run, queue, gaveUp, notices>> /\ TickUnchanged

\* Step 2: the run, if its deployment and its turn are known.
SettleRun ==
  /\ tick.pc = "run"
  /\ \/ /\ run' = IF tick.target /\ tick.turn THEN "finished" ELSE run
        /\ tick' = [Idle(tick.job) EXCEPT !.pc = "needsYou", !.outcome = tick.outcome]
        /\ UNCHANGED faults
     \/ tick.target /\ tick.turn /\ DbError /\ Tick("threw") /\ UNCHANGED run
  /\ UNCHANGED <<delegation, session, question, queue, gaveUp, notices>> /\ TickUnchanged

\* Step 3, markSessionPendingInput: a retired conversation takes no park, and
\* the turn has failed.
MarkPending ==
  /\ tick.pc = "needsYou" /\ tick.outcome = "parked"
  /\ \/ /\ session' = IF Retired THEN session ELSE [session EXCEPT !.pending = TRUE]
        /\ tick' = IF Retired THEN [tick EXCEPT !.outcome = "failed", !.pc = "finalize"]
                   ELSE [tick EXCEPT !.pc = "question"]
        /\ UNCHANGED faults
     \/ DbError /\ Tick("threw") /\ UNCHANGED session
  /\ UNCHANGED <<delegation, question, run, queue, gaveUp, notices>> /\ TickUnchanged

\* Step 3, of a turn that ended: clear the park, resolve the questions; what is
\* lost is logged.
ClearNeedsYou ==
  /\ tick.pc = "needsYou" /\ tick.outcome # "parked"
  /\ Tick("finalize")
  /\ \/ session' = Cleared /\ question' = Resolved(question) /\ UNCHANGED faults
     \/ DbError /\ session' \in {session, Cleared} /\ UNCHANGED question
  /\ UNCHANGED <<delegation, run, queue, gaveUp, notices>> /\ TickUnchanged

\* Seeded bug: a question that cannot be filed is logged.
OpenQuestionLogged ==
  /\ tick.pc = "question"
  /\ Tick("finalize")
  /\ \/ question' = Opened(question) /\ UNCHANGED faults
     \/ DbError /\ UNCHANGED question
  /\ UNCHANGED <<delegation, session, run, queue, gaveUp, notices>> /\ TickUnchanged

\* Step 4: the question, for a person to find.
OpenQuestion ==
  /\ tick.pc = "question"
  /\ \/ HasSession /\ question' = Opened(question) /\ Tick("finalize") /\ UNCHANGED faults
     \/ ~HasSession /\ Tick("threw") /\ UNCHANGED <<question, faults>>
     \/ DbError /\ Tick("threw") /\ UNCHANGED question
  /\ UNCHANGED <<delegation, session, run, queue, gaveUp, notices>> /\ TickUnchanged

Posted == IF HasSession /\ tick.outcome = "completed" THEN notices + 1 ELSE notices

\* Seeded bug: the notice is posted before the delegation is closed.
FinalizeNotified ==
  /\ tick.pc = "finalize"
  /\ notices' = Posted
  /\ \/ /\ delegation' = IF tick.outcome = "parked" THEN "waiting" ELSE tick.outcome
        /\ Tick("done") /\ UNCHANGED faults
     \/ DbError /\ Tick("threw") /\ UNCHANGED delegation
  /\ UNCHANGED <<session, question, run, queue, gaveUp>> /\ TickUnchanged

\* Step 5: the delegation, which ends the watching.
Finalize ==
  /\ tick.pc = "finalize"
  /\ \/ /\ delegation' = IF tick.outcome = "parked" THEN "waiting" ELSE tick.outcome
        /\ Tick(IF tick.outcome = "completed" THEN "notice" ELSE "done")
        /\ UNCHANGED faults
     \/ DbError /\ Tick("threw") /\ UNCHANGED delegation
  /\ UNCHANGED <<session, question, run, queue, gaveUp, notices>> /\ TickUnchanged

\* Step 6: the notice, which nothing tells from an earlier one.
Notify ==
  /\ tick.pc = "notice"
  /\ Tick("done")
  /\ \/ notices' = Posted /\ UNCHANGED faults
     \/ DbError /\ UNCHANGED notices
  /\ UNCHANGED <<delegation, session, question, run, queue, gaveUp>> /\ TickUnchanged

TickStep ==
  \/ ReadRows \/ DrainSlice \/ SaveLiveness \/ EnqueueSuccessor \/ SettleRow
  \/ SettleRun \/ MarkPending \/ ClearNeedsYou \/ OpenQuestion \/ Finalize
  \/ Notify \/ EndTick

Watcher == TickStep \/ \E job \in BagToSet(queue) : Claim(job)

---------------------------------------------------------------------------
\* The person.  person.pc names the next await of the turn they sent.  Once the
\* delegation is settled the conversation is like any other, and left out.

Unsettled == delegation \in {"running", "waiting"}

NoTurn(n) == [pc |-> "idle", turns |-> n, outcome |-> "none"]
Person(pc) == person' = IF pc = "idle" THEN NoTurn(person.turns) ELSE [person EXCEPT !.pc = pc]

PersonUnchanged == UNCHANGED <<relay, peer, target, run, queue, tick, gaveUp, late, notices>>

\* A claim of the conversation, and beginFohTurn.  While a question is pending
\* only its answer is let through, and resolves it; any other turn clears all.
ClaimTurn ==
  /\ Unsettled /\ person.pc = "idle" /\ person.turns < MaxTurn
  /\ HasSession /\ session.status # "running" /\ ~session.archived
  /\ session' = [session EXCEPT !.status = "running"]
  /\ question' = Resolved(question)
  /\ person' = [pc |-> "turn", turns |-> person.turns + 1, outcome |-> "none"]
  /\ UNCHANGED <<delegation, faults>> /\ PersonUnchanged

\* The turn asks again: the park is marked and its question filed, unless the
\* conversation was retired.
PersonAsked ==
  /\ person.pc = "turn"
  /\ session' = IF Retired THEN session ELSE [session EXCEPT !.pending = TRUE]
  /\ question' = IF Retired THEN question ELSE "open"
  /\ person' = [person EXCEPT !.pc = "asked"]
  /\ UNCHANGED <<delegation, faults>> /\ PersonUnchanged

\* The turn is over: the row and, unless questions are open (settleFohTurn), the
\* park.  What a rejection loses is logged.
PersonSettles(outcome) ==
  /\ person.pc \in {"turn", "asked"}
  /\ LET parked == outcome = "completed" /\ (person.pc = "asked" \/ question = "open")
         saved == IF Retired THEN session
                  ELSE [session EXCEPT !.status = IF outcome = "failed" THEN "failed" ELSE "waiting"]
         settled(row) == IF parked \/ row.status = "stopped" THEN row
                         ELSE [row EXCEPT !.pending = FALSE]
     IN  /\ \/ /\ session' = settled(saved)
               /\ question' = IF parked THEN question ELSE Resolved(question)
               /\ UNCHANGED faults
            \/ /\ DbError
               /\ \/ session' = settled(session)
                    /\ question' = IF parked THEN question ELSE Resolved(question)
                  \/ session' \in {saved, settled(saved)} /\ UNCHANGED question
         /\ person' = IF parked THEN NoTurn(person.turns)
                      ELSE [person EXCEPT !.pc = "read", !.outcome = outcome]
  /\ UNCHANGED delegation /\ PersonUnchanged

\* finalizeDelegationOnResume: the read ...
ResumeRead ==
  /\ person.pc = "read"
  /\ Person(IF delegation = "waiting" THEN "write" ELSE "idle")
  /\ UNCHANGED <<delegation, session, question, faults>> /\ PersonUnchanged

\* ... and the write.
ResumeWrite ==
  /\ person.pc = "write"
  /\ delegation' = person.outcome /\ Person("idle")
  /\ UNCHANGED <<session, question, faults>> /\ PersonUnchanged

\* A rejection of either is swallowed.
ResumeLost ==
  /\ person.pc \in {"read", "write"}
  /\ DbError /\ Person("idle")
  /\ UNCHANGED <<delegation, session, question>> /\ PersonUnchanged

\* The row is settled first, its questions after: that may be lost.
Retire(row) ==
  /\ session' = row
  /\ \/ question' = Resolved(question) /\ UNCHANGED faults
     \/ DbError /\ UNCHANGED question

\* api.foh.stop.
Stop ==
  /\ Unsettled /\ HasSession /\ session.status # "stopped" /\ ~session.archived
  /\ Retire([session EXCEPT !.status = "stopped", !.pending = FALSE])
  /\ UNCHANGED <<delegation, person>> /\ PersonUnchanged

\* archiveFohSession: never of a running turn.
Archive ==
  /\ Unsettled /\ HasSession /\ session.status # "running" /\ ~session.archived
  /\ Retire([session EXCEPT !.archived = TRUE, !.pending = FALSE])
  /\ UNCHANGED <<delegation, person>> /\ PersonUnchanged

PersonStep ==
  \/ ClaimTurn \/ PersonAsked
  \/ \E outcome \in {"completed", "failed"} : PersonSettles(outcome)
  \/ ResumeRead \/ ResumeWrite \/ ResumeLost
  \/ Stop \/ Archive

---------------------------------------------------------------------------
\* The rest of the world, as long as the delegation is unsettled.

WorldUnchanged == UNCHANGED <<delegation, run, notices, faults>>

\* The delegated turn ends in its container, if it ever does.  (To the watcher
\* a turn without a reply is like one with a reply.)
PeerSettles ==
  /\ Unsettled /\ peer = "running" /\ peer' \in Settlements \ {"mute"}
  /\ UNCHANGED <<relay, target, conversation, queue, tick, gaveUp, late>> /\ WorldUnchanged

\* The deployments of the environment are gone ...
Undeploy ==
  /\ Unsettled /\ target /\ target' = FALSE
  /\ UNCHANGED <<relay, peer, conversation, queue, tick, gaveUp, late>> /\ WorldUnchanged

\* ... and, when the teammate leaves the roster, its conversations too.
RemoveTeammate ==
  /\ Unsettled /\ HasSession
  /\ target' = FALSE
  /\ session' = [status |-> "gone", pending |-> FALSE, archived |-> FALSE]
  /\ question' = "none"
  /\ UNCHANGED <<relay, peer, person, queue, tick, gaveUp, late>> /\ WorldUnchanged

DeadlinePasses ==
  /\ Unsettled /\ relay.armed /\ ~late /\ late' = TRUE
  /\ UNCHANGED <<relay, peer, target, conversation, queue, tick, gaveUp>> /\ WorldUnchanged

\* The process restarts: calls and turns are cut off, running jobs requeued.
Crash ==
  /\ Fault
  /\ IF relay.pc \in RelayOver \cup {"idle"} THEN UNCHANGED relay ELSE Relay("cut off")
  /\ queue' = IF tick = NoTick THEN queue ELSE queue (+) SetToBag({tick.job})
  /\ tick' = NoTick
  /\ person' = NoTurn(person.turns)
  /\ UNCHANGED <<delegation, peer, target, session, question, run, gaveUp, late, notices>>

Next ==
  \/ \E mode \in {"ask", "tell"} : Ask(mode)
  \/ RelayStep \/ Watcher \/ PersonStep
  \/ PeerSettles \/ Undeploy \/ RemoveTeammate \/ DeadlinePasses
  \/ Crash

\* The worker's timer fires, a slice and a database call end, and time passes.
Spec == Init /\ [][Next]_vars /\ WF_vars(Watcher) /\ WF_vars(DeadlinePasses)

---------------------------------------------------------------------------
DelegationStatus == {"none", "running", "waiting", "completed", "failed"}
Jobs == [attempts : 0 .. ReattachAttempts + MaxFault, turn : BOOLEAN]

TypeOK ==
  /\ delegation \in DelegationStatus
  /\ relay.mode \in {"ask", "tell"}
  /\ {relay.turn, relay.started, relay.handingOff, relay.armed} \subseteq BOOLEAN
  /\ peer \in Settlements \cup {"none", "running"}
  /\ target \in BOOLEAN
  /\ session \in [status : {"none", "running", "waiting", "failed", "stopped", "gone"},
                  pending : BOOLEAN, archived : BOOLEAN]
  /\ question \in {"none", "open", "answered"}
  /\ run \in {"none", "running", "finished"}
  /\ IsABag(queue) /\ BagToSet(queue) \subseteq Jobs /\ tick.job \in Jobs
  /\ tick.outcome \in {"none", "parked", "completed", "failed"}
  /\ {tick.target, tick.drained, tick.turn, gaveUp, late} \subseteq BOOLEAN
  /\ person.turns \in 0 .. MaxTurn
  /\ notices \in Nat

Watched == queue # EmptyBag \/ tick # NoTick

\* A delegation somebody watches is settled, or its watcher has failed three
\* times: whatever the turn does, a person stops or the deployment loses,
\* through restarts and rejected calls, a tick ends it or schedules the next
\* one, until the deadline.
WatchedSettles ==
  Watched /\ delegation = "running"
    ~> delegation # "running" \/ gaveUp

\* The watcher announces an end once, and only that of a delegation that was
\* completed, though a tick is retried, repeated after a restart, or run by two
\* watchers of one turn.
FinishedOnce == notices <= 1 /\ (notices = 1 => delegation = "completed")

\* A handed-off delegation that was settled has not left its run running, nor
\* does the relay's late record of the start reopen it, while the deployment it
\* ran on is there.
RunClosed ==
  relay.armed /\ delegation # "running" /\ target => run # "running"

\* Nobody has stopped, archived or answered the conversation, or removed it.
Untouched ==
  person.turns = 0 /\ ~session.archived /\ session.status \notin {"stopped", "gone"}

\* A delegation that waits for a person has put its question in front of them,
\* once the watcher parked it or the relay has said so to its caller, through
\* one restart or rejected call.
WaitingAsked ==
  faults <= 1 /\ delegation = "waiting" /\ Untouched /\ (relay.armed \/ relay.pc = "waiting_on_human")
    => question = "open" /\ session.pending
=============================================================================
