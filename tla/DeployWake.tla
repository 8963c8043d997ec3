------------------------------- MODULE DeployWake ------------------------------
(***************************************************************************)
(* Wake-on-demand and liveness repair of one environment                   *)
(* (deploy/wake.server.ts, deploy/liveness.server.ts): requests that       *)
(* ensure a live deployment or refresh the live ones, and the boot sweep.  *)
(* Rows a call works on come from its one listing; each row is written     *)
(* with a compare-and-set on the status it was listed with.                *)
(***************************************************************************)
EXTENDS DeployInline

ReqPC == {"idle", "recover", "claim", "start", "settle", "giveup",
          "readenv", "insert", "deploying", "retire", "check", "destroy",
          "wake", "promote", "end"}

\* todo: live rows still to recover.  urls: those listed with a URL.  stopped:
\* current stopped rows.  blocked: a deploy was in flight.  stale: the newest
\* serving row behind the desired revision.  found: a row answered.  dep: the
\* replacement this call deploys.
Req == [pc : ReqPC, mode : {"ensure", "refresh"}, todo : SUBSET Dep,
        urls : SUBSET Dep, stopped : SUBSET Dep, blocked : BOOLEAN,
        stale : 0 .. MaxDep, wasStopped : BOOLEAN, found : BOOLEAN,
        rev : Rev, dep : 0 .. MaxDep]

IdleReq == [pc |-> "idle", mode |-> "refresh", todo |-> {}, urls |-> {},
            stopped |-> {}, blocked |-> FALSE, stale |-> NoDep,
            wasStopped |-> FALSE, found |-> FALSE, rev |-> 0, dep |-> NoDep]

Fresh(pc) == [IdleReq EXCEPT !.pc = pc]
ReqAt(w, pc) == req[w].pc = pc
ReqTo(w, pc) == req' = [req EXCEPT ![w].pc = pc]
ReqEnds(w) == req' = [req EXCEPT ![w] = IdleReq]
Of(w) == Newest(req[w].todo)

ReqStep == UNCHANGED <<envRev, jobVars, lane, run, phase, crashes>>

CurrentRows(status) ==
  {d \in Dep : row[d].status = status /\ row[d].rev >= envRev}
StaleRows == {d \in Dep : row[d].status \in {"live", "stopped"} /\ row[d].rev < envRev}

\* The listing (with the environment: two reads issued together).  The boot
\* sweep recovers the current live rows, a refresh every live row.
Begin(w) ==
  /\ ReqAt(w, "idle")
  /\ w = Boot => phase = "sweep"
  /\ \E mode \in IF w = Boot THEN {"refresh"} ELSE {"ensure", "refresh"} :
       req' = [req EXCEPT ![w] =
         [Fresh("recover") EXCEPT
            !.mode = mode,
            !.todo = IF mode = "ensure" \/ w = Boot THEN CurrentRows("live") ELSE Live,
            !.urls = {d \in Live : row[d].url},
            !.stopped = CurrentRows("stopped"),
            !.blocked = InFlightRows # {},
            !.stale = IF StaleRows = {} THEN NoDep ELSE Newest(StaleRows),
            !.wasStopped = StaleRows # {} /\ row[Newest(StaleRows)].status = "stopped"]]
  /\ UNCHANGED <<row, boxVars, exec, dbErrors, infraErrors>> /\ ReqStep

---------------------------------------------------------------------------
(* recoverLiveDeployment.                                                  *)

Recovered(w, found) ==
  req' = [req EXCEPT ![w].pc = "recover", ![w].todo = @ \ {Of(w)},
                     ![w].found = @ \/ found]

\* Seeded bug: a row with a URL is taken as running.
ProbeTrustsUrl(w) ==
  /\ ReqAt(w, "recover") /\ req[w].todo # {}
  /\ IF Of(w) \in req[w].urls THEN Recovered(w, TRUE) ELSE ReqTo(w, "claim")
  /\ UNCHANGED <<row, boxVars, exec, dbErrors, infraErrors>> /\ ReqStep

\* The probe: a running instance answers; so does one whose probe throws.
Probe(w) ==
  /\ ReqAt(w, "recover") /\ req[w].todo # {}
  /\ \/ /\ Of(w) \in req[w].urls /\ box[Of(w)] = "up"
        /\ Recovered(w, TRUE)
        /\ UNCHANGED infraErrors
     \/ /\ Of(w) \in req[w].urls
        /\ InfraError
        /\ Recovered(w, TRUE) \/ ReqTo(w, "claim")
     \/ /\ Of(w) \notin req[w].urls \/ box[Of(w)] # "up"
        /\ ReqTo(w, "claim")
        /\ UNCHANGED infraErrors
  /\ UNCHANGED <<row, boxVars, exec, dbErrors>> /\ ReqStep

\* updateIfStatus(id, "live", { url: null })
ClaimUrl(w) ==
  /\ ReqAt(w, "claim")
  /\ IF row[Of(w)].status = "live"
     THEN /\ row' = [row EXCEPT ![Of(w)].url = FALSE]
          /\ ReqTo(w, "start")
     ELSE Recovered(w, FALSE) /\ UNCHANGED row
  /\ UNCHANGED <<boxVars, exec, dbErrors, infraErrors>> /\ ReqStep

Restart(w) ==
  /\ ReqAt(w, "start")
  /\ \/ StartBox(Of(w)) /\ ReqTo(w, "settle")
     \/ StartBoxFails(Of(w)) /\ ReqTo(w, "giveup")
  /\ UNCHANGED <<row, exec>> /\ ReqStep

\* Seeded bug: the fresh URL is written without the compare-and-set.
RefreshUrlBlindly(w) ==
  /\ ReqAt(w, "settle")
  /\ row' = [row EXCEPT ![Of(w)].url = TRUE, ![Of(w)].status = "live"]
  /\ Recovered(w, TRUE)
  /\ UNCHANGED <<boxVars, exec, dbErrors, infraErrors>> /\ ReqStep

\* updateIfStatus(id, "live", { url })
RefreshUrl(w) ==
  /\ ReqAt(w, "settle")
  /\ row' = IF row[Of(w)].status = "live" THEN [row EXCEPT ![Of(w)].url = TRUE] ELSE row
  /\ Recovered(w, row[Of(w)].status = "live")
  /\ UNCHANGED <<boxVars, exec, dbErrors, infraErrors>> /\ ReqStep

\* updateIfStatus(id, "live", { status: "stopped", url: null })
GiveUp(w) ==
  /\ ReqAt(w, "giveup")
  /\ row' = IF row[Of(w)].status = "live"
            THEN [row EXCEPT ![Of(w)].status = "stopped", ![Of(w)].url = FALSE]
            ELSE row
  /\ Recovered(w, FALSE)
  /\ UNCHANGED <<boxVars, exec, dbErrors, infraErrors>> /\ ReqStep

---------------------------------------------------------------------------
(* ensureLiveDeploymentForEnvironment after the live rows.                 *)

Decide(w) ==
  /\ ReqAt(w, "recover") /\ req[w].todo = {}
  /\ LET r == req[w] IN
       req' = [req EXCEPT ![w] =
         IF r.mode = "refresh" \/ r.found \/ r.blocked THEN Fresh("end")
         ELSE IF r.stale # NoDep
         THEN [Fresh("readenv") EXCEPT !.stale = r.stale, !.wasStopped = r.wasStopped]
         ELSE IF r.stopped # {} THEN [Fresh("wake") EXCEPT !.stopped = r.stopped]
         ELSE Fresh("end")]
  /\ UNCHANGED <<row, boxVars, exec, dbErrors, infraErrors>> /\ ReqStep

\* wakeStoppedDeployment, newest row first, until one is up.
WakeStart(w) ==
  /\ ReqAt(w, "wake")
  /\ LET d == Newest(req[w].stopped) IN
       \/ StartBox(d) /\ ReqTo(w, "promote")
       \/ /\ StartBoxFails(d)
          /\ req' = [req EXCEPT ![w].stopped = @ \ {d},
                                ![w].pc = IF req[w].stopped = {d} THEN "end" ELSE "wake"]
  /\ UNCHANGED <<row, exec>> /\ ReqStep

WakePromote(w) ==
  /\ ReqAt(w, "promote")
  /\ LET d == Newest(req[w].stopped) IN
       IF row[d].status = "stopped"
       THEN /\ row' = [row EXCEPT ![d].status = "live", ![d].url = TRUE]
            /\ ReqTo(w, "end")
       ELSE /\ req' = [req EXCEPT ![w].stopped = @ \ {d},
                                  ![w].pc = IF req[w].stopped = {d} THEN "end" ELSE "wake"]
            /\ UNCHANGED row
  /\ UNCHANGED <<boxVars, exec, dbErrors, infraErrors>> /\ ReqStep

\* replaceStaleDeployment: deployRelease in the request, with no job.
ReplaceReadEnv(w) ==
  /\ ReqAt(w, "readenv")
  /\ req' = [req EXCEPT ![w].pc = "insert", ![w].rev = envRev]
  /\ UNCHANGED <<row, boxVars, exec, dbErrors, infraErrors>> /\ ReqStep

ReplaceInsert(w) ==
  /\ ReqAt(w, "insert")
  /\ \E d \in Dep :
       /\ InsertRow(d, "building", req[w].rev)
       /\ exec' = [exec EXCEPT ![d] = [IdleExec EXCEPT !.pc = "resolve",
                                         !.rev = req[w].rev, !.by = w]]
       /\ req' = [req EXCEPT ![w].pc = "deploying", ![w].dep = d]
  /\ UNCHANGED <<boxVars, dbErrors, infraErrors>> /\ ReqStep

\* A read beside the insert rejects: the row is there, and nobody works on it.
ReplaceInsertError(w) ==
  /\ ReqAt(w, "insert")
  /\ DbError
  /\ \E d \in Dep : InsertRow(d, "building", req[w].rev)
  /\ ReqTo(w, "end")
  /\ UNCHANGED <<boxVars, exec, infraErrors>> /\ ReqStep

\* The unique index elected another replacement.
ReplaceLoses(w) == /\ ReqAt(w, "insert")
                   /\ InFlightRows # {}
                   /\ ReqTo(w, "end")
                   /\ UNCHANGED <<row, boxVars, exec, dbErrors, infraErrors>> /\ ReqStep

\* deployRelease returned or rejected.
Replaced(w) ==
  /\ ReqAt(w, "deploying")
  /\ LET d == req[w].dep IN
       /\ exec[d].pc \in {"ok", "failed", "threw"}
       /\ Settled(d)
       /\ ReqTo(w, IF At(d, "ok") /\ req[w].wasStopped THEN "retire" ELSE "end")
  /\ UNCHANGED <<row, boxVars, dbErrors, infraErrors>> /\ ReqStep

Retire(w) ==
  /\ ReqAt(w, "retire")
  /\ row' = IF row[req[w].stale].status = "stopped"
            THEN [row EXCEPT ![req[w].stale].weighted = FALSE] ELSE row
  /\ ReqTo(w, "check")
  /\ UNCHANGED <<boxVars, exec, dbErrors, infraErrors>> /\ ReqStep

CheckRetired(w) ==
  /\ ReqAt(w, "check")
  /\ ReqTo(w, IF MayDestroy(req[w].stale) THEN "destroy" ELSE "end")
  /\ UNCHANGED <<row, boxVars, exec, dbErrors, infraErrors>> /\ ReqStep

DestroyRetired(w) ==
  /\ ReqAt(w, "destroy")
  /\ \/ Destroy(req[w].stale) /\ UNCHANGED infraErrors
     \/ InfraError /\ UNCHANGED boxVars
  /\ ReqTo(w, "end")
  /\ UNCHANGED <<row, exec, dbErrors>> /\ ReqStep

End(w) == /\ ReqAt(w, "end")
          /\ ReqEnds(w)
          /\ phase' = IF w = Boot THEN "requeue" ELSE phase
          /\ UNCHANGED <<rowVars, boxVars, jobVars, exec, lane, run, faultVars>>

\* Any database call of the request rejects: the request fails where it is.
ReqDbError(w) ==
  /\ req[w].pc \notin {"idle", "deploying", "start", "wake", "destroy", "end"}
  /\ DbError
  /\ ReqTo(w, "end")
  /\ UNCHANGED <<row, boxVars, exec, infraErrors>> /\ ReqStep

Serve(w) ==
  \/ Probe(w) \/ ClaimUrl(w) \/ Restart(w) \/ RefreshUrl(w) \/ GiveUp(w)
  \/ Decide(w) \/ WakeStart(w) \/ WakePromote(w)
  \/ ReplaceReadEnv(w) \/ ReplaceInsert(w) \/ ReplaceInsertError(w)
  \/ ReplaceLoses(w) \/ Replaced(w)
  \/ Retire(w) \/ CheckRetired(w) \/ DestroyRetired(w) \/ ReqDbError(w) \/ End(w)

WakeNext == \E w \in Actor : Begin(w) \/ Serve(w)
=============================================================================
