---------------------------- MODULE ReleaseRegistry ----------------------------
(***************************************************************************)
(* The release registry: concurrent find-or-create of an immutable Release *)
(* for a merge commit (deploy/controller.server.ts) and for an assistant   *)
(* template hash (assistant/instance.server.ts), over the releases table.  *)
(*                                                                         *)
(* A call is one run of ensureReleaseForCommit or ensureAssistantRelease   *)
(* for one agent: ensureReleasesForCommit fans out one such call per       *)
(* roster member.  Every await of a call is a step of its own.             *)
(***************************************************************************)
EXTENDS Naturals, FiniteSets

CONSTANTS
  Call,       \* the find-or-create calls (publish, webhook, ship, provisioning)
  Agent,      \* the agents releases belong to
  Assistant,  \* the agents whose releases are keyed by template hash
  Commit,     \* git shas (or template hashes)
  MaxRound    \* the last retry round of createRelease (8 in the code)

ASSUME RegistryAssumption == /\ Assistant \subseteq Agent
                             /\ MaxRound \in Nat

VARIABLES
  releases,   \* the rows of the releases table
  call        \* the local state of each call

vars == <<releases, call>>

Release == [agent : Agent, version : Nat, gitSha : Commit]

PCs == {"idle", "find", "count", "insert", "adopt", "done", "failed"}

\* base is a history field: how many releases the agent had when the call's
\* lookup missed.  The code does not keep it.
CallState == [pc : PCs, agent : Agent, gitSha : Commit, count : Nat,
              round : Nat, base : Nat, created : BOOLEAN,
              result : SUBSET Release]

TypeOK == /\ releases \subseteq Release
          /\ IsFiniteSet(releases)
          /\ call \in [Call -> CallState]

ReleasesOf(a) == {r \in releases : r.agent = a}
countByAgent(a) == Cardinality(ReleasesOf(a))

\* Seeded bug: the lookup sees the newest release of the agent only.
findByCommitNewest(a, s) ==
  {r \in ReleasesOf(a) : r.gitSha = s /\ r.version = countByAgent(a)}

findByCommit(a, s) == {r \in releases : r.agent = a /\ r.gitSha = s}

\* Seeded bugs: labels that start two too low, or one too low.
versionLabelTwoLow(existingCount) == existingCount - 1
versionLabelZeroBased(existingCount) == existingCount

\* The vN label of the next release, given how many exist.
versionLabel(existingCount) == existingCount + 1

\* The unique index releases_agent_version_uq.
VersionTaken(a, v) == \E r \in releases : r.agent = a /\ r.version = v

Init == /\ releases = {}
        /\ call \in [Call -> {[pc |-> "idle", agent |-> a, gitSha |-> s,
                               count |-> 0, round |-> 0, base |-> 0,
                               created |-> FALSE, result |-> {}] :
                               a \in Agent, s \in Commit}]

---------------------------------------------------------------------------
Start(c) == /\ call[c].pc = "idle"
            /\ call' = [call EXCEPT ![c].pc = "find"]
            /\ UNCHANGED releases

\* The lookup.  With several rows for one commit, LIMIT 1 picks any of them.
FindHit(c) ==
  /\ call[c].pc = "find"
  /\ \E r \in findByCommit(call[c].agent, call[c].gitSha) :
       call' = [call EXCEPT ![c].pc = "done", ![c].result = {r}]
  /\ UNCHANGED releases

FindMiss(c) ==
  /\ call[c].pc = "find"
  /\ findByCommit(call[c].agent, call[c].gitSha) = {}
  /\ call' = [call EXCEPT ![c].pc = "count",
                          ![c].base = countByAgent(call[c].agent)]
  /\ UNCHANGED releases

Count(c) ==
  /\ call[c].pc = "count"
  /\ call' = [call EXCEPT ![c].pc = "insert",
                          ![c].count = countByAgent(call[c].agent)]
  /\ UNCHANGED releases

Insert(c) ==
  LET row == [agent   |-> call[c].agent,
              version |-> versionLabel(call[c].count),
              gitSha  |-> call[c].gitSha]
  IN  /\ call[c].pc = "insert"
      /\ ~VersionTaken(row.agent, row.version)
      /\ releases' = releases \cup {row}
      /\ call' = [call EXCEPT ![c].pc = "done", ![c].created = TRUE,
                              ![c].result = {row}]

LabelCollision(c) ==
  /\ call[c].pc = "insert"
  /\ VersionTaken(call[c].agent, versionLabel(call[c].count))

\* Seeded bugs: a retry that keeps the stale count, and one that also forgets
\* to count its rounds.
RetryStaleCount(c) ==
  /\ LabelCollision(c)
  /\ call[c].agent \notin Assistant
  /\ call[c].round < MaxRound
  /\ call' = [call EXCEPT ![c].pc = "insert", ![c].round = @ + 1]
  /\ UNCHANGED releases
RetryForever(c) ==
  /\ LabelCollision(c)
  /\ call[c].agent \notin Assistant
  /\ call' = [call EXCEPT ![c].pc = "insert"]
  /\ UNCHANGED releases

\* createRelease: retry with a fresh count, give up after round MaxRound.
Retry(c) ==
  /\ LabelCollision(c)
  /\ call[c].agent \notin Assistant
  /\ call[c].round < MaxRound
  /\ call' = [call EXCEPT ![c].pc = "count", ![c].round = @ + 1]
  /\ UNCHANGED releases

GiveUp(c) ==
  /\ LabelCollision(c)
  /\ call[c].agent \notin Assistant
  /\ call[c].round >= MaxRound
  /\ call' = [call EXCEPT ![c].pc = "failed"]
  /\ UNCHANGED releases

\* Seeded bug: the collision is rethrown.
AssistantCollisionThrows(c) ==
  /\ LabelCollision(c)
  /\ call[c].agent \in Assistant
  /\ call' = [call EXCEPT ![c].pc = "failed"]
  /\ UNCHANGED releases

\* ensureAssistantRelease: adopt the winner's row, if it is for this hash.
AssistantCollision(c) ==
  /\ LabelCollision(c)
  /\ call[c].agent \in Assistant
  /\ call' = [call EXCEPT ![c].pc = "adopt"]
  /\ UNCHANGED releases

Adopt(c) ==
  /\ call[c].pc = "adopt"
  /\ \E r \in findByCommit(call[c].agent, call[c].gitSha) :
       call' = [call EXCEPT ![c].pc = "done", ![c].result = {r}]
  /\ UNCHANGED releases

AdoptNothing(c) ==
  /\ call[c].pc = "adopt"
  /\ findByCommit(call[c].agent, call[c].gitSha) = {}
  /\ call' = [call EXCEPT ![c].pc = "failed"]
  /\ UNCHANGED releases

Step(c) == \/ FindHit(c) \/ FindMiss(c) \/ Count(c) \/ Insert(c)
           \/ Retry(c) \/ GiveUp(c)
           \/ AssistantCollision(c) \/ Adopt(c) \/ AdoptNothing(c)

Next == \E c \in Call : Start(c) \/ Step(c)

\* A started call keeps being scheduled: each of its awaits returns.
Spec == Init /\ [][Next]_vars /\ \A c \in Call : WF_vars(Step(c))

---------------------------------------------------------------------------
(***************************************************************************)
(* Properties                                                              *)
(***************************************************************************)

\* The labels of an agent are exactly v1..vN, N its number of releases: the
\* count-then-insert race of createRelease never skips or repeats a label, so
\* the count stays a usable source for the next one (versioning.ts).
VersionsContiguous ==
  \A a \in Agent : {r.version : r \in ReleasesOf(a)} = 1 .. countByAgent(a)

\* createRelease throws on a label collision only after more than MaxRound
\* other calls created a release of the agent since this call's lookup: the
\* bounded retry never fails a call for less contention than the comment at
\* its recursion allows for.
FailsOnlyUnderContention ==
  \A c \in Call :
    (call[c].pc = "failed" /\ call[c].agent \notin Assistant)
      => countByAgent(call[c].agent) > call[c].base + MaxRound

\* A release that a call creates is the first of its commit among those that were
\* recorded before the call looked: a commit gets a second release only from
\* calls that overlap, never from a trigger repeated after the first was answered.
DuplicatesOnlyOverlap ==
  \A c \in Call : call[c].created =>
    \A r \in ReleasesOf(call[c].agent) :
      r.gitSha = call[c].gitSha => r.version > call[c].base

\* An assistant provisioning fails only if a call for another template took, after
\* it looked, the very label it went for: one that raced with calls for its own
\* template alone adopts their row.
AssistantAdopts ==
  \A c \in Call : call[c].pc = "failed" /\ call[c].agent \in Assistant =>
    \E r \in ReleasesOf(call[c].agent) :
      /\ r.version = versionLabel(call[c].count) /\ r.version > call[c].base
      /\ r.gitSha # call[c].gitSha

\* The claim of the comment on ensureReleaseForCommit: concurrent triggers for
\* one merge commit converge on one Release.
OneReleasePerCommit ==
  \A r1, r2 \in releases :
    (r1.agent = r2.agent /\ r1.gitSha = r2.gitSha) => r1 = r2

\* Every started call answers: the retry recursion ends.
CallsEnd == \A c \in Call :
              (call[c].pc = "find") ~> (call[c].pc \in {"done", "failed"})
=============================================================================
