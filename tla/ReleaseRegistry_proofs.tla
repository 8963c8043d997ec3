------------------------- MODULE ReleaseRegistry_proofs ------------------------
(***************************************************************************)
(* Theorems about ReleaseRegistry, for every number of calls, agents and   *)
(* commits and every bound on the retries.                                 *)
(***************************************************************************)
EXTENDS ReleaseRegistry, FiniteSetTheorems, TLAPS

\* How many rows of the table R belong to agent a; their labels.
Rows(R, a) == Cardinality({r \in R : r.agent = a})
Labels(R, a) == {r.version : r \in {q \in R : q.agent = a}}

\* Rows of its commit came after the lookup of a call in state k.
Missed(k, R) ==
  /\ k.base <= Rows(R, k.agent)
  /\ \A r \in R : r.agent = k.agent /\ r.gitSha = k.gitSha => r.version > k.base

\* The label that a call in state k goes for was taken after its lookup, by r.
Collided(k, r) == r.agent = k.agent /\ r.version = k.count + 1 /\ k.base < r.version

\* What a call in state k knows of the table R: its count is an old count of the
\* agent's releases, and each retry means one more label was taken since base.
CallOK(k, R) ==
  /\ k.pc \in {"idle", "find"} => k.round = 0
  /\ k.pc = "adopt" => k.agent \in Assistant /\ \E r \in R : Collided(k, r)
  /\ k.pc = "count" => k.base + k.round <= Rows(R, k.agent)
  /\ k.pc = "insert" => /\ k.base + k.round <= k.count
                        /\ k.count <= Rows(R, k.agent)
  /\ (k.pc = "failed" /\ k.agent \notin Assistant) =>
       k.base + MaxRound < Rows(R, k.agent)
  /\ (k.pc = "failed" /\ k.agent \in Assistant) =>
       \E r \in R : Collided(k, r) /\ r.gitSha # k.gitSha
  /\ k.pc \in {"count", "insert"} \/ k.created => Missed(k, R)
  /\ k.created => k.pc = "done"

\* Labels are v1..vN.
LabelsOK(R) == \A a \in Agent : Labels(R, a) = 1 .. Rows(R, a)

\* The inductive invariant.
IInv == /\ TypeOK
        /\ LabelsOK(releases)
        /\ \A c \in Call : CallOK(call[c], releases)

---------------------------------------------------------------------------
\* The count of an agent is a natural number while the table is finite.
LEMMA RowsIsNat ==
  ASSUME NEW R, IsFiniteSet(R), NEW a
  PROVE  Rows(R, a) \in Nat
<1>1. IsFiniteSet({r \in R : r.agent = a})
  BY FS_Subset
<1> QED
  BY <1>1, FS_CardinalityType DEF Rows

\* Adding one row to a finite table adds one to the count of its agent alone.
LEMMA AddRow ==
  ASSUME NEW R, IsFiniteSet(R), NEW x, x \notin R, NEW a
  PROVE  Rows(R \cup {x}, a) = IF x.agent = a THEN Rows(R, a) + 1 ELSE Rows(R, a)
<1> DEFINE old == {r \in R : r.agent = a}
           new == {r \in R \cup {x} : r.agent = a}
<1>1. IsFiniteSet(old)
  BY FS_Subset
<1>2. CASE x.agent = a
  <2>1. new = old \cup {x} /\ x \notin old
    BY <1>2
  <2>2. Cardinality(new) = Cardinality(old) + 1
    BY <1>1, <2>1, FS_AddElement
  <2> QED
    BY <1>2, <2>2 DEF Rows
<1>3. CASE x.agent # a
  <2>1. new = old
    BY <1>3
  <2> QED
    BY <1>3, <2>1 DEF Rows
<1> QED
  BY <1>2, <1>3

---------------------------------------------------------------------------
LEMMA InitIInv == Init => IInv
<1> SUFFICES ASSUME Init PROVE IInv
  OBVIOUS
<1> DEFINE Fresh == {[pc |-> "idle", agent |-> a, gitSha |-> s, count |-> 0,
                      round |-> 0, base |-> 0, created |-> FALSE, result |-> {}] :
                      a \in Agent, s \in Commit}
<1>1. \A k \in Fresh : k \in CallState /\ CallOK(k, {})
  <2> SUFFICES ASSUME NEW a \in Agent, NEW s \in Commit, NEW k,
                      k = [pc |-> "idle", agent |-> a, gitSha |-> s, count |-> 0,
                           round |-> 0, base |-> 0, created |-> FALSE, result |-> {}]
               PROVE  k \in CallState /\ CallOK(k, {})
    OBVIOUS
  <2>1. k \in CallState
    BY DEF CallState, PCs
  <2>2. /\ k.pc = "idle" /\ k.agent = a /\ k.round = 0
        /\ k.created = FALSE /\ k.result = {}
    OBVIOUS
  <2> QED
    BY <2>1, <2>2 DEF CallOK
<1>2. releases = {} /\ call \in [Call -> Fresh]
  BY DEF Init
<1> HIDE DEF Fresh
<1>3. TypeOK
  <2>1. call \in [Call -> CallState]
    BY <1>1, <1>2
  <2> QED
    BY <1>2, <2>1, FS_EmptySet DEF TypeOK
<1>4. LabelsOK(releases)
  <2>1. \A a : {r \in releases : r.agent = a} = {}
    BY <1>2
  <2>2. \A a : Labels(releases, a) = {} /\ Rows(releases, a) = 0
    BY <2>1, FS_EmptySet DEF Labels, Rows
  <2> QED
    BY <2>2 DEF LabelsOK
<1>5. \A c \in Call : CallOK(call[c], releases)
  BY <1>1, <1>2
<1> QED
  BY <1>3, <1>4, <1>5 DEF IInv

---------------------------------------------------------------------------
\* A collision on the next label means that the count is out of date.
LEMMA CollisionIsStale ==
  ASSUME IInv, NEW c \in Call, LabelCollision(c)
  PROVE  call[c].count < Rows(releases, call[c].agent)
<1> DEFINE me == call[c]
           n == Rows(releases, me.agent)
<1>1. me \in CallState /\ n \in Nat
  BY RowsIsNat DEF IInv, TypeOK
<1>2. me.count + 1 \in Labels(releases, me.agent)
  BY DEF LabelCollision, VersionTaken, versionLabel, Labels
<1>3. Labels(releases, me.agent) = 1 .. n
  BY <1>1 DEF IInv, LabelsOK, CallState
<1> QED
  BY <1>1, <1>2, <1>3 DEF CallState

\* A step that leaves the table alone and gives its call an acceptable state k
\* keeps the invariant.
LEMMA LocalStep ==
  ASSUME IInv, NEW c \in Call, NEW k \in CallState, CallOK(k, releases),
         call' = [call EXCEPT ![c] = k], releases' = releases
  PROVE  IInv'
<1>1. /\ call'[c] = k
      /\ \A d \in Call : d # c => call'[d] = call[d]
  BY DEF IInv, TypeOK
<1>2. TypeOK'
  BY DEF IInv, TypeOK
<1>3. LabelsOK(releases')
  BY DEF IInv
<1>4. \A d \in Call : CallOK(call'[d], releases')
  BY <1>1 DEF IInv
<1> QED
  BY <1>2, <1>3, <1>4 DEF IInv

\* The steps that leave the table alone.
LEMMA ReadStep ==
  ASSUME IInv, NEW c \in Call,
         \/ Start(c) \/ FindHit(c) \/ FindMiss(c) \/ Count(c) \/ Retry(c)
         \/ GiveUp(c) \/ AssistantCollision(c) \/ Adopt(c) \/ AdoptNothing(c)
  PROVE  IInv'
<1> DEFINE me == call[c]
           n == Rows(releases, me.agent)
<1>1. /\ me \in CallState /\ n \in Nat /\ CallOK(me, releases)
      /\ countByAgent(me.agent) = n /\ call \in [Call -> CallState]
  BY RowsIsNat DEF IInv, TypeOK, countByAgent, ReleasesOf, Rows
<1>2. \A r \in findByCommit(me.agent, me.gitSha) : r \in releases /\ r \in Release
  BY DEF findByCommit, IInv, TypeOK
<1>3. CASE Start(c)
  <2> DEFINE k == [me EXCEPT !.pc = "find"]
  <2>1. call' = [call EXCEPT ![c] = k] /\ releases' = releases
    BY <1>1, <1>3 DEF Start, CallState
  <2>2. k \in CallState /\ CallOK(k, releases)
    BY <1>1, <1>3 DEF Start, CallState, PCs, CallOK
  <2> QED
    BY <2>1, <2>2, LocalStep
<1>4. CASE FindHit(c)
  <2>1. PICK r \in findByCommit(me.agent, me.gitSha) :
          call' = [call EXCEPT ![c].pc = "done", ![c].result = {r}]
    BY <1>4 DEF FindHit
  <2> DEFINE k == [me EXCEPT !.pc = "done", !.result = {r}]
  <2>2. call' = [call EXCEPT ![c] = k] /\ releases' = releases
    BY <1>1, <1>4, <2>1 DEF FindHit, CallState
  <2>3. k \in CallState /\ CallOK(k, releases)
    BY <1>1, <1>2, <1>4, <2>1 DEF FindHit, CallState, PCs, CallOK
  <2> QED
    BY <2>2, <2>3, LocalStep
<1>5. CASE FindMiss(c)
  <2> DEFINE k == [me EXCEPT !.pc = "count", !.base = n]
  <2>1. call' = [call EXCEPT ![c] = k] /\ releases' = releases
    BY <1>1, <1>5 DEF FindMiss, CallState
  <2>2. k \in CallState
    BY <1>1 DEF CallState, PCs
  <2>3. /\ k.pc = "count" /\ k.base = n /\ k.round = me.round
        /\ k.agent = me.agent /\ k.gitSha = me.gitSha /\ k.created = me.created
    BY <1>1 DEF CallState
  <2>4. /\ me.pc = "find"
        /\ ~\E r \in releases : r.agent = me.agent /\ r.gitSha = me.gitSha
    BY <1>5 DEF FindMiss, findByCommit
  <2> HIDE DEF k
  <2>5. CallOK(k, releases)
    BY <1>1, <2>3, <2>4 DEF CallOK, CallState, Missed
  <2> QED
    BY <2>1, <2>2, <2>5, LocalStep
<1>6. CASE Count(c)
  <2> DEFINE k == [me EXCEPT !.pc = "insert", !.count = n]
  <2>1. call' = [call EXCEPT ![c] = k] /\ releases' = releases
    BY <1>1, <1>6 DEF Count, CallState
  <2>2. k \in CallState
    BY <1>1 DEF CallState, PCs
  <2>3. /\ k.pc = "insert" /\ k.count = n /\ k.base = me.base /\ k.round = me.round
        /\ k.agent = me.agent /\ k.gitSha = me.gitSha /\ k.created = me.created
    BY <1>1 DEF CallState
  <2>4. me.pc = "count"
    BY <1>6 DEF Count
  <2> HIDE DEF k
  <2>5. CallOK(k, releases)
    BY <1>1, <2>3, <2>4 DEF CallOK, CallState, Missed
  <2> QED
    BY <2>1, <2>2, <2>5, LocalStep
<1>7. CASE Retry(c)
  <2> DEFINE k == [me EXCEPT !.pc = "count", !.round = @ + 1]
  <2>1. call' = [call EXCEPT ![c] = k] /\ releases' = releases
    BY <1>1, <1>7 DEF Retry, CallState
  <2>2. k \in CallState /\ CallOK(k, releases)
    BY <1>1, <1>7, CollisionIsStale DEF Retry, LabelCollision, CallState, PCs, CallOK, Missed
  <2> QED
    BY <2>1, <2>2, LocalStep
<1>8. CASE GiveUp(c)
  <2> DEFINE k == [me EXCEPT !.pc = "failed"]
  <2>1. call' = [call EXCEPT ![c] = k] /\ releases' = releases
    BY <1>1, <1>8 DEF GiveUp, CallState
  <2>2. k \in CallState /\ CallOK(k, releases)
    BY <1>1, <1>8, CollisionIsStale, RegistryAssumption DEF GiveUp, LabelCollision, CallState, PCs, CallOK
  <2> QED
    BY <2>1, <2>2, LocalStep
<1>9. CASE AssistantCollision(c)
  <2> DEFINE k == [me EXCEPT !.pc = "adopt"]
  <2>1. call' = [call EXCEPT ![c] = k] /\ releases' = releases
    BY <1>1, <1>9 DEF AssistantCollision, CallState
  <2>2. PICK r \in releases : r.agent = me.agent /\ r.version = me.count + 1
    BY <1>9 DEF AssistantCollision, LabelCollision, VersionTaken, versionLabel
  <2>3. me.pc = "insert" /\ me.base <= me.count /\ me.agent \in Assistant
    BY <1>1, <1>9 DEF AssistantCollision, LabelCollision, CallOK, CallState
  <2>4. k \in CallState /\ Collided(k, r)
    BY <1>1, <2>2, <2>3 DEF CallState, PCs, Collided
  <2>5. CallOK(k, releases)
    BY <1>1, <2>3, <2>4 DEF CallState, CallOK
  <2> QED
    BY <2>1, <2>4, <2>5, LocalStep
<1>10. CASE Adopt(c)
  <2>1. PICK r \in findByCommit(me.agent, me.gitSha) :
          call' = [call EXCEPT ![c].pc = "done", ![c].result = {r}]
    BY <1>10 DEF Adopt
  <2> DEFINE k == [me EXCEPT !.pc = "done", !.result = {r}]
  <2>2. call' = [call EXCEPT ![c] = k] /\ releases' = releases
    BY <1>1, <1>10, <2>1 DEF Adopt, CallState
  <2>3. k \in CallState /\ CallOK(k, releases)
    BY <1>1, <1>2, <1>10, <2>1 DEF Adopt, CallState, PCs, CallOK
  <2> QED
    BY <2>2, <2>3, LocalStep
<1>11. CASE AdoptNothing(c)
  <2> DEFINE k == [me EXCEPT !.pc = "failed"]
  <2>1. call' = [call EXCEPT ![c] = k] /\ releases' = releases
    BY <1>1, <1>11 DEF AdoptNothing, CallState
  <2>2. k \in CallState /\ CallOK(k, releases)
    BY <1>1, <1>11 DEF AdoptNothing, findByCommit, CallState, PCs, CallOK, Collided
  <2> QED
    BY <2>1, <2>2, LocalStep
<1> QED
  BY <1>3, <1>4, <1>5, <1>6, <1>7, <1>8, <1>9, <1>10, <1>11

---------------------------------------------------------------------------
\* The insert: the label after an accepted count is the next one.
LEMMA InsertStep ==
  ASSUME IInv, NEW c \in Call, Insert(c)
  PROVE  IInv'
<1> DEFINE me == call[c]
           N == Rows(releases, me.agent)
           new == [agent |-> me.agent, version |-> me.count + 1, gitSha |-> me.gitSha]
           k == [me EXCEPT !.pc = "done", !.created = TRUE, !.result = {new}]
<1>1. /\ me \in CallState /\ CallOK(me, releases) /\ IsFiniteSet(releases)
      /\ N \in Nat /\ me.agent \in Agent /\ me.count \in Nat /\ me.pc = "insert"
  BY RowsIsNat DEF IInv, TypeOK, CallState, Insert
<1>2. /\ new \in Release /\ me.count + 1 \notin Labels(releases, me.agent)
      /\ releases' = releases \cup {new}
      /\ k \in CallState /\ call' = [call EXCEPT ![c] = k]
  <2>1. new \in Release
    BY <1>1 DEF CallState, Release
  <2>2. me.count + 1 \notin Labels(releases, me.agent)
    BY DEF Insert, VersionTaken, versionLabel, Labels
  <2>3. releases' = releases \cup {new}
    BY DEF Insert, versionLabel
  <2>4. k \in CallState
    BY <1>1, <2>1 DEF CallState, PCs
  <2>5. call' = [call EXCEPT ![c] = k]
    BY <1>1 DEF Insert, versionLabel, IInv, TypeOK, CallState
  <2> QED
    BY <2>1, <2>2, <2>3, <2>4, <2>5
<1>3. new \notin releases
  BY <1>2 DEF Labels
<1>4. \A a : Rows(releases', a) = IF a = me.agent THEN Rows(releases, a) + 1
                                                  ELSE Rows(releases, a)
  BY <1>1, <1>2, <1>3, AddRow
<1>5. me.count = N
  <2>1. Labels(releases, me.agent) = 1 .. N
    BY <1>1 DEF IInv, LabelsOK
  <2>2. me.count <= N
    BY <1>1 DEF CallOK
  <2> QED
    BY <1>1, <1>2, <2>1, <2>2
<1>6. TypeOK'
  <2>1. IsFiniteSet(releases')
    BY <1>1, <1>2, <1>3, FS_AddElement
  <2> QED
    BY <2>1, <1>2 DEF IInv, TypeOK
<1>7. LabelsOK(releases')
  <2> SUFFICES ASSUME NEW a \in Agent
               PROVE  Labels(releases', a) = 1 .. Rows(releases', a)
    BY DEF LabelsOK
  <2>1. Labels(releases, a) = 1 .. Rows(releases, a)
    BY DEF IInv, LabelsOK
  <2>2. CASE a = me.agent
    <3>1. Labels(releases', a) = Labels(releases, a) \cup {N + 1}
      BY <1>2, <1>5, <2>2 DEF Labels
    <3>2. 1 .. (N + 1) = (1 .. N) \cup {N + 1}
      BY <1>1
    <3> QED
      BY <1>4, <2>1, <2>2, <3>1, <3>2
  <2>3. CASE a # me.agent
    <3>1. Labels(releases', a) = Labels(releases, a)
      BY <1>2, <2>3 DEF Labels
    <3> QED
      BY <1>4, <2>1, <2>3, <3>1
  <2> QED
    BY <2>2, <2>3
<1>8. \A d \in Call : CallOK(call'[d], releases')
  <2> SUFFICES ASSUME NEW d \in Call PROVE CallOK(call'[d], releases')
    OBVIOUS
  <2>1. /\ Rows(releases', call[d].agent) \in Nat
        /\ Rows(releases, call[d].agent) \in Nat
        /\ Rows(releases, call[d].agent) <= Rows(releases', call[d].agent)
    BY <1>1, <1>4, RowsIsNat
  \* A lookup that missed stays before the rows of its commit.
  <2>2. ASSUME Missed(call[d], releases)
        PROVE  Missed(call[d], releases')
    <3>1. call[d].agent = me.agent => new.version > call[d].base
      BY <1>1, <1>5, <2>2 DEF Missed, IInv, TypeOK, CallState
    <3> QED
      BY <1>2, <2>1, <2>2, <3>1 DEF Missed, IInv, TypeOK, CallState
  <2>3. CASE d = c
    <3>1. call'[d] = k /\ k.base = me.base /\ k.agent = me.agent /\ k.gitSha = me.gitSha
          /\ k.pc = "done"
      BY <1>1, <1>2, <2>3 DEF IInv, TypeOK, CallState
    <3>2. Missed(k, releases')
      BY <1>1, <2>2, <2>3, <3>1 DEF CallOK, Missed
    <3> HIDE DEF k
    <3> QED
      BY <3>1, <3>2 DEF CallOK
  <2>4. CASE d # c
    <3>1. call'[d] = call[d] /\ call[d] \in CallState /\ CallOK(call[d], releases)
      BY <2>4, <1>2 DEF IInv, TypeOK
    <3> QED
      BY <2>1, <2>2, <3>1, <1>2, RegistryAssumption DEF CallOK, CallState
  <2> QED
    BY <2>3, <2>4
<1> QED
  BY <1>6, <1>7, <1>8 DEF IInv

---------------------------------------------------------------------------
LEMMA NextIInv == IInv /\ [Next]_vars => IInv'
<1> SUFFICES ASSUME IInv, [Next]_vars PROVE IInv'
  OBVIOUS
<1>1. CASE UNCHANGED vars
  BY <1>1 DEF vars, IInv, TypeOK
<1>2. ASSUME NEW c \in Call, Start(c) \/ Step(c)
      PROVE  IInv'
  BY <1>2, InsertStep, ReadStep DEF Step
<1> QED
  BY <1>1, <1>2 DEF Next

\* The inductive invariant holds throughout.
THEOREM Invariance == Spec => []IInv
<1> QED
  BY InitIInv, NextIInv, PTL DEF Spec

\* Rows and call states keep their types.
THEOREM TypeCorrect == Spec => []TypeOK
<1>1. IInv => TypeOK
  BY DEF IInv
<1> QED
  BY <1>1, Invariance, PTL

\* Labels stay v1..vN whatever number of calls race on them.
THEOREM Contiguous == Spec => []VersionsContiguous
<1>1. IInv => VersionsContiguous
  BY DEF IInv, LabelsOK, Labels, Rows, VersionsContiguous, countByAgent, ReleasesOf
<1> QED
  BY <1>1, Invariance, PTL

\* createRelease gives up only after more than MaxRound other creations.
THEOREM FailsUnderContention == Spec => []FailsOnlyUnderContention
<1>1. IInv => FailsOnlyUnderContention
  <2> SUFFICES ASSUME IInv, NEW c \in Call, call[c].pc = "failed",
                      call[c].agent \notin Assistant
               PROVE  countByAgent(call[c].agent) > call[c].base + MaxRound
    BY DEF FailsOnlyUnderContention
  <2>1. /\ call[c] \in CallState /\ CallOK(call[c], releases)
        /\ Rows(releases, call[c].agent) \in Nat
        /\ countByAgent(call[c].agent) = Rows(releases, call[c].agent)
    BY RowsIsNat DEF IInv, TypeOK, countByAgent, ReleasesOf, Rows
  <2> QED
    BY <2>1, RegistryAssumption DEF CallOK, CallState
<1> QED
  BY <1>1, Invariance, PTL

\* An assistant call fails only when a call for another template took its label.
THEOREM AssistantFailsOnlyOnOtherHash == Spec => []AssistantAdopts
<1>1. IInv => AssistantAdopts
  <2> SUFFICES ASSUME IInv, NEW c \in Call, call[c].pc = "failed",
                      call[c].agent \in Assistant
               PROVE  \E r \in ReleasesOf(call[c].agent) :
                        /\ r.version = versionLabel(call[c].count) /\ r.version > call[c].base
                        /\ r.gitSha # call[c].gitSha
    BY DEF AssistantAdopts
  <2>1. PICK r \in releases : Collided(call[c], r) /\ r.gitSha # call[c].gitSha
    BY DEF IInv, CallOK
  <2>2. call[c].base \in Nat /\ r.version \in Nat
    BY DEF IInv, TypeOK, CallState, Release
  <2> QED
    BY <2>1, <2>2 DEF Collided, ReleasesOf, versionLabel
<1> QED
  BY <1>1, Invariance, PTL

\* Only calls that overlap record a commit twice.
THEOREM DuplicatesOverlap == Spec => []DuplicatesOnlyOverlap
<1>1. IInv => DuplicatesOnlyOverlap
  BY DEF IInv, CallOK, Missed, DuplicatesOnlyOverlap, ReleasesOf
<1> QED
  BY <1>1, Invariance, PTL
=============================================================================
