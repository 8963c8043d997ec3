------------------------- MODULE PublishLedger_proofs -------------------------
(***************************************************************************)
(* PublishPipeline implements ChangeLedger, a publish that succeeded       *)
(* without a commit had nothing to do, and a model reset publishes what it *)
(* staged: what the drafts, the runs and the commits know of each other's  *)
(* changes.                                                                *)
(***************************************************************************)
EXTENDS PublishPipeline_proofs

\* The drafts d, of the table, a run or a commit, name saves s of their files.
Names(d, s) ==
  \A p \in Path : d[p] \in 0 .. Len(s) /\ (d[p] # 0 => s[d[p]].path = p)

\* The fingerprint of the drafts d.
PrintOf(d, s) == [p \in Path |-> IF d[p] # 0 /\ s[d[p]].reset THEN MaxSave + 1 ELSE d[p]]

\* The inductive invariant behind the refinement.
BookInv ==
  /\ \A u, v \in DOMAIN saves : u <= v => saves[u].at <= saves[v].at
  /\ Names(draft, saves)
  /\ \A p \in Path : draft[p] \notin dropped
  /\ \A i \in DOMAIN branch : Names(branch[i].files, saves)
  /\ \A t \in Task :
       /\ Names(run[t].drafts, saves)
       /\ \A p \in Path : draft[p] # 0 => run[t].drafts[p] <= draft[p]
       /\ run[t].pc = "delete" =>
            \/ moot[t].files = run[t].drafts
            \/ \E i \in DOMAIN branch : branch[i].files = run[t].drafts
       /\ Names(moot[t].files, saves)

\* A deletion was saved no later than on the head that its run reads for its
\* commit, and a publish was only found moot when it was.
Pinned == {"building", "recommit", "cas", "recas"}
HeadInv ==
  /\ \A v \in DOMAIN saves : saves[v].gone <= BranchHead
  /\ \A t \in Task :
       /\ run[t].pc \in Pinned =>
            \A p \in Path : run[t].drafts[p] # 0 => saves[run[t].drafts[p]].gone <= run[t].base
       /\ IF moot[t].head = 0 THEN moot[t].files = NoDraft ELSE NothingToDo(t)

\* The inductive invariant behind ResetExact.
ResetInv ==
  \A t \in Task :
    /\ task[t].status = "none" => LandedBy(t) = {}
    /\ task[t].status # "none" /\ call[t].print # NoDraft =>
         /\ run[t].pc \in BeforeCommit => PrintOf(run[t].drafts, saves) = call[t].print
         /\ \A i \in LandedBy(t) : PrintOf(branch[i].files, saves) = call[t].print

---------------------------------------------------------------------------
\* The saves that upsert appends.

Grows(s, s2) ==
  Len(s) <= Len(s2) /\ \A v \in 1 .. Len(s) : s2[v] = s[v]

LEMMA SaveFacts ==
  ASSUME Files
  PROVE  /\ Len(saves) \in Nat /\ DOMAIN saves = 1 .. Len(saves) /\ saves \in Seq(Saves)
         /\ \A v \in DOMAIN saves : saves[v] \in Saves /\ saves[v].path \in Path
                                    /\ saves[v].at \in Nat
         /\ draft \in [Path -> 0 .. Len(saves)]
<1>1. /\ Len(saves) \in Nat /\ DOMAIN saves = 1 .. Len(saves) /\ saves \in Seq(Saves)
      /\ draft \in [Path -> 0 .. Len(saves)]
  BY DEF Files
<1>2. \A v \in DOMAIN saves : saves[v] \in Saves
  BY <1>1, ElementOfSeq
<1> QED
  BY <1>1, <1>2 DEF Saves

LEMMA UpsertOrder ==
  ASSUME NEW ps, IsFiniteSet(ps), NEW order \in [1 .. Cardinality(ps) -> ps],
         {order[i] : i \in DOMAIN order} = ps
  PROVE  /\ \A i, j \in DOMAIN order : order[i] = order[j] => i = j
         /\ DOMAIN order = 1 .. Cardinality(ps) /\ Cardinality(ps) \in Nat
<1> DEFINE n == Cardinality(ps)
<1>1. n \in Nat /\ IsFiniteSet(1 .. n) /\ Cardinality(1 .. n) = n
  <2>1. n \in Nat
    BY FS_CardinalityType
  <2>2. IsFiniteSet(1 .. n) /\ Cardinality(1 .. n) = IF 1 > n THEN 0 ELSE n - 1 + 1
    BY <2>1, FS_Interval
  <2> QED
    BY <2>1, <2>2
<1>2. order \in Surjection(1 .. n, ps)
  BY Zenon DEF Surjection
<1>3. order \in Injection(1 .. n, ps)
  BY <1>1, <1>2, FS_SurjSameCardinalityImpliesInj
<1> QED
  BY <1>1, <1>3 DEF Injection, IsInjective

LEMMA UpsertSaves ==
  ASSUME Files, BookInv, NEW ps \in SUBSET Path, NEW reset \in BOOLEAN, NEW gone \in Nat,
         Upsert(ps, reset, gone)
  PROVE  /\ Grows(saves, saves') /\ Len(saves') = Len(saves) + Cardinality(ps)
         /\ Cardinality(ps) \in Nat
         /\ DOMAIN saves' = 1 .. Len(saves')
         /\ \A v \in DOMAIN saves' \ DOMAIN saves :
              saves'[v].path \in ps /\ draft'[saves'[v].path] = v /\ saves'[v].gone = gone
         /\ \A p \in ps : /\ draft'[p] \in DOMAIN saves' \ DOMAIN saves
                          /\ saves'[draft'[p]].path = p
         /\ \A p \in Path \ ps : draft'[p] = draft[p]
         /\ \A u, v \in DOMAIN saves' : u <= v => saves'[u].at <= saves'[v].at
<1> DEFINE n == Cardinality(ps)
           L == Len(saves)
<1>1. n \in Nat /\ IsFiniteSet(ps)
  BY PathAssumption, FS_Subset, FS_CardinalityType
<1>2. PICK at \in Stamps, order \in [1 .. n -> ps] :
        LET number(p) == Len(saves) + CHOOSE i \in DOMAIN order : order[i] = p
        IN  /\ {order[i] : i \in DOMAIN order} = ps
            /\ saves' = saves \o [i \in DOMAIN order |->
                                    [path |-> order[i], at |-> at, reset |-> reset, gone |-> gone]]
            /\ draft' = [p \in Path |-> IF p \in ps THEN number(p) ELSE draft[p]]
  BY DEF Upsert
<1>3. /\ \A i, j \in DOMAIN order : order[i] = order[j] => i = j
      /\ DOMAIN order = 1 .. n
  BY <1>1, <1>2, UpsertOrder
<1> DEFINE new == [i \in 1 .. n |-> [path |-> order[i], at |-> at, reset |-> reset, gone |-> gone]]
<1>4. L \in Nat /\ DOMAIN saves = 1 .. L /\ saves \in Seq(Saves)
      /\ (\A v \in 1 .. L : saves[v].at \in Nat)
  BY SaveFacts
<1>5. saves' = saves \o new
  BY <1>2, <1>3
<1>6. /\ Len(saves') = L + n /\ DOMAIN saves' = 1 .. (L + n)
      /\ \A v \in 1 .. L : saves'[v] = saves[v]
      /\ \A i \in 1 .. n : saves'[L + i] = new[i]
  <2>1. new \in Seq({new[i] : i \in 1 .. n}) /\ Len(new) = n
    <3> HIDE DEF new
    <3>1. DOMAIN new = 1 .. n /\ new = [i \in 1 .. n |-> new[i]]
      BY DEF new
    <3>2. new \in [1 .. n -> {new[i] : i \in 1 .. n}]
      BY <3>1
    <3> QED
      BY <1>1, <3>2
  <2> HIDE DEF new
  <2>2. saves \in Seq(Saves \cup {new[i] : i \in 1 .. n})
        /\ new \in Seq(Saves \cup {new[i] : i \in 1 .. n})
    BY <1>4, <2>1
  <2> QED
    BY <1>1, <1>4, <1>5, <2>1, <2>2
<1>7. \A i \in 1 .. n : saves'[L + i].path = order[i] /\ saves'[L + i].at = at
                         /\ saves'[L + i].gone = gone
  <2>1. ASSUME NEW i \in 1 .. n
        PROVE  saves'[L + i].path = order[i] /\ saves'[L + i].at = at /\ saves'[L + i].gone = gone
    <3>1. saves'[L + i] = [path |-> order[i], at |-> at, reset |-> reset, gone |-> gone]
      BY <1>6
    <3> QED
      BY <3>1
  <2> QED
    BY <2>1
<1>8. at \in Nat /\ \A v \in 1 .. L : saves[v].at <= at
  <2>1. CASE saves = << >>
    BY <1>2, <1>4, <2>1 DEF Stamps
  <2>2. CASE saves # << >>
    <3>1. L \in Nat \ {0}
      BY <1>4, <2>2, EmptySeq, Zenon
    <3>2. L \in 1 .. L /\ saves[L].at \in Nat /\ \A v \in 1 .. L : saves[v].at <= saves[L].at
      BY <1>4, <3>1 DEF BookInv
    <3>3. at \in {saves[L].at, saves[L].at + 1}
      BY <1>2, <2>2 DEF Stamps
    <3> QED
      BY <1>4, <3>2, <3>3
  <2> QED
    BY <2>1, <2>2
<1> HIDE DEF new
<1>9. \A v \in DOMAIN saves' : v \in 1 .. L \/ \E i \in 1 .. n : v = L + i
  <2>1. ASSUME NEW v \in 1 .. (L + n), v \notin 1 .. L
        PROVE  v - L \in 1 .. n /\ v = L + (v - L)
    BY <1>1, <1>4, <2>1
  <2> QED
    BY <1>6, <2>1
<1>10. \A i \in 1 .. n : L + i \in DOMAIN saves' \ DOMAIN saves
  BY <1>1, <1>4, <1>6
<1>11. \A p \in ps : \E i \in 1 .. n : p = order[i] /\ draft'[p] = L + i
  <2>1. ASSUME NEW p \in ps
        PROVE  \E i \in 1 .. n : p = order[i] /\ draft'[p] = L + i
    <3> DEFINE i == CHOOSE j \in DOMAIN order : order[j] = p
    <3>1. i \in 1 .. n /\ order[i] = p
      BY <1>2, <1>3
    <3>2. draft'[p] = L + i
      BY <1>2
    <3> QED
      BY <3>1, <3>2
  <2> QED
    BY <2>1
<1>12. \A i \in 1 .. n : order[i] \in ps /\ draft'[order[i]] = L + i
  <2>1. ASSUME NEW i \in 1 .. n
        PROVE  order[i] \in ps /\ draft'[order[i]] = L + i
    <3>1. order[i] \in ps
      BY <1>2
    <3>2. PICK j \in 1 .. n : order[i] = order[j] /\ draft'[order[i]] = L + j
      BY <1>11, <3>1
    <3> QED
      BY <1>3, <3>1, <3>2
  <2> QED
    BY <2>1
<1>13. \A p \in Path \ ps : draft'[p] = draft[p]
  BY <1>2
<1>14. ASSUME NEW u \in DOMAIN saves', NEW v \in DOMAIN saves', u <= v
       PROVE  saves'[u].at <= saves'[v].at
  <2>1. CASE u \in 1 .. L /\ v \in 1 .. L
    BY <1>4, <1>6, <1>14, <2>1 DEF BookInv
  <2>2. CASE u \notin 1 .. L
    <3>1. v \notin 1 .. L
      BY <1>4, <1>6, <1>14, <2>2
    <3> QED
      BY <1>7, <1>8, <1>9, <2>2, <3>1
  <2>3. CASE u \in 1 .. L /\ v \notin 1 .. L
    BY <1>6, <1>7, <1>8, <1>9, <2>3
  <2> QED
    BY <2>1, <2>2, <2>3
<1>15. \A v \in DOMAIN saves' \ DOMAIN saves :
         saves'[v].path \in ps /\ draft'[saves'[v].path] = v /\ saves'[v].gone = gone
  BY <1>4, <1>7, <1>9, <1>12
<1>16. \A p \in ps : /\ draft'[p] \in DOMAIN saves' \ DOMAIN saves
                     /\ saves'[draft'[p]].path = p
  BY <1>7, <1>10, <1>11
<1>17. Grows(saves, saves')
  BY <1>1, <1>4, <1>6 DEF Grows
<1> QED
  BY <1>1, <1>6, <1>13, <1>14, <1>15, <1>16, <1>17

---------------------------------------------------------------------------
\* The ledger of the refinement.

Book == [v \in DOMAIN saves |->
           [path |-> saves[v].path, at |-> saves[v].at, fate |-> Fate(v)]]

LEMMA BookFacts ==
  /\ DOMAIN Book = DOMAIN saves
  /\ \A v \in DOMAIN saves : /\ Book[v].path = saves[v].path /\ Book[v].at = saves[v].at
                             /\ Book[v].fate = Fate(v)
BY DEF Book

\* A step of the ledger, or none.
BookNext ==
  Book' # Book =>
    \/ \E ps \in (SUBSET Path) \ {{}} : Ledger!Save(ps)
    \/ \E S \in (SUBSET DOMAIN Book) \ {{}} :
         Ledger!Discard(S) \/ Ledger!Land(S) \/ Ledger!Forgo(S) \/ Ledger!Absorb(S)

\* What a change can be that a publish is done with.
Mooted(v) == \E t \in Task : moot[t].files[saves[v].path] = v
Done(v) == Landed(v) \/ Mooted(v)

\* A step that gives the changes S the fate f is a step of the ledger.
LEMMA MarkBook ==
  ASSUME UNCHANGED saves, NEW S \in SUBSET DOMAIN saves,
         NEW f \in {"dropped", "landed", "moot", "absorbed"},
         \A v \in DOMAIN saves : Fate(v)' = IF v \in S THEN f ELSE Fate(v),
         f \in {"dropped", "absorbed"} => \A v \in S : Fate(v) = "saved",
         f \in {"landed", "moot"} => \A u, v \in S : saves[u].path = saves[v].path => u = v,
         f = "moot" => \A v \in S : Met(v) /\ Fate(v) # "landed",
         f = "absorbed" => \A v \in S : \E u \in DOMAIN saves :
           /\ Fate(u) \in {"landed", "moot"}
           /\ saves[u].path = saves[v].path /\ saves[u].at = saves[v].at
  PROVE  BookNext
<1>1. Book' = [v \in DOMAIN saves |-> [path |-> saves[v].path, at |-> saves[v].at,
                                       fate |-> IF v \in S THEN f ELSE Fate(v)]]
  BY DEF Book
<1>2. CASE S = {}
  <2>1. Book' = Book
    BY <1>1, <1>2 DEF Book
  <2> QED
    BY <2>1 DEF BookNext
<1>3. CASE S # {}
  <2>1. Ledger!Marked(S, f) = Book'
    <3>1. \A v \in DOMAIN saves :
            [Book[v] EXCEPT !.fate = f] = [path |-> saves[v].path, at |-> saves[v].at, fate |-> f]
      BY DEF Book
    <3> DEFINE B == Book
    <3>2. Ledger!Marked(S, f) = [v \in DOMAIN B |-> IF v \in S THEN [B[v] EXCEPT !.fate = f] ELSE B[v]]
      BY DEF Ledger!Marked, Book
    <3>3. DOMAIN B = DOMAIN saves
          /\ \A v \in DOMAIN saves : B[v] = [path |-> saves[v].path, at |-> saves[v].at, fate |-> Fate(v)]
      BY DEF Book
    <3> HIDE DEF B
    <3>4. \A v \in DOMAIN saves : [B[v] EXCEPT !.fate = f]
             = [path |-> saves[v].path, at |-> saves[v].at, fate |-> f]
      BY <3>1 DEF B
    <3> QED
      BY <1>1, <3>2, <3>3, <3>4
  <2>2. \A g : Ledger!InFate(g) = {v \in DOMAIN saves : Fate(v) = g}
    BY DEF Ledger!InFate
  <2>3. f = "dropped" => Ledger!Discard(S)
    BY <2>1, <2>2 DEF Ledger!Discard, Book
  <2>4. f = "landed" => Ledger!Land(S)
    BY <2>1 DEF Ledger!Land, Ledger!OneOfEachFile, Book
  <2>5. f = "absorbed" => Ledger!Absorb(S)
    BY <2>1, <2>2 DEF Ledger!Absorb, Book
  <2>6. f = "moot" => Ledger!Forgo(S)
    BY <2>1, <2>2 DEF Ledger!Forgo, Ledger!OneOfEachFile, Book
  <2>7. S \in (SUBSET DOMAIN Book) \ {{}}
    BY <1>3, BookFacts
  <2> QED
    BY <2>3, <2>4, <2>5, <2>6, <2>7 DEF BookNext
<1> QED
  BY <1>2, <1>3 DEF BookNext

\* So is one that adds a change for each of the files ps.
LEMMA SaveBook ==
  ASSUME Files, Files', NEW ps \in SUBSET Path, ps # {}, Grows(saves, saves'),
         \A v \in DOMAIN saves :
           Fate(v)' = IF Fate(v) = "saved" /\ saves[v].path \in ps THEN "dropped" ELSE Fate(v),
         \A v \in DOMAIN saves' \ DOMAIN saves : saves'[v].path \in ps /\ Fate(v)' = "saved",
         \A p \in ps : \E v \in DOMAIN saves' \ DOMAIN saves : saves'[v].path = p,
         \A u, v \in DOMAIN saves' \ DOMAIN saves : saves'[u].path = saves'[v].path => u = v
  PROVE  BookNext
<1>1. /\ DOMAIN saves = 1 .. Len(saves) /\ DOMAIN saves' = 1 .. Len(saves')
      /\ Len(saves) \in Nat /\ Len(saves') \in Nat
  BY DEF Files
<1> DEFINE B == Book
           C == Book'
<1>2. /\ DOMAIN B = DOMAIN saves
      /\ \A v \in DOMAIN saves : B[v] = [path |-> saves[v].path, at |-> saves[v].at, fate |-> Fate(v)]
      /\ DOMAIN C = DOMAIN saves'
      /\ \A v \in DOMAIN saves' : C[v] = [path |-> saves'[v].path, at |-> saves'[v].at,
                                          fate |-> Fate(v)']
  BY DEF Book
<1>3. DOMAIN saves \subseteq DOMAIN saves'
  BY <1>1 DEF Grows
<1> HIDE DEF B, C
<1> DEFINE S == {v \in DOMAIN saves : Fate(v) = "saved" /\ saves[v].path \in ps}
<1>4. Ledger!Marked({u \in Ledger!InFate("saved") : Book[u].path \in ps}, "dropped")
        = [v \in DOMAIN B |-> IF v \in S THEN [B[v] EXCEPT !.fate = "dropped"] ELSE B[v]]
  <2>1. {u \in Ledger!InFate("saved") : Book[u].path \in ps} = S
    BY DEF Ledger!InFate, Book
  <2> HIDE DEF S
  <2> QED
    BY <2>1 DEF Ledger!Marked, Book, B
<1>5. ASSUME NEW v \in DOMAIN saves
      PROVE  C[v] = Ledger!Marked({u \in Ledger!InFate("saved") : Book[u].path \in ps}, "dropped")[v]
  <2>1. v \in DOMAIN saves' /\ saves'[v] = saves[v]
    BY <1>1 DEF Grows
  <2>2. C[v] = [path |-> saves[v].path, at |-> saves[v].at,
                fate |-> IF v \in S THEN "dropped" ELSE Fate(v)]
    BY <1>2, <2>1
  <2> HIDE DEF S
  <2> QED
    BY <1>2, <1>4, <2>2
<1>6. {C[v].path : v \in DOMAIN C \ DOMAIN B} = ps
  BY <1>2
<1>7. \A v \in DOMAIN C \ DOMAIN B : C[v].fate = "saved"
  BY <1>2
<1>8. \A u, v \in DOMAIN C \ DOMAIN B : C[u].path = C[v].path => u = v
  BY <1>2
<1>9. Ledger!Save(ps)
  BY <1>2, <1>3, <1>5, <1>6, <1>7, <1>8 DEF Ledger!Save, Book, B, C
<1>10. ps \in (SUBSET Path) \ {{}}
  OBVIOUS
<1> QED
  BY <1>9, <1>10 DEF BookNext

---------------------------------------------------------------------------
\* The drafts a run captured at its head stay with it.

KeepsDrafts(t) ==
  /\ run'[t].drafts = run[t].drafts
  /\ run'[t].pc \in BeforeCommit => run[t].pc \in BeforeCommit
  /\ run'[t].pc # "delete"
  /\ run'[t].pc \in Pinned => \/ run[t].pc \in Pinned /\ run'[t].base = run[t].base
                              \/ run'[t].base = BranchHead

LEMMA CaughtDrafts ==
  ASSUME Rows, NEW t \in Task, NEW st
  PROVE  /\ Caught(t, st).drafts = run[t].drafts
         /\ Caught(t, st).pc \in {"threw", "failAt", "failTask"}
<1> DEFINE r == [run[t] EXCEPT !.steps = st]
<1>1. run[t] \in Runs
  BY DEF Rows
<1>2. /\ DOMAIN r = {"pc", "steps", "drafts", "base", "built", "handler"}
      /\ r.drafts = run[t].drafts /\ r.handler = run[t].handler
  BY <1>1 DEF Runs
<1> HIDE DEF r
<1>3. ASSUME NEW s, NEW h
      PROVE  LET f == [[r EXCEPT !.steps[s] = "failed", !.pc = "failAt"] EXCEPT !.handler = h]
             IN  f.drafts = run[t].drafts /\ f.pc = "failAt"
  BY <1>2
<1>4. [r EXCEPT !.pc = "threw"].drafts = run[t].drafts /\ [r EXCEPT !.pc = "threw"].pc = "threw"
  BY <1>2
<1>5. LET f == [r EXCEPT !.pc = "failTask", !.handler = "none"]
      IN  f.drafts = run[t].drafts /\ f.pc = "failTask"
  BY <1>2
<1>6. \/ Caught(t, st) = [r EXCEPT !.pc = "threw"]
      \/ Caught(t, st) = [r EXCEPT !.pc = "failTask", !.handler = "none"]
      \/ \E s, h : Caught(t, st)
                   = [[r EXCEPT !.steps[s] = "failed", !.pc = "failAt"] EXCEPT !.handler = h]
  BY <1>1 DEF Caught, r, Runs, Handlers
<1>7. CASE \E s, h : Caught(t, st)
                   = [[r EXCEPT !.steps[s] = "failed", !.pc = "failAt"] EXCEPT !.handler = h]
  <2>1. PICK s, h : Caught(t, st)
                   = [[r EXCEPT !.steps[s] = "failed", !.pc = "failAt"] EXCEPT !.handler = h]
    BY <1>7
  <2> DEFINE f == [[r EXCEPT !.steps[s] = "failed", !.pc = "failAt"] EXCEPT !.handler = h]
  <2>2. f.drafts = run[t].drafts /\ f.pc = "failAt"
    BY <1>3
  <2> HIDE DEF f
  <2> QED
    BY <2>1, <2>2 DEF f
<1>8. CASE Caught(t, st) = [r EXCEPT !.pc = "failTask", !.handler = "none"]
  BY <1>5, <1>8
<1> QED
  BY <1>4, <1>6, <1>7, <1>8

LEMMA MoveDrafts ==
  ASSUME Rows, NEW t \in Task, NEW q, run' = [run EXCEPT ![t] = q],
         q.drafts = run[t].drafts, q.pc \in BeforeCommit => run[t].pc \in BeforeCommit,
         q.pc # "delete",
         q.pc \in Pinned => \/ run[t].pc \in Pinned /\ q.base = run[t].base
                            \/ q.base = BranchHead
  PROVE  KeepsDrafts(t)
BY DEF Rows, KeepsDrafts

LEMMA RejectDrafts ==
  ASSUME Rows, NEW t \in Task, NEW st, Reject(t, st)
  PROVE  KeepsDrafts(t)
BY CaughtDrafts, MoveDrafts DEF Reject, BeforeCommit, Pinned

LEMMA SaveDrafts ==
  ASSUME Rows, NEW t \in Task, NEW st, NEW r \in Runs, SaveSteps(t, st, r),
         r.drafts = run[t].drafts, r.pc \in BeforeCommit => run[t].pc \in BeforeCommit,
         r.pc # "delete",
         r.pc \in Pinned => run[t].pc \in Pinned /\ r.base = run[t].base
  PROVE  KeepsDrafts(t)
<1>1. CASE run' = [run EXCEPT ![t] = [r EXCEPT !.steps = st]]
  <2> DEFINE q == [r EXCEPT !.steps = st]
  <2>1. q.drafts = r.drafts /\ q.pc = r.pc /\ q.base = r.base
    BY DEF Runs
  <2> HIDE DEF q
  <2> QED
    BY <1>1, <2>1, MoveDrafts DEF q
<1> QED
  BY <1>1, RejectDrafts DEF SaveSteps

LEMMA RunDrafts ==
  ASSUME Rows, NEW t \in Task, runPublish(t), ~ReadTask(t), ~commitToDefaultBranch(t)
  PROVE  KeepsDrafts(t)
<1>1. run[t] \in Runs /\ run \in [Task -> Runs]
  BY DEF Rows
<1>3. ASSUME NEW pc \in RunPc, NEW s, NEW status, SaveStep(t, s, status, pc),
             pc # "delete", pc \in BeforeCommit => run[t].pc \in BeforeCommit,
             pc \in Pinned => run[t].pc \in Pinned
      PROVE  KeepsDrafts(t)
  <2> DEFINE r == [run[t] EXCEPT !.pc = pc]
  <2>1. r \in Runs /\ r.drafts = run[t].drafts /\ r.pc = pc /\ r.base = run[t].base
    BY <1>1 DEF Runs
  <2> HIDE DEF r
  <2> QED
    BY <1>3, <2>1, SaveDrafts DEF r, SaveStep
<1>4. ASSUME NEW pc \in RunPc, Go(t, pc),
             pc # "delete", pc \in BeforeCommit => run[t].pc \in BeforeCommit,
             pc \in Pinned => run[t].pc \in Pinned
      PROVE  KeepsDrafts(t)
  <2> DEFINE q == [run[t] EXCEPT !.pc = pc]
  <2>1. q.drafts = run[t].drafts /\ q.pc = pc /\ q.base = run[t].base
    BY <1>1 DEF Runs
  <2>2. run' = [run EXCEPT ![t] = q]
    BY <1>1, <1>4 DEF Go
  <2> HIDE DEF q
  <2> QED
    BY <1>4, <2>1, <2>2, MoveDrafts
<1> USE DEF RunPc, Working, BeforeCommit, Pinned
<1>5. ASSUME NEW s, FailStep(t, s)
      PROVE  KeepsDrafts(t)
  BY <1>3, <1>5 DEF FailStep
<1>6. CASE BeginCheck(t)
  BY <1>3, <1>6 DEF BeginCheck
<1>7. CASE InitSteps(t)
  <2> DEFINE r == [run[t] EXCEPT !.pc = "check", !.handler = "outer"]
  <2>1. r \in Runs /\ r.drafts = run[t].drafts /\ r.pc = "check"
    BY <1>1 DEF Runs, Handlers
  <2> HIDE DEF r
  <2> QED
    BY <1>7, <2>1, SaveDrafts DEF r, InitSteps
<1>8. CASE Check(t)
  <2> DEFINE r == [run[t] EXCEPT !.pc = "pin",
                     !.handler = IF ConfigOnly(t) THEN "commit" ELSE "outer"]
  <2>1. r \in Runs /\ r.drafts = run[t].drafts /\ r.pc = "pin"
    BY <1>1 DEF Runs, Handlers
  <2> HIDE DEF r
  <2>2. ASSUME NEW h, run' = [run EXCEPT ![t].steps["check"] = "failed", ![t].pc = "failAt",
                                         ![t].handler = h]
        PROVE  KeepsDrafts(t)
    <3> DEFINE q == [run[t] EXCEPT !.steps["check"] = "failed", !.pc = "failAt", !.handler = h]
    <3>1. q.drafts = run[t].drafts /\ q.pc = "failAt"
      BY <1>1 DEF Runs
    <3>2. run' = [run EXCEPT ![t] = q]
      BY <1>1, <2>2
    <3> HIDE DEF q
    <3> QED
      BY <3>1, <3>2, MoveDrafts
  <2> QED
    BY <1>8, <2>1, <2>2, SaveDrafts DEF r, Check, EndStep
<1>9. CASE getBranchHead(t)
  <2> DEFINE next == IF run[t].steps["build"] = "running" THEN "building"
                     ELSE IF run[t].steps["commit"] = "running" THEN "cas" ELSE "recommit"
             q == [run[t] EXCEPT !.base = BranchHead, !.pc = next]
  <2>1. q.drafts = run[t].drafts /\ q.pc = next /\ next # "delete" /\ q.base = BranchHead
    BY <1>1 DEF Runs
  <2>2. run' = [run EXCEPT ![t] = q] => KeepsDrafts(t)
    <3> HIDE DEF q, next
    <3> QED
      BY <1>9, <2>1, MoveDrafts DEF getBranchHead
  <2> QED
    BY <1>9, <2>2, RejectDrafts DEF getBranchHead
<1>10. CASE Build(t)
  <2> DEFINE r == [run[t] EXCEPT !.pc = IF run[t].handler = "commit" THEN "recas" ELSE "cas",
                     !.built = run[t].base, !.handler = "commit"]
  <2>1. r \in Runs /\ r.drafts = run[t].drafts /\ r.pc \in {"cas", "recas"}
        /\ r.base = run[t].base
    BY <1>1 DEF Runs, Handlers
  <2> HIDE DEF r
  <2> QED
    BY <1>5, <1>10, <2>1, SaveDrafts DEF r, Build, EndStep
<1>11. CASE CommitMissedTwice(t)
  BY <1>5, <1>11 DEF CommitMissedTwice
<1>12. CASE RetryCommit(t)
  BY <1>3, <1>12 DEF RetryCommit
<1>13. CASE BeginAgain(t)
  BY <1>3, <1>13 DEF BeginAgain
<1>14. CASE DeleteDrafts(t)
  BY <1>4, <1>14, RejectDrafts DEF DeleteDrafts
<1>15. CASE CommitDone(t)
  BY <1>3, <1>15 DEF CommitDone
<1>16. CASE EnqueueRestart(t)
  BY <1>3, <1>4, <1>16, RejectDrafts DEF EnqueueRestart
<1>17. CASE CutVersion(t)
  <2> DEFINE r == [run[t] EXCEPT !.pc = "deploying"]
  <2>1. r \in Runs /\ r.drafts = run[t].drafts /\ r.pc = "deploying"
    BY <1>1 DEF Runs
  <2> HIDE DEF r
  <2> QED
    BY <1>5, <1>17, <2>1, SaveDrafts DEF r, CutVersion, EndStep
<1>18. CASE QueueDeploys(t)
  BY <1>3, <1>5, <1>18 DEF QueueDeploys
<1>19. CASE completeTask(t) \/ failTask(t)
  BY <1>4, <1>19, RejectDrafts DEF completeTask, failTask, SettleTask
<1>20. CASE FailAt(t)
  <2> DEFINE r == [run[t] EXCEPT !.pc = "failTask"]
  <2>1. r \in Runs /\ r.drafts = run[t].drafts /\ r.pc = "failTask"
    BY <1>1 DEF Runs
  <2> HIDE DEF r
  <2> QED
    BY <1>20, <2>1, SaveDrafts DEF r, FailAt
<1>21. CASE SaveAfterRebuild(t)
  <2> DEFINE r == [run[t] EXCEPT !.pc = "returned"]
  <2>1. r \in Runs /\ r.drafts = run[t].drafts /\ r.pc = "returned"
    BY <1>1 DEF Runs
  <2> HIDE DEF r
  <2> QED
    BY <1>21, <2>1, SaveDrafts DEF r, SaveAfterRebuild
<1> QED
  BY <1>6, <1>7, <1>8, <1>9, <1>10, <1>11, <1>12, <1>13, <1>14, <1>15, <1>16, <1>17,
     <1>18, <1>19, <1>20, <1>21 DEF runPublish

---------------------------------------------------------------------------
\* The steps of the ledger.

LEMMA NamesGrow ==
  ASSUME NEW s, NEW s2, Len(s) \in Nat, Len(s2) \in Nat, Grows(s, s2), NEW d, Names(d, s)
  PROVE  Names(d, s2)
BY DEF Names, Grows

\* A step that leaves the drafts table and the branch alone leaves the ledger
\* alone; a run may have read the table.
LEMMA QuietStep ==
  ASSUME Files, BookInv, UNCHANGED <<saves, draft, branch, dropped, absorbed, moot>>,
         \A t \in Task :
           /\ run'[t].drafts \in {run[t].drafts, draft, NoDraft}
           /\ run'[t].pc = "delete" =>
                run[t].pc = "delete" /\ run'[t].drafts = run[t].drafts
  PROVE  BookInv' /\ BookNext
<1>1. Len(saves) \in Nat /\ draft \in [Path -> 0 .. Len(saves)]
  BY SaveFacts
<1>2. ASSUME NEW t \in Task
      PROVE  /\ Names(run'[t].drafts, saves)
             /\ \A p \in Path : draft[p] # 0 => run'[t].drafts[p] <= draft[p]
  <2>1. CASE run'[t].drafts = run[t].drafts
    BY <2>1 DEF BookInv
  <2>2. CASE run'[t].drafts = draft
    BY <1>1, <2>2 DEF BookInv
  <2>3. CASE run'[t].drafts = NoDraft
    BY <1>1, <2>3 DEF Names, NoDraft
  <2> QED
    BY <2>1, <2>2, <2>3
<1>3. \A t \in Task : run'[t].pc = "delete" =>
        \/ moot[t].files = run'[t].drafts
        \/ \E i \in DOMAIN branch : branch[i].files = run'[t].drafts
  BY DEF BookInv
<1>4. BookInv'
  BY <1>2, <1>3 DEF BookInv
<1>5. Book' = Book
  BY DEF Book, Fate, Landed
<1> QED
  BY <1>4, <1>5 DEF BookNext

LEMMA SavingBook ==
  ASSUME Files, Files', BookInv, NEW ps \in SUBSET Path, ps # {}, NEW reset \in BOOLEAN,
         NEW gone \in Nat, Upsert(ps, reset, gone), UNCHANGED <<branch, absorbed, run, moot>>,
         \A t \in Task : run[t].drafts \in [Path -> Draft]
  PROVE  BookInv' /\ BookNext
<1>1. /\ Grows(saves, saves') /\ Len(saves') = Len(saves) + Cardinality(ps)
      /\ Cardinality(ps) \in Nat
      /\ DOMAIN saves' = 1 .. Len(saves')
      /\ \A v \in DOMAIN saves' \ DOMAIN saves :
           saves'[v].path \in ps /\ draft'[saves'[v].path] = v /\ saves'[v].gone = gone
      /\ \A p \in ps : /\ draft'[p] \in DOMAIN saves' \ DOMAIN saves
                       /\ saves'[draft'[p]].path = p
      /\ \A p \in Path \ ps : draft'[p] = draft[p]
      /\ \A u, v \in DOMAIN saves' : u <= v => saves'[u].at <= saves'[v].at
  BY UpsertSaves
<1>2. /\ Len(saves) \in Nat /\ Len(saves') \in Nat
      /\ DOMAIN saves = 1 .. Len(saves) /\ DOMAIN saves' = 1 .. Len(saves')
      /\ draft \in [Path -> 0 .. Len(saves)] /\ dropped \subseteq DOMAIN saves
      /\ \A v \in DOMAIN saves : v \in DOMAIN saves' /\ saves'[v] = saves[v]
  <2>1. /\ Len(saves) \in Nat /\ DOMAIN saves = 1 .. Len(saves)
        /\ draft \in [Path -> 0 .. Len(saves)] /\ dropped \subseteq DOMAIN saves
    BY SaveFacts DEF Files
  <2>2. Len(saves') \in Nat /\ DOMAIN saves' = 1 .. Len(saves')
    BY DEF Files
  <2>3. Len(saves) <= Len(saves') /\ \A v \in 1 .. Len(saves) : saves'[v] = saves[v]
    BY <1>1 DEF Grows
  <2> QED
    BY <2>1, <2>2, <2>3
<1>3. dropped' = dropped \cup {draft[p] : p \in {q \in ps : draft[q] # 0}}
  BY DEF Upsert
<1>4. \A d : Names(d, saves) => Names(d, saves')
  BY <1>1, <1>2, NamesGrow
<1>5. \A p, q \in Path : draft[p] # 0 /\ draft[p] = draft[q] => p = q
  BY DEF BookInv, Names
<1>6. Names(draft', saves')
  <2>1. Names(draft, saves')
    BY <1>4 DEF BookInv
  <2> QED
    BY <1>1, <1>2, <2>1 DEF Names
<1>7. \A p \in Path : draft'[p] \notin dropped'
  <2>1. ASSUME NEW p \in ps
        PROVE  draft'[p] \notin dropped'
    BY <1>1, <1>2, <1>3
  <2>2. ASSUME NEW p \in Path \ ps
        PROVE  draft'[p] \notin dropped'
    <3>1. draft'[p] = draft[p] /\ draft[p] \notin dropped
      BY <1>1 DEF BookInv
    <3>2. \A q \in ps : draft[q] # 0 => draft[p] # draft[q]
      BY <1>5
    <3> QED
      BY <1>3, <3>1, <3>2
  <2> QED
    BY <2>1, <2>2
<1>8. ASSUME NEW t \in Task
      PROVE  /\ Names(run[t].drafts, saves')
             /\ \A p \in Path : draft'[p] # 0 => run[t].drafts[p] <= draft'[p]
  <2>1. Names(run[t].drafts, saves)
    BY DEF BookInv
  <2>2. ASSUME NEW p \in Path, draft'[p] # 0
        PROVE  run[t].drafts[p] <= draft'[p]
    <3>1. CASE p \in ps
      BY <1>1, <1>2, <2>1, <3>1 DEF Names
    <3>2. CASE p \notin ps
      BY <1>1, <2>2, <3>2 DEF BookInv
    <3> QED
      BY <3>1, <3>2
  <2> QED
    BY <1>4, <2>1, <2>2
<1>9. BookInv'
  <2>1. \A t \in Task : Names(moot[t].files, saves')
    BY <1>4 DEF BookInv
  <2> QED
    BY <1>1, <1>4, <1>6, <1>7, <1>8, <2>1 DEF BookInv
<1>10. ASSUME NEW v \in DOMAIN saves
       PROVE  Fate(v)' = IF Fate(v) = "saved" /\ saves[v].path \in ps THEN "dropped" ELSE Fate(v)
  <2>1. (Landed(v)' <=> Landed(v)) /\ (Mooted(v)' <=> Mooted(v))
    BY <1>2 DEF Landed, Mooted
  <2>2. saves'[v] = saves[v] /\ saves[v].path \in Path
    BY <1>2, SaveFacts
  <2>3. CASE saves[v].path \in ps
    <3>1. draft'[saves[v].path] # v
      BY <1>1, <2>3
    <3>2. draft[saves[v].path] = v => v \in dropped'
      BY <1>2, <1>3, <2>3
    <3>3. draft[saves[v].path] # v => (v \in dropped' <=> v \in dropped)
      BY <1>3 DEF BookInv, Names
    <3> QED
      BY <2>1, <2>2, <2>3, <3>1, <3>2, <3>3 DEF Fate, Mooted
  <2>4. CASE saves[v].path \notin ps
    <3>1. draft'[saves[v].path] = draft[saves[v].path]
      BY <1>1, <2>2, <2>4
    <3>2. v \in dropped' <=> v \in dropped
      BY <1>3, <2>4 DEF BookInv, Names
    <3> QED
      BY <2>1, <2>2, <2>4, <3>1, <3>2 DEF Fate, Mooted
  <2> QED
    BY <2>3, <2>4
<1>11. ASSUME NEW v \in DOMAIN saves' \ DOMAIN saves
       PROVE  Fate(v)' = "saved"
  <2>1. ~Landed(v)' /\ ~Mooted(v)'
    <3>1. /\ \A i \in DOMAIN branch : branch[i].files[saves'[v].path] \in 0 .. Len(saves)
          /\ \A t \in Task : moot[t].files[saves'[v].path] \in 0 .. Len(saves)
      BY <1>1 DEF BookInv, Names
    <3> QED
      BY <1>2, <3>1 DEF Landed, Mooted
  <2> QED
    BY <1>1, <2>1 DEF Fate, Mooted
<1>12. \A u, v \in DOMAIN saves' \ DOMAIN saves : saves'[u].path = saves'[v].path => u = v
  BY <1>1
<1>13. \A p \in ps : \E v \in DOMAIN saves' \ DOMAIN saves : saves'[v].path = p
  BY <1>1
<1>14. BookNext
  BY <1>1, <1>10, <1>11, <1>12, <1>13, SaveBook
<1> QED
  BY <1>9, <1>14

LEMMA DiscardBook ==
  ASSUME Files, BookInv, NEW p \in Path, discardDrafts(p)
  PROVE  BookInv' /\ BookNext
<1>1. /\ UNCHANGED <<saves, branch, absorbed, run, moot>> /\ draft[p] # 0
      /\ draft' = [draft EXCEPT ![p] = 0] /\ dropped' = dropped \cup {draft[p]}
  BY DEF discardDrafts
<1>2. /\ Len(saves) \in Nat /\ DOMAIN saves = 1 .. Len(saves)
      /\ draft \in [Path -> 0 .. Len(saves)] /\ dropped \subseteq DOMAIN saves
      /\ \A v \in DOMAIN saves : saves[v].path \in Path
  BY SaveFacts DEF Files
<1>3. \A q \in Path : draft[q] # 0 /\ draft[q] = draft[p] => q = p
  BY DEF BookInv, Names
<1>4. /\ draft'[p] = 0 /\ \A q \in Path : q # p => draft'[q] = draft[q]
      /\ draft[p] \in DOMAIN saves /\ saves[draft[p]].path = p
  BY <1>1, <1>2 DEF BookInv, Names
<1>5. Names(draft', saves)
  <2>1. ASSUME NEW q \in Path
        PROVE  draft'[q] \in 0 .. Len(saves) /\ (draft'[q] # 0 => saves[draft'[q]].path = q)
    <3>1. CASE q = p
      BY <1>2, <1>4, <3>1
    <3>2. CASE q # p
      BY <1>4, <3>2 DEF BookInv, Names
    <3> QED
      BY <3>1, <3>2
  <2> QED
    BY <2>1 DEF Names
<1>6. \A q \in Path : draft'[q] \notin dropped'
  <2>1. 0 \notin dropped'
    BY <1>1, <1>2
  <2>2. ASSUME NEW q \in Path, q # p
        PROVE  draft'[q] \notin dropped'
    <3>1. draft[q] # draft[p]
      BY <1>1, <1>3, <2>2
    <3> QED
      BY <1>1, <1>4, <2>2, <3>1 DEF BookInv
  <2> QED
    BY <1>4, <2>1, <2>2
<1>7. \A t \in Task : \A q \in Path : draft'[q] # 0 => run[t].drafts[q] <= draft'[q]
  BY <1>4 DEF BookInv
<1>8. BookInv'
  BY <1>1, <1>5, <1>6, <1>7 DEF BookInv
<1> DEFINE S == {v \in {draft[p]} : Fate(v) = "saved"}
<1>9. ASSUME NEW v \in DOMAIN saves
      PROVE  Fate(v)' = IF v \in S THEN "dropped" ELSE Fate(v)
  <2>1. (Landed(v)' <=> Landed(v)) /\ (Mooted(v)' <=> Mooted(v))
    BY <1>1 DEF Landed, Mooted
  <2>2. CASE v = draft[p]
    BY <1>1, <1>4, <2>1, <2>2 DEF Fate, Mooted
  <2>3. CASE v # draft[p]
    <3>1. draft'[saves[v].path] = v <=> draft[saves[v].path] = v
      <4>1. CASE saves[v].path = p
        BY <1>2, <1>4, <2>3, <4>1
      <4>2. CASE saves[v].path # p
        BY <1>2, <1>4, <4>2
      <4> QED
        BY <4>1, <4>2
    <3>2. v \in dropped' <=> v \in dropped
      BY <1>1, <2>3
    <3> QED
      BY <1>1, <2>1, <2>3, <3>1, <3>2 DEF Fate, Mooted
  <2> QED
    BY <2>2, <2>3
<1>10. S \in SUBSET DOMAIN saves /\ \A v \in S : Fate(v) = "saved"
  BY <1>4
<1> HIDE DEF S
<1>11. BookNext
  BY <1>1, <1>9, <1>10, MarkBook
<1> QED
  BY <1>8, <1>11

\* A push or the commit of a publish.
LEMMA LandBook ==
  ASSUME Files, BookInv, UNCHANGED <<saves, draft, dropped, absorbed, moot>>,
         NEW n, NEW c, Names(c.files, saves), n \notin DOMAIN branch,
         DOMAIN branch' = DOMAIN branch \cup {n}, branch'[n] = c,
         \A i \in DOMAIN branch : branch'[i] = branch[i],
         \A t \in Task : /\ run'[t].drafts = run[t].drafts
                         /\ run'[t].pc = "delete" =>
                              run[t].pc = "delete" \/ run[t].drafts = c.files
  PROVE  BookInv' /\ BookNext
<1>1. /\ Len(saves) \in Nat /\ DOMAIN saves = 1 .. Len(saves)
      /\ \A v \in DOMAIN saves : saves[v].path \in Path
  BY SaveFacts
<1>2. \A i \in DOMAIN branch' : Names(branch'[i].files, saves)
  BY DEF BookInv
<1>3. ASSUME NEW t \in Task, run'[t].pc = "delete"
      PROVE  \/ moot[t].files = run'[t].drafts
             \/ \E i \in DOMAIN branch' : branch'[i].files = run'[t].drafts
  <2>1. CASE run[t].pc = "delete"
    <3>1. CASE moot[t].files = run[t].drafts
      BY <3>1
    <3>2. CASE \E i \in DOMAIN branch : branch[i].files = run[t].drafts
      <4>1. PICK i \in DOMAIN branch : branch[i].files = run[t].drafts
        BY <3>2
      <4>2. i \in DOMAIN branch' /\ branch'[i] = branch[i]
        BY <4>1
      <4> QED
        BY <4>1, <4>2
    <3> QED
      BY <2>1, <3>1, <3>2 DEF BookInv
  <2>2. CASE run[t].drafts = c.files
    BY <2>2
  <2> QED
    BY <1>3, <2>1, <2>2
<1>4. BookInv'
  BY <1>2, <1>3 DEF BookInv
<1> DEFINE S == {v \in DOMAIN saves : c.files[saves[v].path] = v}
<1>5. ASSUME NEW v \in DOMAIN saves
      PROVE  Landed(v)' <=> Landed(v) \/ v \in S
  <2>1. Landed(v)' <=> \E i \in DOMAIN branch \cup {n} : branch'[i].files[saves[v].path] = v
    BY DEF Landed
  <2>2. \A i \in DOMAIN branch : branch'[i].files[saves[v].path] = branch[i].files[saves[v].path]
    OBVIOUS
  <2> QED
    BY <2>1, <2>2 DEF Landed
<1>6. \A v \in DOMAIN saves : Fate(v)' = IF v \in S THEN "landed" ELSE Fate(v)
  BY <1>5 DEF Fate
<1>7. S \in SUBSET DOMAIN saves /\ \A u, v \in S : saves[u].path = saves[v].path => u = v
  OBVIOUS
<1> HIDE DEF S
<1>8. BookNext
  BY <1>6, <1>7, MarkBook
<1> QED
  BY <1>4, <1>8

\* The published drafts are deleted.
LEMMA DeleteBook ==
  ASSUME Files, BookInv, NEW t \in Task, run[t].pc = "delete", deletePublished(t),
         UNCHANGED <<saves, branch, dropped, moot>>,
         \A u \in Task : run'[u].drafts = run[u].drafts
                         /\ (run'[u].pc = "delete" => run[u].pc = "delete")
  PROVE  BookInv' /\ BookNext
<1> DEFINE was == run[t].drafts
           gone == {p \in Path : was[p] # 0 /\ draft[p] # 0
                                   /\ saves[draft[p]].at <= saves[was[p]].at}
           left == {draft[p] : p \in {q \in gone : draft[q] # was[q]}}
<1>1. /\ draft' = [p \in Path |-> IF p \in gone THEN 0 ELSE draft[p]]
      /\ absorbed' = absorbed \cup left
  BY DEF deletePublished
<1>2. /\ Len(saves) \in Nat /\ DOMAIN saves = 1 .. Len(saves)
      /\ draft \in [Path -> 0 .. Len(saves)] /\ dropped \subseteq DOMAIN saves
      /\ \A v \in DOMAIN saves : saves[v].path \in Path /\ saves[v].at \in Nat
  BY SaveFacts DEF Files
<1>3. moot[t].files = was \/ \E i \in DOMAIN branch : branch[i].files = was
  BY DEF BookInv
<1>4. Names(was, saves) /\ Names(draft, saves)
  BY DEF BookInv
\* What is deleted landed or is moot, or is of the millisecond of a change that is.
<1>5. ASSUME NEW p \in gone
      PROVE  /\ draft[p] \in DOMAIN saves /\ was[p] \in DOMAIN saves
             /\ saves[draft[p]].path = p /\ saves[was[p]].path = p
             /\ Done(was[p]) /\ saves[draft[p]].at = saves[was[p]].at
  <2>1. /\ draft[p] \in DOMAIN saves /\ was[p] \in DOMAIN saves
        /\ saves[draft[p]].path = p /\ saves[was[p]].path = p
        /\ saves[draft[p]].at <= saves[was[p]].at
    BY <1>2, <1>4 DEF Names
  <2>2. was[p] <= draft[p]
    BY DEF BookInv
  <2>3. saves[was[p]].at <= saves[draft[p]].at
    BY <2>1, <2>2 DEF BookInv
  <2>4. saves[draft[p]].at \in Nat /\ saves[was[p]].at \in Nat
    BY <1>2, <2>1
  <2>5. Done(was[p])
    <3>1. moot[t].files = was => Mooted(was[p])
      BY <2>1 DEF Mooted
    <3>2. (\E i \in DOMAIN branch : branch[i].files = was) => Landed(was[p])
      BY <2>1 DEF Landed
    <3> QED
      BY <1>3, <3>1, <3>2 DEF Done
  <2> QED
    BY <2>1, <2>3, <2>4, <2>5
<1>6. gone \subseteq Path
  OBVIOUS
<1>7. \A v : v \in left <=> \E p \in gone : v = draft[p] /\ draft[p] # was[p]
  OBVIOUS
<1> HIDE DEF gone, left
<1>8. Names(draft', saves)
  BY <1>1, <1>2, <1>4 DEF Names
<1>9. \A p \in Path : draft'[p] \notin dropped
  BY <1>1, <1>2 DEF BookInv
<1>10. \A u \in Task : \A p \in Path : draft'[p] # 0 => run[u].drafts[p] <= draft'[p]
  BY <1>1 DEF BookInv
<1>11. BookInv'
  BY <1>8, <1>9, <1>10 DEF BookInv
<1> DEFINE S == {v \in left : Fate(v) = "saved"}
<1>12. ASSUME NEW v \in DOMAIN saves
       PROVE  Fate(v)' = IF v \in S THEN "absorbed" ELSE Fate(v)
  <2> DEFINE p == saves[v].path
  <2>1. p \in Path /\ (Landed(v)' <=> Landed(v)) /\ (Mooted(v)' <=> Mooted(v))
    BY <1>2 DEF Landed, Mooted
  <2>2. CASE Done(v)
    BY <2>1, <2>2 DEF Fate, Done, Mooted
  <2>3. CASE ~Done(v) /\ draft[p] = v /\ p \in gone
    <3>1. draft'[p] # v /\ v \notin dropped /\ v # was[p] /\ v \in left /\ v \in absorbed'
      BY <1>1, <1>2, <1>5, <1>7, <2>1, <2>3 DEF BookInv
    <3>2. Fate(v) = "saved" /\ Fate(v)' = "absorbed"
      BY <2>1, <2>3, <3>1 DEF Fate, Done, Mooted
    <3> QED
      BY <3>1, <3>2
  <2>4. CASE ~Done(v) /\ draft[p] = v /\ p \notin gone
    <3>1. draft'[p] = v
      BY <1>1, <2>1, <2>4
    <3>2. Fate(v) = "saved" /\ Fate(v)' = "saved"
      BY <2>1, <2>4, <3>1 DEF Fate, Done, Mooted
    <3>3. v \notin left
      BY <1>5, <1>7, <2>4
    <3> QED
      BY <3>2, <3>3
  <2>5. CASE ~Done(v) /\ draft[p] # v
    <3>1. draft'[p] # v
      BY <1>1, <1>2, <2>1, <2>5
    <3>2. v \notin left
      BY <1>5, <1>7, <2>5
    <3>3. v \in absorbed' <=> v \in absorbed
      BY <1>1, <3>2
    <3> QED
      BY <2>1, <2>5, <3>1, <3>2, <3>3 DEF Fate, Done, Mooted
  <2> QED
    BY <2>2, <2>3, <2>4, <2>5
<1>13. /\ S \in SUBSET DOMAIN saves /\ \A v \in S : Fate(v) = "saved"
       /\ \A v \in S : \E u \in DOMAIN saves :
            /\ Fate(u) \in {"landed", "moot"}
            /\ saves[u].path = saves[v].path /\ saves[u].at = saves[v].at
  <2>1. ASSUME NEW v \in S
        PROVE  /\ v \in DOMAIN saves
               /\ \E u \in DOMAIN saves : /\ Fate(u) \in {"landed", "moot"}
                                          /\ saves[u].path = saves[v].path
                                          /\ saves[u].at = saves[v].at
    <3>1. PICK p \in gone : v = draft[p] /\ draft[p] # was[p]
      BY <1>7
    <3>2. Fate(was[p]) \in {"landed", "moot"}
      BY <1>5 DEF Fate, Done, Mooted, Done, Mooted
    <3> QED
      BY <1>5, <3>1, <3>2
  <2> QED
    BY <2>1
<1> HIDE DEF S
<1>14. BookNext
  BY <1>12, <1>13, MarkBook
<1> QED
  BY <1>11, <1>14

\* A publish finds that it has nothing to commit.
LEMMA ForgoBook ==
  ASSUME Rows, Files, BookInv, HeadInv, NEW t \in Task, NothingToCommit(t), Finds(t),
         run[t].pc \in Pinned, run[t].base # 0, moot[t].head = 0,
         UNCHANGED <<saves, draft, branch, dropped, absorbed>>,
         \A u \in Task : /\ run'[u].drafts = run[u].drafts
                         /\ run'[u].pc = "delete" => run[u].pc = "delete" \/ u = t
  PROVE  BookInv' /\ BookNext
<1> DEFINE was == run[t].drafts
           S == {v \in DOMAIN saves : was[saves[v].path] = v /\ ~Landed(v)}
<1>1. /\ Len(saves) \in Nat /\ DOMAIN saves = 1 .. Len(saves)
      /\ \A v \in DOMAIN saves : saves[v].path \in Path
      /\ moot \in [Task -> Moots] /\ run[t] \in Runs /\ run[t].base <= BranchHead
  BY SaveFacts DEF Rows
<1>2. /\ moot'[t].files = was
      /\ \A u \in Task \ {t} : moot'[u] = moot[u]
      /\ moot[t].files = NoDraft
  BY <1>1 DEF Finds, HeadInv
<1>3. \A u \in Task : Names(moot'[u].files, saves)
  BY <1>2 DEF BookInv
<1>4. \A u \in Task : run'[u].pc = "delete" =>
        \/ moot'[u].files = run'[u].drafts
        \/ \E i \in DOMAIN branch : branch[i].files = run'[u].drafts
  BY <1>2 DEF BookInv
<1>5. BookInv'
  BY <1>3, <1>4 DEF BookInv
<1>6. ASSUME NEW v \in DOMAIN saves
      PROVE  Mooted(v)' <=> Mooted(v) \/ was[saves[v].path] = v
  <2>1. moot[t].files[saves[v].path] # v
    BY <1>1, <1>2 DEF NoDraft
  <2> QED
    BY <1>2, <2>1 DEF Mooted
<1>7. \A v \in DOMAIN saves : Landed(v)' <=> Landed(v)
  BY DEF Landed
<1>8. \A v \in DOMAIN saves : Fate(v)' = IF v \in S THEN "moot" ELSE Fate(v)
  BY <1>6, <1>7 DEF Fate, Mooted
<1>9. ASSUME NEW v \in S
      PROVE  Met(v) /\ Fate(v) # "landed"
  <2>1. /\ saves[v].path \in Path /\ was[saves[v].path] = v /\ v # 0
        /\ saves[v] \in Saves
    BY <1>1, SaveFacts
  <2>2. Deletes(v) /\ saves[v].path \notin Tree(run[t].base)
    BY <2>1 DEF NothingToCommit, Published
  <2>3. saves[v].gone <= run[t].base
    BY <2>1 DEF HeadInv
  <2>4. run[t].base \in Nat /\ saves[v].gone \in Nat /\ BranchHead \in Nat
    BY <1>1, <2>1 DEF Runs, Saves, Rows, BranchHead
  <2>5. run[t].base \in saves[v].gone .. BranchHead
    BY <1>1, <2>3, <2>4
  <2> QED
    BY <2>2, <2>5 DEF Met, Fate
<1>10. S \in SUBSET DOMAIN saves /\ \A u, v \in S : saves[u].path = saves[v].path => u = v
  OBVIOUS
<1> HIDE DEF S
<1>11. BookNext
  BY <1>8, <1>9, <1>10, MarkBook
<1> QED
  BY <1>5, <1>11

---------------------------------------------------------------------------
\* Every step of the pipeline is one of the ledger.

LEMMA BookInit ==
  ASSUME Init
  PROVE  BookInv /\ HeadInv /\ Ledger!LedgerInit
<1>1. saves = << >> /\ branch = << >> /\ draft = NoDraft /\ dropped = {}
      /\ DOMAIN saves = {} /\ DOMAIN branch = {} /\ Len(saves) = 0
      /\ \A t \in Task : run[t] = NoRun /\ moot[t] = NotMoot
  BY DEF Init
<1>2. \A p \in Path : NoDraft[p] = 0
  BY DEF NoDraft
<1>3. /\ NoRun.drafts = NoDraft /\ NoRun.pc = "idle"
      /\ NotMoot.head = 0 /\ NotMoot.files = NoDraft
  BY DEF NoRun, NotMoot
<1>4. Names(NoDraft, saves)
  BY <1>1, <1>2 DEF Names
<1>5. BookInv
  BY <1>1, <1>2, <1>3, <1>4 DEF BookInv
<1>6. Ledger!LedgerInit
  BY <1>1 DEF Ledger!LedgerInit
<1>7. HeadInv
  BY <1>1, <1>3 DEF HeadInv, Pinned
<1> QED
  BY <1>5, <1>6, <1>7

\* The commit of a push.
LEMMA PushLands ==
  ASSUME Rows, NEW pushed \in SUBSET PushedPath,
         branch' = Append(branch, [by |-> External, base |-> BranchHead, built |-> FALSE,
                                   files |-> NoDraft,
                                   tree |-> (Tree(BranchHead) \ PushedPath) \cup pushed])
  PROVE  /\ DOMAIN branch' = DOMAIN branch \cup {BranchHead} /\ BranchHead \notin DOMAIN branch
         /\ BranchHead' = BranchHead + 1
         /\ \A i \in DOMAIN branch : branch'[i] = branch[i]
         /\ branch'[BranchHead] =
              [by |-> External, base |-> BranchHead, built |-> FALSE, files |-> NoDraft,
               tree |-> (Tree(BranchHead) \ PushedPath) \cup pushed]
<1> DEFINE c == [by |-> External, base |-> BranchHead, built |-> FALSE, files |-> NoDraft,
                 tree |-> (Tree(BranchHead) \ PushedPath) \cup pushed]
<1>1. branch \in Seq(CommitRecord) /\ BranchHead \in Nat \ {0}
  BY DEF Rows, BranchHead
<1>2. c.tree \subseteq Path
  BY <1>1, TreeFiles, PathAssumption
<1>3. c \in CommitRecord
  BY <1>1, <1>2, BoundAssumption DEF CommitRecord, NoDraft, Draft, External, Task
<1> HIDE DEF c
<1>4. /\ Len(branch') = Len(branch) + 1 /\ DOMAIN branch' = 1 .. Len(branch) + 1
      /\ \A i \in DOMAIN branch : branch'[i] = branch[i]
      /\ branch'[Len(branch) + 1] = c
  BY <1>1, <1>3 DEF c
<1> QED
  BY <1>1, <1>4 DEF BranchHead, c

\* The runs whose drafts no step of t touches.
LEMMA OthersQuiet ==
  ASSUME Files, BookInv, UNCHANGED <<saves, draft, branch, dropped, absorbed, moot>>,
         NEW t \in Task, \A u \in Task \ {t} : run'[u] = run[u],
         run'[t].drafts \in {run[t].drafts, draft, NoDraft}, run'[t].pc # "delete"
  PROVE  BookInv' /\ BookNext
<1>1. \A u \in Task : /\ run'[u].drafts \in {run[u].drafts, draft, NoDraft}
                     /\ run'[u].pc = "delete" =>
                          run[u].pc = "delete" /\ run'[u].drafts = run[u].drafts
  OBVIOUS
<1> QED
  BY <1>1, QuietStep

LEMMA RunBook ==
  ASSUME Indexed, BookInv, HeadInv, NEW t \in Task, runPublish(t)
  PROVE  BookInv' /\ BookNext
<1>1. /\ Rows /\ Files /\ run \in [Task -> Runs] /\ run[t] \in Runs
      /\ Sound(run[t], task[t], Outcome(t), dbErrors)
  BY DEF Indexed, TypeInv, Rows, CommitInv
<1>2. PICK own : own = Outcome(t)'
  OBVIOUS
<1>3. /\ Stepped(t, own) /\ UNCHANGED <<saves, dropped>> /\ Ended(t)
  BY <1>1, <1>2, RunStep
<1>4. \A u \in Task \ {t} : run'[u] = run[u]
  BY <1>3 DEF Stepped
<1>5. ASSUME KeepsDrafts(t), UNCHANGED <<draft, branch, absorbed, moot>>
      PROVE  BookInv' /\ BookNext
  BY <1>1, <1>3, <1>4, <1>5, OthersQuiet DEF KeepsDrafts
<1>6. CASE ReadTask(t)
  <2>1. run'[t].drafts \in {run[t].drafts, draft} /\ run'[t].pc # "delete"
    <3> DEFINE r == [run[t] EXCEPT !.drafts = draft]
               f == [r EXCEPT !.pc = "failAt", !.steps["check"] = "failed"]
    <3>1. /\ DOMAIN r = {"pc", "steps", "drafts", "base", "built", "handler"}
          /\ r.drafts = draft
      BY <1>1 DEF Runs
    <3> HIDE DEF r
    <3>2. ASSUME NEW pc
          PROVE  [r EXCEPT !.pc = pc].drafts = draft /\ [r EXCEPT !.pc = pc].pc = pc
      BY <3>1
    <3>3. f.drafts = draft /\ f.pc = "failAt"
      BY <3>1
    <3>4. [run[t] EXCEPT !.pc = "threw"].drafts = run[t].drafts
          /\ [run[t] EXCEPT !.pc = "threw"].pc = "threw"
      BY <1>1 DEF Runs
    <3>5. \/ run'[t] \in {[r EXCEPT !.pc = "returned"], [r EXCEPT !.pc = "failTask"], f,
                          [r EXCEPT !.pc = "init"]}
          \/ run'[t] = [run[t] EXCEPT !.pc = "threw"]
      BY <1>1, <1>6 DEF ReadTask, Go, r
    <3> HIDE DEF f
    <3>6. \A pc \in {"returned", "failTask", "init"} :
            [r EXCEPT !.pc = pc].drafts = draft /\ [r EXCEPT !.pc = pc].pc # "delete"
      BY <3>2
    <3>7. CASE run'[t] = f
      BY <3>3, <3>7
    <3>8. CASE run'[t] = [run[t] EXCEPT !.pc = "threw"]
      BY <3>4, <3>8
    <3>9. CASE \E pc \in {"returned", "failTask", "init"} : run'[t] = [r EXCEPT !.pc = pc]
      BY <3>6, <3>9
    <3> QED
      BY <3>5, <3>7, <3>8, <3>9
  <2>2. UNCHANGED <<draft, branch, absorbed, moot>>
    BY <1>6 DEF ReadTask, RunUnchanged
  <2> QED
    BY <1>1, <1>3, <1>4, <2>1, <2>2, OthersQuiet
<1>7. CASE commitToDefaultBranch(t)
  <2>1. UNCHANGED <<draft, absorbed>>
    BY <1>7 DEF commitToDefaultBranch
  <2>2. [run[t] EXCEPT !.pc = "missed"].drafts = run[t].drafts
        /\ [run[t] EXCEPT !.pc = "missed"].pc = "missed"
        /\ [run[t] EXCEPT !.pc = "delete", !.handler = "outer"].drafts = run[t].drafts
    BY <1>1 DEF Runs
  <2>3. CASE UNCHANGED <<branch, moot>> /\ (Reject(t, run[t].steps) \/ Go(t, "missed"))
    <3>1. Go(t, "missed") => run'[t].drafts = run[t].drafts /\ run'[t].pc = "missed"
      BY <1>1, <2>2 DEF Go
    <3>2. run'[t].drafts = run[t].drafts /\ run'[t].pc # "delete"
      BY <1>1, <2>3, <3>1, RejectDrafts DEF KeepsDrafts
    <3> QED
      BY <1>1, <1>3, <1>4, <2>1, <2>3, <3>2, OthersQuiet
  <2>4. \A st : [run[t] EXCEPT !.steps = st].base = run[t].base
    BY <1>1 DEF Runs
  <2>5. run'[t].drafts = run[t].drafts
    <3>1. CASE Reject(t, run[t].steps)
      BY <1>1, <3>1, RejectDrafts DEF KeepsDrafts
    <3>2. CASE run' = [run EXCEPT ![t].pc = "delete", ![t].handler = "outer"]
      BY <1>1, <2>2, <3>2
    <3>3. CASE Go(t, "missed")
      BY <1>1, <2>2, <3>3 DEF Go
    <3> QED
      BY <1>7, <3>1, <3>2, <3>3 DEF commitToDefaultBranch
  <2>6. /\ run[t].pc \in {"cas", "recas"} /\ run[t].base # 0 /\ Outcome(t) = {}
    BY <1>1, <1>7 DEF commitToDefaultBranch, Sound, Progress, Committed, BeforeCommit
  <2>7. CASE Commit(t) /\ UNCHANGED moot
    <3> DEFINE c == [by |-> t, base |-> run[t].base, files |-> run[t].drafts,
                     built |-> run[t].built = run[t].base, tree |-> TreeOf(t)]
    <3>2. /\ DOMAIN branch' = DOMAIN branch \cup {BranchHead} /\ BranchHead \notin DOMAIN branch
          /\ \A i \in DOMAIN branch : branch'[i] = branch[i]
          /\ branch'[BranchHead] = c
      BY <1>1, <2>6, <2>7, CommitLands
    <3>3. c.files = run[t].drafts /\ Names(c.files, saves)
      BY DEF BookInv
    <3> HIDE DEF c
    <3>4. \A u \in Task : /\ run'[u].drafts = run[u].drafts
                          /\ run'[u].pc = "delete" =>
                               run[u].pc = "delete" \/ run[u].drafts = c.files
      BY <1>4, <2>5, <3>3
    <3> QED
      BY <1>1, <1>3, <2>1, <2>7, <3>2, <3>3, <3>4, LandBook
  <2>8. CASE NothingToCommit(t) /\ Finds(t) /\ UNCHANGED branch
    <3>1. moot[t].head = 0
      BY <2>6 DEF Outcome
    <3>2. \A u \in Task : /\ run'[u].drafts = run[u].drafts
                          /\ run'[u].pc = "delete" => run[u].pc = "delete" \/ u = t
      BY <1>4, <2>5
    <3> QED
      BY <1>1, <1>3, <2>1, <2>6, <2>8, <3>1, <3>2, ForgoBook DEF Pinned
  <2> QED
    BY <1>7, <2>3, <2>7, <2>8 DEF commitToDefaultBranch, Finds
<1>8. CASE ~ReadTask(t) /\ ~commitToDefaultBranch(t)
  <2>1. KeepsDrafts(t)
    BY <1>1, <1>8, RunDrafts
  <2>2. UNCHANGED <<branch, moot>>
    BY <1>8 DEF runPublish, RunUnchanged, InitSteps, BeginCheck, Check, DeleteDrafts,
       getBranchHead, Build, CommitMissedTwice, RetryCommit, BeginAgain,
       CommitDone, EnqueueRestart, CutVersion, QueueDeploys, completeTask, FailAt,
       failTask, SaveAfterRebuild
  <2>3. CASE DeleteDrafts(t) /\ deletePublished(t)
    <3>1. run[t].pc = "delete"
      BY <2>3 DEF DeleteDrafts
    <3>2. \A u \in Task : run'[u].drafts = run[u].drafts
                          /\ (run'[u].pc = "delete" => run[u].pc = "delete")
      BY <1>4, <2>1 DEF KeepsDrafts
    <3> QED
      BY <1>1, <1>3, <2>2, <2>3, <3>1, <3>2, DeleteBook
  <2>4. DeleteDrafts(t) => deletePublished(t) \/ UNCHANGED <<draft, absorbed>>
    BY DEF DeleteDrafts
  <2>5. ~DeleteDrafts(t) => UNCHANGED <<draft, absorbed>>
    BY <1>8 DEF runPublish, RunUnchanged, InitSteps, BeginCheck, Check,
       getBranchHead, Build, CommitMissedTwice, RetryCommit, BeginAgain,
       CommitDone, EnqueueRestart, CutVersion, QueueDeploys, completeTask, FailAt,
       failTask, SaveAfterRebuild
  <2> QED
    BY <1>5, <2>1, <2>2, <2>3, <2>4, <2>5
<1> QED
  BY <1>6, <1>7, <1>8

LEMMA BookStep ==
  ASSUME Indexed, Indexed', BookInv, HeadInv, [Next]_vars
  PROVE  BookInv' /\ BookNext
<1>1. /\ Rows /\ Files /\ Files' /\ run \in [Task -> Runs]
      /\ \A t \in Task : run[t].drafts \in [Path -> Draft]
  BY DEF Indexed, TypeInv, Rows, Runs
<1>2. ASSUME UNCHANGED <<saves, draft, branch, dropped, absorbed, run, moot>>
      PROVE  BookInv' /\ BookNext
  BY <1>1, <1>2, QuietStep
<1>3. ASSUME NEW p \in Path, stageDraft(p)
      PROVE  BookInv' /\ BookNext
  <2>1. PICK gone \in {0, BranchHead} : Upsert({p}, FALSE, gone)
    BY <1>3 DEF stageDraft
  <2>2. /\ {p} \in SUBSET Path /\ {p} # {} /\ FALSE \in BOOLEAN /\ gone \in Nat
        /\ UNCHANGED <<branch, absorbed, run, moot>>
    BY <1>1, <1>3 DEF stageDraft, Rows, BranchHead
  <2> QED
    BY <1>1, <2>1, <2>2, SavingBook
<1>4. ASSUME NEW p \in Path, discardDrafts(p)
      PROVE  BookInv' /\ BookNext
  BY <1>1, <1>4, DiscardBook
<1>5. CASE ExternalPush
  <2>1. PICK pushed \in SUBSET PushedPath :
          branch' = Append(branch, [by |-> External, base |-> BranchHead, built |-> FALSE,
                                    files |-> NoDraft,
                                    tree |-> (Tree(BranchHead) \ PushedPath) \cup pushed])
    BY <1>5 DEF ExternalPush
  <2> DEFINE c == [by |-> External, base |-> BranchHead, built |-> FALSE, files |-> NoDraft,
                   tree |-> (Tree(BranchHead) \ PushedPath) \cup pushed]
  <2>2. UNCHANGED <<saves, draft, run, dropped, absorbed, moot>> /\ branch' = Append(branch, c)
    BY <1>5, <2>1 DEF ExternalPush
  <2>3. c.files = NoDraft /\ Names(NoDraft, saves)
    BY <1>1, SaveFacts DEF Names, NoDraft
  <2>4. /\ DOMAIN branch' = DOMAIN branch \cup {BranchHead} /\ BranchHead \notin DOMAIN branch
        /\ \A i \in DOMAIN branch : branch'[i] = branch[i]
        /\ branch'[BranchHead] = c
    BY <1>1, <2>1, PushLands
  <2> HIDE DEF c
  <2> QED
    BY <1>1, <2>2, <2>3, <2>4, LandBook
<1>6. ASSUME NEW t \in Task, compareAndStage(t)
      PROVE  BookInv' /\ BookNext
  <2>1. UNCHANGED <<branch, absorbed, run, moot>>
    BY <1>6 DEF compareAndStage
  <2>2. CASE UNCHANGED <<saves, draft, dropped>>
    BY <1>2, <2>1, <2>2
  <2>3. CASE \E ps \in SUBSET (Path \ ConfigPath) : ps # {} /\ Upsert(ps, TRUE, 0)
    <3>1. PICK ps \in SUBSET Path : ps # {} /\ Upsert(ps, TRUE, 0)
      BY <2>3
    <3>2. TRUE \in BOOLEAN /\ 0 \in Nat
      OBVIOUS
    <3> QED
      BY <1>1, <2>1, <3>1, <3>2, SavingBook
  <2> QED
    BY <1>6, <2>2, <2>3 DEF compareAndStage
<1>7. ASSUME NEW t \in Task,
             startPublish(t) \/ ResetRead(t) \/ startResetPublish(t) \/ EnqueuePublish(t)
             \/ setTaskJob(t)
      PROVE  BookInv' /\ BookNext
  BY <1>2, <1>7 DEF startPublish, ResetRead, startResetPublish, EnqueuePublish, setTaskJob,
     CallUnchanged
<1>8. ASSUME NEW t \in Task, publishNow(t) \/ Claim(t) \/ Return(t)
      PROVE  BookInv' /\ BookNext
  <2>1. UNCHANGED <<saves, draft, branch, dropped, absorbed, moot>>
    BY <1>8 DEF publishNow, Claim, Return, CallUnchanged
  <2>2. run' = [run EXCEPT ![t].pc = "read"] \/ run' = [run EXCEPT ![t] = NoRun]
    BY <1>8 DEF publishNow, Claim, Return
  <2>3. NoRun.drafts = NoDraft /\ NoRun.pc = "idle"
        /\ [run[t] EXCEPT !.pc = "read"].drafts = run[t].drafts
        /\ [run[t] EXCEPT !.pc = "read"].pc = "read"
    BY <1>1 DEF NoRun, Runs
  <2>4. run'[t] \in {NoRun, [run[t] EXCEPT !.pc = "read"]}
        /\ \A u \in Task \ {t} : run'[u] = run[u]
    BY <1>1, <2>2
  <2> QED
    BY <1>1, <2>1, <2>3, <2>4, OthersQuiet
<1>9. ASSUME Crash
      PROVE  BookInv' /\ BookNext
  <2>1. NoRun.drafts = NoDraft /\ NoRun.pc # "delete"
    BY DEF NoRun
  <2>2. UNCHANGED <<saves, draft, branch, dropped, absorbed, moot>>
        /\ \A t \in Task : run'[t] = NoRun
    BY <1>9 DEF Crash
  <2>3. \A t \in Task :
          /\ run'[t].drafts \in {run[t].drafts, draft, NoDraft}
          /\ run'[t].pc = "delete" =>
               run[t].pc = "delete" /\ run'[t].drafts = run[t].drafts
    BY <2>1, <2>2
  <2> QED
    BY ONLY <1>1, BookInv, <2>2, <2>3, QuietStep
<1>10. CASE Boot
  BY <1>2, <1>10 DEF Boot, failRunningByKind, listRunningByKind, SettleInterrupted,
     requeueRunning, BootUnchanged
<1>11. CASE UNCHANGED vars
  BY <1>2, <1>11 DEF vars
<1>12. ASSUME NEW t \in Task, Serve(t)
       PROVE  BookInv' /\ BookNext
  BY <1>6, <1>7, <1>8, <1>12, RunBook DEF Serve
<1>13. ASSUME NEW t \in Task, startPublish(t) \/ publishNow(t) \/ ResetRead(t)
       PROVE  BookInv' /\ BookNext
  BY <1>7, <1>8, <1>13
<1> QED
  BY <1>3, <1>4, <1>5, <1>9, <1>10, <1>11, <1>12, <1>13 DEF Next

---------------------------------------------------------------------------
\* What a reset publishes.

LEMMA PrintGrows ==
  ASSUME NEW s, NEW s2, Len(s) \in Nat, Grows(s, s2), NEW d, Names(d, s)
  PROVE  PrintOf(d, s2) = PrintOf(d, s)
BY DEF PrintOf, Names, Grows

LEMMA PrintIs ==
  /\ \A d : draftSnapshotFingerprint(d) = PrintOf(d, saves)
BY DEF draftSnapshotFingerprint, PrintOf

\* A step keeps to what resets were asked to publish if no run changes its
\* drafts before it commits them, and no commit is of anything else.
LEMMA ResetKept ==
  ASSUME Files, BookInv, ResetInv, Grows(saves, saves'),
         \A t \in Task :
           /\ task[t].status # "none" =>
                task'[t].status # "none" /\ call'[t].print = call[t].print
           /\ task[t].status = "none" => run'[t].pc \notin BeforeCommit
           /\ run'[t].pc \in BeforeCommit =>
                \/ run[t].pc \in BeforeCommit /\ run'[t].drafts = run[t].drafts
                \/ /\ run'[t].drafts = draft
                   /\ call[t].print = NoDraft \/ PrintOf(draft, saves) = call[t].print
           /\ \A i \in LandedBy(t)' :
                \/ i \in LandedBy(t) /\ branch'[i] = branch[i]
                \/ /\ task[t].status # "none" /\ run[t].pc \in BeforeCommit
                   /\ branch'[i].files = run[t].drafts
  PROVE  ResetInv'
<1>1. Len(saves) \in Nat
  BY SaveFacts
<1>2. ASSUME NEW d, Names(d, saves)
      PROVE  PrintOf(d, saves') = PrintOf(d, saves)
  BY <1>1, <1>2, PrintGrows
<1>3. ASSUME NEW t \in Task, task'[t].status = "none"
      PROVE  LandedBy(t)' = {}
  <2>1. task[t].status = "none" /\ LandedBy(t) = {}
    BY <1>3 DEF ResetInv
  <2> QED
    BY <2>1
<1>4. ASSUME NEW t \in Task, task'[t].status # "none", call'[t].print # NoDraft
      PROVE  /\ run'[t].pc \in BeforeCommit => PrintOf(run'[t].drafts, saves') = call'[t].print
             /\ \A i \in LandedBy(t)' : PrintOf(branch'[i].files, saves') = call'[t].print
  <2>1. CASE task[t].status = "none"
    <3>1. LandedBy(t) = {}
      BY <2>1 DEF ResetInv
    <3> QED
      BY <2>1, <3>1
  <2>2. CASE task[t].status # "none"
    <3>1. call'[t].print = call[t].print
      BY <2>2
    <3>2. Names(run[t].drafts, saves) /\ Names(draft, saves)
      BY DEF BookInv
    <3>3. ASSUME run'[t].pc \in BeforeCommit
          PROVE  PrintOf(run'[t].drafts, saves') = call'[t].print
      <4>1. CASE run[t].pc \in BeforeCommit /\ run'[t].drafts = run[t].drafts
        BY <1>2, <1>4, <2>2, <3>1, <3>2, <4>1 DEF ResetInv
      <4>2. CASE run'[t].drafts = draft /\ PrintOf(draft, saves) = call[t].print
        BY <1>2, <3>1, <3>2, <4>2
      <4> QED
        BY <1>4, <3>1, <3>3, <4>1, <4>2
    <3>4. ASSUME NEW i \in LandedBy(t)'
          PROVE  PrintOf(branch'[i].files, saves') = call'[t].print
      <4>1. CASE i \in LandedBy(t) /\ branch'[i] = branch[i]
        <5>1. Names(branch[i].files, saves)
          BY <4>1 DEF BookInv, LandedBy
        <5> QED
          BY <1>2, <1>4, <2>2, <3>1, <4>1, <5>1 DEF ResetInv
      <4>2. CASE run[t].pc \in BeforeCommit /\ branch'[i].files = run[t].drafts
        BY <1>2, <1>4, <2>2, <3>1, <3>2, <4>2 DEF ResetInv
      <4> QED
        BY <3>4, <4>1, <4>2
    <3> QED
      BY <3>3, <3>4
  <2> QED
    BY <2>1, <2>2
<1> QED
  BY <1>3, <1>4 DEF ResetInv

\* So it is with every step that leaves the branch and the runs alone, or ends
\* or begins one.
LEMMA ResetAsked ==
  ASSUME Indexed, BookInv, ResetInv, Grows(saves, saves'), UNCHANGED branch,
         \A t \in Task :
           /\ task[t].status # "none" =>
                task'[t].status # "none" /\ call'[t].print = call[t].print
           /\ run'[t] = run[t] \/ run'[t].pc \notin BeforeCommit
  PROVE  ResetInv'
<1>1. Files /\ \A t \in Task : Owner(t)
  BY DEF Indexed, TypeInv, OwnInv
<1>2. \A t \in Task : task[t].status = "none" => run[t].pc \notin BeforeCommit
  BY <1>1, FirstSteps DEF Owner, BeforeCommit
<1>3. \A t \in Task : \A i \in LandedBy(t)' : i \in LandedBy(t) /\ branch'[i] = branch[i]
  BY DEF LandedBy
<1> QED
  BY <1>1, <1>2, <1>3, ResetKept

LEMMA ResetRun ==
  ASSUME Indexed, BookInv, ResetInv, NEW t \in Task, runPublish(t)
  PROVE  ResetInv'
<1>1. /\ Rows /\ Files /\ run \in [Task -> Runs] /\ run[t] \in Runs
      /\ Sound(run[t], task[t], Outcome(t), dbErrors) /\ \A u \in Task : Owner(u)
  BY DEF Indexed, TypeInv, Rows, CommitInv, OwnInv
<1>2. PICK own : own = Outcome(t)'
  OBVIOUS
<1>3. /\ Stepped(t, own) /\ UNCHANGED <<saves, call>> /\ Executing(t)
      /\ UNCHANGED branch \/ (Commit(t) /\ run[t].pc \in {"cas", "recas"})
  BY <1>1, <1>2, RunStep DEF Ended
<1>4. /\ \A u \in Task \ {t} : run'[u] = run[u] /\ task'[u] = task[u]
      /\ task'[t].status \in {task[t].status, "succeeded", "failed"}
  BY <1>3 DEF Stepped
<1>5. task[t].status # "none"
  BY <1>1, <1>3 DEF Owner
<1>6. \A u \in Task : task[u].status = "none" => run[u].pc \notin BeforeCommit
  BY <1>1, FirstSteps DEF Owner, BeforeCommit
<1>7. \/ run'[t].pc \notin BeforeCommit
      \/ run[t].pc \in BeforeCommit /\ run'[t].drafts = run[t].drafts
      \/ /\ run'[t].drafts = draft
         /\ call[t].print = NoDraft \/ PrintOf(draft, saves) = call[t].print
  <2>1. CASE ReadTask(t)
    <3> DEFINE r == [run[t] EXCEPT !.drafts = draft]
               f == [r EXCEPT !.pc = "failAt", !.steps["check"] = "failed"]
    <3>1. /\ DOMAIN r = {"pc", "steps", "drafts", "base", "built", "handler"}
          /\ r.drafts = draft
      BY <1>1 DEF Runs
    <3> HIDE DEF r
    <3>2. \A pc \in {"returned", "failTask", "init"} :
            [r EXCEPT !.pc = pc].drafts = draft /\ [r EXCEPT !.pc = pc].pc = pc
      BY <3>1
    <3>3. f.pc = "failAt" /\ [run[t] EXCEPT !.pc = "threw"].pc = "threw"
      BY <1>1, <3>1 DEF Runs
    <3>4. \/ run'[t] \in {[r EXCEPT !.pc = "returned"], [r EXCEPT !.pc = "failTask"], f,
                          [run[t] EXCEPT !.pc = "threw"]}
          \/ run'[t] = [r EXCEPT !.pc = "init"] /\ ~Tampered(t)
      BY <1>1, <2>1 DEF ReadTask, Go, r
    <3> HIDE DEF f
    <3>5. CASE run'[t] \in {f, [run[t] EXCEPT !.pc = "threw"]}
      BY <3>3, <3>5 DEF BeforeCommit
    <3>6. CASE run'[t] \in {[r EXCEPT !.pc = "returned"], [r EXCEPT !.pc = "failTask"]}
      BY <3>2, <3>6 DEF BeforeCommit
    <3>7. CASE run'[t] = [r EXCEPT !.pc = "init"] /\ ~Tampered(t)
      BY <3>2, <3>7, PrintIs DEF Tampered
    <3> QED
      BY <3>4, <3>5, <3>6, <3>7
  <2>2. CASE commitToDefaultBranch(t)
    <3>1. [run[t] EXCEPT !.pc = "missed"].drafts = run[t].drafts
          /\ [run[t] EXCEPT !.pc = "delete", !.handler = "outer"].pc = "delete"
      BY <1>1 DEF Runs
    <3>2. CASE Reject(t, run[t].steps)
      BY <1>1, <3>2, RejectDrafts DEF KeepsDrafts
    <3>3. CASE Go(t, "missed")
      BY <1>1, <2>2, <3>1, <3>3 DEF Go, commitToDefaultBranch, BeforeCommit
    <3>4. CASE run' = [run EXCEPT ![t].pc = "delete", ![t].handler = "outer"]
      BY <1>1, <3>1, <3>4 DEF BeforeCommit
    <3> QED
      BY <2>2, <3>2, <3>3, <3>4 DEF commitToDefaultBranch
  <2>3. CASE ~ReadTask(t) /\ ~commitToDefaultBranch(t)
    BY <1>1, <2>3, RunDrafts DEF KeepsDrafts
  <2> QED
    BY <2>1, <2>2, <2>3
<1>8. ASSUME NEW u \in Task
      PROVE  run'[u].pc \in BeforeCommit =>
               \/ run[u].pc \in BeforeCommit /\ run'[u].drafts = run[u].drafts
               \/ /\ run'[u].drafts = draft
                  /\ call[u].print = NoDraft \/ PrintOf(draft, saves) = call[u].print
  BY <1>4, <1>7
<1>9. ASSUME NEW u \in Task, NEW i \in LandedBy(u)'
      PROVE  \/ i \in LandedBy(u) /\ branch'[i] = branch[i]
             \/ /\ task[u].status # "none" /\ run[u].pc \in BeforeCommit
                /\ branch'[i].files = run[u].drafts
  <2>1. CASE UNCHANGED branch
    BY <1>9, <2>1 DEF LandedBy
  <2>2. CASE Commit(t) /\ run[t].pc \in {"cas", "recas"}
    <3> DEFINE c == [by |-> t, base |-> run[t].base, files |-> run[t].drafts,
                     built |-> run[t].built = run[t].base, tree |-> TreeOf(t)]
    <3>0. run[t].base # 0
      BY <1>1, <2>2 DEF Sound, Progress
    <3>1. /\ BranchHead \notin DOMAIN branch
          /\ \A j \in DOMAIN branch : branch'[j] = branch[j]
          /\ branch'[BranchHead] = c
      BY <1>1, <2>2, <3>0, CommitLands
    <3>2. c.files = run[t].drafts
      OBVIOUS
    <3> HIDE DEF c
    <3>3. /\ LandedBy(t)' = LandedBy(t) \cup {BranchHead}
          /\ \A w \in Task \ {t} : LandedBy(w)' = LandedBy(w)
      BY <1>1, <2>2, <3>0, OwnGrows
    <3>4. LandedBy(u) \subseteq DOMAIN branch
      BY DEF LandedBy
    <3>5. CASE i \in LandedBy(u)
      BY <3>1, <3>4, <3>5
    <3>6. CASE i \notin LandedBy(u)
      <4>1. u = t /\ i = BranchHead
        BY <1>9, <3>3, <3>6
      <4> QED
        BY <1>5, <2>2, <3>1, <3>2, <4>1 DEF BeforeCommit
    <3> QED
      BY <3>5, <3>6
  <2> QED
    BY <1>3, <2>1, <2>2
<1>10. \A u \in Task :
         /\ task[u].status # "none" =>
              task'[u].status # "none" /\ call'[u].print = call[u].print
         /\ task[u].status = "none" => run'[u].pc \notin BeforeCommit
  BY <1>3, <1>4, <1>5, <1>6
<1>11. Grows(saves, saves')
  BY <1>1, <1>3, SaveFacts DEF Grows
<1> QED
  BY <1>1, <1>8, <1>9, <1>10, <1>11, ResetKept

LEMMA ResetStep ==
  ASSUME Indexed, BookInv, ResetInv, [Next]_vars
  PROVE  ResetInv'
<1>1. /\ Rows /\ Files /\ run \in [Task -> Runs] /\ task \in [Task -> Tasks]
      /\ call \in [Task -> Calls] /\ \A t \in Task : Owner(t)
  BY DEF Indexed, TypeInv, Rows, OwnInv
<1>2. \A t \in Task : /\ run[t] \in Runs /\ task[t] \in Tasks /\ call[t] \in Calls
                      /\ call[t].pc \in {"idle", "stage", "staged"} => task[t].status = "none"
  BY <1>1 DEF Owner
<1>3. UNCHANGED saves => Grows(saves, saves')
  BY <1>1, SaveFacts DEF Grows
<1>4. NoRun.pc \notin BeforeCommit
  BY DEF NoRun, BeforeCommit
<1>5. ASSUME NEW t \in Task
      PROVE  /\ \A pc : [call[t] EXCEPT !.pc = pc].print = call[t].print
             /\ \A s : [task[t] EXCEPT !.status = s].status = s
             /\ \A b : [task[t] EXCEPT !.linked = b].status = task[t].status
             /\ [run[t] EXCEPT !.pc = "read"].pc = "read"
  BY <1>2 DEF Calls, Tasks, Runs
<1>6. "read" \notin BeforeCommit
  BY DEF BeforeCommit
<1>7. ASSUME Grows(saves, saves'), UNCHANGED <<branch, task, call, run>>
      PROVE  ResetInv'
  BY <1>7, ResetAsked
<1>8. ASSUME NEW p \in Path, stageDraft(p)
      PROVE  ResetInv'
  <2>1. PICK gone \in {0, BranchHead} : Upsert({p}, FALSE, gone)
    BY <1>8 DEF stageDraft
  <2>2. /\ {p} \in SUBSET Path /\ FALSE \in BOOLEAN /\ gone \in Nat
        /\ UNCHANGED <<branch, task, call, run>>
    BY <1>1, <1>8 DEF stageDraft, Rows, BranchHead
  <2> QED
    BY <1>1, <1>7, <2>1, <2>2, UpsertSaves
<1>9. ASSUME NEW p \in Path, discardDrafts(p)
      PROVE  ResetInv'
  BY <1>3, <1>7, <1>9 DEF discardDrafts
<1>10. CASE ExternalPush
  <2>1. PICK pushed \in SUBSET PushedPath :
          branch' = Append(branch, [by |-> External, base |-> BranchHead, built |-> FALSE,
                                    files |-> NoDraft,
                                    tree |-> (Tree(BranchHead) \ PushedPath) \cup pushed])
    BY <1>10 DEF ExternalPush
  <2> DEFINE c == [by |-> External, base |-> BranchHead, built |-> FALSE, files |-> NoDraft,
                   tree |-> (Tree(BranchHead) \ PushedPath) \cup pushed]
  <2>2. UNCHANGED <<saves, task, call, run>> /\ c.by \notin Task
    BY <1>10, BoundAssumption DEF ExternalPush, Task, External
  <2>4. /\ DOMAIN branch' = DOMAIN branch \cup {BranchHead}
        /\ \A i \in DOMAIN branch : branch'[i] = branch[i]
        /\ branch'[BranchHead] = c
    BY <1>1, <2>1, PushLands
  <2> HIDE DEF c
  <2>5. \A t \in Task : \A i \in LandedBy(t)' : i \in LandedBy(t) /\ branch'[i] = branch[i]
    BY <2>2, <2>4 DEF LandedBy
  <2>6. \A t \in Task : task[t].status = "none" => run[t].pc \notin BeforeCommit
    BY <1>1, FirstSteps DEF Owner, BeforeCommit
  <2> QED
    BY <1>1, <1>3, <2>2, <2>5, <2>6, ResetKept
<1>11. ASSUME NEW t \in Task, startPublish(t) \/ publishNow(t) \/ ResetRead(t)
                              \/ startResetPublish(t)
       PROVE  ResetInv'
  <2>1. call[t].pc \in {"idle", "staged"} /\ UNCHANGED <<saves, branch>>
    BY <1>11 DEF startPublish, publishNow, ResetRead, startResetPublish, Unused, CallUnchanged
  <2>2. task[t].status = "none"
    BY <1>2, <2>1
  <2>3. \A u \in Task \ {t} : task'[u] = task[u] /\ call'[u] = call[u] /\ run'[u] = run[u]
    BY <1>1, <1>11 DEF startPublish, publishNow, ResetRead, startResetPublish, createTask
  <2>4. run'[t] = run[t] \/ run'[t].pc \notin BeforeCommit
    BY <1>1, <1>5, <1>6, <1>11 DEF startPublish, publishNow, ResetRead, startResetPublish
  <2> QED
    BY <1>3, <2>1, <2>2, <2>3, <2>4, ResetAsked
<1>12. ASSUME NEW t \in Task, compareAndStage(t)
       PROVE  ResetInv'
  <2>1. task[t].status = "none" /\ UNCHANGED <<branch, task, run>>
    BY <1>2, <1>12 DEF compareAndStage
  <2>2. \A u \in Task \ {t} : call'[u] = call[u]
    BY <1>1, <1>12 DEF compareAndStage
  <2>3. Grows(saves, saves')
    <3>1. CASE UNCHANGED saves
      BY <1>3, <3>1
    <3>2. ASSUME NEW ps \in SUBSET (Path \ ConfigPath), Upsert(ps, TRUE, 0)
          PROVE  Grows(saves, saves')
      <4>1. ps \in SUBSET Path /\ TRUE \in BOOLEAN /\ 0 \in Nat
        OBVIOUS
      <4> QED
        BY <1>1, <3>2, <4>1, UpsertSaves
    <3> QED
      BY <1>12, <3>1, <3>2 DEF compareAndStage
  <2> QED
    BY <2>1, <2>2, <2>3, ResetAsked
<1>13. ASSUME NEW t \in Task, EnqueuePublish(t) \/ setTaskJob(t)
       PROVE  ResetInv'
  <2>1. UNCHANGED <<saves, branch, run>>
        /\ (UNCHANGED task \/ task' = [task EXCEPT ![t].linked = TRUE])
        /\ \E pc : call' = [call EXCEPT ![t].pc = pc]
    BY <1>13 DEF EnqueuePublish, setTaskJob, SetCall, CallUnchanged
  <2>2. \A u \in Task : task'[u].status = task[u].status
    BY <1>1, <2>1 DEF Tasks
  <2>3. PICK pc : call' = [call EXCEPT ![t].pc = pc]
    BY <2>1
  <2>4. \A u \in Task : call'[u].print = call[u].print
    BY <1>1, <2>3 DEF Calls
  <2> QED
    BY <1>3, <2>1, <2>2, <2>4, ResetAsked
<1>14. ASSUME NEW t \in Task, Claim(t) \/ Return(t)
       PROVE  ResetInv'
  <2>1. UNCHANGED <<saves, branch, task>>
        /\ (run' = [run EXCEPT ![t].pc = "read"] \/ run' = [run EXCEPT ![t] = NoRun])
    BY <1>14 DEF Claim, Return, CallUnchanged
  <2>2. \A u \in Task : run'[u] = run[u] \/ run'[u].pc \notin BeforeCommit
    BY ZenonT(60), <1>1, <1>4, <1>5, <1>6, <2>1
  <2>3. \A u \in Task : call'[u].print = call[u].print
    <3> DEFINE pc == IF call[t].pc = "running" THEN "done" ELSE call[t].pc
    <3>1. UNCHANGED call \/ call' = [call EXCEPT ![t].pc = pc]
      BY <1>1, <1>14 DEF Claim, Return
    <3> HIDE DEF pc
    <3> QED
      BY <1>1, <3>1 DEF Calls
  <2> QED
    BY <1>3, <2>1, <2>2, <2>3, ResetAsked
<1>15. CASE Crash
  <2>1. UNCHANGED <<saves, branch, task>> /\ \A t \in Task : run'[t].pc \notin BeforeCommit
    BY <1>4, <1>15 DEF Crash
  <2>2. \A t \in Task : task[t].status # "none" => call'[t].print = call[t].print
    BY <1>5, <1>15 DEF Crash
  <2> QED
    BY <1>3, <2>1, <2>2, ResetAsked
<1>16. CASE Boot
  <2>1. UNCHANGED <<saves, branch, call, run>>
    BY <1>16 DEF Boot, failRunningByKind, listRunningByKind, SettleInterrupted,
       requeueRunning, BootUnchanged
  <2>2. UNCHANGED task \/ \E t \in boot.todo : task' = [task EXCEPT ![t].status = "failed"]
    BY <1>16 DEF Boot, failRunningByKind, listRunningByKind, SettleInterrupted, requeueRunning
  <2>3. \A t \in Task : task[t].status # "none" => task'[t].status # "none"
    <3>1. ASSUME NEW u \in boot.todo, task' = [task EXCEPT ![u].status = "failed"],
                 NEW t \in Task, task[t].status # "none"
          PROVE  task'[t].status # "none"
      BY <1>1, <1>5, <3>1
    <3> QED
      BY <2>2, <3>1
  <2> QED
    BY <1>3, <2>1, <2>3, ResetAsked
<1>17. CASE UNCHANGED vars
  BY <1>3, <1>7, <1>17 DEF vars
<1>18. ASSUME NEW t \in Task, Serve(t)
       PROVE  ResetInv'
  BY <1>11, <1>12, <1>13, <1>14, <1>18, ResetRun DEF Serve
<1> QED
  BY <1>8, <1>9, <1>10, <1>11, <1>15, <1>16, <1>17, <1>18 DEF Next

---------------------------------------------------------------------------
\* What the runs and the publishes found moot know of the heads.

MetSet == {v \in DOMAIN saves : Met(v)}

TreeIn(b, h) == IF h = 1 THEN FirstTree ELSE b[h - 1].tree

\* Saves and commits stay what they are, so that what was met stays met.
LEMMA HeadKept ==
  ASSUME Rows, Files, DOMAIN saves' = 1 .. Len(saves'), BookInv, HeadInv,
         Len(saves') \in Nat, Len(branch') \in Nat,
         Grows(saves, saves'), Grows(branch, branch'),
         \A v \in DOMAIN saves' \ DOMAIN saves : saves'[v].gone <= BranchHead,
         \A v \in DOMAIN saves' \ DOMAIN saves : saves'[v].gone \in Nat,
         \A t \in Task :
           /\ run'[t].pc \in Pinned =>
                /\ run'[t].drafts = run[t].drafts
                /\ \/ run[t].pc \in Pinned /\ run'[t].base = run[t].base
                   \/ run'[t].base = BranchHead
           /\ \/ moot'[t] = moot[t]
              \/ /\ moot'[t].head = run[t].base /\ moot'[t].files = run[t].drafts
                 /\ NothingToCommit(t) /\ run[t].base # 0
  PROVE  HeadInv' /\ MetSet \subseteq MetSet'
<1>1. /\ Len(saves) \in Nat /\ DOMAIN saves = 1 .. Len(saves)
      /\ \A v \in DOMAIN saves : saves[v] \in Saves /\ saves[v].gone \in Nat
                                 /\ saves[v].path \in Path
      /\ Len(branch) \in Nat
  BY SaveFacts DEF Saves, Rows
<1>2. /\ \A v \in DOMAIN saves : v \in DOMAIN saves' /\ saves'[v] = saves[v]
      /\ \A i \in 1 .. Len(branch) : branch'[i] = branch[i]
      /\ BranchHead \in Nat /\ BranchHead' \in Nat /\ BranchHead <= BranchHead'
  BY <1>1 DEF Grows, BranchHead
<1>3. \A h \in 1 .. BranchHead : TreeIn(branch', h) = TreeIn(branch, h)
  <2>1. ASSUME NEW h \in 1 .. BranchHead, h # 1
        PROVE  h - 1 \in 1 .. Len(branch)
    BY <1>1, <2>1 DEF BranchHead
  <2> QED
    BY <1>2, <2>1 DEF TreeIn
<1>4. ASSUME NEW v \in DOMAIN saves'
      PROVE  saves'[v].gone <= BranchHead'
  <2>1. saves'[v].gone \in Nat /\ saves'[v].gone <= BranchHead
    BY <1>1, <1>2 DEF HeadInv
  <2> QED
    BY <1>2, <2>1
<1>5. ASSUME NEW t \in Task
      PROVE  /\ Names(run[t].drafts, saves) /\ Names(moot[t].files, saves)
             /\ run[t].base \in Nat /\ run[t].base <= BranchHead
             /\ moot[t].head \in Nat /\ moot[t].head <= BranchHead
             /\ run[t].drafts \in [Path -> Draft] /\ moot[t].files \in [Path -> Draft]
  BY DEF BookInv, Rows, Runs, Moots
<1>6. ASSUME NEW t \in Task, run'[t].pc \in Pinned, NEW p \in Path, run'[t].drafts[p] # 0
      PROVE  saves'[run'[t].drafts[p]].gone <= run'[t].base
  <2> DEFINE v == run[t].drafts[p]
  <2>1. run'[t].drafts[p] = v /\ v \in DOMAIN saves
    BY <1>1, <1>5, <1>6 DEF Names
  <2>2. saves'[v].gone = saves[v].gone
    BY <1>2, <2>1
  <2> HIDE DEF v
  <2>3. CASE run[t].pc \in Pinned /\ run'[t].base = run[t].base
    BY <1>6, <2>1, <2>2, <2>3 DEF HeadInv, v
  <2>4. CASE run'[t].base = BranchHead
    BY <2>1, <2>2, <2>4 DEF HeadInv
  <2> QED
    BY <1>6, <2>1, <2>2, <2>3, <2>4
<1>7. ASSUME NEW t \in Task, NEW m \in Nat, NEW f, moot'[t].head = m, moot'[t].files = f,
             m # 0, m <= BranchHead, Names(f, saves),
             \A p \in Path : f[p] # 0 => saves[f[p]].gone # 0 /\ p \notin TreeIn(branch, m)
      PROVE  NothingToDo(t)'
  <2>1. ASSUME NEW p \in Path, f[p] # 0
        PROVE  saves'[f[p]].gone # 0 /\ p \notin TreeIn(branch', m)
    BY <1>1, <1>2, <1>3, <1>7, <2>1 DEF Names
  <2> QED
    BY <1>7, <2>1 DEF NothingToDo, Deletes, Tree, TreeIn
<1>8. ASSUME NEW t \in Task
      PROVE  IF moot'[t].head = 0 THEN moot'[t].files = NoDraft ELSE NothingToDo(t)'
  <2>1. CASE moot'[t] = moot[t] /\ moot[t].head = 0
    BY <2>1 DEF HeadInv
  <2>2. CASE moot'[t] = moot[t] /\ moot[t].head # 0
    <3>1. \A p \in Path : moot[t].files[p] # 0 =>
            saves[moot[t].files[p]].gone # 0 /\ p \notin TreeIn(branch, moot[t].head)
      BY <2>2 DEF HeadInv, NothingToDo, Deletes, Tree, TreeIn
    <3>2. NothingToDo(t)'
      BY <1>5, <1>7, <2>2, <3>1
    <3> QED
      BY <2>2, <3>2
  <2>3. CASE /\ moot'[t].head = run[t].base /\ moot'[t].files = run[t].drafts
             /\ NothingToCommit(t) /\ run[t].base # 0
    <3>1. \A p \in Path : run[t].drafts[p] # 0 =>
            saves[run[t].drafts[p]].gone # 0 /\ p \notin TreeIn(branch, run[t].base)
      BY <2>3 DEF NothingToCommit, Published, Deletes, Tree, TreeIn
    <3>2. NothingToDo(t)'
      BY <1>5, <1>7, <2>3, <3>1
    <3> QED
      BY <2>3, <3>2
  <2> QED
    BY <2>1, <2>2, <2>3
<1>9. HeadInv'
  BY <1>4, <1>6, <1>8 DEF HeadInv
<1>10. ASSUME NEW v \in MetSet
       PROVE  v \in MetSet'
  <2>1. v \in DOMAIN saves /\ v \in DOMAIN saves' /\ saves'[v] = saves[v] /\ Met(v)
    BY <1>2, <1>10 DEF MetSet
  <2>2. PICK head \in saves[v].gone .. BranchHead : saves[v].path \notin Tree(head)
    BY <2>1 DEF Met
  <2>3. saves[v].gone \in Nat /\ saves[v].gone # 0
    BY <1>1, <2>1 DEF Met, Deletes
  <2>4. head \in 1 .. BranchHead /\ head \in saves'[v].gone .. BranchHead'
    BY <1>2, <2>1, <2>3
  <2>5. saves'[v].path \notin TreeIn(branch', head)
    BY <1>3, <2>1, <2>2, <2>4 DEF Tree, TreeIn
  <2>6. \E h \in saves'[v].gone .. BranchHead' : saves'[v].path \notin TreeIn(branch', h)
    BY <2>4, <2>5
  <2>7. Met(v)'
    BY <2>1, <2>3, <2>6 DEF Met, Deletes, Tree, TreeIn
  <2> QED
    BY <2>1, <2>7 DEF MetSet
<1> QED
  BY <1>9, <1>10

\* So it is with every step that leaves the saves, the branch and the heads of
\* the runs alone.
LEMMA HeadQuiet ==
  ASSUME Rows, Files, BookInv, HeadInv, UNCHANGED <<saves, branch, moot>>,
         \A t \in Task : run'[t].pc \in Pinned => run'[t] = run[t]
  PROVE  HeadInv' /\ MetSet \subseteq MetSet'
<1>1. /\ Len(saves) \in Nat /\ DOMAIN saves = 1 .. Len(saves) /\ Len(branch) \in Nat
  BY SaveFacts DEF Rows
<1>2. Grows(saves, saves') /\ Grows(branch, branch')
  BY <1>1 DEF Grows
<1> QED
  BY <1>1, <1>2, HeadKept

LEMMA HeadRun ==
  ASSUME Indexed, BookInv, HeadInv, NEW t \in Task, runPublish(t)
  PROVE  HeadInv' /\ MetSet \subseteq MetSet'
<1>1. /\ Rows /\ Files /\ run \in [Task -> Runs] /\ run[t] \in Runs
      /\ Sound(run[t], task[t], Outcome(t), dbErrors)
      /\ moot \in [Task -> Moots]
  BY DEF Indexed, TypeInv, Rows, CommitInv
<1>2. PICK own : own = Outcome(t)'
  OBVIOUS
<1>3. /\ Stepped(t, own) /\ UNCHANGED saves /\ Ended(t)
  BY <1>1, <1>2, RunStep
<1>4. \A u \in Task \ {t} : run'[u] = run[u]
  BY <1>3 DEF Stepped
<1>5. /\ Len(saves) \in Nat /\ DOMAIN saves = 1 .. Len(saves) /\ Len(branch) \in Nat
      /\ DOMAIN branch = 1 .. Len(branch) /\ Grows(saves, saves')
  BY <1>1, <1>3, SaveFacts DEF Rows, Grows
<1>6. run'[t].pc \in Pinned =>
        /\ run'[t].drafts = run[t].drafts
        /\ \/ run[t].pc \in Pinned /\ run'[t].base = run[t].base
           \/ run'[t].base = BranchHead
  <2>1. CASE ReadTask(t)
    <3> DEFINE r == [run[t] EXCEPT !.drafts = draft]
               f == [r EXCEPT !.pc = "failAt", !.steps["check"] = "failed"]
    <3>1. DOMAIN r = {"pc", "steps", "drafts", "base", "built", "handler"}
      BY <1>1 DEF Runs
    <3> HIDE DEF r
    <3>2. \A pc \in {"returned", "failTask", "init"} : [r EXCEPT !.pc = pc].pc = pc
      BY <3>1
    <3>3. f.pc = "failAt" /\ [run[t] EXCEPT !.pc = "threw"].pc = "threw"
      BY <1>1, <3>1 DEF Runs
    <3>4. \/ run'[t] \in {f, [run[t] EXCEPT !.pc = "threw"]}
          \/ \E pc \in {"returned", "failTask", "init"} : run'[t] = [r EXCEPT !.pc = pc]
      BY <1>1, <2>1 DEF ReadTask, Go, r
    <3> HIDE DEF f
    <3>5. run'[t].pc \in {"failAt", "threw", "returned", "failTask", "init"}
      BY <3>2, <3>3, <3>4
    <3> QED
      BY <3>5 DEF Pinned
  <2>2. CASE commitToDefaultBranch(t)
    <3>1. [run[t] EXCEPT !.pc = "missed"].pc = "missed"
          /\ [run[t] EXCEPT !.pc = "delete", !.handler = "outer"].pc = "delete"
      BY <1>1 DEF Runs
    <3>2. CASE Reject(t, run[t].steps)
      BY <1>1, <3>2, RejectDrafts DEF KeepsDrafts
    <3>3. CASE Go(t, "missed")
      BY <1>1, <3>1, <3>3 DEF Go, Pinned
    <3>4. CASE run' = [run EXCEPT ![t].pc = "delete", ![t].handler = "outer"]
      BY <1>1, <3>1, <3>4 DEF Pinned
    <3> QED
      BY <2>2, <3>2, <3>3, <3>4 DEF commitToDefaultBranch
  <2>3. CASE ~ReadTask(t) /\ ~commitToDefaultBranch(t)
    BY <1>1, <2>3, RunDrafts DEF KeepsDrafts
  <2> QED
    BY <2>1, <2>2, <2>3
<1>7. CASE UNCHANGED <<branch, moot>>
  <2>1. Grows(branch, branch')
    BY <1>5, <1>7 DEF Grows
  <2> QED
    BY <1>1, <1>3, <1>4, <1>5, <1>6, <1>7, <2>1, HeadKept
<1>8. CASE run[t].pc \in {"cas", "recas"} /\ ~UNCHANGED <<branch, moot>>
  <2>1. run[t].base # 0
    BY <1>1, <1>8 DEF Sound, Progress
  <2>2. CASE Commit(t) /\ UNCHANGED moot
    <3>1. /\ branch' \in Seq(CommitRecord) /\ BranchHead' = BranchHead + 1
          /\ \A i \in DOMAIN branch : branch'[i] = branch[i]
      BY <1>1, <2>1, <2>2, CommitLands
    <3>2. Len(branch') \in Nat /\ Grows(branch, branch')
      BY <1>5, <3>1 DEF Grows, BranchHead
    <3> QED
      BY <1>1, <1>3, <1>4, <1>5, <1>6, <2>2, <3>2, HeadKept
  <2>3. CASE NothingToCommit(t) /\ Finds(t) /\ UNCHANGED branch
    <3>1. Grows(branch, branch')
      BY <1>5, <2>3 DEF Grows
    <3>2. /\ moot'[t].head = run[t].base /\ moot'[t].files = run[t].drafts
          /\ \A u \in Task \ {t} : moot'[u] = moot[u]
      BY <1>1, <2>3 DEF Finds
    <3> QED
      BY <1>1, <1>3, <1>4, <1>5, <1>6, <2>1, <2>3, <3>1, <3>2, HeadKept
  <2> QED
    BY <1>3, <1>8, <2>2, <2>3 DEF Ended
<1> QED
  BY <1>3, <1>7, <1>8 DEF Ended

LEMMA HeadStep ==
  ASSUME Indexed, Indexed', BookInv, HeadInv, [Next]_vars
  PROVE  HeadInv' /\ MetSet \subseteq MetSet'
<1>1. /\ Rows /\ Files /\ Files' /\ run \in [Task -> Runs] /\ Len(branch) \in Nat
      /\ \A t \in Task : run[t] \in Runs
  BY DEF Indexed, TypeInv, Rows
<1>2. ASSUME UNCHANGED <<saves, branch, moot, run>>
      PROVE  HeadInv' /\ MetSet \subseteq MetSet'
  BY <1>1, <1>2, HeadQuiet
<1>3. ASSUME NEW ps \in SUBSET Path, NEW reset \in BOOLEAN, NEW gone \in {0, BranchHead},
             Upsert(ps, reset, gone), UNCHANGED <<branch, moot, run>>
      PROVE  HeadInv' /\ MetSet \subseteq MetSet'
  <2>1. gone \in Nat /\ BranchHead \in Nat /\ gone <= BranchHead
    BY <1>1 DEF BranchHead
  <2>2. /\ Grows(saves, saves')
        /\ \A v \in DOMAIN saves' \ DOMAIN saves : saves'[v].gone = gone
    BY <1>1, <1>3, <2>1, UpsertSaves
  <2>3. Len(saves') \in Nat /\ DOMAIN saves' = 1 .. Len(saves')
    BY <1>1 DEF Files
  <2>4. Grows(branch, branch')
    BY <1>1, <1>3 DEF Grows
  <2> QED
    BY <1>1, <1>3, <2>1, <2>2, <2>3, <2>4, HeadKept
<1>4. ASSUME NEW p \in Path, stageDraft(p)
      PROVE  HeadInv' /\ MetSet \subseteq MetSet'
  <2>1. {p} \in SUBSET Path /\ FALSE \in BOOLEAN
    OBVIOUS
  <2> QED
    BY <1>3, <1>4, <2>1 DEF stageDraft
<1>5. ASSUME NEW p \in Path, discardDrafts(p)
      PROVE  HeadInv' /\ MetSet \subseteq MetSet'
  BY <1>2, <1>5 DEF discardDrafts
<1>6. CASE ExternalPush
  <2>1. PICK pushed \in SUBSET PushedPath :
          branch' = Append(branch, [by |-> External, base |-> BranchHead, built |-> FALSE,
                                    files |-> NoDraft,
                                    tree |-> (Tree(BranchHead) \ PushedPath) \cup pushed])
    BY <1>6 DEF ExternalPush
  <2>2. UNCHANGED <<saves, run, moot>>
    BY <1>6 DEF ExternalPush
  <2>3. /\ BranchHead' = BranchHead + 1
        /\ \A i \in DOMAIN branch : branch'[i] = branch[i]
    BY <1>1, <2>1, PushLands
  <2>4. Len(branch') \in Nat
    BY DEF Indexed, TypeInv, Rows
  <2>5. Grows(branch, branch')
    BY <1>1, <2>3, <2>4 DEF Grows, BranchHead, Rows
  <2>6. /\ Grows(saves, saves') /\ Len(saves') \in Nat /\ DOMAIN saves' = 1 .. Len(saves')
        /\ DOMAIN saves' = DOMAIN saves
    BY <1>1, <2>2, SaveFacts DEF Grows
  <2> QED
    BY <1>1, <2>2, <2>4, <2>5, <2>6, HeadKept
<1>7. ASSUME NEW t \in Task, compareAndStage(t)
      PROVE  HeadInv' /\ MetSet \subseteq MetSet'
  <2>1. UNCHANGED <<branch, moot, run>>
    BY <1>7 DEF compareAndStage
  <2>2. CASE UNCHANGED saves
    BY <1>2, <2>1, <2>2
  <2>3. CASE \E ps \in SUBSET (Path \ ConfigPath) : Upsert(ps, TRUE, 0)
    <3>1. PICK ps \in SUBSET Path : Upsert(ps, TRUE, 0)
      BY <2>3
    <3>2. TRUE \in BOOLEAN
      OBVIOUS
    <3> QED
      BY <1>3, <2>1, <3>1, <3>2
  <2> QED
    BY <1>7, <2>2, <2>3 DEF compareAndStage
<1>8. ASSUME NEW t \in Task,
             startPublish(t) \/ ResetRead(t) \/ startResetPublish(t) \/ EnqueuePublish(t)
             \/ setTaskJob(t)
      PROVE  HeadInv' /\ MetSet \subseteq MetSet'
  BY <1>2, <1>8 DEF startPublish, ResetRead, startResetPublish, EnqueuePublish, setTaskJob,
     CallUnchanged
<1>9. ASSUME NEW t \in Task, publishNow(t) \/ Claim(t) \/ Return(t)
      PROVE  HeadInv' /\ MetSet \subseteq MetSet'
  <2>1. UNCHANGED <<saves, branch, moot>>
    BY <1>9 DEF publishNow, Claim, Return, CallUnchanged
  <2>2. run' = [run EXCEPT ![t].pc = "read"] \/ run' = [run EXCEPT ![t] = NoRun]
    BY <1>9 DEF publishNow, Claim, Return
  <2>3. NoRun.pc \notin Pinned /\ [run[t] EXCEPT !.pc = "read"].pc \notin Pinned
    BY <1>1 DEF NoRun, Runs, Pinned
  <2>4. run'[t] \in {NoRun, [run[t] EXCEPT !.pc = "read"]}
        /\ \A u \in Task \ {t} : run'[u] = run[u]
    BY <1>1, <2>2
  <2> QED
    BY <1>1, <2>1, <2>3, <2>4, HeadQuiet
<1>10. CASE Crash
  <2>1. NoRun.pc \notin Pinned
    BY DEF NoRun, Pinned
  <2>2. UNCHANGED <<saves, branch, moot>> /\ \A t \in Task : run'[t] = NoRun
    BY <1>10 DEF Crash
  <2> QED
    BY <1>1, <2>1, <2>2, HeadQuiet
<1>11. CASE Boot
  BY <1>2, <1>11 DEF Boot, failRunningByKind, listRunningByKind, SettleInterrupted,
     requeueRunning, BootUnchanged
<1>12. CASE UNCHANGED vars
  BY <1>2, <1>12 DEF vars
<1>13. ASSUME NEW t \in Task, Serve(t)
       PROVE  HeadInv' /\ MetSet \subseteq MetSet'
  BY <1>7, <1>8, <1>9, <1>13, HeadRun DEF Serve
<1>14. ASSUME NEW t \in Task, startPublish(t) \/ publishNow(t) \/ ResetRead(t)
       PROVE  HeadInv' /\ MetSet \subseteq MetSet'
  BY <1>8, <1>9, <1>14
<1> QED
  BY <1>4, <1>5, <1>6, <1>10, <1>11, <1>12, <1>13, <1>14 DEF Next

---------------------------------------------------------------------------
Known == Indexed /\ BookInv /\ HeadInv /\ ResetInv

LEMMA Booked == Spec => []Known
<1>1. Init => Known
  <2> SUFFICES ASSUME Init PROVE Known
    OBVIOUS
  <2>1. \A t \in Task : task[t].status = "none" /\ LandedBy(t) = {}
    BY DEF Init, LandedBy
  <2> QED
    BY <2>1, InitIndexed, BookInit DEF ResetInv, Known
<1>2. Known /\ [Next]_vars => Known'
  BY NextIndexed, BookStep, HeadStep, ResetStep DEF Known
<1> QED
  BY <1>1, <1>2, PTL DEF Spec

\* A model reset commits what it staged and nothing else, whatever members save
\* between its request, the run of its job and the commit.
THEOREM ResetsExact == Spec => []ResetExact
<1>1. Known => ResetExact
  <2> SUFFICES ASSUME ResetInv, NEW t \in Task, NEW i \in LandedBy(t),
                      call[t].print # NoDraft
               PROVE  draftSnapshotFingerprint(branch[i].files) = call[t].print
    BY DEF ResetExact, Known
  <2> QED
    BY PrintIs DEF ResetInv
<1> QED
  BY <1>1, Booked, PTL

\* The steps a task shows and its end agree with the branch, whatever await
\* was rejected and whatever a restart cut off: a publish that succeeded landed
\* its commit, or all it was to do was done at the head it read
\* (commitToDefaultBranch, github/write.server.ts).
THEOREM Honest == Spec => []ReportHonest
<1>1. Known => ReportHonest
  <2> SUFFICES ASSUME Known, NEW t \in Task
               PROVE  /\ "failed" \in {task[t].steps["check"], task[t].steps["build"]}
                           => LandedBy(t) = {}
                      /\ task[t].steps["commit"] = "succeeded" \/ task[t].status = "succeeded"
                           => LandedBy(t) # {} \/ NothingToDo(t)
    BY DEF ReportHonest
  <2>1. Committed(run[t], task[t], Outcome(t))
    BY DEF Known, Indexed, CommitInv, Sound
  <2>2. LandedBy(t) # {} => Outcome(t) # {}
    BY DEF Outcome
  <2>3. Outcome(t) # {} => LandedBy(t) # {} \/ NothingToDo(t)
    BY DEF Outcome, Known, HeadInv
  <2> QED
    BY <2>1, <2>2, <2>3 DEF Committed, Passed, Built
<1> QED
  BY <1>1, Booked, PTL

\* The pipeline implements ChangeLedger: a saved change stays saved until a
\* person drops it or a commit lands it.  The two exceptions: a deletion whose
\* publish read a head without its file (github/write.server.ts), and a change
\* of the file and the millisecond of another that was published
\* (drafts/repo.server.ts).
THEOREM Refines == Spec => KeepsChanges
<1>1. Init => Ledger!LedgerInit
  BY BookInit
<1>2. Known /\ [Next]_vars => BookNext /\ MetSet \subseteq MetSet'
  BY NextIndexed, BookStep, HeadStep DEF Known
<1>3. BookNext /\ MetSet \subseteq MetSet' => Ledger!LedgerNext
  BY DEF BookNext, MetSet, Book, Ledger!LedgerNext
<1> QED
  BY <1>1, <1>2, <1>3, Booked, PTL DEF Spec, Ledger!LedgerSpec, KeepsChanges
=============================================================================
