---------------------------- MODULE ChangeLedger ----------------------------
(***************************************************************************)
(* What saving and publishing promise about a project's changes, without a *)
(* word on tasks, builds or restarts.  Every save enters the ledger as a   *)
(* change of its own and stays "saved" until a person replaces or discards *)
(* it, or one commit lands it together with the other changes of a         *)
(* publish.  Nothing else removes a change, and a landed one stays landed. *)
(*                                                                         *)
(* There are two more steps.  A change that deletes a file may be done     *)
(* with, by no commit, once the branch was without the file: it is moot,   *)
(* even if a push has brought the file back.  And the drafts table tells   *)
(* the saves of one path apart by the millisecond they were made in, so a  *)
(* change saved in the millisecond of a landed or moot one goes with it.   *)
(***************************************************************************)
EXTENDS Naturals, Sequences

CONSTANTS Path      \* the files of the project

VARIABLES
  ledger,    \* the changes, in the order they were saved
  met        \* those that delete a file the branch was without since the save

Fates == {"saved", "dropped", "landed", "moot", "absorbed"}
Change == [path : Path, at : Nat, fate : Fates]

LedgerOK == ledger \in Seq(Change) /\ met \subseteq DOMAIN ledger

LedgerInit == ledger = << >> /\ met = {}

InFate(f) == {v \in DOMAIN ledger : ledger[v].fate = f}

\* Changes S take the fate f; the others keep theirs.
Marked(S, f) ==
  [v \in DOMAIN ledger |-> IF v \in S THEN [ledger[v] EXCEPT !.fate = f] ELSE ledger[v]]

OneOfEachFile(S) == \A u, v \in S : ledger[u].path = ledger[v].path => u = v

\* A person saves new versions of the files in ps, one of each: a save replaces
\* the change of that file that was saved before.
Save(ps) ==
  LET old == DOMAIN ledger
      new == DOMAIN ledger' \ old
  IN  /\ old \subseteq DOMAIN ledger'
      /\ {ledger'[v].path : v \in new} = ps
      /\ \A v \in old :
           ledger'[v] = Marked({u \in InFate("saved") : ledger[u].path \in ps}, "dropped")[v]
      /\ \A u, v \in new : ledger'[u].path = ledger'[v].path => u = v
      /\ \A v \in new : ledger'[v].fate = "saved"

Discard(S) == S \subseteq InFate("saved") /\ ledger' = Marked(S, "dropped")

\* One commit lands the changes in S, at most one of each file.  A change that
\* was replaced while its publish was under way may still be among them.
Land(S) == OneOfEachFile(S) /\ ledger' = Marked(S, "landed")

\* A publish finds that its changes S, so far as none of them landed before, all
\* delete files that are gone.
Forgo(S) ==
  /\ S \subseteq met \ InFate("landed")
  /\ OneOfEachFile(S)
  /\ ledger' = Marked(S, "moot")

Absorb(S) ==
  /\ S \subseteq InFate("saved")
  /\ \A v \in S : \E u \in InFate("landed") \cup InFate("moot") :
       ledger[u].path = ledger[v].path /\ ledger[u].at = ledger[v].at
  /\ ledger' = Marked(S, "absorbed")

\* The branch moves on its own, and with it what is met.  A step that leaves the
\* ledger alone is a stutter.
LedgerNext ==
  /\ met \subseteq met'
  /\ ledger' # ledger =>
       \/ \E ps \in (SUBSET Path) \ {{}} : Save(ps)
       \/ \E S \in (SUBSET DOMAIN ledger) \ {{}} : Discard(S) \/ Land(S) \/ Forgo(S) \/ Absorb(S)

LedgerSpec == LedgerInit /\ [][LedgerNext]_<<ledger, met>>
=============================================================================
