-------------------------- MODULE MCPublishPipeline --------------------------
(* A source file, which stands for the lock as well, and the assistant's
   configuration.  The first commit is without both, and a push may add or
   remove the source file. *)
EXTENDS PublishPipeline

MCPath == {"source", "config"}
MCConfigPath == {"config"}
MCRestartPath == {"source", "config"}
MCFirstTree == {}
MCPushedPath == {"source"}

\* What can disturb a publish comes in every combination of four, not all at once:
\* saves, pushes, restarts, rejected calls, and once more for a save that deletes
\* and for a push that adds or removes a file.
Pushes == {i \in DOMAIN branch : branch[i].by = External}
Turns == {i \in Pushes : branch[i].tree # Tree(i)}
Deletions == {v \in DOMAIN saves : Deletes(v)}
FourDisturbances ==
  Len(saves) + Cardinality(Deletions) + Cardinality(Pushes) + Cardinality(Turns)
    + crashes + dbErrors <= 4

\* After the end of every publish, only saves and pushes follow.
Over(t) == /\ task[t].status \in {"succeeded", "failed"} /\ ~Executing(t)
           /\ job[t] \notin {"queued", "running"} /\ call[t].pc = "done"
UntilOver == \E t \in Task : ~Over(t)
=============================================================================
