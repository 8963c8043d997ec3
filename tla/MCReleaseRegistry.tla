-------------------------- MODULE MCReleaseRegistry --------------------------
(* Three concurrent calls over one member agent, the assistant and two commits;
   a give-up needs MaxRound + 2 calls racing, so MaxRound = 1 makes it happen.
   No symmetry: a liveness property is checked. *)
EXTENDS ReleaseRegistry

=============================================================================
