------------------------------ MODULE MCJobQueue ------------------------------
(***************************************************************************)
(* The queue's properties, and a small instance: two deploys over a pool   *)
(* of one, so that a claimed deploy waits for a slot and stalls the loop,  *)
(* one publish, one other inline job, a restart and a failed database      *)
(* call.  Two attempts give a retry and a terminal failure.                *)
(***************************************************************************)
EXTENDS JobQueue

=============================================================================
