---------------------------- MODULE MCDelegation ----------------------------
(* A delegated turn with one turn of a person in its conversation. *)
EXTENDS Delegation
=============================================================================
