----------------------------- MODULE MCJoining -----------------------------
(* A small instance of Joining, with faults. *)
EXTENDS Joining

CONSTANTS i1, a1, a2
=============================================================================
