----------------------- MODULE MCVoterReconciliation -----------------------
(***************************************************************************)
(* Finite instances of VoterReconciliation.                                *)
(***************************************************************************)
EXTENDS VoterReconciliation
=============================================================================
