----------------------------- MODULE MCHandoff ------------------------------
(* Small instances of Handoff.                                              *)
EXTENDS Handoff

=============================================================================
