---------------------------- MODULE MCListening -----------------------------
(* Small instances of Listening.                                            *)
EXTENDS Listening

=============================================================================
