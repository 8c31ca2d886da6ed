-------------------------- MODULE MCRealtimeClient --------------------------
(* Small instances of RealtimeClient.                                       *)
EXTENDS RealtimeClient, TLC

=============================================================================
