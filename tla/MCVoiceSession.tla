--------------------------- MODULE MCVoiceSession ---------------------------
(* Small instances of VoiceSession.                                         *)
EXTENDS VoiceSession

=============================================================================
