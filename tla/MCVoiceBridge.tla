--------------------------- MODULE MCVoiceBridge ---------------------------
(* Small instances of VoiceBridge for TLC. *)
EXTENDS VoiceBridge
=============================================================================
