---------------------------- MODULE MCWgSession -----------------------------
(* Two devices, of which one connects, sends and restarts. *)
EXTENDS WgSession
=============================================================================
