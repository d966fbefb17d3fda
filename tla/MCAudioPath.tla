---------------------------- MODULE MCAudioPath ----------------------------
(* A small instance of AudioPath for TLC: two streaming tasks and two      *)
(* recording contexts.                                                     *)
EXTENDS AudioPath
=============================================================================
