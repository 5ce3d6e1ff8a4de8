-------------------------- MODULE MCAlertProcessing --------------------------
(* Small instances of AlertProcessing for TLC. *)
EXTENDS AlertProcessing
=============================================================================
