--------------------------- MODULE MCMvpAlertPath ---------------------------
(* A small instance of MvpAlertPath for TLC: all deliveries repeat one      *)
(* alert.                                                                   *)
EXTENDS MvpAlertPath, TLC

CONSTANT TheAlert

MCAlertOf == [d \in Jobs |-> TheAlert]
=============================================================================
