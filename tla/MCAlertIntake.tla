---------------------------- MODULE MCAlertIntake ----------------------------
(* Small instances of AlertIntake for TLC: alerts with the same signal.    *)
EXTENDS AlertIntake, TLC

MCSameSignal == [a \in Alerts |-> CHOOSE s \in Signals : TRUE]
=============================================================================
