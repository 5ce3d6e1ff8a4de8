-------------------------- MODULE MCOrderExecution --------------------------
(* Small instances of OrderExecution for TLC: all orders go to one account. *)
EXTENDS OrderExecution

MCSameAccount == [o \in Orders |-> CHOOSE a \in Accounts : TRUE]
=============================================================================
