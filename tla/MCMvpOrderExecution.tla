------------------------- MODULE MCMvpOrderExecution -------------------------
(* Small instances of MvpOrderExecution for TLC. *)
EXTENDS MvpOrderExecution, TLC

(* With the INSERT into executions corrected and as deployed. *)
MCRefusals == {{}, {"execution_account"}}
MCDeployed == {{"execution_account"}}

WorkerSymmetry == Permutations(Workers)
=============================================================================
