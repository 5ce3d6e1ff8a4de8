----------------------------- MODULE AlertLedger -----------------------------
(***************************************************************************)
(* What the intake of alerts promises, whichever webhook does it: an alert  *)
(* is recorded once and, once recorded, gets its one job, unless a failure  *)
(* takes the delivery that recorded it.  An alert that the kill switch      *)
(* recorded gets none.  AlertIntake and MvpAlertPath implement it.          *)
(***************************************************************************)
EXTENDS Naturals

CONSTANT Alerts

VARIABLES
    ledger,  \* what is known of each alert
    jobs,    \* jobs the queue was given for it
    failed   \* a statement, a queue call or the process has failed

vars == <<ledger, jobs, failed>>

Entries == {"unknown", "killed", "stored", "queued", "lost"}

TypeOK == /\ ledger \in [Alerts -> Entries]
          /\ jobs \in [Alerts -> Nat]
          /\ failed \in BOOLEAN

Init == /\ ledger = [a \in Alerts |-> "unknown"]
        /\ jobs = [a \in Alerts |-> 0]
        /\ failed = FALSE

Record(a, entry) ==
    /\ ledger[a] = "unknown"
    /\ ledger' = [ledger EXCEPT ![a] = entry]
    /\ UNCHANGED <<jobs, failed>>

(* The job is added, and the queue's answer may fail to arrive. *)
Queue(a) ==
    /\ ledger[a] = "stored"
    /\ ledger' = [ledger EXCEPT ![a] = "queued"]
    /\ jobs' = [jobs EXCEPT ![a] = @ + 1]
    /\ failed' \in {failed, TRUE}

(* Deliveries that stored their alert and did not queue it are lost. *)
Fail ==
    /\ failed' = TRUE
    /\ \E gone \in SUBSET {a \in Alerts : ledger[a] = "stored"} :
          ledger' = [a \in Alerts |-> IF a \in gone THEN "lost" ELSE ledger[a]]
    /\ UNCHANGED jobs

Next == \/ \E a \in Alerts : \/ Record(a, "stored") \/ Record(a, "killed")
                             \/ Queue(a)
        \/ Fail

Spec == Init /\ [][Next]_vars
=============================================================================
