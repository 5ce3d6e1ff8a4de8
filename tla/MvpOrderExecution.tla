-------------------------- MODULE MvpOrderExecution --------------------------
(***************************************************************************)
(* The order processor of the MVP entry point (processor/orderProcessor.ts, *)
(* started by index.ts through jobs/workers.ts): no kill switch, no lock,   *)
(* no version and no test of what an earlier attempt has already done.      *)
(***************************************************************************)
EXTENDS JobQueue

CONSTANTS
    Refusals     \* sets of what may be refused, see refused

ASSUME MvpOrderExecutionAssumption ==
    Refusals \subseteq SUBSET {"execution_account"}

VARIABLES
    status,      \* orders_submitted.status
    orderRun,    \* what each worker executes
    placements,  \* times the broker was asked to place each order
    executions,  \* rows of executions per order
    refused,     \* {"execution_account"} as deployed: the INSERT into
                 \* executions passes the order id as account_id (line 129),
                 \* which the foreign key refuses; {} once that is corrected
    orderBudget  \* what is left of the bounds

orderVars == <<job, status, orderRun, placements, executions, refused, orderBudget>>

OrderRunSteps == {"idle", "account", "connect", "submit", "place", "record",
                  "execution", "catch", "ack"}

NoOrder == [at |-> "idle", order |-> None, ok |-> FALSE]

OrderTypeOK ==
    /\ JobTypeOK
    /\ status \in [Jobs -> {"pending", "submitted", "filled", "rejected"}]
    /\ orderRun \in [Workers -> [at: OrderRunSteps, order: Jobs \cup {None},
                                 ok: BOOLEAN]]
    /\ placements \in [Jobs -> Nat]
    /\ executions \in [Jobs -> Nat]
    /\ refused \in Refusals
    /\ orderBudget \in [faults: Nat, crashes: Nat, slow: Nat]

OrderInit ==
    /\ JobInit
    /\ status = [j \in Jobs |-> "pending"]
    /\ orderRun = [w \in Workers |-> NoOrder]
    /\ placements = [j \in Jobs |-> 0]
    /\ executions = [j \in Jobs |-> 0]
    /\ refused \in Refusals
    /\ orderBudget = [faults |-> MaxFaults, crashes |-> MaxCrashes,
                      slow |-> MaxSlow]

OrderOf(w) == orderRun[w].order
OrderGoTo(w, step) == orderRun' = [orderRun EXCEPT ![w].at = step]
FinishOrder(w, ok) ==
    orderRun' = [orderRun EXCEPT ![w].at = "ack", ![w].ok = ok]
SetStatus(w, s) == status' = [status EXCEPT ![OrderOf(w)] = s]

-----------------------------------------------------------------------------
TakeOrder(w, j) ==
    /\ orderRun[w].at = "idle"
    /\ StartJob(w, j)
    /\ orderRun' = [orderRun EXCEPT
                      ![w] = [NoOrder EXCEPT !.at = "account", !.order = j]]
    /\ UNCHANGED <<status, placements, executions, refused, orderBudget>>

(* The account is loaded; whether it is active or disabled is not read. *)
LoadAccount(w) ==
    /\ orderRun[w].at = "account"
    /\ OrderGoTo(w, "connect")
    /\ UNCHANGED <<job, status, placements, executions, refused, orderBudget>>

(* getBrokerAdapter, healthCheck and connect; each may throw. *)
Connect(w) ==
    /\ orderRun[w].at = "connect"
    /\ \/ OrderGoTo(w, "submit")
       \/ OrderGoTo(w, "catch")
    /\ UNCHANGED <<job, status, placements, executions, refused, orderBudget>>

(* Plausible bug: a status that the CHECK constraint does not know. *)
UpdateOrderStatusAccepted(w) ==
    /\ orderRun[w].at = "submit"
    /\ SetStatus(w, "accepted")
    /\ OrderGoTo(w, "place")
    /\ UNCHANGED <<job, placements, executions, refused, orderBudget>>

UpdateOrderStatus(w) ==
    /\ orderRun[w].at = "submit"
    /\ SetStatus(w, "submitted")
    /\ OrderGoTo(w, "place")
    /\ UNCHANGED <<job, placements, executions, refused, orderBudget>>

(* Plausible bug: an answer that is late is taken for an error. *)
PlaceOrderTimedOut(w) ==
    /\ orderRun[w].at = "place"
    /\ placements' = [placements EXCEPT ![OrderOf(w)] = @ + 1]
    /\ OrderGoTo(w, "record") \/ OrderGoTo(w, "catch")
    /\ UNCHANGED <<job, status, executions, refused, orderBudget>>

(* Plausible bug: an error of the broker is retried within the attempt. *)
PlaceOrderAgain(w) ==
    /\ orderRun[w].at = "place"
    /\ placements' = [placements EXCEPT ![OrderOf(w)] = @ + 1]
    /\ OrderGoTo(w, "record") \/ OrderGoTo(w, "connect")
    /\ UNCHANGED <<job, status, executions, refused, orderBudget>>

PlaceOrder(w) ==
    /\ orderRun[w].at = "place"
    /\ \/ /\ placements' = [placements EXCEPT ![OrderOf(w)] = @ + 1]
          /\ OrderGoTo(w, "record")
       \/ /\ OrderGoTo(w, "catch")
          /\ UNCHANGED placements
    /\ UNCHANGED <<job, status, executions, refused, orderBudget>>

(* updateOrderWithExecution: its UPDATE ... *)
RecordFill(w) ==
    /\ orderRun[w].at = "record"
    /\ SetStatus(w, "filled")
    /\ OrderGoTo(w, "execution")
    /\ UNCHANGED <<job, placements, executions, refused, orderBudget>>

(* ... and its INSERT. *)
InsertExecution(w) ==
    /\ orderRun[w].at = "execution"
    /\ IF "execution_account" \in refused
       THEN /\ OrderGoTo(w, "catch")
            /\ UNCHANGED executions
       ELSE /\ executions' = [executions EXCEPT ![OrderOf(w)] = @ + 1]
            /\ FinishOrder(w, TRUE)
    /\ UNCHANGED <<job, status, placements, refused, orderBudget>>

(* The catch block marks the order rejected and rethrows. *)
UpdateOrderError(w) ==
    /\ orderRun[w].at = "catch"
    /\ SetStatus(w, "rejected")
    /\ FinishOrder(w, FALSE)
    /\ UNCHANGED <<job, placements, executions, refused, orderBudget>>

AcknowledgeOrder(w) ==
    /\ orderRun[w].at = "ack"
    /\ SettleJob(w, OrderOf(w), orderRun[w].ok)
    /\ orderRun' = [orderRun EXCEPT ![w] = NoOrder]
    /\ UNCHANGED <<status, placements, executions, refused, orderBudget>>

OrderWorkerStep(w) ==
    \/ \E j \in Jobs : TakeOrder(w, j)
    \/ LoadAccount(w) \/ Connect(w) \/ UpdateOrderStatus(w) \/ PlaceOrder(w)
    \/ RecordFill(w) \/ InsertExecution(w) \/ UpdateOrderError(w)
    \/ AcknowledgeOrder(w)

OrderSpend(what) ==
    /\ orderBudget[what] > 0
    /\ orderBudget' = [orderBudget EXCEPT ![what] = @ - 1]

(* A statement of the try block fails, or the one of the catch block. *)
DatabaseFault(w) ==
    /\ \/ /\ orderRun[w].at \in {"account", "submit", "record", "execution"}
          /\ OrderGoTo(w, "catch")
       \/ /\ orderRun[w].at = "catch"
          /\ FinishOrder(w, FALSE)
    /\ OrderSpend("faults")
    /\ UNCHANGED <<job, status, placements, executions, refused>>

OrderCrash(w) ==
    /\ orderRun[w].at # "idle"
    /\ orderRun' = [orderRun EXCEPT ![w] = NoOrder]
    /\ OrderSpend("crashes")
    /\ UNCHANGED <<job, status, placements, executions, refused>>

StallAfterCrash(j) ==
    /\ StallJob(j)
    /\ OrderOf(job[j].owner) # j
    /\ UNCHANGED <<status, orderRun, placements, executions, refused, orderBudget>>

StallWhileRunning(j) ==
    /\ StallJob(j)
    /\ OrderOf(job[j].owner) = j
    /\ OrderSpend("slow")
    /\ UNCHANGED <<status, orderRun, placements, executions, refused>>

OrdersDone ==
    /\ \A j \in Jobs : EndedJob(j)
    /\ \A w \in Workers : orderRun[w].at = "idle"

OrderNext ==
    \/ \E w \in Workers : \/ OrderWorkerStep(w) \/ DatabaseFault(w)
                          \/ OrderCrash(w)
    \/ \E j \in Jobs : StallAfterCrash(j) \/ StallWhileRunning(j)
    \/ OrdersDone /\ UNCHANGED orderVars

OrderSpec == OrderInit /\ [][OrderNext]_orderVars

-----------------------------------------------------------------------------
(* Properties. *)

Busy(j) == \E w \in Workers : OrderOf(w) = j

(* However runs fail, die, stall and overlap, the broker is asked to place  *)
(* an order no more often than the queue handed its job out, and that is at *)
(* most Attempts + MaxStalled times: what the missing idempotency of        *)
(* orderProcessor.ts costs at worst.                                        *)
PlacementsBounded ==
    \A j \in Jobs :
        /\ placements[j] <= HandedOut(j)
        /\ HandedOut(j) <= Attempts + MaxStalled

OrdersUndisturbed == orderBudget = [faults |-> MaxFaults,
                                    crashes |-> MaxCrashes, slow |-> MaxSlow]

(* As long as nothing but the broker and the INSERT fails, the books of an  *)
(* order whose job has ended are in step: it is filled, with one row in     *)
(* executions, or rejected without any; it was placed as often as it was    *)
(* filled, but where the INSERT is refused up to once per attempt, with     *)
(* nothing to show for it (orderProcessor.ts:110-141 and 88).               *)
OrderBooksBalance ==
    \A j \in Jobs : OrdersUndisturbed /\ EndedJob(j) /\ ~Busy(j) =>
        /\ status[j] \in {"filled", "rejected"}
        /\ executions[j] = IF status[j] = "filled" THEN 1 ELSE 0
        /\ placements[j] \in
             IF "execution_account" \in refused
               THEN executions[j]..Attempts ELSE {executions[j]}

(* ARCHITECTURE.md:65, "Deterministic IDs ... for idempotency": an order    *)
(* with one id is placed at most once.                                      *)
PlacedAtMostOnce == \A j \in Jobs : placements[j] <= 1
=============================================================================
