--------------------------- MODULE AlertProcessing ---------------------------
(***************************************************************************)
(* The hardened alert processor (processor/alertProcessorHardened.ts) with  *)
(* the copier it calls (copier/engine.ts): a run turns the alert of its job *)
(* into a trade request, checks each mapped account, and saves and queues   *)
(* one order per account.  Each awaited statement is a step, so the runs of *)
(* several jobs, or two runs of one job that BullMQ believes stalled,       *)
(* interleave.  One strategy, mapped to every account.                      *)
(***************************************************************************)
EXTENDS JobQueue, FiniteSets

CONSTANTS
    Accounts,
    MaxFlips,    \* bound: changes of the kill switch or of an account's flags
    MaxTogether  \* bound: all of these in one behaviour

ASSUME AlertProcessingAssumption ==
    /\ IsFiniteSet(Workers)
    /\ {MaxFlips, MaxTogether} \subseteq Nat

Alerts == Jobs   \* each row of alerts_received has one job

(* Every run makes one trade request at most, with a fresh id, and a job is *)
(* handed out at most this often.                                           *)
RequestNumbers == 1..(Attempts + MaxStalled)

VARIABLES
    run,          \* the local state of each worker
    processed,    \* alerts_received.processed_at is set
    created,      \* trade requests made for each alert
    request,      \* trade_requests.status
    order,        \* orders_submitted: no row, a row, a row with its job
    killSwitch,   \* system_settings.global_kill_switch
    tradable,     \* accounts with is_active and not is_disabled
    deadLetters,  \* rows of dead_letter_queue per alert
    budget

vars == <<job, run, processed, created, request, order, killSwitch, tradable,
          deadLetters, budget>>

Steps == {"idle", "load", "killSwitch", "mappings", "create", "check",
          "copyMappings", "copy", "enqueue", "status", "mark", "catch", "ack",
          "onFailed"}

(* left: accounts still to check or to copy to; safe: those that passed.    *)
RunType == [at: Steps, alert: Alerts \cup {None}, made: Nat, n: Nat,
            left: SUBSET Accounts, safe: SUBSET Accounts, ok: BOOLEAN]

Idle == [at |-> "idle", alert |-> None, made |-> 0, n |-> 0,
         left |-> {}, safe |-> {}, ok |-> FALSE]

TypeOK ==
    /\ JobTypeOK
    /\ run \in [Workers -> RunType]
    /\ processed \subseteq Alerts
    /\ created \in [Alerts -> 0..(Attempts + MaxStalled)]
    /\ request \in [Alerts -> [RequestNumbers ->
                      {"none", "copying", "risk_rejected", "completed", "failed"}]]
    /\ order \in [Alerts -> [RequestNumbers -> [Accounts ->
                      {"none", "saved", "queued"}]]]
    /\ killSwitch \in BOOLEAN
    /\ tradable \subseteq Accounts
    /\ deadLetters \in [Alerts -> Nat]
    /\ budget \in [flips: Nat, faults: Nat, crashes: Nat, slow: Nat]

Init ==
    /\ JobInit
    /\ run = [w \in Workers |-> Idle]
    /\ processed = {}
    /\ created = [a \in Alerts |-> 0]
    /\ request = [a \in Alerts |-> [n \in RequestNumbers |-> "none"]]
    /\ order = [a \in Alerts |-> [n \in RequestNumbers |->
                                    [c \in Accounts |-> "none"]]]
    /\ killSwitch \in BOOLEAN
    /\ tradable = Accounts
    /\ deadLetters = [a \in Alerts |-> 0]
    /\ budget = [flips |-> MaxFlips, faults |-> MaxFaults,
                 crashes |-> MaxCrashes, slow |-> MaxSlow]

AlertOf(w) == run[w].alert
GoTo(w, step) == run' = [run EXCEPT ![w].at = step]
GoToWith(w, step, accounts) ==
    run' = [run EXCEPT ![w].at = step, ![w].left = accounts]
Finish(w, ok) == run' = [run EXCEPT ![w].at = "ack", ![w].ok = ok]
DropAccount(w, c) == run' = [run EXCEPT ![w].at = "copy", ![w].left = @ \ {c}]
SetOrder(w, c, state) ==
    order' = [order EXCEPT ![AlertOf(w)][run[w].n][c] = state]

-----------------------------------------------------------------------------
(* processAlertJob. *)

Take(w, a) ==
    /\ run[w].at = "idle"
    /\ StartJob(w, a)
    /\ run' = [run EXCEPT ![w] = [Idle EXCEPT !.at = "load", !.alert = a,
                                              !.made = job[a].made]]
    /\ UNCHANGED <<processed, created, request, order, killSwitch, tradable,
                   deadLetters, budget>>

(* The row is read and its lock released at once, FOR UPDATE standing alone.*)
(* The column is processed_at: alert.processedAt is undefined, and no alert *)
(* is skipped as already processed.                                         *)
LoadAlert(w) ==
    /\ run[w].at = "load"
    /\ GoTo(w, "killSwitch")
    /\ UNCHANGED <<job, processed, created, request, order, killSwitch,
                   tradable, deadLetters, budget>>

CheckKillSwitch(w) ==
    /\ run[w].at = "killSwitch"
    /\ GoTo(w, IF killSwitch THEN "mark" ELSE "mappings")
    /\ UNCHANGED <<job, processed, created, request, order, killSwitch,
                   tradable, deadLetters, budget>>

LoadMappings(w) ==
    /\ run[w].at = "mappings"
    /\ IF tradable = {} THEN GoTo(w, "mark")
                        ELSE GoToWith(w, "create", tradable)
    /\ UNCHANGED <<job, processed, created, request, order, killSwitch,
                   tradable, deadLetters, budget>>

(* Plausible bug: a request that fails its check is inserted once more.     *)
CreateTradeRequestTwice(w) ==
    LET a == AlertOf(w)
        n == created[a] + 1
    IN
    /\ run[w].at = "create"
    /\ \E passed \in BOOLEAN :
          /\ created' = [created EXCEPT ![a] = IF passed THEN n ELSE n + 1]
          /\ request' = [request EXCEPT ![a][n] = IF passed THEN "copying"
                                                  ELSE "risk_rejected"]
          /\ run' = [run EXCEPT ![w].at = IF passed THEN "check" ELSE "mark",
                                ![w].n  = n]
    /\ UNCHANGED <<job, processed, order, killSwitch, tradable, deadLetters,
                   budget>>

(* riskEngine.checkTrade for the strategy, then the INSERT, whatever the    *)
(* earlier runs of the job have inserted.                                   *)
CreateTradeRequest(w) ==
    LET a == AlertOf(w)
        n == created[a] + 1
    IN
    /\ run[w].at = "create"
    /\ created' = [created EXCEPT ![a] = n]
    /\ \E passed \in BOOLEAN :
          /\ request' = [request EXCEPT ![a][n] = IF passed THEN "copying"
                                                  ELSE "risk_rejected"]
          /\ run' = [run EXCEPT ![w].at = IF passed THEN "check" ELSE "mark",
                                ![w].n  = n]
    /\ UNCHANGED <<job, processed, order, killSwitch, tradable, deadLetters,
                   budget>>

(* Plausible bug: an account that fails its checks is tried until it passes.*)
CheckAccountUntilSafe(w) ==
    /\ run[w].at = "check"
    /\ \E c \in run[w].left : \E safe \in SUBSET ({c} \cap tradable) :
          run' = [run EXCEPT ![w].left = @ \ safe, ![w].safe = @ \cup safe]
    /\ UNCHANGED <<job, processed, created, request, order, killSwitch,
                   tradable, deadLetters, budget>>

(* processAccountWithSafety: the account passes only if it is still         *)
(* tradable; the circuit breaker, the rate limits, the risk rules and any   *)
(* exception may fail it.                                                   *)
CheckAccount(w) ==
    /\ run[w].at = "check"
    /\ \E c \in run[w].left : \E safe \in SUBSET ({c} \cap tradable) :
          run' = [run EXCEPT ![w].left = @ \ {c}, ![w].safe = @ \cup safe]
    /\ UNCHANGED <<job, processed, created, request, order, killSwitch,
                   tradable, deadLetters, budget>>

(* Plausible bug: the copier is called whether an account passed or not. *)
AllCheckedAlwaysCopied(w) ==
    /\ run[w].at = "check"
    /\ run[w].left = {}
    /\ GoTo(w, "copyMappings")
    /\ UNCHANGED <<job, processed, created, request, order, killSwitch,
                   tradable, deadLetters, budget>>

AllChecked(w) ==
    /\ run[w].at = "check"
    /\ run[w].left = {}
    /\ GoTo(w, IF run[w].safe = {} THEN "status" ELSE "copyMappings")
    /\ UNCHANGED <<job, processed, created, request, order, killSwitch,
                   tradable, deadLetters, budget>>

(* CopierEngine.copyTrade loads the mappings again: not those that passed.  *)
LoadCopierMappings(w) ==
    /\ run[w].at = "copyMappings"
    /\ GoToWith(w, "copy", tradable)
    /\ UNCHANGED <<job, processed, created, request, order, killSwitch,
                   tradable, deadLetters, budget>>

(* copyToAccount up to persistOrder, ... *)
PersistOrder(w) ==
    /\ run[w].at = "copy"
    /\ \E c \in run[w].left \cap tradable : SetOrder(w, c, "saved")
    /\ GoTo(w, "enqueue")
    /\ UNCHANGED <<job, processed, created, request, killSwitch, tradable,
                   deadLetters, budget>>

(* ... or its end: the account became inactive, a filter, a size of zero. *)
SkipAccount(w) ==
    /\ run[w].at = "copy"
    /\ \E c \in run[w].left : DropAccount(w, c)
    /\ UNCHANGED <<job, processed, created, request, order, killSwitch,
                   tradable, deadLetters, budget>>

(* The account whose order this run has saved and not yet queued. *)
Saved(w, c) ==
    c \in run[w].left /\ order[AlertOf(w)][run[w].n][c] = "saved"

(* orderQueue.add with the order id as job id. *)
EnqueueOrder(w) ==
    /\ run[w].at = "enqueue"
    /\ \E c \in Accounts :
          /\ Saved(w, c)
          /\ SetOrder(w, c, "queued")
          /\ DropAccount(w, c)
    /\ UNCHANGED <<job, processed, created, request, killSwitch, tradable,
                   deadLetters, budget>>

AllCopied(w) ==
    /\ run[w].at = "copy"
    /\ run[w].left = {}
    /\ GoTo(w, "status")
    /\ UNCHANGED <<job, processed, created, request, order, killSwitch,
                   tradable, deadLetters, budget>>

(* Plausible bug: only a success is written. *)
UpdateTradeRequestStatusIfSafe(w) ==
    /\ run[w].at = "status"
    /\ request' = IF run[w].safe = {} THEN request
                  ELSE [request EXCEPT ![AlertOf(w)][run[w].n] = "completed"]
    /\ GoTo(w, "mark")
    /\ UNCHANGED <<job, processed, created, order, killSwitch, tradable,
                   deadLetters, budget>>

(* completed if an account passed its checks, whatever the copier did. *)
UpdateTradeRequestStatus(w) ==
    /\ run[w].at = "status"
    /\ request' = [request EXCEPT ![AlertOf(w)][run[w].n] =
                     IF run[w].safe # {} THEN "completed" ELSE "failed"]
    /\ GoTo(w, "mark")
    /\ UNCHANGED <<job, processed, created, order, killSwitch, tradable,
                   deadLetters, budget>>

MarkAlertProcessed(w) ==
    /\ run[w].at = "mark"
    /\ processed' = processed \cup {AlertOf(w)}
    /\ Finish(w, TRUE)
    /\ UNCHANGED <<job, created, request, order, killSwitch, tradable,
                   deadLetters, budget>>

(* Plausible bug: attemptsMade compared with attempts, not attempts - 1, so *)
(* that only the worker's handler is left to record the failure.            *)
CatchErrorLate(w) ==
    /\ run[w].at = "catch"
    /\ Finish(w, FALSE)
    /\ deadLetters' = IF run[w].made >= Attempts
                      THEN [deadLetters EXCEPT ![AlertOf(w)] = @ + 1]
                      ELSE deadLetters
    /\ UNCHANGED <<job, processed, created, request, order, killSwitch,
                   tradable, budget>>

(* The catch block: a dead letter on the last attempt, then the rethrow. *)
CatchError(w) ==
    /\ run[w].at = "catch"
    /\ Finish(w, FALSE)
    /\ deadLetters' = IF run[w].made >= Attempts - 1
                      THEN [deadLetters EXCEPT ![AlertOf(w)] = @ + 1]
                      ELSE deadLetters
    /\ UNCHANGED <<job, processed, created, request, order, killSwitch,
                   tradable, budget>>

(* BullMQ settles the job; a failure for good calls the worker's handler. *)
Acknowledge(w) ==
    LET a == AlertOf(w) IN
    /\ run[w].at = "ack"
    /\ SettleJob(w, a, run[w].ok)
    /\ IF job[a].owner = w /\ ~run[w].ok /\ LastAttempt(a)
       THEN GoTo(w, "onFailed")
       ELSE run' = [run EXCEPT ![w] = Idle]
    /\ UNCHANGED <<processed, created, request, order, killSwitch, tradable,
                   deadLetters, budget>>

(* alertWorker.on('failed'): a second dead letter. *)
OnFailed(w) ==
    /\ run[w].at = "onFailed"
    /\ deadLetters' = [deadLetters EXCEPT ![AlertOf(w)] = @ + 1]
    /\ run' = [run EXCEPT ![w] = Idle]
    /\ UNCHANGED <<job, processed, created, request, order, killSwitch,
                   tradable, budget>>

WorkerStep(w) ==
    \/ \E a \in Alerts : Take(w, a)
    \/ LoadAlert(w) \/ CheckKillSwitch(w) \/ LoadMappings(w)
    \/ CreateTradeRequest(w) \/ CheckAccount(w) \/ AllChecked(w)
    \/ LoadCopierMappings(w) \/ PersistOrder(w) \/ SkipAccount(w)
    \/ EnqueueOrder(w) \/ AllCopied(w) \/ UpdateTradeRequestStatus(w)
    \/ MarkAlertProcessed(w) \/ CatchError(w) \/ Acknowledge(w) \/ OnFailed(w)

-----------------------------------------------------------------------------
(* Failures and the operator. *)

Disturbances == (MaxFlips - budget.flips) + (MaxFaults - budget.faults)
                + (MaxCrashes - budget.crashes) + (MaxSlow - budget.slow)

Spend(what) ==
    /\ budget[what] > 0
    /\ Disturbances < MaxTogether
    /\ budget' = [budget EXCEPT ![what] = @ - 1]

(* A statement outside the copier fails: the attempt fails. *)
Fault(w) ==
    /\ run[w].at \in {"load", "killSwitch", "mappings", "create", "status",
                      "mark"}
    /\ GoTo(w, "catch")
    /\ Spend("faults")
    /\ UNCHANGED <<job, processed, created, request, order, killSwitch,
                   tradable, deadLetters>>

(* A failure in the copier is caught, for one account or for all of them:   *)
(* an order that is saved and not queued stays so.                          *)
CopierFault(w) ==
    /\ \/ /\ run[w].at = "copyMappings"
          /\ GoTo(w, "status")
       \/ /\ run[w].at = "enqueue"
          /\ \E c \in Accounts : Saved(w, c) /\ DropAccount(w, c)
    /\ Spend("faults")
    /\ UNCHANGED <<job, processed, created, request, order, killSwitch,
                   tradable, deadLetters>>

(* addToDLQ fails: in the processor its error takes the place of the first, *)
(* in the worker's handler it is logged.                                    *)
DeadLetterFault(w) ==
    /\ \/ /\ run[w].at = "catch"
          /\ Finish(w, FALSE)
       \/ /\ run[w].at = "onFailed"
          /\ run' = [run EXCEPT ![w] = Idle]
    /\ Spend("faults")
    /\ UNCHANGED <<job, processed, created, request, order, killSwitch,
                   tradable, deadLetters>>

Crash(w) ==
    /\ run[w].at # "idle"
    /\ run' = [run EXCEPT ![w] = Idle]
    /\ Spend("crashes")
    /\ UNCHANGED <<job, processed, created, request, order, killSwitch,
                   tradable, deadLetters>>

Working(w, a) == run[w].alert = a /\ run[w].at \notin {"idle", "onFailed"}

(* The worker that had the job died, ... *)
StallDead(a) ==
    /\ StallJob(a)
    /\ ~Working(job[a].owner, a)
    /\ UNCHANGED <<run, processed, created, request, order, killSwitch,
                   tradable, deadLetters, budget>>

(* ... or is too slow to renew its lock, and goes on. *)
StallSlow(a) ==
    /\ StallJob(a)
    /\ Working(job[a].owner, a)
    /\ Spend("slow")
    /\ UNCHANGED <<run, processed, created, request, order, killSwitch,
                   tradable, deadLetters>>

FlipKillSwitch ==
    /\ killSwitch' = ~killSwitch
    /\ Spend("flips")
    /\ UNCHANGED <<job, run, processed, created, request, order, tradable,
                   deadLetters>>

FlipAccount(c) ==
    /\ tradable' = IF c \in tradable THEN tradable \ {c} ELSE tradable \cup {c}
    /\ Spend("flips")
    /\ UNCHANGED <<job, run, processed, created, request, order, killSwitch,
                   deadLetters>>

Done == /\ \A a \in Alerts : EndedJob(a)
        /\ \A w \in Workers : run[w].at = "idle"

Next ==
    \/ \E w \in Workers : \/ WorkerStep(w) \/ Fault(w) \/ CopierFault(w)
                          \/ DeadLetterFault(w) \/ Crash(w)
    \/ \E a \in Alerts : StallDead(a) \/ StallSlow(a)
    \/ FlipKillSwitch
    \/ \E c \in Accounts : FlipAccount(c)
    \/ Done /\ UNCHANGED vars

Spec == Init /\ [][Next]_vars

(* A run that is not killed goes on, a free worker takes waiting jobs, and  *)
(* BullMQ's stalled check finds abandoned ones.                             *)
FairSpec ==
    /\ Spec
    /\ \A w \in Workers : WF_vars(WorkerStep(w))
    /\ \A a \in Alerts : WF_vars(StallDead(a))

-----------------------------------------------------------------------------
(* Properties. *)

(* However its runs fail, stall or overlap, an alert gets no more trade     *)
(* requests than its job was handed to workers (HandedOut, JobQueue): the   *)
(* fan-out of one alert is bounded by the retries.                          *)
RequestsBounded == \A a \in Alerts : created[a] <= HandedOut(a)

(* A job that BullMQ has completed left its alert marked as processed.      *)
CompletedIsProcessed ==
    \A a \in Alerts : job[a].state = "completed" => a \in processed

(* Statements that failed and processes that died so far. *)
Failures == (MaxFaults - budget.faults) + (MaxCrashes - budget.crashes)

(* An alert whose attempts are used up has a dead letter, or its handler is *)
(* about to write one, unless each attempt failed and then both places that *)
(* write one failed too, the second perhaps with its process: nothing less  *)
(* can take the record of the failure away (HARDENING_SUMMARY.md:269, "DLQ  *)
(* for permanent failures").                                                *)
FailedIsDeadLettered ==
    \A a \in Alerts :
        job[a].state = "failed" /\ job[a].made = Attempts =>
            \/ deadLetters[a] > 0
            \/ \E w \in Workers : run[w].alert = a /\ run[w].at = "onFailed"
            \/ Failures >= Attempts + 2

Undisturbed == /\ budget.faults = MaxFaults
               /\ budget.crashes = MaxCrashes
               /\ budget.slow = MaxSlow

(* As long as nothing has failed, died or been handed out twice, a          *)
(* completed alert is done: one trade request, or none, that has left       *)
(* 'copying', and every saved order has its job, whatever the checks of the *)
(* accounts said and the operator did meanwhile.                            *)
BooksBalance ==
    \A a \in Alerts : Undisturbed /\ job[a].state = "completed" =>
        /\ created[a] <= 1
        /\ \A n \in RequestNumbers :
              /\ request[a][n] # "copying"
              /\ \A c \in Accounts : order[a][n][c] # "saved"

(* Every job ends. *)
AlertsEnd == \A a \in Alerts : <>[]EndedJob(a)

(* A trade request that the rules of the strategy or all accounts refused   *)
(* never has an order, in this run or in one that overlaps it, although the *)
(* copier loads the accounts anew and not those that passed                 *)
(* (alertProcessorHardened.ts:188).                                         *)
RefusedHasNoOrder ==
    \A a \in Alerts : \A n \in RequestNumbers :
        request[a][n] \in {"risk_rejected", "failed"}
            => \A c \in Accounts : order[a][n][c] = "none"

=============================================================================
