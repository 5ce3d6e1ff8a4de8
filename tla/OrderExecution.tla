---------------------------- MODULE OrderExecution ----------------------------
(***************************************************************************)
(* The hardened order processor (processor/orderProcessorHardened.ts) run  *)
(* by the BullMQ order worker (jobs/workersHardened.ts, jobs/queues.ts).    *)
(*                                                                         *)
(* An order is a row of orders_submitted (status, version) with one queue   *)
(* job.  A worker takes the job and runs processOrderJob, one awaited       *)
(* statement per step, so runs of several jobs interleave, and so do two    *)
(* runs of the same job when BullMQ believes the first one has stalled.     *)
(* The database, the queue and the broker are modelled from their use.      *)
(***************************************************************************)
EXTENDS Integers, FiniteSets

CONSTANTS
    Orders,      \* rows of orders_submitted, each with one job in the queue
    Accounts,    \* rows of broker_accounts
    AccountOf,   \* orders_submitted.account_id
    Workers,     \* concurrent executions of processOrderJob
    None,        \* no worker, no order
    Attempts,    \* defaultJobOptions.attempts of the order queue (5)
    MaxStalled,  \* BullMQ maxStalledCount (1)
    Refused,     \* statements of the processor that PostgreSQL refuses
    \* Bounds of the environment: how often each of these may happen.
    MaxFlips,    \* changes of the kill switch or of an account's flags
    MaxFaults,   \* statements that fail because the connection does
    MaxCrashes,  \* worker processes that die
    MaxSlow      \* runs whose queue lock expires while they still execute

(***************************************************************************)
(* withAccountLock is taken to work: what becomes of the lock when its SET  *)
(* LOCAL fails is AdvisoryLock's subject.                                   *)
(* "empty_uuid":   risk_rules.strategy_id = '' is not a uuid (line 112);    *)
(* "unbound_param": error_message = $4 with three values (line 339).        *)
(***************************************************************************)
RefusableStatements == {"empty_uuid", "unbound_param"}

ASSUME OrderExecutionAssumption ==
    /\ IsFiniteSet(Orders)
    /\ AccountOf \in [Orders -> Accounts]
    /\ None \notin Orders \cup Workers
    /\ Attempts \in Nat \ {0}
    /\ MaxStalled \in Nat
    /\ Refused \subseteq RefusableStatements
    /\ {MaxFlips, MaxFaults, MaxCrashes, MaxSlow} \subseteq Nat

VARIABLES
    killSwitch,   \* system_settings.global_kill_switch
    tradable,     \* accounts with is_active and not is_disabled
    row,          \* orders_submitted: status and version of each order
    job,          \* the queue's record of each job
    run,          \* the local state of each worker
    accountLock,  \* holder of the advisory lock of each account
    placedAt,     \* versions the broker was asked to place each order at
    executions,   \* rows of executions per order
    deadLetters,  \* rows of dead_letter_queue per order
    budget        \* what is left of the environment's bounds

vars == <<killSwitch, tradable, row, job, run, accountLock, placedAt,
          executions, deadLetters, budget>>

Statuses  == {"pending", "submitted", "filled", "rejected"}
JobStates == {"waiting", "active", "completed", "failed"}
Steps == {"idle", "killSwitch", "load", "account", "risk", "riskReject",
          "lock", "submit", "place", "unlock", "record", "execution",
          "catch", "deadLetter", "ack", "onFailed"}
Errors == {"none", "permanent", "fatal", "retryable"}

(* Between acquiring and releasing the account lock. *)
Locked == {"submit", "place", "unlock"}

Idle == [at |-> "idle", order |-> None, seen |-> 0, made |-> 0,
         error |-> "none", failed |-> FALSE]

RowType == [status: Statuses, version: Nat]

JobType == [state: JobStates, made: Nat, stalls: Nat,
            owner: Workers \cup {None}]

RunType == [at: Steps, order: Orders \cup {None}, seen: Nat, made: Nat,
            error: Errors, failed: BOOLEAN]

BudgetType == [flips: Nat, faults: Nat, crashes: Nat, slow: Nat]

TypeOK ==
    /\ killSwitch \in BOOLEAN
    /\ tradable \in SUBSET Accounts
    /\ row \in [Orders -> RowType]
    /\ job \in [Orders -> JobType]
    /\ run \in [Workers -> RunType]
    /\ accountLock \in [Accounts -> Workers \cup {None}]
    /\ placedAt \in [Orders -> SUBSET Nat]
    /\ executions \in [Orders -> Nat]
    /\ deadLetters \in [Orders -> Nat]
    /\ budget \in BudgetType

(* The copier inserted the row as pending, version 1, and queued the job. *)
Init ==
    /\ killSwitch \in BOOLEAN
    /\ tradable = Accounts
    /\ row = [o \in Orders |-> [status |-> "pending", version |-> 1]]
    /\ job = [o \in Orders |-> [state |-> "waiting", made |-> 0, stalls |-> 0,
                                owner |-> None]]
    /\ run = [w \in Workers |-> Idle]
    /\ accountLock = [a \in Accounts |-> None]
    /\ placedAt = [o \in Orders |-> {}]
    /\ executions = [o \in Orders |-> 0]
    /\ deadLetters = [o \in Orders |-> 0]
    /\ budget = [flips |-> MaxFlips, faults |-> MaxFaults,
                 crashes |-> MaxCrashes, slow |-> MaxSlow]

-----------------------------------------------------------------------------
(* Steps of a run. *)

OrderOf(w) == run[w].order

GoTo(w, step) == run' = [run EXCEPT ![w].at = step]

(* Control reaches the catch block of processOrderJob. *)
Throw(w, kind) == run' = [run EXCEPT ![w].at = "catch", ![w].error = kind]

(* The processor returned or threw; BullMQ will be told. *)
Finish(w, failed) ==
    run' = [run EXCEPT ![w].at = "ack", ![w].failed = failed]

(* UPDATE orders_submitted: the trigger increments the version. *)
SetStatus(o, status) ==
    row' = [row EXCEPT ![o] = [status |-> status, version |-> @.version + 1]]

Release(a) == accountLock' = [accountLock EXCEPT ![a] = None]

(* Plausible bug: the UPDATE without its "AND version". *)
VersionMatchesUnguarded(w) == row[OrderOf(w)].version >= run[w].seen

(* "AND version = $3" matches the row the run has loaded. *)
VersionMatches(w) == row[OrderOf(w)].version = run[w].seen

(* A worker takes a waiting job and the processor starts. *)
Take(w, o) ==
    /\ run[w].at = "idle"
    /\ job[o].state = "waiting"
    /\ job' = [job EXCEPT ![o].state = "active", ![o].owner = w]
    /\ run' = [run EXCEPT ![w] =
                 [Idle EXCEPT !.at = "killSwitch", !.order = o,
                              !.made = job[o].made]]
    /\ UNCHANGED <<killSwitch, tradable, row, accountLock, placedAt,
                   executions, deadLetters, budget>>

(* Plausible bug: retries are taken to have passed the kill switch. *)
CheckKillSwitchFirstAttempt(w) ==
    /\ run[w].at = "killSwitch"
    /\ IF killSwitch /\ run[w].made = 0 THEN Throw(w, "fatal")
                                       ELSE GoTo(w, "load")
    /\ UNCHANGED <<killSwitch, tradable, row, job, accountLock, placedAt,
                   executions, deadLetters, budget>>

(* An active kill switch is an ordinary Error, not a PermanentError. *)
CheckKillSwitch(w) ==
    /\ run[w].at = "killSwitch"
    /\ IF killSwitch THEN Throw(w, "fatal") ELSE GoTo(w, "load")
    /\ UNCHANGED <<killSwitch, tradable, row, job, accountLock, placedAt,
                   executions, deadLetters, budget>>

(* Plausible bug: an order that is already settled is not skipped. *)
LoadOrderUnfiltered(w) ==
    /\ run[w].at = "load"
    /\ run' = [run EXCEPT ![w].at = "account",
                          ![w].seen = row[OrderOf(w)].version]
    /\ UNCHANGED <<killSwitch, tradable, row, job, accountLock, placedAt,
                   executions, deadLetters, budget>>

(* Plausible bug: a settled order is waited for instead of skipped. *)
LoadOrderWaiting(w) ==
    LET o == OrderOf(w) IN
    /\ run[w].at = "load"
    /\ IF row[o].status \in {"pending", "submitted"}
       THEN run' = [run EXCEPT ![w].at = "account",
                               ![w].seen = row[o].version]
       ELSE UNCHANGED run
    /\ UNCHANGED <<killSwitch, tradable, row, job, accountLock, placedAt,
                   executions, deadLetters, budget>>

(* An order that is neither pending nor submitted is skipped. *)
LoadOrder(w) ==
    LET o == OrderOf(w) IN
    /\ run[w].at = "load"
    /\ IF row[o].status \in {"pending", "submitted"}
       THEN run' = [run EXCEPT ![w].at = "account",
                               ![w].seen = row[o].version]
       ELSE Finish(w, FALSE)
    /\ UNCHANGED <<killSwitch, tradable, row, job, accountLock, placedAt,
                   executions, deadLetters, budget>>

LoadAccount(w) ==
    /\ run[w].at = "account"
    /\ IF AccountOf[OrderOf(w)] \in tradable
       THEN GoTo(w, "risk")
       ELSE Throw(w, "permanent")
    /\ UNCHANGED <<killSwitch, tradable, row, job, accountLock, placedAt,
                   executions, deadLetters, budget>>

(* riskEngine.checkTrade with strategy id '': a kill switch of the engine   *)
(* fails the check before any rule is loaded; loading the rules needs a     *)
(* uuid.                                                                    *)
RiskCheck(w) ==
    /\ run[w].at = "risk"
    /\ \/ GoTo(w, "riskReject")
       \/ /\ "empty_uuid" \in Refused
          /\ Throw(w, "fatal")
       \/ /\ "empty_uuid" \notin Refused
          /\ GoTo(w, "lock")
    /\ UNCHANGED <<killSwitch, tradable, row, job, accountLock, placedAt,
                   executions, deadLetters, budget>>

RiskReject(w) ==
    /\ run[w].at = "riskReject"
    /\ IF VersionMatches(w)
       THEN /\ SetStatus(OrderOf(w), "rejected")
            /\ Throw(w, "permanent")
       ELSE /\ Throw(w, "fatal")
            /\ UNCHANGED row
    /\ UNCHANGED <<killSwitch, tradable, job, accountLock, placedAt,
                   executions, deadLetters, budget>>

(* Plausible bug: the lock is taken without waiting for it. *)
AcquireLockWithoutWaiting(w) ==
    LET a == AccountOf[OrderOf(w)] IN
    /\ run[w].at = "lock"
    /\ accountLock' = [accountLock EXCEPT ![a] = w]
    /\ GoTo(w, "submit")
    /\ UNCHANGED <<killSwitch, tradable, row, job, placedAt, executions,
                   deadLetters, budget>>

(* withAccountLock: pg_advisory_lock blocks until the lock is free. *)
AcquireLock(w) ==
    LET a == AccountOf[OrderOf(w)] IN
    /\ run[w].at = "lock"
    /\ accountLock[a] = None
    /\ accountLock' = [accountLock EXCEPT ![a] = w]
    /\ GoTo(w, "submit")
    /\ UNCHANGED <<killSwitch, tradable, row, job, placedAt, executions,
                   deadLetters, budget>>

(* The row is claimed: submitted, if its version is still the loaded one. *)
Submit(w) ==
    LET o == OrderOf(w) IN
    /\ run[w].at = "submit"
    /\ IF VersionMatches(w)
       THEN /\ SetStatus(o, "submitted")
            /\ GoTo(w, "place")
            /\ UNCHANGED accountLock
       ELSE /\ Throw(w, "fatal")
            /\ Release(AccountOf[o])
            /\ UNCHANGED row
    /\ UNCHANGED <<killSwitch, tradable, job, placedAt, executions,
                   deadLetters, budget>>

(* getBrokerAdapter, healthCheck, connect and placeOrder. *)
Place(w) ==
    LET o == OrderOf(w) IN
    /\ run[w].at = "place"
    /\ placedAt' = [placedAt EXCEPT ![o] = @ \cup {run[w].seen}]
    /\ GoTo(w, "unlock")
    /\ UNCHANGED <<killSwitch, tradable, row, job, accountLock, executions,
                   deadLetters, budget>>

(* Plausible bug: the error is thrown after the broker took the order. *)
BrokerErrorAfterPlacement(w) ==
    LET o == OrderOf(w) IN
    /\ run[w].at = "place"
    /\ \E kind \in {"retryable", "fatal"} : Throw(w, kind)
    /\ placedAt' = [placedAt EXCEPT ![o] = @ \cup {run[w].seen}]
    /\ Release(AccountOf[o])
    /\ UNCHANGED <<killSwitch, tradable, row, job, executions, deadLetters,
                   budget>>

BrokerError(w) ==
    /\ run[w].at = "place"
    /\ \E kind \in {"retryable", "fatal"} : Throw(w, kind)
    /\ Release(AccountOf[OrderOf(w)])
    /\ UNCHANGED <<killSwitch, tradable, row, job, placedAt, executions,
                   deadLetters, budget>>

ReleaseLock(w) ==
    /\ run[w].at = "unlock"
    /\ Release(AccountOf[OrderOf(w)])
    /\ GoTo(w, "record")
    /\ UNCHANGED <<killSwitch, tradable, row, job, placedAt, executions,
                   deadLetters, budget>>

(* updateOrderWithExecution: not guarded by the version. *)
UpdateOrderWithExecution(w) ==
    /\ run[w].at = "record"
    /\ SetStatus(OrderOf(w), "filled")
    /\ GoTo(w, "execution")
    /\ UNCHANGED <<killSwitch, tradable, job, accountLock, placedAt,
                   executions, deadLetters, budget>>

(* recordExecution, then recordSuccess and logOperation, which never throw. *)
RecordExecution(w) ==
    /\ run[w].at = "execution"
    /\ executions' = [executions EXCEPT ![OrderOf(w)] = @ + 1]
    /\ Finish(w, FALSE)
    /\ UNCHANGED <<killSwitch, tradable, row, job, accountLock, placedAt,
                   deadLetters, budget>>

(* The catch block: updateOrderStatus without a version and with a message. *)
CatchError(w) ==
    LET o == OrderOf(w) IN
    /\ run[w].at = "catch"
    /\ \/ /\ "unbound_param" \in Refused
          /\ Finish(w, TRUE)
          /\ UNCHANGED row
       \/ /\ "unbound_param" \notin Refused
          /\ run[w].error = "retryable"
          /\ SetStatus(o, "pending")
          /\ Finish(w, TRUE)
       \/ /\ "unbound_param" \notin Refused
          /\ run[w].error # "retryable"
          /\ SetStatus(o, "rejected")
          /\ GoTo(w, "deadLetter")
    /\ UNCHANGED <<killSwitch, tradable, job, accountLock, placedAt,
                   executions, deadLetters, budget>>

(* recordFailure never throws; a dead letter on the last attempt only. *)
AddDeadLetter(w) ==
    /\ run[w].at = "deadLetter"
    /\ deadLetters' = IF run[w].made >= Attempts - 1
                      THEN [deadLetters EXCEPT ![OrderOf(w)] = @ + 1]
                      ELSE deadLetters
    /\ Finish(w, run[w].error # "permanent")
    /\ UNCHANGED <<killSwitch, tradable, row, job, accountLock, placedAt,
                   executions, budget>>

(* BullMQ settles the job, unless the run no longer owns it. *)
Acknowledge(w) ==
    LET o    == OrderOf(w)
        made == job[o].made + 1
        last == made >= Attempts
    IN
    /\ run[w].at = "ack"
    /\ \/ /\ job[o].owner # w
          /\ run' = [run EXCEPT ![w] = Idle]
          /\ UNCHANGED job
       \/ /\ job[o].owner = w
          /\ ~run[w].failed
          /\ job' = [job EXCEPT ![o].state = "completed", ![o].owner = None]
          /\ run' = [run EXCEPT ![w] = Idle]
       \/ /\ job[o].owner = w
          /\ run[w].failed
          /\ job' = [job EXCEPT
                       ![o].state = IF last THEN "failed" ELSE "waiting",
                       ![o].made = made,
                       ![o].owner = None]
          /\ IF last THEN GoTo(w, "onFailed")
                     ELSE run' = [run EXCEPT ![w] = Idle]
    /\ UNCHANGED <<killSwitch, tradable, row, accountLock, placedAt,
                   executions, deadLetters, budget>>

(* orderWorker.on('failed') after the last attempt. *)
OnFailed(w) ==
    /\ run[w].at = "onFailed"
    /\ deadLetters' = [deadLetters EXCEPT ![OrderOf(w)] = @ + 1]
    /\ run' = [run EXCEPT ![w] = Idle]
    /\ UNCHANGED <<killSwitch, tradable, row, job, accountLock, placedAt,
                   executions, budget>>

WorkerStep(w) ==
    \/ \E o \in Orders : Take(w, o)
    \/ CheckKillSwitch(w) \/ LoadOrder(w) \/ LoadAccount(w)
    \/ RiskCheck(w) \/ RiskReject(w) \/ AcquireLock(w)
    \/ Submit(w) \/ Place(w) \/ BrokerError(w) \/ ReleaseLock(w)
    \/ UpdateOrderWithExecution(w) \/ RecordExecution(w)
    \/ CatchError(w) \/ AddDeadLetter(w) \/ Acknowledge(w) \/ OnFailed(w)

-----------------------------------------------------------------------------
(* Failures and the operator. *)

Spend(what) ==
    /\ budget[what] > 0
    /\ budget' = [budget EXCEPT ![what] = @ - 1]

(* A statement outside the lock, or the pool's connect, fails. *)
DatabaseFault(w) ==
    /\ run[w].at \in {"killSwitch", "load", "account", "risk", "riskReject",
                      "lock", "record", "execution"}
    /\ \E kind \in {"retryable", "fatal"} : Throw(w, kind)
    /\ Spend("faults")
    /\ UNCHANGED <<killSwitch, tradable, row, job, accountLock, placedAt,
                   executions, deadLetters>>

(* The statement that claims the row fails, or the COMMIT after the broker  *)
(* has answered: the lock is released and the error propagates.             *)
DatabaseFaultInLock(w) ==
    /\ run[w].at \in {"submit", "unlock"}
    /\ \E kind \in {"retryable", "fatal"} : Throw(w, kind)
    /\ Release(AccountOf[OrderOf(w)])
    /\ Spend("faults")
    /\ UNCHANGED <<killSwitch, tradable, row, job, placedAt, executions,
                   deadLetters>>

(* A statement of the catch block fails: the job fails with that error. *)
DatabaseFaultInCatch(w) ==
    /\ run[w].at \in {"catch", "deadLetter"}
    /\ Finish(w, TRUE)
    /\ Spend("faults")
    /\ UNCHANGED <<killSwitch, tradable, row, job, accountLock, placedAt,
                   executions, deadLetters>>

(* The process dies: its session ends, and with it its advisory lock. *)
Crash(w) ==
    /\ run[w].at # "idle"
    /\ run' = [run EXCEPT ![w] = Idle]
    /\ accountLock' = [a \in Accounts |-> IF accountLock[a] = w THEN None
                                          ELSE accountLock[a]]
    /\ Spend("crashes")
    /\ UNCHANGED <<killSwitch, tradable, row, job, placedAt, executions,
                   deadLetters>>

(* BullMQ moves an active job whose lock was not renewed back to waiting,   *)
(* or fails it when that happened too often.                                *)
Stall(o) ==
    job' = [job EXCEPT
              ![o].state  = IF job[o].stalls >= MaxStalled THEN "failed"
                                                           ELSE "waiting",
              ![o].stalls = @ + 1,
              ![o].owner  = None]

(* ... because the worker that had it is gone, *)
StallAfterCrash(o) ==
    /\ job[o].state = "active"
    /\ OrderOf(job[o].owner) # o
    /\ Stall(o)
    /\ UNCHANGED <<killSwitch, tradable, row, run, accountLock, placedAt,
                   executions, deadLetters, budget>>

(* ... or because that worker is slow, and will go on with its run. *)
StallWhileRunning(o) ==
    /\ job[o].state = "active"
    /\ OrderOf(job[o].owner) = o
    /\ Stall(o)
    /\ Spend("slow")
    /\ UNCHANGED <<killSwitch, tradable, row, run, accountLock, placedAt,
                   executions, deadLetters>>

(* The operator flips the kill switch (routes/system.ts). *)
FlipKillSwitch ==
    /\ killSwitch' = ~killSwitch
    /\ Spend("flips")
    /\ UNCHANGED <<tradable, row, job, run, accountLock, placedAt, executions,
                   deadLetters>>

(* An account is disabled or enabled (routes/accounts.ts, circuit breaker). *)
FlipAccount(a) ==
    /\ tradable' = IF a \in tradable THEN tradable \ {a} ELSE tradable \cup {a}
    /\ Spend("flips")
    /\ UNCHANGED <<killSwitch, row, job, run, accountLock, placedAt,
                   executions, deadLetters>>

(* Every job has been settled and every handler has run. *)
Done ==
    /\ \A o \in Orders : job[o].state \in {"completed", "failed"}
    /\ \A w \in Workers : run[w].at = "idle"

Next ==
    \/ \E w \in Workers : WorkerStep(w)
    \/ \E w \in Workers : \/ DatabaseFault(w) \/ DatabaseFaultInLock(w)
                          \/ DatabaseFaultInCatch(w) \/ Crash(w)
    \/ \E o \in Orders : StallAfterCrash(o) \/ StallWhileRunning(o)
    \/ FlipKillSwitch
    \/ \E a \in Accounts : FlipAccount(a)
    \/ Done /\ UNCHANGED vars

Spec == Init /\ [][Next]_vars

(* Workers keep polling and the stalled-job check keeps running. *)
FairSpec ==
    /\ Spec
    /\ \A w \in Workers : WF_vars(WorkerStep(w))
    /\ \A o \in Orders : WF_vars(StallAfterCrash(o))
-----------------------------------------------------------------------------
(* Properties. *)

Ended(o) == job[o].state \in {"completed", "failed"}
Busy(o)  == \E w \in Workers : OrderOf(w) = o
Spent(what, max) == max - budget[what]

Undisturbed == /\ budget.faults = MaxFaults
               /\ budget.crashes = MaxCrashes
               /\ budget.slow = MaxSlow

(* While a run is between withAccountLock's acquire and release            *)
(* (orderProcessorHardened.ts:134-155), no other run is in that section     *)
(* for the same account.                                                    *)
AccountExclusive ==
    \A v, w \in Workers :
        v # w /\ run[v].at \in Locked /\ run[w].at \in Locked
            => AccountOf[OrderOf(v)] # AccountOf[OrderOf(w)]

(* Optimistic locking (line 138): a run that is about to call placeOrder    *)
(* holds a version of the row at which nobody has placed the order, however *)
(* many runs of the job there are and whatever failed before.               *)
OnePlacementPerClaim ==
    \A w \in Workers :
        run[w].at = "place" => run[w].seen \notin placedAt[OrderOf(w)]

(* An order reaches the broker a second time only because a process died,   *)
(* a statement failed, or BullMQ restarted a slow run: retries after an     *)
(* error of the broker or the kill switch never place it again.             *)
DuplicatesNeedAFault ==
    \A o \in Orders :
        Cardinality(placedAt[o]) <= 1 + Spent("crashes", MaxCrashes)
                                      + Spent("faults", MaxFaults)
                                      + Spent("slow", MaxSlow)

(* As long as no process has died, no statement has failed and no run was   *)
(* handed out twice, the books agree when a job has ended: an order is      *)
(* filled if and only if the broker was asked to place it, once, with one   *)
(* execution recorded, whatever the broker, the risk rules and the operator *)
(* did meanwhile.                                                           *)
BooksBalance ==
    \A o \in Orders : Undisturbed /\ Ended(o) /\ ~Busy(o) =>
        /\ (row[o].status = "filled") <=> (placedAt[o] # {})
        /\ Cardinality(placedAt[o]) = executions[o]
        /\ executions[o] <= 1

(* RISK_ANALYSIS.md:173, "filled -> rejected overwrite": the status of a    *)
(* filled or rejected order never changes again, although processes die     *)
(* between recording and acknowledging it and their jobs are run again.     *)
(* Excepted are runs that overlap, statements that fail after the fill, and *)
(* a kill switch set between two runs: the catch block rejects an order     *)
(* whatever its status (line 222).                                          *)
SettledIsFinal ==
    [][\A o \in Orders :
          /\ budget'.faults = MaxFaults
          /\ budget'.slow = MaxSlow
          /\ budget'.flips = MaxFlips
          /\ row[o].status \in {"filled", "rejected"}
          => row'[o].status = row[o].status]_vars

(* The runs that have read the kill switch and may yet place their order. *)
PastSwitch ==
    {w \in Workers : run[w].at \in {"load", "account", "risk", "lock", "submit",
                                   "place"}}

(* As long as the kill switch is set, no run gets past it, retries and runs *)
(* of stalled jobs included, and every placement uses up a run that had     *)
(* passed it before: no more orders are placed than runs were under way     *)
(* (HARDENING_SUMMARY.md:23, "Kill switch checked fresh from DB").          *)
KillSwitchDrains ==
    [][killSwitch =>
          /\ PastSwitch' \subseteq PastSwitch
          /\ placedAt' # placedAt => PastSwitch' # PastSwitch]_vars

(* Who is at the desk of an account: the run that holds its lock. *)
AtDesk(a) ==
    LET w == accountLock[a] IN
    IF w = None
    THEN None
    ELSE [order |-> OrderOf(w), version |-> run[w].seen, step |-> run[w].at]

Desk == INSTANCE OrderDesk
          WITH Nobody  <- None,
               desk    <- [a \in Accounts |-> AtDesk(a)],
               version <- [o \in Orders |-> row[o].version]

(* The processor implements OrderDesk: whatever fails, dies, stalls or is   *)
(* retried, only an order at its account's desk whose claim has succeeded   *)
(* is placed, once per claim, and never under a version it was placed under *)
(* before (orderProcessorHardened.ts:134-155).                              *)
ImplementsDesk == Desk!Spec

(* Every job is completed or failed in the end: the lock is always handed   *)
(* on, a dead worker's job is recovered and retries are bounded.            *)
JobsEnd == \A o \in Orders : <>[]Ended(o)
=============================================================================
