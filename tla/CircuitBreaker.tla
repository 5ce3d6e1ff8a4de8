---------------------------- MODULE CircuitBreaker ----------------------------
(***************************************************************************)
(* The circuit breaker of one broker account (services/circuitBreaker.ts)   *)
(* with the runs that use it: order runs read broker_accounts.is_disabled,  *)
(* trade, and report to recordSuccess or recordFailure; alert runs ask      *)
(* canTrade.  Accounts are independent of each other, so one is enough.     *)
(*                                                                         *)
(* Every query is an autocommitted statement of its own: recordFailure and  *)
(* recordSuccess read the row, decide, write it, and then write the         *)
(* account, with other runs between any two of these steps.                 *)
(***************************************************************************)
EXTENDS Integers, FiniteSets

CONSTANTS
    Workers,           \* concurrent runs that touch the account
    FailureThreshold,  \* DEFAULT_CONFIG.failureThreshold (5)
    SuccessThreshold,  \* DEFAULT_CONFIG.successThreshold (2)
    MaxFailures,       \* bound: failures are counted up to here
    MaxManual,         \* bound: the operator's enables and disables
    MaxFaults          \* bound: calls cut short by a failing statement or a crash

ASSUME CircuitBreakerAssumption ==
    /\ IsFiniteSet(Workers)
    /\ FailureThreshold \in Nat \ {0}
    /\ SuccessThreshold \in Nat \ {0}
    /\ {MaxFailures, MaxManual, MaxFaults} \subseteq Nat
    /\ FailureThreshold <= MaxFailures

VARIABLES
    breaker,   \* the row of account_circuit_breakers
    disabled,  \* broker_accounts.is_disabled
    call,      \* where each run is, and what it has read
    failures,  \* calls of recordFailure so far (up to MaxFailures)
    manual,    \* manual enables and disables so far
    faults     \* calls cut short so far

vars == <<breaker, disabled, call, failures, manual, faults>>

States == {"closed", "open", "half_open"}

(* opened_at: NULL, less than resetTimeoutMs ago, or longer. *)
OpenedAt == {"null", "recent", "old"}

FailureSteps == {"failRead", "failWhileOpen", "failOpens", "failCounts"}

Steps == {"idle", "trading", "canTrade", "canTradeRow", "reload", "failDisables",
          "okRead", "okOpen", "okHalfOpens", "okCounts", "okCloses", "okEnables"}
         \cup FailureSteps

Idle == [at |-> "idle", seen |-> 0]

BreakerType == [exists: BOOLEAN, state: States, count: Nat, attempts: Nat,
                opened: OpenedAt]

TypeOK ==
    /\ breaker \in BreakerType
    /\ disabled \in BOOLEAN
    /\ call \in [Workers -> [at: Steps, seen: Nat]]
    /\ failures \in 0..MaxFailures
    /\ manual \in Nat
    /\ faults \in Nat

Init ==
    /\ breaker = [exists |-> FALSE, state |-> "closed", count |-> 0,
                  attempts |-> 0, opened |-> "null"]
    /\ disabled = FALSE
    /\ call = [w \in Workers |-> Idle]
    /\ failures = 0
    /\ manual = 0
    /\ faults = 0

-----------------------------------------------------------------------------
GoTo(w, step) == call' = [call EXCEPT ![w].at = step]

(* The run goes to step and remembers a number it has read. *)
Remember(w, step, n) == call' = [call EXCEPT ![w] = [at |-> step, seen |-> n]]

Return(w) == call' = [call EXCEPT ![w] = Idle]

Up(n) == IF n < MaxFailures THEN n + 1 ELSE n

CallsFailure(w) ==
    /\ failures' = Up(failures)
    /\ GoTo(w, "failRead")

(* An order run loads its account; a disabled account is a PermanentError,  *)
(* which its catch block reports like any other.                            *)
BeginOrder(w) ==
    /\ call[w].at = "idle"
    /\ IF disabled
       THEN CallsFailure(w)
       ELSE /\ GoTo(w, "trading")
            /\ UNCHANGED failures
    /\ UNCHANGED <<breaker, disabled, manual, faults>>

TradeSucceeds(w) ==
    /\ call[w].at = "trading"
    /\ GoTo(w, "okRead")
    /\ UNCHANGED <<breaker, disabled, failures, manual, faults>>

TradeFails(w) ==
    /\ call[w].at = "trading"
    /\ CallsFailure(w)
    /\ UNCHANGED <<breaker, disabled, manual, faults>>

(* An alert run loads the mappings of enabled accounts only. *)
BeginAlert(w) ==
    /\ call[w].at = "idle"
    /\ ~disabled
    /\ GoTo(w, "canTrade")
    /\ UNCHANGED <<breaker, disabled, failures, manual, faults>>

(* processAccountWithSafety throws, and the alert run reports it. *)
AlertFails(w) ==
    /\ call[w].at \in {"canTrade", "reload"}
    /\ CallsFailure(w)
    /\ UNCHANGED <<breaker, disabled, manual, faults>>

(* getCircuitState: an enabled account is "closed" whatever its row says. *)
CanTrade(w) ==
    /\ call[w].at = "canTrade"
    /\ GoTo(w, IF disabled THEN "canTradeRow" ELSE "reload")
    /\ UNCHANGED <<breaker, disabled, failures, manual, faults>>

(* A disabled one is admitted unless its circuit is open and recent, or it  *)
(* has no row.                                                              *)
CanTradeRow(w) ==
    /\ call[w].at = "canTradeRow"
    /\ IF breaker.exists
          /\ ~(breaker.state = "open" /\ breaker.opened = "recent")
       THEN GoTo(w, "reload")
       ELSE Return(w)
    /\ UNCHANGED <<breaker, disabled, failures, manual, faults>>

(* The alert run reloads the account; the order it then queues is begun     *)
(* by BeginOrder.                                                           *)
Reload(w) ==
    /\ call[w].at = "reload"
    /\ Return(w)
    /\ UNCHANGED <<breaker, disabled, failures, manual, faults>>

-----------------------------------------------------------------------------
(* recordFailure. *)

(* Plausible bug: the threshold is compared off by one. *)
FailureReadEager(w) ==
    /\ call[w].at = "failRead"
    /\ Remember(w, IF breaker.state = "open" THEN "failWhileOpen"
                   ELSE IF breaker.count + 2 >= FailureThreshold
                   THEN "failOpens" ELSE "failCounts", breaker.count)
    /\ UNCHANGED <<breaker, disabled, failures, manual, faults>>

FailureRead(w) ==
    /\ call[w].at = "failRead"
    /\ Remember(w, IF breaker.state = "open" THEN "failWhileOpen"
                   ELSE IF breaker.count + 1 >= FailureThreshold
                   THEN "failOpens" ELSE "failCounts", breaker.count)
    /\ UNCHANGED <<breaker, disabled, failures, manual, faults>>

(* Already open: failure_count = failure_count + 1, nothing else. *)
FailureWhileOpen(w) ==
    /\ call[w].at = "failWhileOpen"
    /\ breaker' = [breaker EXCEPT !.count = Up(breaker.count)]
    /\ Return(w)
    /\ UNCHANGED <<disabled, failures, manual, faults>>

FailureOpens(w) ==
    /\ call[w].at = "failOpens"
    /\ breaker' = [exists |-> TRUE, state |-> "open", attempts |-> 0,
                   count |-> Up(call[w].seen), opened |-> "recent"]
    /\ GoTo(w, "failDisables")
    /\ UNCHANGED <<disabled, failures, manual, faults>>

FailureDisables(w) ==
    /\ call[w].at = "failDisables"
    /\ disabled' = TRUE
    /\ Return(w)
    /\ UNCHANGED <<breaker, failures, manual, faults>>

(* The count read is written back plus one; the state is left as it is. *)
FailureCounts(w) ==
    /\ call[w].at = "failCounts"
    /\ breaker' = [breaker EXCEPT !.exists = TRUE, !.count = Up(call[w].seen)]
    /\ Return(w)
    /\ UNCHANGED <<disabled, failures, manual, faults>>

-----------------------------------------------------------------------------
(* recordSuccess. *)

SuccessRead(w) ==
    LET next == breaker.attempts + 1 IN
    /\ call[w].at = "okRead"
    /\ \/ /\ breaker.state = "closed"
          /\ Return(w)
       \/ /\ breaker.state = "open"
          /\ GoTo(w, "okOpen")
       \/ /\ breaker.state = "half_open"
          /\ Remember(w, IF next >= SuccessThreshold THEN "okCloses"
                                                     ELSE "okCounts", next)
    /\ UNCHANGED <<breaker, disabled, failures, manual, faults>>

(* Plausible bug: seconds are compared with milliseconds, so that the       *)
(* timeout never seems to have passed.                                      *)
SuccessOpenForEver(w) ==
    /\ call[w].at = "okOpen"
    /\ Return(w)
    /\ UNCHANGED <<breaker, disabled, failures, manual, faults>>

(* A second SELECT reads opened_at; NULL counts as 1970. *)
SuccessOpen(w) ==
    /\ call[w].at = "okOpen"
    /\ IF breaker.opened = "recent" THEN Return(w) ELSE GoTo(w, "okHalfOpens")
    /\ UNCHANGED <<breaker, disabled, failures, manual, faults>>

(* Plausible bug: one success closes the circuit. *)
SuccessHalfOpensFully(w) ==
    /\ call[w].at = "okHalfOpens"
    /\ breaker' = [breaker EXCEPT !.state = "closed", !.attempts = 1]
    /\ Return(w)
    /\ UNCHANGED <<disabled, failures, manual, faults>>

SuccessHalfOpens(w) ==
    /\ call[w].at = "okHalfOpens"
    /\ breaker' = [breaker EXCEPT !.state = "half_open", !.attempts = 1]
    /\ Return(w)
    /\ UNCHANGED <<disabled, failures, manual, faults>>

SuccessCounts(w) ==
    /\ call[w].at = "okCounts"
    /\ breaker' = [breaker EXCEPT !.attempts = call[w].seen]
    /\ Return(w)
    /\ UNCHANGED <<disabled, failures, manual, faults>>

SuccessCloses(w) ==
    /\ call[w].at = "okCloses"
    /\ breaker' = [breaker EXCEPT !.state = "closed", !.count = 0,
                                  !.attempts = 0, !.opened = "null"]
    /\ GoTo(w, "okEnables")
    /\ UNCHANGED <<disabled, failures, manual, faults>>

SuccessEnables(w) ==
    /\ call[w].at = "okEnables"
    /\ disabled' = FALSE
    /\ Return(w)
    /\ UNCHANGED <<breaker, failures, manual, faults>>

RunStep(w) ==
    \/ TradeSucceeds(w) \/ TradeFails(w)
    \/ CanTrade(w) \/ CanTradeRow(w) \/ Reload(w) \/ AlertFails(w)
    \/ FailureRead(w) \/ FailureWhileOpen(w) \/ FailureOpens(w)
    \/ FailureDisables(w) \/ FailureCounts(w)
    \/ SuccessRead(w) \/ SuccessOpen(w) \/ SuccessHalfOpens(w)
    \/ SuccessCounts(w) \/ SuccessCloses(w) \/ SuccessEnables(w)

-----------------------------------------------------------------------------
(* A statement fails, which both functions swallow, or the process dies. *)
CutShort(w) ==
    /\ call[w].at # "idle"
    /\ faults < MaxFaults
    /\ faults' = faults + 1
    /\ Return(w)
    /\ UNCHANGED <<breaker, disabled, failures, manual>>

(* resetTimeoutMs have passed since opened_at. *)
Elapse ==
    /\ breaker.opened = "recent"
    /\ breaker' = [breaker EXCEPT !.opened = "old"]
    /\ UNCHANGED <<disabled, call, failures, manual, faults>>

(* POST /api/accounts/:id/enable and /disable leave the breaker's row. *)
SetDisabled ==
    /\ manual < MaxManual
    /\ manual' = manual + 1
    /\ disabled' = ~disabled
    /\ UNCHANGED <<breaker, call, failures, faults>>

Next ==
    \/ \E w \in Workers : BeginOrder(w) \/ BeginAlert(w) \/ RunStep(w)
    \/ \E w \in Workers : CutShort(w)
    \/ Elapse
    \/ SetDisabled

Spec == Init /\ [][Next]_vars

(* Runs that have begun go on, orders keep coming (alerts have workers of   *)
(* their own and do not keep them off), time passes, and a broker that is   *)
(* tried again and again answers again.                                     *)
Fairness ==
    /\ \A w \in Workers : /\ WF_vars(RunStep(w))
                          /\ SF_vars(BeginOrder(w)) /\ SF_vars(TradeSucceeds(w))
    /\ WF_vars(Elapse)

FairSpec == Spec /\ Fairness

-----------------------------------------------------------------------------
(* Properties. *)

(* However calls interleave, fail half-way or read stale counts, the        *)
(* circuit is never open, nor half open, before recordFailure has been      *)
(* called failureThreshold times: the counter may lose failures but never   *)
(* invents one.                                                             *)
OpensOnlyAfterThreshold ==
    breaker.state # "closed" => failures >= FailureThreshold

(* While the account stays enabled (by the operator, say) and its broker    *)
(* answers now and then, an open circuit does not stay open.                *)
HealsWhileEnabled == <>[]~disabled => []<>(breaker.state # "open")
=============================================================================
