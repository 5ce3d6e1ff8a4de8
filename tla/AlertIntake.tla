----------------------------- MODULE AlertIntake -----------------------------
(***************************************************************************)
(* The hardened webhook (webhook/handlerHardened.ts): each delivery of a    *)
(* TradingView alert is a request that is checked, recorded once per alert  *)
(* id (services/idempotency.ts), put on the alert queue and answered.       *)
(* Deliveries overlap and repeat, the sender repeats what was not answered, *)
(* and the kill switch lives in the database and in the server's memory.    *)
(* One strategy: the webhook's secret selects exactly one.                  *)
(***************************************************************************)
EXTENDS Integers, FiniteSets

CONSTANTS
    Requests,    \* deliveries (a bound: each is handled once)
    Alerts,      \* alert ids
    Signals,     \* symbol and action
    SignalOf,    \* the signal of each alert
    NoAlert,
    BootSwitch,  \* GLOBAL_KILL_SWITCH in the environment
    MaxToggles,  \* bound: uses of POST /api/system/kill-switch
    MaxFaults,   \* bound: statements and queue calls that fail
    MaxCrashes   \* bound: crashes of the server

ASSUME AlertIntakeAssumption ==
    /\ SignalOf \in [Alerts -> Signals]
    /\ NoAlert \notin Alerts
    /\ BootSwitch \in BOOLEAN
    /\ {MaxToggles, MaxFaults, MaxCrashes} \subseteq Nat

VARIABLES
    request,       \* where each delivery is, its alert and its answer
    row,           \* alerts_received: no row, accepted, or kept by the kill switch
    added,         \* times a job for the alert was added to the queue
    cooling,       \* signals whose row in signal_cooldowns has not expired
    switchDb,      \* system_settings.global_kill_switch
    switchMemory,  \* config.features.globalKillSwitch
    toggling,      \* a toggle has been saved and is not yet in memory
    budget

vars == <<request, row, added, cooling, switchDb, switchMemory, toggling, budget>>

Steps == {"new", "killSwitch", "saveKilled", "cooldown", "insert", "enqueue",
          "answered"}

Answers == {"none", "accepted", "duplicate", "cooldown", "killed", "refused",
            "error", "lost"}

RequestType == [at: Steps, alert: Alerts \cup {NoAlert}, answer: Answers]

TypeOK ==
    /\ request \in [Requests -> RequestType]
    /\ row \in [Alerts -> {"absent", "accepted", "killed"}]
    /\ added \in [Alerts -> Nat]
    /\ cooling \subseteq Signals
    /\ switchDb \in BOOLEAN
    /\ switchMemory \in BOOLEAN
    /\ toggling \in BOOLEAN
    /\ budget \in [toggles: Nat, faults: Nat, crashes: Nat]

Init ==
    /\ request = [r \in Requests |-> [at |-> "new", alert |-> NoAlert,
                                      answer |-> "none"]]
    /\ row = [a \in Alerts |-> "absent"]
    /\ added = [a \in Alerts |-> 0]
    /\ cooling = {}
    /\ switchDb = BootSwitch
    /\ switchMemory = BootSwitch
    /\ toggling = FALSE
    /\ budget = [toggles |-> MaxToggles, faults |-> MaxFaults,
                 crashes |-> MaxCrashes]

AlertOf(r) == request[r].alert

GoTo(r, step) == request' = [request EXCEPT ![r].at = step]

Answer(r, answer) ==
    request' = [request EXCEPT ![r].at = "answered", ![r].answer = answer]

-----------------------------------------------------------------------------
(* A delivery arrives; bad secrets, payloads and strategies are answered    *)
(* 401, 400 and 404 and leave nothing that a later delivery could meet.     *)
Receive(r) ==
    /\ request[r].at = "new"
    /\ \E a \in Alerts :
          request' = [request EXCEPT ![r].at = "killSwitch", ![r].alert = a]
    /\ UNCHANGED <<row, added, cooling, switchDb, switchMemory, toggling, budget>>

Refuse(r) ==
    /\ request[r].at = "new"
    /\ Answer(r, "refused")
    /\ UNCHANGED <<row, added, cooling, switchDb, switchMemory, toggling, budget>>

(* The switch in memory is read, not the one in the database. *)
CheckKillSwitch(r) ==
    /\ request[r].at = "killSwitch"
    /\ GoTo(r, IF switchMemory THEN "saveKilled" ELSE "cooldown")
    /\ UNCHANGED <<row, added, cooling, switchDb, switchMemory, toggling, budget>>

(* Plausible bug: the row of an alert is taken over by the kill switch. *)
PersistAlertWithKillSwitchUpsert(r) ==
    /\ request[r].at = "saveKilled"
    /\ row' = [row EXCEPT ![AlertOf(r)] = "killed"]
    /\ Answer(r, "killed")
    /\ UNCHANGED <<added, cooling, switchDb, switchMemory, toggling, budget>>

(* A plain INSERT: it fails, unnoticed, when the alert has a row. *)
PersistAlertWithKillSwitch(r) ==
    LET a == AlertOf(r) IN
    /\ request[r].at = "saveKilled"
    /\ row' = [row EXCEPT ![a] = IF @ = "absent" THEN "killed" ELSE @]
    /\ Answer(r, "killed")
    /\ UNCHANGED <<added, cooling, switchDb, switchMemory, toggling, budget>>

(* checkSignalCooldown: one upsert that succeeds if the row is absent or    *)
(* expired.                                                                 *)
CheckCooldown(r) ==
    LET s == SignalOf[AlertOf(r)] IN
    /\ request[r].at = "cooldown"
    /\ IF s \in cooling
       THEN Answer(r, "cooldown")
       ELSE GoTo(r, "insert")
    /\ cooling' = cooling \cup {s}
    /\ UNCHANGED <<row, added, switchDb, switchMemory, toggling, budget>>

(* Plausible bug: DO UPDATE in place of DO NOTHING returns the row as new. *)
InsertAlertAtomicUpsert(r) ==
    /\ request[r].at = "insert"
    /\ row' = [row EXCEPT ![AlertOf(r)] = "accepted"]
    /\ GoTo(r, "enqueue")
    /\ UNCHANGED <<added, cooling, switchDb, switchMemory, toggling, budget>>

(* INSERT ... ON CONFLICT DO NOTHING: exactly one delivery gets the row. *)
InsertAlertAtomic(r) ==
    LET a == AlertOf(r) IN
    /\ request[r].at = "insert"
    /\ IF row[a] = "absent"
       THEN /\ row' = [row EXCEPT ![a] = "accepted"]
            /\ GoTo(r, "enqueue")
       ELSE /\ Answer(r, "duplicate")
            /\ UNCHANGED row
    /\ UNCHANGED <<added, cooling, switchDb, switchMemory, toggling, budget>>

(* Plausible bug: the job is added after the answer, and only if there is   *)
(* nothing else to do.                                                      *)
EnqueueForgotten(r) ==
    /\ request[r].at = "enqueue"
    /\ Answer(r, "accepted")
    /\ UNCHANGED <<row, added, cooling, switchDb, switchMemory, toggling, budget>>

(* alertQueue.add, then 200. *)
Enqueue(r) ==
    /\ request[r].at = "enqueue"
    /\ added' = [added EXCEPT ![AlertOf(r)] = @ + 1]
    /\ Answer(r, "accepted")
    /\ UNCHANGED <<row, cooling, switchDb, switchMemory, toggling, budget>>

Handle(r) ==
    \/ CheckKillSwitch(r) \/ PersistAlertWithKillSwitch(r) \/ CheckCooldown(r)
    \/ InsertAlertAtomic(r) \/ Enqueue(r)

-----------------------------------------------------------------------------
Spend(what) ==
    /\ budget[what] > 0
    /\ budget' = [budget EXCEPT ![what] = @ - 1]

(* The strategy lookup, the insert or the queue fails: 500.  A cooldown     *)
(* that cannot be checked is taken as passed, and a row that cannot be      *)
(* saved under the kill switch is not.                                      *)
Fault(r) ==
    /\ \/ /\ request[r].at \in {"killSwitch", "insert", "enqueue"}
          /\ Answer(r, "error")
       \/ /\ request[r].at = "cooldown"
          /\ GoTo(r, "insert")
       \/ /\ request[r].at = "saveKilled"
          /\ Answer(r, "killed")
    /\ Spend("faults")
    /\ UNCHANGED <<row, added, cooling, switchDb, switchMemory, toggling>>

(* The queue added the job, but its answer did not come back: 500. *)
EnqueueUnconfirmed(r) ==
    /\ request[r].at = "enqueue"
    /\ added' = [added EXCEPT ![AlertOf(r)] = @ + 1]
    /\ Answer(r, "error")
    /\ Spend("faults")
    /\ UNCHANGED <<row, cooling, switchDb, switchMemory, toggling>>

(* The server dies and restarts: open requests are lost, and the switch in  *)
(* memory is read from the environment.                                     *)
Crash ==
    /\ request' = [r \in Requests |->
                     IF request[r].at \in {"new", "answered"} THEN request[r]
                     ELSE [request[r] EXCEPT !.at = "answered", !.answer = "lost"]]
    /\ switchMemory' = BootSwitch
    /\ toggling' = FALSE
    /\ Spend("crashes")
    /\ UNCHANGED <<row, added, cooling, switchDb>>

(* 30 seconds later. *)
CooldownExpires(s) ==
    /\ s \in cooling
    /\ cooling' = cooling \ {s}
    /\ UNCHANGED <<request, row, added, switchDb, switchMemory, toggling, budget>>

(* POST /api/system/kill-switch: the database first, ... *)
SaveSwitch ==
    /\ ~toggling
    /\ switchDb' = ~switchDb
    /\ toggling' = TRUE
    /\ Spend("toggles")
    /\ UNCHANGED <<request, row, added, cooling, switchMemory>>

(* Plausible bug: the route does not update the switch in memory. *)
ApplySwitchForgotten ==
    /\ toggling
    /\ toggling' = FALSE
    /\ UNCHANGED <<request, row, added, cooling, switchDb, switchMemory, budget>>

(* ... then the memory. *)
ApplySwitch ==
    /\ toggling
    /\ switchMemory' = switchDb
    /\ toggling' = FALSE
    /\ UNCHANGED <<request, row, added, cooling, switchDb, budget>>

Done == \A r \in Requests : request[r].at = "answered"

Next ==
    \/ \E r \in Requests : \/ Receive(r) \/ Refuse(r) \/ Handle(r)
                           \/ Fault(r) \/ EnqueueUnconfirmed(r)
    \/ \E s \in Signals : CooldownExpires(s)
    \/ SaveSwitch \/ ApplySwitch
    \/ Crash
    \/ Done /\ UNCHANGED vars

Spec == Init /\ [][Next]_vars

(* The event loop runs every handler to its end. *)
FairSpec == Spec /\ \A r \in Requests : WF_vars(Handle(r))

-----------------------------------------------------------------------------
(* Properties. *)

(* However often, and however concurrently, an alert is delivered, and      *)
(* whatever fails or dies in between, one job at most is queued for it      *)
(* (ARCHITECTURE.md:9, "prevents duplicate processing").                    *)
EnqueuedOnce == \A a \in Alerts : added[a] <= 1

(* An alert that the kill switch turned away and recorded is not queued,    *)
(* before or after: no later delivery revives it, and no delivery that was  *)
(* already past the switch has recorded it.                                 *)
KilledStaysKilled == \A a \in Alerts : row[a] = "killed" => added[a] = 0

NoRestart == budget.crashes = MaxCrashes

Faultless == NoRestart /\ budget.faults = MaxFaults

(* Until the server restarts, a delivery that comes to the switch while the *)
(* database says on, and no toggle is half-way, does not pass it            *)
(* (HARDENING_SUMMARY.md:285, "Checked at webhook entry", and 287,          *)
(* "Database-driven state").                                                *)
SwitchStopsIntake ==
    [][\A r \in Requests :
          NoRestart /\ CheckKillSwitch(r) /\ switchDb /\ ~toggling
              => request'[r].at = "saveKilled"]_vars

(* What the ledger knows of an alert. *)
Entry(a) ==
    IF added[a] > 0 THEN "queued"
    ELSE IF row[a] # "accepted" THEN (IF row[a] = "killed" THEN "killed"
                                                           ELSE "unknown")
    ELSE IF \E r \in Requests : AlertOf(r) = a /\ request[r].at = "enqueue"
         THEN "stored"
    ELSE "lost"

Ledger == INSTANCE AlertLedger
            WITH ledger <- [a \in Alerts |-> Entry(a)],
                 jobs   <- added,
                 failed <- ~Faultless

(* The webhook implements AlertLedger: a row gets one job or, if a failure  *)
(* or a crash comes between the two, none for ever; a killed one gets none  *)
(* (ARCHITECTURE.md:49, "Alert DB + Queue").                                *)
ImplementsLedger == Ledger!Spec

(* The alert has its job, or the kill switch keeps it, or a failure took it.*)
Settled(a) == \/ Entry(a) \in {"queued", "killed"}
              \/ Entry(a) = "lost" /\ ~Faultless

(* Every alert that was accepted, or answered with success as a duplicate,  *)
(* has its job in the end (ARCHITECTURE.md:49 and 61, "Alert DB + Queue",   *)
(* "Reliable, retryable"), unless the kill switch keeps it, or a failure or *)
(* a crash came between the row and the job: nothing holds it back.         *)
AlertsSettle ==
    \A a \in Alerts :
        \/ Entry(a) = "stored"
        \/ \E r \in Requests : /\ AlertOf(r) = a
                               /\ request[r].answer \in {"accepted", "duplicate"}
        ~> Settled(a)
=============================================================================
