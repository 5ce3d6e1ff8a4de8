---------------------------- MODULE MvpAlertPath ----------------------------
(***************************************************************************)
(* The MVP path of an alert, which index.ts wires into one process: the     *)
(* webhook (webhook/handler.ts) looks the alert up, inserts a row, queues a *)
(* job under the alert's id and answers; the processor                      *)
(* (processor/alertProcessor.ts) makes a trade request, copies it           *)
(* (copier/engine.ts) and marks the row.  Deliveries of one alert race with *)
(* each other and with the runs of its job; statements fail and the process *)
(* dies.  One strategy is mapped to accounts that an operator or a circuit  *)
(* breaker may disable at any time.  The job of a row is named after the    *)
(* delivery that inserted it.                                               *)
(***************************************************************************)
EXTENDS JobQueue, FiniteSets, Sequences

CONSTANTS
    AlertOf,     \* the alert each delivery (each of Jobs) carries
    Accounts

Deliveries == Jobs

ASSUME MvpAlertPathAssumption ==
    /\ DOMAIN AlertOf = Deliveries
    /\ IsFiniteSet(Workers)

VARIABLES
    delivery,   \* the local state and the answer of each delivery
    stored,     \* deliveries whose row is in alerts_received
    added,      \* rows whose job is in the alert queue
    run,        \* the local state of each worker
    processed,  \* rows with processed_at
    requests,   \* the trade requests of each row, with their orders
    budget

vars == <<job, delivery, stored, added, run, processed, requests, budget>>

WebhookSteps == {"new", "lookup", "persist", "enqueue", "answered"}
Answers == {"none", "accepted", "duplicate", "refused", "error", "lost"}

Steps == {"idle", "create", "copyMappings", "copy", "enqueue", "status", "mark",
          "catch", "ack"}

(* n: the request of this run; left: accounts still to copy to; copied: one *)
(* of them was copied to.                                                   *)
RunType == [at: Steps, job: Jobs \cup {None}, n: Nat, left: SUBSET Accounts,
            copied: BOOLEAN, ok: BOOLEAN]

Idle == [at |-> "idle", job |-> None, n |-> 0, left |-> {}, copied |-> FALSE,
         ok |-> FALSE]

RequestType == [status: {"copying", "risk_rejected", "completed", "failed"},
                order: [Accounts -> {"none", "saved", "queued"}]]

TypeOK ==
    /\ JobTypeOK
    /\ delivery \in [Deliveries -> [at: WebhookSteps, duplicate: BOOLEAN,
                                    answer: Answers]]
    /\ added \subseteq stored
    /\ stored \subseteq Deliveries
    /\ run \in [Workers -> RunType]
    /\ processed \subseteq stored
    /\ requests \in [Deliveries -> Seq(RequestType)]
    /\ budget \in [faults: Nat, crashes: Nat, slow: Nat]

Init ==
    /\ JobInit
    /\ delivery = [d \in Deliveries |-> [at |-> "new", duplicate |-> FALSE,
                                         answer |-> "none"]]
    /\ stored = {}
    /\ added = {}
    /\ run = [w \in Workers |-> Idle]
    /\ processed = {}
    /\ requests = [d \in Deliveries |-> <<>>]
    /\ budget = [faults |-> MaxFaults,
                 crashes |-> MaxCrashes, slow |-> MaxSlow]

-----------------------------------------------------------------------------
(* handleTradingViewWebhook. *)

WebhookVars == <<delivery, stored, added>>
ProcessorVars == <<job, run, processed, requests>>

SameAlert(d) == {e \in Deliveries : AlertOf[e] = AlertOf[d]}

GoToStep(d, step) == delivery' = [delivery EXCEPT ![d].at = step]
Answer(d, answer) ==
    delivery' = [delivery EXCEPT ![d].at = "answered", ![d].answer = answer]

(* The secret, the payload and the strategy are in order. *)
Receive(d) ==
    /\ delivery[d].at = "new"
    /\ GoToStep(d, "lookup")
    /\ UNCHANGED <<stored, added, budget, ProcessorVars>>

(* They are not.  The row of an invalid payload would have a strategy_id of *)
(* '', which is no uuid: its INSERT fails and the answer is 500.            *)
Refuse(d) ==
    /\ delivery[d].at = "new"
    /\ \E answer \in {"refused", "error"} : Answer(d, answer)
    /\ UNCHANGED <<stored, added, budget, ProcessorVars>>

LookUp(d) ==
    /\ delivery[d].at = "lookup"
    /\ delivery' = [delivery EXCEPT
                      ![d].at = "persist",
                      ![d].duplicate = SameAlert(d) \cap stored # {}]
    /\ UNCHANGED <<stored, added, budget, ProcessorVars>>

(* Plausible bug: there is no constraint on the id of an alert. *)
PersistAlertUnconstrained(d) ==
    /\ delivery[d].at = "persist"
    /\ stored' = stored \cup {d}
    /\ IF delivery[d].duplicate THEN Answer(d, "duplicate")
                                ELSE GoToStep(d, "enqueue")
    /\ UNCHANGED <<added, budget, ProcessorVars>>

(* UNIQUE (strategy_id, alert_id) refuses the second row of an alert, the   *)
(* one that would record a duplicate included.                              *)
PersistAlert(d) ==
    /\ delivery[d].at = "persist"
    /\ IF SameAlert(d) \cap stored # {}
         THEN Answer(d, "error") /\ UNCHANGED stored
         ELSE /\ stored' = stored \cup {d}
              /\ IF delivery[d].duplicate THEN Answer(d, "duplicate")
                                          ELSE GoToStep(d, "enqueue")
    /\ UNCHANGED <<added, budget, ProcessorVars>>

(* BullMQ ignores a job whose id, here the alert's, it already has. *)
Enqueue(d) ==
    /\ delivery[d].at = "enqueue"
    /\ added' = IF SameAlert(d) \cap added # {} THEN added ELSE added \cup {d}
    /\ Answer(d, "accepted")
    /\ UNCHANGED <<stored, budget, ProcessorVars>>

Handle(d) == LookUp(d) \/ PersistAlert(d) \/ Enqueue(d)

-----------------------------------------------------------------------------
(* processAlertJob. *)

JobOf(w) == run[w].job
GoTo(w, step) == run' = [run EXCEPT ![w].at = step]
Finish(w, ok) == run' = [run EXCEPT ![w].at = "ack", ![w].ok = ok]

Take(w, d) ==
    /\ run[w].at = "idle"
    /\ d \in added
    /\ StartJob(w, d)
    /\ run' = [run EXCEPT ![w] = [Idle EXCEPT !.at = "create", !.job = d]]
    /\ UNCHANGED <<processed, requests, budget, WebhookVars>>

NewRequest(status) ==
    [status |-> status, order |-> [c \in Accounts |-> "none"]]

(* Plausible bug: a request for each account. *)
CreateTradeRequestPerAccount(w) ==
    LET d == JobOf(w) IN
    /\ run[w].at = "create"
    /\ requests' = [requests EXCEPT
                      ![d] = @ \o <<NewRequest("copying"), NewRequest("copying")>>]
    /\ run' = [run EXCEPT ![w].at = "copyMappings", ![w].n = Len(requests[d]) + 2]
    /\ UNCHANGED <<job, processed, budget, WebhookVars>>

(* riskEngine.checkTrade for the strategy and the INSERT.  A rejected alert *)
(* is returned from at once: its row is never marked as processed.          *)
CreateTradeRequest(w) ==
    LET d == JobOf(w) IN
    /\ run[w].at = "create"
    /\ \E passed \in BOOLEAN :
          /\ requests' = [requests EXCEPT
               ![d] = Append(@, NewRequest(IF passed THEN "copying"
                                                     ELSE "risk_rejected"))]
          /\ run' = [run EXCEPT ![w].at = IF passed THEN "copyMappings" ELSE "ack",
                                ![w].ok = ~passed,
                                ![w].n  = Len(requests[d]) + 1]
    /\ UNCHANGED <<job, processed, budget, WebhookVars>>

(* The accounts that are active and not disabled when copyTrade asks. *)
LoadCopierMappings(w) ==
    /\ run[w].at = "copyMappings"
    /\ \E tradable \in SUBSET Accounts :
          run' = [run EXCEPT ![w].at = "copy", ![w].left = tradable]
    /\ UNCHANGED <<job, processed, requests, budget, WebhookVars>>

(* copyToAccount up to persistOrder, ... *)
PersistOrder(w, c) ==
    /\ run[w].at = "copy"
    /\ c \in run[w].left
    /\ requests' = [requests EXCEPT ![JobOf(w)][run[w].n].order[c] = "saved"]
    /\ GoTo(w, "enqueue")
    /\ UNCHANGED <<job, processed, budget, WebhookVars>>

(* ... or its end: the account became inactive, a filter, a size of zero. *)
SkipAccount(w, c) ==
    /\ run[w].at = "copy"
    /\ c \in run[w].left
    /\ run' = [run EXCEPT ![w].left = @ \ {c}]
    /\ UNCHANGED <<job, processed, requests, budget, WebhookVars>>

(* The account whose order this run has saved and not yet queued. *)
Saved(w, c) == /\ c \in run[w].left
               /\ requests[JobOf(w)][run[w].n].order[c] = "saved"

EnqueueOrder(w, c) ==
    /\ run[w].at = "enqueue"
    /\ Saved(w, c)
    /\ requests' = [requests EXCEPT ![JobOf(w)][run[w].n].order[c] = "queued"]
    /\ run' = [run EXCEPT ![w].at = "copy", ![w].left = @ \ {c},
                          ![w].copied = TRUE]
    /\ UNCHANGED <<job, processed, budget, WebhookVars>>

(* Plausible bug: try again until an account was copied to. *)
AllCopiedOnce(w) ==
    /\ run[w].at = "copy"
    /\ run[w].left = {}
    /\ GoTo(w, IF run[w].copied THEN "status" ELSE "copyMappings")
    /\ UNCHANGED <<job, processed, requests, budget, WebhookVars>>

AllCopied(w) ==
    /\ run[w].at = "copy"
    /\ run[w].left = {}
    /\ GoTo(w, "status")
    /\ UNCHANGED <<job, processed, requests, budget, WebhookVars>>

(* Plausible bug: a status that the CHECK constraint does not list. *)
UpdateTradeRequestStatusPartial(w) ==
    /\ run[w].at = "status"
    /\ requests' = [requests EXCEPT ![JobOf(w)][run[w].n].status =
                      IF run[w].copied THEN "completed" ELSE "partial"]
    /\ GoTo(w, "mark")
    /\ UNCHANGED <<job, processed, budget, WebhookVars>>

(* Plausible bug: a copy that had nothing to do is taken for a success. *)
UpdateTradeRequestStatusCompleted(w) ==
    /\ run[w].at = "status"
    /\ requests' = [requests EXCEPT ![JobOf(w)][run[w].n].status = "completed"]
    /\ GoTo(w, "mark")
    /\ UNCHANGED <<job, processed, budget, WebhookVars>>

(* copyTrade succeeds if one of its accounts did. *)
UpdateTradeRequestStatus(w) ==
    /\ run[w].at = "status"
    /\ requests' = [requests EXCEPT ![JobOf(w)][run[w].n].status =
                      IF run[w].copied THEN "completed" ELSE "failed"]
    /\ GoTo(w, "mark")
    /\ UNCHANGED <<job, processed, budget, WebhookVars>>

MarkAlertProcessed(w) ==
    /\ run[w].at = "mark"
    /\ processed' = processed \cup {JobOf(w)}
    /\ Finish(w, TRUE)
    /\ UNCHANGED <<job, requests, budget, WebhookVars>>

(* The catch block logs and rethrows. *)
CatchError(w) ==
    /\ run[w].at = "catch"
    /\ Finish(w, FALSE)
    /\ UNCHANGED <<job, processed, requests, budget, WebhookVars>>

Acknowledge(w) ==
    /\ run[w].at = "ack"
    /\ SettleJob(w, JobOf(w), run[w].ok)
    /\ run' = [run EXCEPT ![w] = Idle]
    /\ UNCHANGED <<processed, requests, budget, WebhookVars>>

WorkerStep(w) ==
    \/ \E d \in Jobs : Take(w, d)
    \/ CreateTradeRequest(w) \/ LoadCopierMappings(w)
    \/ \E c \in Accounts :
          PersistOrder(w, c) \/ SkipAccount(w, c) \/ EnqueueOrder(w, c)
    \/ AllCopied(w) \/ UpdateTradeRequestStatus(w) \/ MarkAlertProcessed(w)
    \/ CatchError(w) \/ Acknowledge(w)

-----------------------------------------------------------------------------
(* Failures. *)

Spend(what) ==
    /\ budget[what] > 0
    /\ budget' = [budget EXCEPT ![what] = @ - 1]

(* A statement of the webhook fails, or the queue call, whose job may have  *)
(* been added all the same; the answer is 500.                              *)
WebhookFault(d) ==
    /\ delivery[d].at \in {"lookup", "persist", "enqueue"}
    /\ Answer(d, "error")
    /\ added' \in {added,
                   IF delivery[d].at = "enqueue" /\ SameAlert(d) \cap added = {}
                     THEN added \cup {d} ELSE added}
    /\ Spend("faults")
    /\ UNCHANGED <<stored, ProcessorVars>>

(* A statement of the processor fails, or the copier's SELECT, which no     *)
(* catch of copyTrade covers: the attempt fails.                            *)
Fault(w) ==
    /\ run[w].at \in {"create", "copyMappings", "status", "mark"}
    /\ GoTo(w, "catch")
    /\ Spend("faults")
    /\ UNCHANGED <<job, processed, requests, WebhookVars>>

(* The order queue fails: caught, and the order stays without its job. *)
CopierFault(w, c) ==
    /\ run[w].at = "enqueue"
    /\ Saved(w, c)
    /\ run' = [run EXCEPT ![w].at = "copy", ![w].left = @ \ {c}]
    /\ Spend("faults")
    /\ UNCHANGED <<job, processed, requests, WebhookVars>>

(* The webhook and the workers are one process. *)
Crash ==
    /\ run' = [w \in Workers |-> Idle]
    /\ delivery' = [d \in Deliveries |->
                      IF delivery[d].at \in {"new", "answered"} THEN delivery[d]
                      ELSE [delivery[d] EXCEPT !.at = "answered",
                                               !.answer = "lost"]]
    /\ Spend("crashes")
    /\ UNCHANGED <<job, stored, added, processed, requests>>

Working(w, d) == run[w].job = d

(* The process that had the job died, ... *)
StallDead(d) ==
    /\ StallJob(d)
    /\ ~Working(job[d].owner, d)
    /\ UNCHANGED <<run, processed, requests, budget, WebhookVars>>

(* ... or was too slow to renew its lock, and the run goes on. *)
StallSlow(d) ==
    /\ StallJob(d)
    /\ Working(job[d].owner, d)
    /\ Spend("slow")
    /\ UNCHANGED <<run, processed, requests, WebhookVars>>

Done ==
    /\ \A d \in Deliveries : delivery[d].at = "answered"
    /\ \A d \in added : EndedJob(d)
    /\ \A w \in Workers : run[w].at = "idle"

Next ==
    \/ \E d \in Deliveries : \/ Receive(d) \/ Refuse(d) \/ Handle(d)
                             \/ WebhookFault(d)
    \/ \E w \in Workers : WorkerStep(w) \/ Fault(w)
    \/ \E w \in Workers, c \in Accounts : CopierFault(w, c)
    \/ Crash
    \/ \E d \in Jobs : StallDead(d) \/ StallSlow(d)
    \/ Done /\ UNCHANGED vars

Spec == Init /\ [][Next]_vars

(* What was received is handled, a free worker takes waiting jobs, a run    *)
(* that is not killed goes on, and BullMQ finds abandoned jobs.             *)
FairSpec ==
    /\ Spec
    /\ \A d \in Deliveries : WF_vars(Handle(d))
    /\ \A w \in Workers : WF_vars(WorkerStep(w))
    /\ \A d \in Jobs : WF_vars(StallDead(d))

-----------------------------------------------------------------------------
(* Properties. *)

(* However deliveries race and runs fail, stall or overlap, all rows of an  *)
(* alert together have no more trade requests than one job was handed to    *)
(* workers: a repeated delivery adds none.                                  *)
RequestsBounded ==
    \A d \in Deliveries : requests[d] # <<>> =>
        /\ Len(requests[d]) <= HandedOut(d)
        /\ \A e \in SameAlert(d) \ {d} : requests[e] = <<>>

Undisturbed == /\ budget.faults = MaxFaults
               /\ budget.crashes = MaxCrashes
               /\ budget.slow = MaxSlow

(* As long as nothing failed, died or was handed out twice, a completed job *)
(* leaves one request, which the risk engine rejected or which is completed *)
(* if and only if an order is queued; every saved order is queued, and the  *)
(* row is marked unless the alert was rejected (alertProcessor.ts:47-77).   *)
BooksBalance ==
    \A d \in Deliveries : Undisturbed /\ job[d].state = "completed" =>
        /\ Len(requests[d]) = 1
        /\ LET r == requests[d][1]
           IN  /\ \A c \in Accounts : r.order[c] # "saved"
               /\ r.status # "copying"
               /\ (r.status = "completed") <=> \E c \in Accounts :
                                                  r.order[c] = "queued"
               /\ (d \in processed) <=> (r.status # "risk_rejected")

Faultless == budget.faults = MaxFaults /\ budget.crashes = MaxCrashes

(* What the ledger knows of an alert. *)
Entry(a) ==
    LET for == {d \in Deliveries : AlertOf[d] = a} IN
    IF for \cap added # {} THEN "queued"
    ELSE IF for \cap stored = {} THEN "unknown"
    ELSE IF \E d \in for : delivery[d].at = "enqueue" THEN "stored"
    ELSE "lost"

Alerts == {AlertOf[d] : d \in Deliveries}

Ledger == INSTANCE AlertLedger
            WITH ledger <- [a \in Alerts |-> Entry(a)],
                 jobs   <- [a \in Alerts |->
                              Cardinality({d \in added : AlertOf[d] = a})],
                 failed <- ~Faultless

(* The MVP webhook implements AlertLedger too, without a kill switch: the   *)
(* row of an alert gets one job, however other deliveries race with it, or, *)
(* if a statement fails or the process dies between the two, none for ever  *)
(* (ARCHITECTURE.md:49, "Alert DB + Queue").                                *)
ImplementsLedger == Ledger!Spec

(* The job of every alert that was stored is completed or failed in the     *)
(* end, whatever fails, dies or stalls, and whether or not its other        *)
(* deliveries ever come (ARCHITECTURE.md:61, "Reliable, retryable"), unless *)
(* a failure or a crash came between the row and the job.                   *)
AlertsEnd ==
    \A a \in Alerts :
        Entry(a) \in {"stored", "queued"}
            ~> \/ Entry(a) = "lost" /\ ~Faultless
               \/ \E d \in added : AlertOf[d] = a /\ EndedJob(d)
=============================================================================
