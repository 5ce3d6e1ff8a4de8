---------------------------- MODULE HardenedCopier ----------------------------
(***************************************************************************)
(* HardenedCopierEngine.copyTrade (copier/engineHardened.ts) with the rate  *)
(* limits (services/rateLimit.ts), the reservations (services/              *)
(* idempotency.ts) and their hourly cleanup (indexHardened.ts).  No entry   *)
(* point calls it yet: the caller is external, may have several calls under *)
(* way, and may repeat the call for a trade request, which is what the      *)
(* reservation is for.  One strategy.                                       *)
(***************************************************************************)
EXTENDS Integers, FiniteSets

CONSTANTS
    Calls,       \* calls of copyTrade
    Requests,    \* rows of trade_requests
    Accounts,
    None,
    Windows,     \* lengths of the rate limits, in ticks
    Limit,       \* trades allowed in each
    KeyLife,     \* a reservation expires after this many ticks
    MaxTime,     \* bound: the clock
    MaxFaults,   \* bound: statements and queue calls that fail
    MaxCrashes   \* bound: deaths of the process

ASSUME HardenedCopierAssumption ==
    /\ IsFiniteSet(Requests) /\ IsFiniteSet(Accounts)
    /\ None \notin Calls \cup Accounts
    /\ Windows \subseteq Nat
    /\ Limit \in [Windows -> Nat]
    /\ {KeyLife, MaxTime, MaxFaults, MaxCrashes} \subseteq Nat

Slots == Requests \X Accounts   \* an order is made once for each

Never == -1

VARIABLES
    call,       \* the local state of each call
    lock,       \* the advisory lock of each account
    createdAt,  \* trade_requests.created_at
    orderedAt,  \* orders_submitted.created_at
    expiresAt,  \* idempotency_keys.expires_at, of the rows that exist
    held,       \* jobs that BullMQ holds, waiting, active or kept
    added,      \* jobs added for each order (history)
    lost,       \* orders reserved by a call that then failed (history)
    clock,
    budget

vars == <<call, lock, createdAt, orderedAt, expiresAt, held, added, lost,
          clock, budget>>

Locked == {"check", "count", "config", "reserve", "persist", "enqueue"}
Steps == Locked \cup {"idle", "next", "lock", "done"}
Times == Nat \cup {Never}

(* left: accounts still to copy to; account: the one at hand; since: now in *)
(* checkRateLimit; toCount: windows it has still to count; succeeded:       *)
(* accounts whose result is a success.                                      *)
CallType == [at: Steps, request: Requests \cup {None},
             left: SUBSET Accounts, account: Accounts \cup {None},
             since: Nat, toCount: SUBSET Windows, succeeded: SUBSET Accounts]

TypeOK ==
    /\ call \in [Calls -> CallType]
    /\ lock \in [Accounts -> Calls \cup {None}]
    /\ createdAt \in [Requests -> Times]
    /\ orderedAt \in [Slots -> Times]
    /\ expiresAt \in [Slots -> Times]
    /\ held \subseteq Slots
    /\ added \in [Slots -> Nat]
    /\ lost \subseteq Slots
    /\ clock \in Nat
    /\ budget \in [faults: Nat, crashes: Nat]

Fresh == [at |-> "idle", request |-> None, left |-> {}, account |-> None,
          since |-> 0, toCount |-> {}, succeeded |-> {}]

Init ==
    /\ call = [k \in Calls |-> Fresh]
    /\ lock = [c \in Accounts |-> None]
    /\ createdAt = [q \in Requests |-> Never]
    /\ orderedAt = [s \in Slots |-> Never]
    /\ expiresAt = [s \in Slots |-> Never]
    /\ held = {}
    /\ added = [s \in Slots |-> 0]
    /\ lost = {}
    /\ clock = 0
    /\ budget = [faults |-> MaxFaults, crashes |-> MaxCrashes]

SlotOf(k) == <<call[k].request, call[k].account>>
GoTo(k, step) == call' = [call EXCEPT ![k].at = step]

(* withAccountLock returns or throws; copyTrade notes the result and turns  *)
(* to the next account.                                                     *)
Leave(k, success) ==
    LET c == call[k].account IN
    /\ call' = [call EXCEPT ![k] =
                  [at |-> "next", request |-> call[k].request,
                   left |-> call[k].left \ {c}, account |-> None,
                   since |-> 0, toCount |-> {},
                   succeeded |-> IF success THEN call[k].succeeded \cup {c}
                                            ELSE call[k].succeeded]]
    /\ lock' = [lock EXCEPT ![c] = None]

-----------------------------------------------------------------------------
(* copyTrade. *)

(* loadMappings: those that are active now.  Its failure is thrown to the   *)
(* caller, which has as little effect as an empty list.                     *)
Begin(k, q) ==
    /\ call[k].at = "idle"
    /\ createdAt[q] # Never
    /\ \E active \in SUBSET Accounts :
          call' = [call EXCEPT ![k].at = "next", ![k].request = q,
                               ![k].left = active]
    /\ UNCHANGED <<lock, createdAt, orderedAt, expiresAt, held, added, lost,
                   clock, budget>>

NextAccount(k) ==
    /\ call[k].at = "next"
    /\ \E c \in call[k].left :
          call' = [call EXCEPT ![k].at = "lock", ![k].account = c]
    /\ UNCHANGED <<lock, createdAt, orderedAt, expiresAt, held, added, lost,
                   clock, budget>>

Return(k) ==
    /\ call[k].at = "next"
    /\ call[k].left = {}
    /\ GoTo(k, "done")
    /\ UNCHANGED <<lock, createdAt, orderedAt, expiresAt, held, added, lost,
                   clock, budget>>

-----------------------------------------------------------------------------
(* copyToAccountWithSafety.  A statement that fails before the reservation  *)
(* ends in Leave(k, FALSE), as a refusal does.                              *)

(* Plausible bug: the lock is taken over from a call that still runs. *)
AcquireLockTakenOver(k) ==
    /\ call[k].at = "lock"
    /\ lock' = [lock EXCEPT ![call[k].account] = k]
    /\ GoTo(k, "check")
    /\ UNCHANGED <<createdAt, orderedAt, expiresAt, held, added, lost,
                   clock, budget>>

AcquireLock(k) ==
    /\ call[k].at = "lock"
    /\ lock[call[k].account] = None
    /\ lock' = [lock EXCEPT ![call[k].account] = k]
    /\ GoTo(k, "check")
    /\ UNCHANGED <<createdAt, orderedAt, expiresAt, held, added, lost,
                   clock, budget>>

(* 30 seconds have passed, or the statement failed. *)
GiveUpLock(k) ==
    /\ call[k].at = "lock"
    /\ call' = [call EXCEPT ![k] =
                  [@ EXCEPT !.at = "next", !.account = None,
                            !.left = call[k].left \ {call[k].account}]]
    /\ UNCHANGED <<lock, createdAt, orderedAt, expiresAt, held, added, lost,
                   clock, budget>>

(* The account exists and its breaker lets it trade, or not. *)
CheckAccount(k) ==
    /\ call[k].at = "check"
    /\ \/ /\ call' = [call EXCEPT ![k] = [@ EXCEPT !.at = "count", !.since = clock,
                                                  !.toCount = Windows]]
          /\ UNCHANGED lock
       \/ Leave(k, FALSE)
    /\ UNCHANGED <<createdAt, orderedAt, expiresAt, held, added, lost,
                   clock, budget>>

RequestsAfter(t) == {q \in Requests : createdAt[q] # Never /\ createdAt[q] > t}
OrdersOf(c) == {q \in Requests : orderedAt[<<q, c>>] # Never}
OrdersAfter(c, t) == {q \in OrdersOf(c) : orderedAt[<<q, c>>] > t}

(* Plausible bug: as many trades as the limit are taken for too few. *)
AllowedInclusive(c, w, t) ==
    /\ Cardinality(RequestsAfter(t)) <= Limit[w]
    /\ Cardinality(OrdersAfter(c, t)) <= Limit[w]

(* The larger of the two counts is below the limit. *)
Allowed(c, w, t) ==
    /\ Cardinality(RequestsAfter(t)) < Limit[w]
    /\ Cardinality(OrdersAfter(c, t)) < Limit[w]

(* countTradesInWindow for one window: they run concurrently and so read at *)
(* different moments.  Its two queries are one step: the second counts what *)
(* the lock keeps as it is.                                                 *)
CountTradesInWindow(k) ==
    /\ call[k].at = "count"
    /\ \E w \in call[k].toCount :
          IF Allowed(call[k].account, w, call[k].since - w)
          THEN /\ call' = [call EXCEPT ![k].toCount = @ \ {w}]
               /\ UNCHANGED lock
          ELSE Leave(k, FALSE)
    /\ UNCHANGED <<createdAt, orderedAt, expiresAt, held, added, lost,
                   clock, budget>>

(* recordTrade into rate_limit_windows, which nothing reads. *)
RecordTrade(k) ==
    /\ call[k].at = "count"
    /\ call[k].toCount = {}
    /\ \/ GoTo(k, "config") /\ UNCHANGED lock
       \/ Leave(k, FALSE)
    /\ UNCHANGED <<createdAt, orderedAt, expiresAt, held, added, lost,
                   clock, budget>>

(* The mapping, the filters, the size and the side let the trade pass, or   *)
(* not.                                                                     *)
LoadMappingConfig(k) ==
    /\ call[k].at = "config"
    /\ \/ GoTo(k, "reserve") /\ UNCHANGED lock
       \/ Leave(k, FALSE)
    /\ UNCHANGED <<createdAt, orderedAt, expiresAt, held, added, lost,
                   clock, budget>>

Reserved(s) == expiresAt[s] # Never

(* The key is new, ... *)
ReserveOrderExecution(k) ==
    /\ call[k].at = "reserve"
    /\ ~Reserved(SlotOf(k))
    /\ expiresAt' = [expiresAt EXCEPT ![SlotOf(k)] = clock + KeyLife]
    /\ GoTo(k, "persist")
    /\ UNCHANGED <<lock, createdAt, orderedAt, held, added, lost, clock,
                   budget>>

(* ... or the order is a duplicate and reported as a success, ... *)
FindDuplicate(k) ==
    /\ call[k].at = "reserve"
    /\ Reserved(SlotOf(k))
    /\ Leave(k, TRUE)
    /\ UNCHANGED <<createdAt, orderedAt, expiresAt, held, added, lost,
                   clock, budget>>

(* ... or the INSERT is refused or fails.  The key is "order:" and 64       *)
(* digits, the column a VARCHAR(64): as both stand, this is always taken.   *)
FailReservation(k) ==
    /\ call[k].at = "reserve"
    /\ Leave(k, FALSE)
    /\ UNCHANGED <<createdAt, orderedAt, expiresAt, held, added, lost,
                   clock, budget>>

(* INSERT ... ON CONFLICT (trade_request_id, account_id) DO NOTHING. *)
PersistOrder(k) ==
    /\ call[k].at = "persist"
    /\ orderedAt' = IF orderedAt[SlotOf(k)] = Never
                    THEN [orderedAt EXCEPT ![SlotOf(k)] = clock]
                    ELSE orderedAt
    /\ GoTo(k, "enqueue")
    /\ UNCHANGED <<lock, createdAt, expiresAt, held, added, lost, clock,
                   budget>>

(* orderQueue.add: BullMQ ignores a job id that it still holds. *)
AddJob(s) ==
    /\ held' = held \cup {s}
    /\ added' = IF s \in held THEN added ELSE [added EXCEPT ![s] = @ + 1]

Enqueue(k) ==
    /\ call[k].at = "enqueue"
    /\ AddJob(SlotOf(k))
    /\ Leave(k, TRUE)
    /\ UNCHANGED <<createdAt, orderedAt, expiresAt, lost, clock, budget>>

CallStep(k) ==
    \/ \E q \in Requests : Begin(k, q)
    \/ NextAccount(k) \/ Return(k)
    \/ AcquireLock(k) \/ GiveUpLock(k) \/ CheckAccount(k)
    \/ CountTradesInWindow(k) \/ RecordTrade(k) \/ LoadMappingConfig(k)
    \/ ReserveOrderExecution(k) \/ FindDuplicate(k) \/ FailReservation(k)
    \/ PersistOrder(k) \/ Enqueue(k)

-----------------------------------------------------------------------------
(* The rest of the system, and its failures. *)

(* An alert processor inserts a trade request. *)
CreateTradeRequest(q) ==
    /\ createdAt[q] = Never
    /\ createdAt' = [createdAt EXCEPT ![q] = clock]
    /\ UNCHANGED <<call, lock, orderedAt, expiresAt, held, added, lost,
                   clock, budget>>

(* Plausible bug: the cleanup deletes what has not expired. *)
CleanupAllKeys ==
    /\ expiresAt' = [s \in Slots |-> Never]
    /\ expiresAt' # expiresAt
    /\ UNCHANGED <<call, lock, createdAt, orderedAt, held, added, lost,
                   clock, budget>>

(* The hourly timer. *)
CleanupExpiredKeys ==
    /\ expiresAt' = [s \in Slots |-> IF expiresAt[s] < clock THEN Never
                                     ELSE expiresAt[s]]
    /\ expiresAt' # expiresAt
    /\ UNCHANGED <<call, lock, createdAt, orderedAt, held, added, lost,
                   clock, budget>>

(* The job was executed and has been removed for its age or their number. *)
RemoveJob(s) ==
    /\ s \in held
    /\ held' = held \ {s}
    /\ UNCHANGED <<call, lock, createdAt, orderedAt, expiresAt, added, lost,
                   clock, budget>>

Tick ==
    /\ clock < MaxTime
    /\ clock' = clock + 1
    /\ UNCHANGED <<call, lock, createdAt, orderedAt, expiresAt, held, added,
                   lost, budget>>

Spend(what) ==
    /\ budget[what] > 0
    /\ budget' = [budget EXCEPT ![what] = @ - 1]

Reserving(k) == call[k].at \in {"persist", "enqueue"}

(* The order is reserved, and its INSERT or its job fails: the reservation  *)
(* stays.  (A statement that was executed and not confirmed is the failure  *)
(* of the next one, ...                                                     *)
Fault(k) ==
    /\ Reserving(k)
    /\ lost' = lost \cup {SlotOf(k)}
    /\ Leave(k, FALSE)
    /\ Spend("faults")
    /\ UNCHANGED <<createdAt, orderedAt, expiresAt, held, added, clock>>

(* ... and after the last one the job is there and the caller told it is    *)
(* not.)                                                                    *)
EnqueueUnconfirmed(k) ==
    /\ call[k].at = "enqueue"
    /\ AddJob(SlotOf(k))
    /\ Leave(k, FALSE)
    /\ Spend("faults")
    /\ UNCHANGED <<createdAt, orderedAt, expiresAt, lost, clock>>

(* The process dies; its sessions lose their locks. *)
Crash ==
    /\ call' = [k \in Calls |-> IF call[k].at = "idle" THEN call[k]
                                ELSE [Fresh EXCEPT !.at = "done"]]
    /\ call' # call
    /\ lock' = [c \in Accounts |-> None]
    /\ lost' = lost \cup {SlotOf(k) : k \in {j \in Calls : Reserving(j)}}
    /\ Spend("crashes")
    /\ UNCHANGED <<createdAt, orderedAt, expiresAt, held, added, clock>>

Done == \A k \in Calls : call[k].at = "done"

Next ==
    \/ \E k \in Calls : CallStep(k) \/ Fault(k) \/ EnqueueUnconfirmed(k)
    \/ \E q \in Requests : CreateTradeRequest(q)
    \/ \E s \in Slots : RemoveJob(s)
    \/ CleanupExpiredKeys \/ Tick \/ Crash
    \/ Done /\ UNCHANGED vars

Spec == Init /\ [][Next]_vars

-----------------------------------------------------------------------------
(* Properties. *)

(* An account that copyTrade reports as a success has its order and the     *)
(* order its job, the duplicates of calls that overlap and of retries       *)
(* included, unless a call failed between that very order's reservation and *)
(* its job.  No failure of another order has a part in it                   *)
(* (engineHardened.ts:63, "failure in one doesn't affect others").          *)
SuccessIsQueued ==
    \A k \in Calls : \A c \in call[k].succeeded :
        LET s == <<call[k].request, c>>
        IN  s \in lost \/ (orderedAt[s] # Never /\ added[s] > 0)

(* The orders of an account in the window that the order for last ends. *)
Recent(c, w, last) ==
    {q \in OrdersAfter(c, orderedAt[<<last, c>>] - w) :
        orderedAt[<<q, c>>] <= orderedAt[<<last, c>>]}

(* No window ends with more orders of an account than its limit, although   *)
(* the trades are counted in one statement and the order is inserted        *)
(* several later (rateLimit.ts:4, "Enforces trading rate limits per account *)
(* and strategy").  Orders whose trade request is of the same window stay   *)
(* one below: the request itself is in the table when trades are counted.   *)
OrdersWithinRate ==
    \A c \in Accounts : \A w \in Windows : \A last \in OrdersOf(c) :
        /\ Cardinality(Recent(c, w, last)) <= Limit[w]
        /\ Cardinality(Recent(c, w, last) \cap
                       RequestsAfter(orderedAt[<<last, c>>] - w)) < Limit[w]

(* An order is queued for the nth time when n - 1 reservations of it have   *)
(* expired, however often the call is repeated and whenever BullMQ forgets  *)
(* its jobs (engineHardened.ts:10, "Order ID reservation for idempotency"). *)
QueuedOncePerLife ==
    \A s \in Slots : (added[s] - 1) * (KeyLife + 1) <= clock

=============================================================================
