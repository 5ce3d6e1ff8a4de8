------------------------- MODULE HardenedCopier_proofs -------------------------
(***************************************************************************)
(* The rate limits, the single job and the meaning of a success, for any    *)
(* number of calls, requests, accounts, windows and failures.               *)
(*                                                                         *)
(* None of the three properties is inductive.  A call that has counted the  *)
(* trades and not yet inserted its order needs that its count stays true,   *)
(* which the account's lock sees to (LockKept, BelowLimit); a reservation   *)
(* speaks for a job that a call under way has still to add (OncePerLife,    *)
(* ReservedIsQueued).                                                       *)
(***************************************************************************)
EXTENDS HardenedCopier, TLAPS, FiniteSetTheorems

Counted == {"count", "config", "reserve", "persist"}

(* A call that is past its lock has it. *)
LockKept ==
    \A k \in Calls : call[k].at \in Locked =>
        call[k].account \in Accounts /\ lock[call[k].account] = k

HasRequest ==
    \A k \in Calls :
        /\ call[k].at = "lock" => call[k].account \in Accounts
        /\ call[k].at \in Locked \cup {"next", "lock"} =>
              call[k].request \in Requests /\ createdAt[call[k].request] # Never
        /\ call[k].succeeded # {} =>
              call[k].at # "idle" /\ call[k].request \in Requests

TimesPassed ==
    /\ \A k \in Calls : call[k].since <= clock
    /\ \A q \in Requests : \A c \in Accounts :
          /\ orderedAt[<<q, c>>] <= clock
          /\ orderedAt[<<q, c>>] # Never => createdAt[q] # Never
    /\ \A s \in Slots : expiresAt[s] <= clock + KeyLife

(* The requests after t that have an order, or are about to have one. *)
Considered(k, c, t) ==
    {q \in RequestsAfter(t) : orderedAt[<<q, c>>] # Never \/ q = call[k].request}

(* What a call has counted stays below the limit while it holds the lock. *)
BelowLimit ==
    \A k \in Calls : call[k].at \in Counted =>
        \A w \in Windows \ call[k].toCount :
            LET c == call[k].account
                t == call[k].since - w
            IN  /\ Cardinality(OrdersAfter(c, t)) < Limit[w]
                /\ Cardinality(Considered(k, c, t)) < Limit[w]

AllCounted ==
    \A k \in Calls :
        call[k].at \in {"config", "reserve", "persist"} => call[k].toCount = {}

(* A call under way that has reserved the order. *)
Pending(s) ==
    \E k \in Calls : call[k].at \in {"persist", "enqueue"} /\ SlotOf(k) = s

Lives(n) == n * (KeyLife + 1)

(* Jobs added for an order, and to be added by a call under way. *)
Due(s) == IF Pending(s) THEN added[s] + 1 ELSE added[s]

OncePerLife ==
    \A s \in Slots :
        IF Reserved(s) THEN Lives(Due(s) - 1) <= expiresAt[s] - KeyLife
                       ELSE Lives(Due(s)) <= clock

Queued(s) == orderedAt[s] # Never /\ added[s] > 0

ReservedIsQueued ==
    /\ \A s \in held : added[s] > 0
    /\ \A k \in Calls : call[k].at = "enqueue" => orderedAt[SlotOf(k)] # Never
    /\ \A s \in Slots : Reserved(s) => Queued(s) \/ Pending(s) \/ s \in lost

IInv == /\ TypeOK /\ LockKept /\ HasRequest /\ TimesPassed
        /\ BelowLimit /\ AllCounted /\ OrdersWithinRate
        /\ OncePerLife
        /\ ReservedIsQueued /\ SuccessIsQueued
USE HardenedCopierAssumption

-----------------------------------------------------------------------------
(* What a step does to the calls. *)

Callers == [Calls -> CallType]
Locks == [Accounts -> Calls \cup {None}]

OthersStay(k) == \A j \in Calls : j # k => call'[j] = call[j]

LEMMA CallFields ==
    ASSUME call \in Callers, NEW k \in Calls
    PROVE  /\ call[k].at \in Steps /\ call[k].request \in Requests \cup {None}
           /\ call[k].left \subseteq Accounts
           /\ call[k].account \in Accounts \cup {None}
           /\ call[k].since \in Nat /\ call[k].toCount \subseteq Windows
           /\ call[k].succeeded \subseteq Accounts
BY DEF Callers, CallType

LEMMA GoToMoves ==
    ASSUME call \in Callers, NEW k \in Calls, NEW step \in Steps, GoTo(k, step)
    PROVE  /\ call' \in Callers /\ OthersStay(k)
           /\ call'[k].at = step /\ call'[k].request = call[k].request
           /\ call'[k].account = call[k].account
           /\ call'[k].since = call[k].since
           /\ call'[k].toCount = call[k].toCount
           /\ call'[k].succeeded = call[k].succeeded
BY DEF Callers, CallType, GoTo, OthersStay

LEMMA LeaveMoves ==
    ASSUME call \in Callers, lock \in Locks, NEW k \in Calls,
           NEW success \in BOOLEAN, call[k].account \in Accounts,
           Leave(k, success)
    PROVE  /\ call' \in Callers /\ lock' \in Locks /\ OthersStay(k)
           /\ call'[k].at = "next" /\ call'[k].request = call[k].request
           /\ call'[k].since = 0
           /\ call'[k].succeeded = IF success
                                   THEN call[k].succeeded \cup {call[k].account}
                                   ELSE call[k].succeeded
           /\ lock'[call[k].account] = None
           /\ \A c \in Accounts : c # call[k].account => lock'[c] = lock[c]
<1> DEFINE next == [at |-> "next", request |-> call[k].request,
                    left |-> call[k].left \ {call[k].account}, account |-> None,
                    since |-> 0, toCount |-> {},
                    succeeded |-> IF success
                                  THEN call[k].succeeded \cup {call[k].account}
                                  ELSE call[k].succeeded]
<1>1. call' = [call EXCEPT ![k] = next]
  BY DEF Leave
<1>2. next \in CallType
  BY CallFields DEF CallType, Steps
<1>3. call' \in Callers /\ call'[k] = next /\ OthersStay(k)
  BY <1>1, <1>2 DEF Callers, OthersStay
<1>4. lock' = [lock EXCEPT ![call[k].account] = None]
  BY DEF Leave
<1> QED
  BY <1>3, <1>4 DEF Locks

LEMMA LeftTyped ==
    ASSUME NEW r \in CallType, NEW step \in Steps,
           NEW account \in Accounts \cup {None}, NEW left \in SUBSET Accounts
    PROVE  [r EXCEPT !.at = step, !.account = account, !.left = left] \in CallType
<1>1. PICK r2 \in CallType : r2 = [r EXCEPT !.at = step, !.account = account]
  BY DEF CallType
<1>2. [r2 EXCEPT !.left = left] \in CallType
  BY DEF CallType
<1>3. [r2 EXCEPT !.left = left] =
         [r EXCEPT !.at = step, !.account = account, !.left = left]
  BY <1>1
<1> QED
  BY <1>2, <1>3

LEMMA CountTyped ==
    ASSUME NEW r \in CallType, NEW since \in Nat
    PROVE  [r EXCEPT !.at = "count", !.since = since, !.toCount = Windows] \in CallType
<1>1. PICK r2 \in CallType : r2 = [r EXCEPT !.at = "count", !.since = since]
  BY DEF CallType, Steps, Locked
<1>2. [r2 EXCEPT !.toCount = Windows] \in CallType
  BY DEF CallType
<1>3. [r2 EXCEPT !.toCount = Windows] =
         [r EXCEPT !.at = "count", !.since = since, !.toCount = Windows]
  BY <1>1
<1> QED
  BY <1>2, <1>3

LEMMA BeginMoves ==
    ASSUME call \in Callers, NEW k \in Calls, NEW q \in Requests, Begin(k, q)
    PROVE  /\ call' \in Callers /\ OthersStay(k)
           /\ call'[k].at = "next" /\ call'[k].request = q
           /\ call'[k].since = call[k].since
           /\ call'[k].succeeded = call[k].succeeded
<1>1. PICK active \in SUBSET Accounts :
         call' = [call EXCEPT ![k].at = "next", ![k].request = q, ![k].left = active]
  BY DEF Begin
<1> DEFINE next == [call[k] EXCEPT !.at = "next", !.request = q, !.left = active]
<1>2. call[k] \in CallType /\ "next" \in Steps
  BY DEF Callers, Steps
<1>3. PICK r \in CallType : r = [call[k] EXCEPT !.at = "next", !.request = q]
  BY <1>2 DEF CallType
<1>4. [r EXCEPT !.left = active] \in CallType /\ next = [r EXCEPT !.left = active]
  BY <1>3 DEF CallType
<1>5. /\ next.at = "next" /\ next.request = q
      /\ next.since = call[k].since /\ next.succeeded = call[k].succeeded
  BY <1>2 DEF CallType
<1>6. call' = [call EXCEPT ![k] = next]
  BY <1>1
<1> HIDE DEF next
<1> QED
  BY <1>4, <1>5, <1>6 DEF Callers, OthersStay

LEMMA NextAccountMoves ==
    ASSUME call \in Callers, NEW k \in Calls, NextAccount(k)
    PROVE  /\ call' \in Callers /\ OthersStay(k)
           /\ call'[k].at = "lock" /\ call'[k].account \in Accounts
           /\ call'[k].request = call[k].request
           /\ call'[k].since = call[k].since
           /\ call'[k].succeeded = call[k].succeeded
<1>1. PICK c \in call[k].left : call' = [call EXCEPT ![k].at = "lock", ![k].account = c]
  BY DEF NextAccount
<1>2. c \in Accounts /\ "lock" \in Steps
  BY CallFields DEF Steps
<1> QED
  BY <1>1, <1>2 DEF Callers, CallType, OthersStay

LEMMA GiveUpLockMoves ==
    ASSUME call \in Callers, NEW k \in Calls, GiveUpLock(k)
    PROVE  /\ call' \in Callers /\ OthersStay(k)
           /\ call'[k].at = "next" /\ call'[k].request = call[k].request
           /\ call'[k].since = call[k].since
           /\ call'[k].succeeded = call[k].succeeded
<1> DEFINE next == [call[k] EXCEPT !.at = "next", !.account = None,
                                   !.left = call[k].left \ {call[k].account}]
<1>1. call[k] \in CallType /\ call[k].left \ {call[k].account} \in SUBSET Accounts
  BY CallFields DEF Callers
<1>2. next \in CallType
  BY <1>1, LeftTyped DEF Steps
<1>3. call' = [call EXCEPT ![k] = next]
  BY DEF GiveUpLock
<1>4. /\ next.at = "next" /\ next.request = call[k].request
      /\ next.since = call[k].since /\ next.succeeded = call[k].succeeded
  BY <1>1 DEF CallType
<1> HIDE DEF next
<1> QED
  BY <1>2, <1>3, <1>4 DEF Callers, OthersStay

LEMMA CountBegins ==
    ASSUME call \in Callers, NEW k \in Calls, clock \in Nat,
           call' = [call EXCEPT ![k] = [@ EXCEPT !.at = "count", !.since = clock,
                                                 !.toCount = Windows]]
    PROVE  /\ call' \in Callers /\ OthersStay(k)
           /\ call'[k].at = "count" /\ call'[k].request = call[k].request
           /\ call'[k].account = call[k].account
           /\ call'[k].since = clock /\ call'[k].toCount = Windows
           /\ call'[k].succeeded = call[k].succeeded
<1> DEFINE next == [call[k] EXCEPT !.at = "count", !.since = clock,
                                   !.toCount = Windows]
<1>1. call[k] \in CallType
  BY DEF Callers
<1>2. next \in CallType
  BY <1>1, CountTyped
<1>3. call' = [call EXCEPT ![k] = next]
  OBVIOUS
<1>4. /\ next.at = "count" /\ next.request = call[k].request
      /\ next.account = call[k].account
      /\ next.since = clock /\ next.toCount = Windows
      /\ next.succeeded = call[k].succeeded
  BY <1>1 DEF CallType
<1> HIDE DEF next
<1> QED
  BY <1>2, <1>3, <1>4 DEF Callers, OthersStay

LEMMA CountsOneWindow ==
    ASSUME call \in Callers, NEW k \in Calls, NEW w \in Windows,
           call' = [call EXCEPT ![k].toCount = @ \ {w}]
    PROVE  /\ call' \in Callers /\ OthersStay(k)
           /\ call'[k].at = call[k].at /\ call'[k].request = call[k].request
           /\ call'[k].account = call[k].account
           /\ call'[k].since = call[k].since
           /\ call'[k].toCount = call[k].toCount \ {w}
           /\ call'[k].succeeded = call[k].succeeded
BY DEF Callers, CallType, OthersStay

-----------------------------------------------------------------------------
(* Types. *)

LEMMA Typed ==
    ASSUME TypeOK
    PROVE  call \in Callers /\ lock \in Locks
BY DEF TypeOK, Callers, Locks

(* Where the request and the account of a call are known. *)
LEMMA SlotKnown ==
    ASSUME HasRequest, LockKept, NEW k \in Calls, call[k].at \in Locked
    PROVE  /\ call[k].request \in Requests /\ call[k].account \in Accounts
           /\ SlotOf(k) \in Slots
BY DEF HasRequest, LockKept, SlotOf, Slots

LEMMA CallTypeStep ==
    ASSUME TypeOK, LockKept, HasRequest, NEW k \in Calls,
           CallStep(k) \/ Fault(k) \/ EnqueueUnconfirmed(k)
    PROVE  call' \in Callers /\ lock' \in Locks
<1>1. call \in Callers /\ lock \in Locks
  BY Typed
<1>2. ASSUME NEW success \in BOOLEAN, Leave(k, success), call[k].at \in Locked
      PROVE  call' \in Callers /\ lock' \in Locks
  BY <1>1, <1>2, SlotKnown, LeaveMoves
<1>3. ASSUME NEW step \in Steps, GoTo(k, step), UNCHANGED lock
      PROVE  call' \in Callers /\ lock' \in Locks
  BY <1>1, <1>3, GoToMoves
<1>4. Locked \subseteq Steps /\ "next" \in Steps /\ "lock" \in Steps /\ "done" \in Steps
  BY DEF Locked, Steps
<1>5. ASSUME NEW q \in Requests, Begin(k, q)
      PROVE  call' \in Callers /\ lock' \in Locks
  BY <1>1, <1>5, BeginMoves DEF Begin
<1>6. CASE NextAccount(k)
  BY <1>1, <1>6, NextAccountMoves DEF NextAccount
<1>7. CASE Return(k)
  BY <1>3, <1>4, <1>7 DEF Return
<1>8. CASE AcquireLock(k)
  <2>1. call' \in Callers
    BY <1>1, <1>4, <1>8, GoToMoves DEF AcquireLock, Locked
  <2>2. lock' \in Locks
    BY <1>1, <1>8 DEF AcquireLock, Locks
  <2> QED
    BY <2>1, <2>2
<1>9. CASE GiveUpLock(k)
  BY <1>1, <1>9, GiveUpLockMoves DEF GiveUpLock
<1>10. CASE CheckAccount(k)
  BY <1>1, <1>2, <1>10, CountBegins DEF CheckAccount, TypeOK, Locked
<1>11. CASE CountTradesInWindow(k)
  <2>1. PICK w \in call[k].toCount :
           IF Allowed(call[k].account, w, call[k].since - w)
           THEN /\ call' = [call EXCEPT ![k].toCount = @ \ {w}]
                /\ UNCHANGED lock
           ELSE Leave(k, FALSE)
    BY <1>11 DEF CountTradesInWindow
  <2>2. w \in Windows /\ call[k].at \in Locked
    BY <1>1, <1>11, CallFields DEF CountTradesInWindow, Locked
  <2> QED
    BY <1>1, <1>2, <2>1, <2>2, CountsOneWindow
<1>12. CASE RecordTrade(k) \/ LoadMappingConfig(k)
  BY <1>2, <1>3, <1>4, <1>12 DEF RecordTrade, LoadMappingConfig, Locked
<1>13. CASE ReserveOrderExecution(k) \/ PersistOrder(k)
  BY <1>3, <1>4, <1>13 DEF ReserveOrderExecution, PersistOrder, Locked
<1>14. CASE FindDuplicate(k) \/ FailReservation(k)
  BY <1>2, <1>14 DEF FindDuplicate, FailReservation, Locked
<1>15. CASE Enqueue(k) \/ EnqueueUnconfirmed(k) \/ Fault(k)
  BY <1>2, <1>15 DEF Enqueue, EnqueueUnconfirmed, Fault, Reserving, Locked
<1> QED
  BY <1>5, <1>6, <1>7, <1>8, <1>9, <1>10, <1>11, <1>12, <1>13, <1>14, <1>15
     DEF CallStep

LEMMA TablesTypeStep ==
    ASSUME TypeOK, LockKept, HasRequest, NEW k \in Calls,
           CallStep(k) \/ Fault(k) \/ EnqueueUnconfirmed(k)
    PROVE  /\ createdAt' = createdAt /\ clock' = clock
           /\ orderedAt' \in [Slots -> Times] /\ expiresAt' \in [Slots -> Times]
           /\ held' \subseteq Slots /\ added' \in [Slots -> Nat]
           /\ lost' \subseteq Slots
           /\ budget' \in [faults: Nat, crashes: Nat]
<1> USE DEF TypeOK
<1>1. createdAt' = createdAt /\ clock' = clock
  BY DEF CallStep, Begin, NextAccount, Return, AcquireLock, GiveUpLock,
         CheckAccount, CountTradesInWindow, RecordTrade, LoadMappingConfig,
         ReserveOrderExecution, FindDuplicate, FailReservation, PersistOrder,
         Enqueue, Fault, EnqueueUnconfirmed
<1>2. clock \in Times /\ clock + KeyLife \in Times
  BY DEF Times
<1>3. orderedAt' \in [Slots -> Times]
  <2>1. CASE PersistOrder(k)
    BY <1>2, <2>1 DEF PersistOrder
  <2>2. CASE orderedAt' = orderedAt
    BY <2>2
  <2> QED
    BY <2>1, <2>2
       DEF CallStep, Begin, NextAccount, Return, AcquireLock, GiveUpLock,
           CheckAccount, CountTradesInWindow, RecordTrade, LoadMappingConfig,
           ReserveOrderExecution, FindDuplicate, FailReservation,
           Enqueue, Fault, EnqueueUnconfirmed
<1>4. expiresAt' \in [Slots -> Times]
  <2>1. CASE ReserveOrderExecution(k)
    BY <1>2, <2>1 DEF ReserveOrderExecution
  <2>2. CASE expiresAt' = expiresAt
    BY <2>2
  <2> QED
    BY <2>1, <2>2
       DEF CallStep, Begin, NextAccount, Return, AcquireLock, GiveUpLock,
           CheckAccount, CountTradesInWindow, RecordTrade, LoadMappingConfig,
           FindDuplicate, FailReservation, PersistOrder, Enqueue, Fault,
           EnqueueUnconfirmed
<1>5. held' \subseteq Slots /\ added' \in [Slots -> Nat]
  <2>1. CASE Enqueue(k) \/ EnqueueUnconfirmed(k)
    <3>1. SlotOf(k) \in Slots /\ AddJob(SlotOf(k))
      BY <2>1, SlotKnown DEF Enqueue, EnqueueUnconfirmed, Locked
    <3> QED
      BY <3>1 DEF AddJob
  <2>2. CASE held' = held /\ added' = added
    BY <2>2
  <2> QED
    BY <2>1, <2>2
       DEF CallStep, Begin, NextAccount, Return, AcquireLock, GiveUpLock,
           CheckAccount, CountTradesInWindow, RecordTrade, LoadMappingConfig,
           ReserveOrderExecution, FindDuplicate, FailReservation, PersistOrder,
           Fault
<1>6. budget' \in [faults: Nat, crashes: Nat]
  <2>1. CASE Spend("faults")
    BY <2>1 DEF Spend
  <2>2. CASE budget' = budget
    BY <2>2
  <2> QED
    BY <2>1, <2>2
       DEF CallStep, Begin, NextAccount, Return, AcquireLock, GiveUpLock,
           CheckAccount, CountTradesInWindow, RecordTrade, LoadMappingConfig,
           ReserveOrderExecution, FindDuplicate, FailReservation, PersistOrder,
           Enqueue, Fault, EnqueueUnconfirmed
<1>7. lost' \subseteq Slots
  <2>1. CASE Fault(k)
    <3>1. SlotOf(k) \in Slots
      BY <2>1, SlotKnown DEF Fault, Reserving, Locked
    <3> QED
      BY <2>1, <3>1 DEF Fault
  <2>2. CASE lost' = lost
    BY <2>2
  <2> QED
    BY <2>1, <2>2
       DEF CallStep, Begin, NextAccount, Return, AcquireLock, GiveUpLock,
           CheckAccount, CountTradesInWindow, RecordTrade, LoadMappingConfig,
           ReserveOrderExecution, FindDuplicate, FailReservation, PersistOrder,
           Enqueue, EnqueueUnconfirmed
<1> QED
  BY <1>1, <1>3, <1>4, <1>5, <1>6, <1>7

-----------------------------------------------------------------------------
(* The four kinds of steps of a call, by what they do to its lock. *)

SameRequest(k) == /\ call'[k].request = call[k].request
                  /\ call'[k].succeeded = call[k].succeeded

Outside(k) ==
    /\ call[k].at \in {"idle", "next", "lock"}
    /\ call'[k].at \in {"next", "lock", "done"}
    /\ call'[k].at = "lock" => call'[k].account \in Accounts
    /\ call'[k].succeeded = call[k].succeeded
    /\ \/ call'[k].request = call[k].request /\ call[k].at # "idle"
       \/ /\ call[k].at = "idle"
          /\ call'[k].request \in Requests /\ createdAt[call'[k].request] # Never
    /\ call'[k].since = call[k].since
    /\ lock' = lock

Entering(k) ==
    /\ call[k].at = "lock" /\ call'[k].at = "check"
    /\ SameRequest(k)
    /\ call'[k].account = call[k].account /\ call'[k].since = call[k].since
    /\ lock[call[k].account] = None
    /\ lock' = [lock EXCEPT ![call[k].account] = k]

Inside(k) ==
    /\ call[k].at \in Locked /\ call'[k].at \in Locked
    /\ SameRequest(k)
    /\ call'[k].account = call[k].account
    /\ call'[k].since = call[k].since \/ call'[k].since = clock
    /\ lock' = lock

Leaving(k) ==
    /\ call[k].at \in Locked /\ call'[k].at = "next"
    /\ call'[k].request = call[k].request
    /\ call'[k].since = 0
    /\ lock'[call[k].account] = None
    /\ \A c \in Accounts : c # call[k].account => lock'[c] = lock[c]

LEMMA FourKinds ==
    ASSUME TypeOK, LockKept, HasRequest, NEW k \in Calls,
           CallStep(k) \/ Fault(k) \/ EnqueueUnconfirmed(k)
    PROVE  /\ OthersStay(k)
           /\ Outside(k) \/ Entering(k) \/ Inside(k) \/ Leaving(k)
<1>1. call \in Callers /\ lock \in Locks /\ clock \in Nat
  BY Typed DEF TypeOK
<1>2. ASSUME NEW success \in BOOLEAN, Leave(k, success), call[k].at \in Locked
      PROVE  OthersStay(k) /\ Leaving(k)
  BY <1>1, <1>2, SlotKnown, LeaveMoves DEF Leaving
<1>3. ASSUME NEW step \in Locked, GoTo(k, step), UNCHANGED lock,
             call[k].at \in Locked
      PROVE  OthersStay(k) /\ Inside(k)
  <2>1. step \in Steps
    BY DEF Steps
  <2> QED
    BY <1>1, <1>3, <2>1, GoToMoves DEF Inside, SameRequest
<1>4. ASSUME NEW q \in Requests, Begin(k, q)
      PROVE  OthersStay(k) /\ Outside(k)
  BY <1>1, <1>4, BeginMoves DEF Outside, Begin
<1>5. CASE NextAccount(k)
  BY <1>1, <1>5, NextAccountMoves DEF Outside, NextAccount
<1>6. CASE Return(k)
  BY <1>1, <1>6, GoToMoves DEF Outside, Return, Steps
<1>7. CASE AcquireLock(k)
  <2>1. GoTo(k, "check") /\ "check" \in Steps
    BY <1>7 DEF AcquireLock, Steps, Locked
  <2> QED
    BY <1>1, <1>7, <2>1, GoToMoves DEF AcquireLock, Entering, SameRequest
<1>8. CASE GiveUpLock(k)
  BY <1>1, <1>8, GiveUpLockMoves DEF Outside, GiveUpLock
<1>9. CASE CheckAccount(k)
  <2>1. call[k].at \in Locked /\ "count" \in Locked
    BY <1>9 DEF CheckAccount, Locked
  <2>2. CASE Leave(k, FALSE)
    BY <1>2, <2>1, <2>2
  <2>3. CASE /\ call' = [call EXCEPT ![k] = [@ EXCEPT !.at = "count",
                                             !.since = clock, !.toCount = Windows]]
             /\ UNCHANGED lock
    BY <1>1, <2>1, <2>3, CountBegins DEF Inside, SameRequest
  <2> QED
    BY <1>9, <2>2, <2>3 DEF CheckAccount
<1>10. CASE CountTradesInWindow(k)
  <2>1. call[k].at \in Locked
    BY <1>10 DEF CountTradesInWindow, Locked
  <2>2. PICK w \in call[k].toCount :
           IF Allowed(call[k].account, w, call[k].since - w)
           THEN /\ call' = [call EXCEPT ![k].toCount = @ \ {w}]
                /\ UNCHANGED lock
           ELSE Leave(k, FALSE)
    BY <1>10 DEF CountTradesInWindow
  <2>3. w \in Windows
    BY <1>1, CallFields
  <2>4. CASE Leave(k, FALSE)
    BY <1>2, <2>1, <2>4
  <2>5. CASE call' = [call EXCEPT ![k].toCount = @ \ {w}] /\ UNCHANGED lock
    BY <1>1, <2>1, <2>3, <2>5, CountsOneWindow DEF Inside, SameRequest
  <2> QED
    BY <2>2, <2>4, <2>5
<1>11. CASE RecordTrade(k) \/ LoadMappingConfig(k)
  BY <1>2, <1>3, <1>11 DEF RecordTrade, LoadMappingConfig, Locked
<1>12. CASE ReserveOrderExecution(k) \/ PersistOrder(k)
  BY <1>3, <1>12 DEF ReserveOrderExecution, PersistOrder, Locked
<1>13. CASE FindDuplicate(k) \/ FailReservation(k)
  BY <1>2, <1>13 DEF FindDuplicate, FailReservation, Locked
<1>14. CASE Enqueue(k) \/ EnqueueUnconfirmed(k) \/ Fault(k)
  BY <1>2, <1>14 DEF Enqueue, EnqueueUnconfirmed, Fault, Reserving, Locked
<1> QED
  BY <1>4, <1>5, <1>6, <1>7, <1>8, <1>9, <1>10, <1>11, <1>12, <1>13, <1>14
     DEF CallStep

(* A call has the request of the row it was begun for, and the account's    *)
(* lock while it is past it.                                                *)
LEMMA CallLockStep ==
    ASSUME TypeOK, LockKept, HasRequest, NEW k \in Calls,
           CallStep(k) \/ Fault(k) \/ EnqueueUnconfirmed(k)
    PROVE  LockKept'
<1>1. lock \in Locks /\ OthersStay(k)
  BY Typed, FourKinds
<1> SUFFICES ASSUME NEW j \in Calls, call'[j].at \in Locked
             PROVE  call'[j].account \in Accounts /\ lock'[call'[j].account] = j
  BY DEF LockKept
<1>2. CASE Outside(k)
  BY <1>1, <1>2 DEF Outside, OthersStay, LockKept, Locked
<1>3. CASE Inside(k)
  BY <1>1, <1>3 DEF Inside, OthersStay, LockKept
<1>4. CASE Entering(k)
  <2>1. call[k].account \in Accounts
    BY <1>4 DEF Entering, HasRequest
  <2>2. CASE j = k
    BY <1>1, <1>4, <2>1, <2>2 DEF Entering, Locks
  <2>3. CASE j # k
    <3>1. call[j].account \in Accounts /\ lock[call[j].account] = j /\ call'[j] = call[j]
      BY <1>1, <2>3 DEF OthersStay, LockKept
    <3>2. call[j].account # call[k].account
      BY <1>4, <3>1 DEF Entering
    <3> QED
      BY <1>1, <1>4, <2>1, <3>1, <3>2 DEF Entering, Locks
  <2> QED
    BY <2>2, <2>3
<1>5. CASE Leaving(k)
  <2>1. j # k
    BY <1>5 DEF Leaving, Locked
  <2>2. call[j].account \in Accounts /\ lock[call[j].account] = j /\ call'[j] = call[j]
    BY <1>1, <2>1 DEF OthersStay, LockKept
  <2>3. lock[call[k].account] = k
    BY <1>5 DEF Leaving, LockKept
  <2> QED
    BY <1>5, <2>1, <2>2, <2>3 DEF Leaving
<1> QED
  BY <1>2, <1>3, <1>4, <1>5, FourKinds

LEMMA CallRequestStep ==
    ASSUME TypeOK, LockKept, HasRequest, NEW k \in Calls,
           CallStep(k) \/ Fault(k) \/ EnqueueUnconfirmed(k)
    PROVE  HasRequest'
<1>1. OthersStay(k) /\ createdAt' = createdAt
  BY FourKinds, TablesTypeStep
<1> SUFFICES ASSUME NEW j \in Calls
             PROVE  /\ call'[j].at = "lock" => call'[j].account \in Accounts
                    /\ call'[j].at \in Locked \cup {"next", "lock"} =>
                          /\ call'[j].request \in Requests
                          /\ createdAt[call'[j].request] # Never
                    /\ call'[j].succeeded # {} =>
                          call'[j].at # "idle" /\ call'[j].request \in Requests
  BY <1>1 DEF HasRequest
<1>2. CASE j # k
  BY <1>1, <1>2 DEF OthersStay, HasRequest
<1>3. CASE j = k
  <2>1. CASE Outside(k)
    BY <1>3, <2>1 DEF Outside, HasRequest
  <2>2. CASE Entering(k)
    BY <1>3, <2>2 DEF Entering, SameRequest, HasRequest
  <2>3. CASE Inside(k)
    BY <1>3, <2>3 DEF Inside, SameRequest, HasRequest, Locked
  <2>4. CASE Leaving(k)
    BY <1>3, <2>4 DEF Leaving, HasRequest
  <2> QED
    BY <2>1, <2>2, <2>3, <2>4, FourKinds
<1> QED
  BY <1>2, <1>3

LEMMA CallTimesStep ==
    ASSUME TypeOK, LockKept, HasRequest, TimesPassed, NEW k \in Calls,
           CallStep(k) \/ Fault(k) \/ EnqueueUnconfirmed(k)
    PROVE  TimesPassed'
<1>1. OthersStay(k) /\ createdAt' = createdAt /\ clock' = clock /\ clock \in Nat
  BY FourKinds, TablesTypeStep DEF TypeOK
<1>2. ASSUME NEW j \in Calls
      PROVE  call'[j].since <= clock
  <2>1. CASE j # k
    BY <1>1, <2>1 DEF OthersStay, TimesPassed
  <2>2. CASE j = k
    <3>1. call'[k].since = call[k].since \/ call'[k].since = clock \/ call'[k].since = 0
      BY FourKinds DEF Outside, Entering, Inside, Leaving
    <3> QED
      BY <1>1, <2>2, <3>1 DEF TimesPassed
  <2> QED
    BY <2>1, <2>2
<1>3. ASSUME NEW q \in Requests, NEW c \in Accounts
      PROVE  /\ orderedAt'[<<q, c>>] <= clock
             /\ orderedAt'[<<q, c>>] # Never => createdAt[q] # Never
  <2>1. CASE PersistOrder(k)
    <3>1. call[k].at \in Locked
      BY <2>1 DEF PersistOrder, Locked
    <3>2. SlotOf(k) \in Slots /\ createdAt[call[k].request] # Never
      BY <3>1, SlotKnown DEF HasRequest
    <3>3. CASE <<q, c>> = SlotOf(k) /\ orderedAt[SlotOf(k)] = Never
      <4>1. orderedAt'[<<q, c>>] = clock
        BY <2>1, <3>2, <3>3 DEF PersistOrder, TypeOK
      <4>2. q = call[k].request
        BY <3>3 DEF SlotOf
      <4> QED
        BY <1>1, <3>2, <4>1, <4>2
    <3>4. CASE orderedAt'[<<q, c>>] = orderedAt[<<q, c>>]
      BY <3>4 DEF TimesPassed
    <3> QED
      BY <2>1, <3>2, <3>3, <3>4 DEF PersistOrder, TypeOK, Slots
  <2>2. CASE orderedAt' = orderedAt
    BY <2>2 DEF TimesPassed
  <2> QED
    BY <2>1, <2>2
       DEF CallStep, Begin, NextAccount, Return, AcquireLock, GiveUpLock,
           CheckAccount, CountTradesInWindow, RecordTrade, LoadMappingConfig,
           ReserveOrderExecution, FindDuplicate, FailReservation,
           Enqueue, Fault, EnqueueUnconfirmed
<1>4. ASSUME NEW s \in Slots
      PROVE  expiresAt'[s] <= clock + KeyLife
  <2>1. CASE ReserveOrderExecution(k)
    <3>1. expiresAt'[s] = clock + KeyLife \/ expiresAt'[s] = expiresAt[s]
      BY <2>1 DEF ReserveOrderExecution, TypeOK
    <3> QED
      BY <1>1, <3>1 DEF TimesPassed
  <2>2. CASE expiresAt' = expiresAt
    BY <2>2 DEF TimesPassed
  <2> QED
    BY <2>1, <2>2
       DEF CallStep, Begin, NextAccount, Return, AcquireLock, GiveUpLock,
           CheckAccount, CountTradesInWindow, RecordTrade, LoadMappingConfig,
           FindDuplicate, FailReservation, PersistOrder, Enqueue, Fault,
           EnqueueUnconfirmed
<1> QED
  BY <1>1, <1>2, <1>3, <1>4 DEF TimesPassed

-----------------------------------------------------------------------------
(* The rate limits. *)

OrdersStay(c) == \A q \in Requests : orderedAt'[<<q, c>>] = orderedAt[<<q, c>>]

LEMMA OrderTimes ==
    ASSUME TypeOK
    PROVE  \A q \in Requests : \A c \in Accounts : orderedAt[<<q, c>>] \in Int
<1>1. orderedAt \in [Slots -> Times] /\ Times \subseteq Int
  BY DEF TypeOK, Times, Never
<1> QED
  BY <1>1 DEF Slots

LEMMA SmallerSet ==
    ASSUME NEW T, NEW S \in SUBSET T, IsFiniteSet(T)
    PROVE  Cardinality(S) \in Nat /\ Cardinality(S) <= Cardinality(T)
BY FS_Subset, FS_CardinalityType

LEMMA SameSets ==
    ASSUME NEW c \in Accounts, NEW t \in Int, NEW k \in Calls,
           OrdersStay(c), createdAt' = createdAt,
           call'[k].request = call[k].request
    PROVE  /\ OrdersAfter(c, t)' = OrdersAfter(c, t)
           /\ Considered(k, c, t)' = Considered(k, c, t)
BY DEF OrdersStay, OrdersAfter, OrdersOf, Considered, RequestsAfter

(* What a call has counted stays true if its lock, its account's orders and *)
(* its counting stay as they are.                                           *)
LEMMA CountStays ==
    ASSUME TypeOK, BelowLimit, LockKept, NEW k \in Calls,
           call[k].at \in Counted, NEW w \in Windows \ call[k].toCount,
           NEW c, NEW t, c = call[k].account, t = call[k].since - w,
           OrdersStay(c), createdAt' = createdAt,
           call'[k].request = call[k].request
    PROVE  /\ Cardinality(OrdersAfter(c, t)') < Limit[w]
           /\ Cardinality(Considered(k, c, t)') < Limit[w]
<1>1. call[k].since \in Nat /\ w \in Int
  BY Typed, CallFields
<1>2. c \in Accounts /\ t \in Int
  BY <1>1 DEF LockKept, Counted, Locked
<1>3. /\ Cardinality(OrdersAfter(c, t)) < Limit[w]
      /\ Cardinality(Considered(k, c, t)) < Limit[w]
  BY DEF BelowLimit
<1> QED
  BY <1>2, <1>3, SameSets

(* Orders are inserted by the call that has the account's lock. *)
LEMMA OthersOrdersStay ==
    ASSUME TypeOK, LockKept, HasRequest, NEW k \in Calls,
           CallStep(k) \/ Fault(k) \/ EnqueueUnconfirmed(k),
           NEW c \in Accounts, ~PersistOrder(k) \/ c # call[k].account
    PROVE  OrdersStay(c)
<1>1. CASE PersistOrder(k)
  <2>1. SlotOf(k) \in Slots
    BY <1>1, SlotKnown DEF PersistOrder, Locked
  <2>2. \A q \in Requests : <<q, c>> # SlotOf(k)
    BY <1>1 DEF SlotOf
  <2> QED
    BY <1>1, <2>1, <2>2 DEF PersistOrder, OrdersStay, TypeOK, Slots
<1>2. CASE orderedAt' = orderedAt
  BY <1>2 DEF OrdersStay
<1> QED
  BY <1>1, <1>2
     DEF CallStep, Begin, NextAccount, Return, AcquireLock, GiveUpLock,
         CheckAccount, CountTradesInWindow, RecordTrade, LoadMappingConfig,
         ReserveOrderExecution, FindDuplicate, FailReservation,
         Enqueue, Fault, EnqueueUnconfirmed

(* The one window counted in this step is below its limit. *)
LEMMA CountedNow ==
    ASSUME TypeOK, HasRequest, NEW k \in Calls, call[k].at = "count",
           NEW w \in Windows, NEW c, NEW t,
           c = call[k].account, t = call[k].since - w,
           Allowed(c, w, t)
    PROVE  /\ Cardinality(OrdersAfter(c, t)) < Limit[w]
           /\ Cardinality(Considered(k, c, t)) < Limit[w]
<1>1. Considered(k, c, t) \in SUBSET RequestsAfter(t)
  BY DEF Considered
<1>2. IsFiniteSet(RequestsAfter(t))
  <2>1. RequestsAfter(t) \in SUBSET Requests
    BY DEF RequestsAfter
  <2> QED
    BY <2>1, FS_Subset
<1>3. /\ Cardinality(Considered(k, c, t)) \in Nat
      /\ Cardinality(Considered(k, c, t)) <= Cardinality(RequestsAfter(t))
      /\ Cardinality(RequestsAfter(t)) \in Nat /\ Limit[w] \in Nat
  BY <1>1, <1>2, SmallerSet, FS_CardinalityType
<1> QED
  BY <1>3 DEF Allowed

LEMMA CallBelowStep ==
    ASSUME TypeOK, LockKept, HasRequest, TimesPassed, BelowLimit,
           NEW k \in Calls,
           CallStep(k) \/ Fault(k) \/ EnqueueUnconfirmed(k)
    PROVE  BelowLimit'
<1>1. call \in Callers /\ OthersStay(k) /\ createdAt' = createdAt /\ LockKept'
  BY Typed, FourKinds, TablesTypeStep, CallLockStep
<1> SUFFICES ASSUME NEW j \in Calls, call'[j].at \in Counted,
                    NEW w \in Windows \ call'[j].toCount,
                    NEW c, NEW t, c = call'[j].account, t = call'[j].since - w
             PROVE  /\ Cardinality(OrdersAfter(c, t)') < Limit[w]
                    /\ Cardinality(Considered(j, c, t)') < Limit[w]
  BY DEF BelowLimit
<1>2. CASE j # k
  <2>1. call'[j] = call[j]
    BY <1>1, <1>2 DEF OthersStay
  <2>2. c \in Accounts /\ lock[c] = j
    BY <2>1 DEF LockKept, Counted, Locked
  <2>3. ~PersistOrder(k) \/ c # call[k].account
    BY <1>2, <2>2 DEF PersistOrder, LockKept, Locked
  <2> QED
    BY <1>1, <2>1, <2>2, <2>3, OthersOrdersStay, CountStays
<1>3. CASE j = k
  <2>1. ASSUME ~PersistOrder(k), call[k].at \in Counted,
               w \in Windows \ call[k].toCount, SameRequest(k),
               call'[k].account = call[k].account,
               call'[k].since = call[k].since
        PROVE  /\ Cardinality(OrdersAfter(c, t)') < Limit[w]
               /\ Cardinality(Considered(j, c, t)') < Limit[w]
    <3>1. c \in Accounts
      BY <2>1, <1>3 DEF LockKept, Counted, Locked
    <3> QED
      BY <1>1, <1>3, <2>1, <3>1, OthersOrdersStay, CountStays DEF SameRequest
  <2>2. CASE CountTradesInWindow(k)
    <3>1. PICK v \in call[k].toCount :
             IF Allowed(call[k].account, v, call[k].since - v)
             THEN /\ call' = [call EXCEPT ![k].toCount = @ \ {v}]
                  /\ UNCHANGED lock
             ELSE Leave(k, FALSE)
      BY <2>2 DEF CountTradesInWindow
    <3>2. call[k].at = "count" /\ v \in Windows
      BY <1>1, <2>2, CallFields DEF CountTradesInWindow
    <3>3. ~Leave(k, FALSE)
      BY <1>1, <1>3, <3>2, LeaveMoves, Typed DEF LockKept, Counted, Locked
    <3>4. /\ Allowed(call[k].account, v, call[k].since - v)
          /\ call' = [call EXCEPT ![k].toCount = @ \ {v}]
      BY <3>1, <3>3
    <3>5. /\ SameRequest(k) /\ call'[k].toCount = call[k].toCount \ {v}
          /\ call'[k].account = call[k].account
          /\ call'[k].since = call[k].since
      BY <1>1, <3>2, <3>4, CountsOneWindow DEF SameRequest
    <3>6. ~PersistOrder(k)
      BY <3>2 DEF PersistOrder
    <3>7. CASE w # v
      BY <1>3, <2>1, <3>2, <3>5, <3>6, <3>7 DEF Counted
    <3>8. CASE w = v
      <4>1. c = call[k].account /\ t = call[k].since - w /\ Allowed(c, w, t)
        BY <1>3, <3>4, <3>5, <3>8
      <4>2. c \in Accounts /\ t \in Int
        <5>1. call[k].since \in Nat /\ w \in Int
          BY <1>1, CallFields
        <5> QED
          BY <3>2, <4>1, <5>1 DEF LockKept, Locked
      <4>3. /\ Cardinality(OrdersAfter(c, t)) < Limit[w]
            /\ Cardinality(Considered(k, c, t)) < Limit[w]
        BY <3>2, <4>1, CountedNow
      <4>4. OrdersStay(c)
        BY <3>6, <4>2, OthersOrdersStay
      <4> QED
        BY <1>1, <1>3, <3>5, <4>2, <4>3, <4>4, SameSets DEF SameRequest
    <3> QED
      BY <3>7, <3>8
  <2>3. CASE CheckAccount(k)
    <3>1. ~Leave(k, FALSE)
      BY <1>1, <1>3, <2>3, LeaveMoves, Typed
         DEF LockKept, Counted, Locked, CheckAccount
    <3>2. call'[k].toCount = Windows
      BY <1>1, <2>3, <3>1, CountBegins DEF CheckAccount, TypeOK
    <3> QED
      BY <1>3, <3>2
  <2>4. CASE RecordTrade(k) \/ LoadMappingConfig(k) \/ ReserveOrderExecution(k)
    <3>1. call[k].at \in Counted /\ call[k].at \in Locked
      BY <2>4 DEF RecordTrade, LoadMappingConfig, ReserveOrderExecution, Counted, Locked
    <3>2. ~Leave(k, FALSE)
      BY <1>1, <1>3, <3>1, LeaveMoves, Typed DEF LockKept, Counted
    <3>3. PICK step \in Locked : GoTo(k, step)
      BY <2>4, <3>2 DEF RecordTrade, LoadMappingConfig, ReserveOrderExecution, Locked
    <3>4. step \in Steps
      BY DEF Steps
    <3>5. /\ SameRequest(k) /\ call'[k].toCount = call[k].toCount
          /\ call'[k].account = call[k].account
          /\ call'[k].since = call[k].since
      BY <1>1, <3>3, <3>4, GoToMoves DEF SameRequest
    <3>6. ~PersistOrder(k)
      BY <2>4 DEF PersistOrder, RecordTrade, LoadMappingConfig, ReserveOrderExecution
    <3> QED
      BY <1>3, <2>1, <3>1, <3>5, <3>6
  <2>5. CASE Outside(k) \/ Entering(k) \/ Leaving(k)
    BY <1>3, <2>5 DEF Outside, Entering, Leaving, Counted
  <2>6. CASE PersistOrder(k)
    <3>1. call'[k].at = "enqueue"
      BY <1>1, <2>6, GoToMoves DEF PersistOrder, Steps, Locked
    <3> QED
      BY <1>3, <3>1 DEF Counted
  <2>7. CASE \/ \E q \in Requests : Begin(k, q)
             \/ NextAccount(k) \/ Return(k) \/ AcquireLock(k) \/ GiveUpLock(k)
             \/ FindDuplicate(k) \/ FailReservation(k)
             \/ Enqueue(k) \/ Fault(k) \/ EnqueueUnconfirmed(k)
    <3>1. ~Inside(k)
      <4>1. ASSUME NEW success \in BOOLEAN, Leave(k, success), call[k].at \in Locked
            PROVE  ~Inside(k)
        BY <1>1, <4>1, SlotKnown, Typed, LeaveMoves DEF Inside, Locked
      <4>2. CASE call[k].at \in {"idle", "next", "lock"}
        BY <4>2 DEF Inside, Locked
      <4> QED
        BY <2>7, <4>1, <4>2
           DEF Begin, NextAccount, Return, AcquireLock, GiveUpLock,
               FindDuplicate, FailReservation, Enqueue, Fault, Reserving,
               EnqueueUnconfirmed, Locked
    <3> QED
      BY <2>5, <3>1, FourKinds
  <2> QED
    BY <2>2, <2>3, <2>4, <2>6, <2>7 DEF CallStep
<1> QED
  BY <1>2, <1>3

(* The reservation is behind the count: every window was counted. *)
LEMMA CallAllCountedStep ==
    ASSUME TypeOK, LockKept, HasRequest, AllCounted, NEW k \in Calls,
           CallStep(k) \/ Fault(k) \/ EnqueueUnconfirmed(k)
    PROVE  AllCounted'
<1>1. call \in Callers /\ OthersStay(k) /\ clock \in Nat
  BY Typed, FourKinds DEF TypeOK
<1> SUFFICES ASSUME call'[k].at \in {"config", "reserve", "persist"}
             PROVE  call'[k].toCount = {}
  BY <1>1 DEF AllCounted, OthersStay
<1>2. Inside(k)
  BY FourKinds DEF Outside, Entering, Leaving
<1>3. ASSUME NEW success \in BOOLEAN, Leave(k, success), call[k].at \in Locked
      PROVE  FALSE
  BY <1>1, <1>3, SlotKnown, Typed, LeaveMoves
<1>4. CASE CheckAccount(k)
  <2>1. call[k].at \in Locked
    BY <1>2 DEF Inside
  <2>2. call'[k].at = "count"
    BY <1>1, <1>3, <1>4, <2>1, CountBegins DEF CheckAccount
  <2> QED
    BY <2>2
<1>5. CASE CountTradesInWindow(k)
  <2>1. PICK v \in call[k].toCount :
           \/ Leave(k, FALSE)
           \/ call' = [call EXCEPT ![k].toCount = @ \ {v}]
    BY <1>5 DEF CountTradesInWindow
  <2>2. v \in Windows /\ call[k].at = "count"
    BY <1>1, <1>5, CallFields DEF CountTradesInWindow
  <2> QED
    BY <1>1, <1>2, <1>3, <2>1, <2>2, CountsOneWindow DEF Inside
<1>6. ASSUME NEW step \in Locked, GoTo(k, step), call[k].toCount = {}
      PROVE  call'[k].toCount = {}
  <2>1. step \in Steps
    BY DEF Steps
  <2> QED
    BY <1>1, <1>6, <2>1, GoToMoves
<1>7. CASE RecordTrade(k) \/ LoadMappingConfig(k)
  BY <1>2, <1>3, <1>6, <1>7
     DEF RecordTrade, LoadMappingConfig, Locked, AllCounted, Inside
<1>8. CASE ReserveOrderExecution(k) \/ PersistOrder(k)
  BY <1>6, <1>8 DEF ReserveOrderExecution, PersistOrder, Locked, AllCounted
<1>9. CASE \/ FindDuplicate(k) \/ FailReservation(k)
           \/ Enqueue(k) \/ Fault(k) \/ EnqueueUnconfirmed(k)
  BY <1>2, <1>3, <1>9
     DEF FindDuplicate, FailReservation, Enqueue, Fault, EnqueueUnconfirmed, Inside
<1>10. CASE \/ \E q \in Requests : Begin(k, q)
            \/ NextAccount(k) \/ Return(k) \/ AcquireLock(k) \/ GiveUpLock(k)
  BY <1>2, <1>10
     DEF Begin, NextAccount, Return, AcquireLock, GiveUpLock, Inside, Locked
<1> QED
  BY <1>4, <1>5, <1>7, <1>8, <1>9, <1>10 DEF CallStep

LEMMA RecentFinite ==
    ASSUME NEW c, NEW t
    PROVE  IsFiniteSet(OrdersAfter(c, t)) /\ IsFiniteSet(RequestsAfter(t))
<1>1. OrdersAfter(c, t) \in SUBSET Requests /\ RequestsAfter(t) \in SUBSET Requests
  BY DEF OrdersAfter, OrdersOf, RequestsAfter
<1> QED
  BY <1>1, FS_Subset

(* The sets that OrdersWithinRate is about, with the end of the window.     *)
Within(c, start, end) ==
    {q \in OrdersAfter(c, start) : orderedAt[<<q, c>>] <= end}

(* The order of a call that has counted every window. *)
LEMMA NewOrderWithinRate ==
    ASSUME TypeOK, LockKept, HasRequest, TimesPassed, BelowLimit, AllCounted,
           NEW k \in Calls, PersistOrder(k),
           NEW w \in Windows, NEW c \in Accounts, c = call[k].account
    PROVE  /\ Cardinality(Within(c, clock - w, clock)') <= Limit[w]
           /\ Cardinality((Within(c, clock - w, clock)
                             \cap RequestsAfter(clock - w))') < Limit[w]
<1>1. /\ call \in Callers /\ clock \in Nat /\ clock' = clock
      /\ call[k].at = "persist" /\ w \in Int /\ Limit[w] \in Nat
  BY Typed DEF TypeOK, PersistOrder
<1>2. PICK t \in Int : t = call[k].since - w
  BY <1>1, CallFields
<1>3. t <= clock - w
  BY <1>1, <1>2, CallFields DEF TimesPassed
<1>4. /\ Cardinality(OrdersAfter(c, t)) < Limit[w]
      /\ Cardinality(Considered(k, c, t)) < Limit[w]
  <2>1. call[k].toCount = {} /\ call[k].at \in Counted
    BY <1>1 DEF AllCounted, Counted
  <2> QED
    BY <1>2, <2>1 DEF BelowLimit
<1>5. PICK q \in Requests : q = call[k].request
  BY <1>1, SlotKnown DEF Locked
<1>6. /\ createdAt' = createdAt /\ createdAt \in [Requests -> Times]
      /\ orderedAt \in [Slots -> Times]
      /\ \A p \in Requests : p # q => orderedAt'[<<p, c>>] = orderedAt[<<p, c>>]
      /\ \/ orderedAt'[<<q, c>>] = orderedAt[<<q, c>>]
         \/ orderedAt'[<<q, c>>] = clock
  BY <1>5 DEF PersistOrder, TypeOK, Slots, SlotOf
<1>7. \A p \in Requests : orderedAt[<<p, c>>] \in Int /\ createdAt[p] \in Int
  BY <1>6 DEF Slots, Times, Never
<1>8. /\ IsFiniteSet(OrdersAfter(c, t)) /\ IsFiniteSet(OrdersAfter(c, t) \cup {q})
      /\ Cardinality(OrdersAfter(c, t)) \in Nat
      /\ Cardinality(OrdersAfter(c, t) \cup {q}) \in Nat
      /\ Cardinality(OrdersAfter(c, t) \cup {q}) <= Cardinality(OrdersAfter(c, t)) + 1
  <2>1. IsFiniteSet(OrdersAfter(c, t))
    BY RecentFinite
  <2>2. Cardinality(OrdersAfter(c, t)) \in Nat
    BY <2>1, FS_CardinalityType
  <2>3. /\ IsFiniteSet(OrdersAfter(c, t) \cup {q})
        /\ Cardinality(OrdersAfter(c, t) \cup {q}) =
             IF q \in OrdersAfter(c, t) THEN Cardinality(OrdersAfter(c, t))
                                        ELSE Cardinality(OrdersAfter(c, t)) + 1
    BY <2>1, FS_AddElement
  <2> QED
    BY <2>1, <2>2, <2>3
<1>9. Within(c, clock - w, clock)' \in SUBSET (OrdersAfter(c, t) \cup {q})
  BY <1>1, <1>2, <1>3, <1>5, <1>6, <1>7 DEF Within, OrdersAfter, OrdersOf
<1>10. IsFiniteSet(Considered(k, c, t))
  <2>1. Considered(k, c, t) \in SUBSET RequestsAfter(t)
    BY DEF Considered
  <2> QED
    BY <2>1, RecentFinite, FS_Subset
<1>11. (Within(c, clock - w, clock) \cap RequestsAfter(clock - w))'
          \in SUBSET Considered(k, c, t)
  BY <1>1, <1>2, <1>3, <1>5, <1>6, <1>7
     DEF Within, OrdersAfter, OrdersOf, RequestsAfter, Considered
<1>12. Cardinality(Within(c, clock - w, clock)') <= Limit[w]
  <2>1. /\ Cardinality(Within(c, clock - w, clock)') \in Nat
        /\ Cardinality(Within(c, clock - w, clock)')
              <= Cardinality(OrdersAfter(c, t) \cup {q})
    BY <1>8, <1>9, SmallerSet
  <2> QED
    BY <1>1, <1>4, <1>8, <2>1
<1>13. Cardinality((Within(c, clock - w, clock) \cap RequestsAfter(clock - w))')
          < Limit[w]
  <2>1. /\ Cardinality((Within(c, clock - w, clock)
                          \cap RequestsAfter(clock - w))') \in Nat
        /\ Cardinality((Within(c, clock - w, clock)
                          \cap RequestsAfter(clock - w))')
              <= Cardinality(Considered(k, c, t))
        /\ Cardinality(Considered(k, c, t)) \in Nat
    BY <1>10, <1>11, SmallerSet, FS_CardinalityType
  <2> QED
    BY <1>1, <1>4, <2>1
<1> QED
  BY <1>12, <1>13

LEMMA CallRateStep ==
    ASSUME TypeOK, LockKept, HasRequest, TimesPassed, BelowLimit, AllCounted,
           OrdersWithinRate, NEW k \in Calls,
           CallStep(k) \/ Fault(k) \/ EnqueueUnconfirmed(k)
    PROVE  OrdersWithinRate'
<1>1. createdAt' = createdAt /\ clock' = clock /\ clock \in Nat
  BY TablesTypeStep DEF TypeOK
<1>2. \A q \in Requests : \A c \in Accounts :
         orderedAt[<<q, c>>] \in Int /\ orderedAt[<<q, c>>] <= clock
  BY OrderTimes DEF TimesPassed
<1> SUFFICES ASSUME NEW c \in Accounts, NEW w \in Windows, NEW last \in Requests,
                    orderedAt'[<<last, c>>] # Never
             PROVE  /\ Cardinality(Recent(c, w, last)') <= Limit[w]
                    /\ Cardinality((Recent(c, w, last) \cap
                          RequestsAfter(orderedAt[<<last, c>>] - w))') < Limit[w]
  BY DEF OrdersWithinRate, OrdersOf
<1>3. CASE OrdersStay(c)
  <2>1. last \in OrdersOf(c) /\ orderedAt'[<<last, c>>] = orderedAt[<<last, c>>]
    BY <1>3 DEF OrdersStay, OrdersOf
  <2>2. Recent(c, w, last)' = Recent(c, w, last)
    BY <1>3, <2>1 DEF OrdersStay, Recent, OrdersAfter, OrdersOf
  <2>3. RequestsAfter(orderedAt[<<last, c>>] - w)'
           = RequestsAfter(orderedAt[<<last, c>>] - w)
    BY <1>1, <2>1 DEF RequestsAfter
  <2> QED
    BY <2>1, <2>2, <2>3 DEF OrdersWithinRate
<1>4. CASE PersistOrder(k) /\ c = call[k].account
  <2>1. PICK q \in Requests : q = call[k].request
    BY <1>4, SlotKnown DEF PersistOrder, Locked
  <2>2. /\ \A p \in Requests : p # q => orderedAt'[<<p, c>>] = orderedAt[<<p, c>>]
        /\ \/ orderedAt'[<<q, c>>] = orderedAt[<<q, c>>]
           \/ orderedAt[<<q, c>>] = Never /\ orderedAt'[<<q, c>>] = clock
    BY <1>4, <2>1 DEF PersistOrder, TypeOK, Slots, SlotOf
  <2>3. CASE orderedAt'[<<last, c>>] = clock
    <3>1. Recent(c, w, last)' = Within(c, clock - w, clock)'
      BY <1>1, <2>3 DEF Recent, Within, OrdersAfter, OrdersOf
    <3>2. RequestsAfter(orderedAt[<<last, c>>] - w)' = RequestsAfter(clock - w)'
      BY <1>1, <2>3 DEF RequestsAfter
    <3> QED
      BY <1>4, <3>1, <3>2, NewOrderWithinRate
  <2>4. CASE orderedAt'[<<last, c>>] # clock
    <3>1. orderedAt'[<<last, c>>] = orderedAt[<<last, c>>] /\ last \in OrdersOf(c)
      BY <2>2, <2>4 DEF OrdersOf
    <3>2. orderedAt[<<last, c>>] < clock
      BY <1>1, <1>2, <2>4, <3>1
    <3>3. Recent(c, w, last)' = Recent(c, w, last)
      BY <1>1, <1>2, <2>1, <2>2, <3>1, <3>2 DEF Recent, OrdersAfter, OrdersOf
    <3>4. RequestsAfter(orderedAt[<<last, c>>] - w)'
             = RequestsAfter(orderedAt[<<last, c>>] - w)
      BY <1>1, <3>1 DEF RequestsAfter
    <3> QED
      BY <3>1, <3>3, <3>4 DEF OrdersWithinRate
  <2> QED
    BY <2>3, <2>4
<1> QED
  BY <1>3, <1>4, OthersOrdersStay

-----------------------------------------------------------------------------
(* Steps that are not of a call. *)

Elsewhere == \/ \E q \in Requests : CreateTradeRequest(q)
             \/ \E s \in Slots : RemoveJob(s)
             \/ CleanupExpiredKeys \/ Tick \/ Crash \/ UNCHANGED vars

LEMMA ElsewhereTypes ==
    ASSUME TypeOK, LockKept, HasRequest, Elsewhere
    PROVE  TypeOK'
<1> USE DEF TypeOK
<1>1. ASSUME NEW q \in Requests, CreateTradeRequest(q)
      PROVE  TypeOK'
  BY <1>1 DEF CreateTradeRequest, Times
<1>2. ASSUME NEW s \in Slots, RemoveJob(s)
      PROVE  TypeOK'
  BY <1>2 DEF RemoveJob
<1>3. CASE CleanupExpiredKeys
  BY <1>3 DEF CleanupExpiredKeys, Times
<1>4. CASE Tick
  BY <1>4 DEF Tick
<1>5. CASE Crash
  <2>1. [Fresh EXCEPT !.at = "done"] \in CallType
    BY DEF Fresh, CallType, Steps
  <2>2. call' \in [Calls -> CallType]
    BY <1>5, <2>1 DEF Crash
  <2>3. budget' \in [faults: Nat, crashes: Nat]
    BY <1>5 DEF Crash, Spend
  <2>4. lost' \subseteq Slots
    <3>1. \A k \in Calls : Reserving(k) => SlotOf(k) \in Slots
      BY SlotKnown DEF Reserving, Locked
    <3> QED
      BY <1>5, <3>1 DEF Crash
  <2> QED
    BY <1>5, <2>2, <2>3, <2>4 DEF Crash
<1>6. CASE UNCHANGED vars
  BY <1>6 DEF vars
<1> QED
  BY <1>1, <1>2, <1>3, <1>4, <1>5, <1>6 DEF Elsewhere

(* A crash leaves no call under way; nothing else touches the calls. *)
LEMMA ElsewhereCalls ==
    ASSUME TypeOK, Elsewhere
    PROVE  /\ orderedAt' = orderedAt
           /\ \/ call' = call /\ lock' = lock
              \/ /\ Crash
                 /\ \A k \in Calls :
                       \/ call[k].at = "idle" /\ call'[k] = call[k]
                       \/ /\ call'[k].at = "done" /\ call'[k].succeeded = {}
                          /\ call'[k].since = 0
<1>1. CASE Crash
  <2>1. \A k \in Calls : call'[k] = IF call[k].at = "idle" THEN call[k]
                                     ELSE [Fresh EXCEPT !.at = "done"]
    BY <1>1 DEF Crash
  <2>2. LET ended == [Fresh EXCEPT !.at = "done"]
        IN  ended.at = "done" /\ ended.succeeded = {} /\ ended.since = 0
    BY DEF Fresh
  <2> QED
    BY <1>1, <2>1, <2>2 DEF Crash
<1>2. CASE ~Crash
  BY <1>2 DEF Elsewhere, CreateTradeRequest, RemoveJob, CleanupExpiredKeys, Tick, vars
<1> QED
  BY <1>1, <1>2

LEMMA ElsewhereStructure ==
    ASSUME TypeOK, LockKept, HasRequest, TimesPassed, AllCounted, Elsewhere
    PROVE  LockKept' /\ HasRequest' /\ TimesPassed' /\ AllCounted'
<1>1. LockKept'
  BY ElsewhereCalls DEF LockKept, Locked
<1>2. AllCounted'
  BY ElsewhereCalls DEF AllCounted
<1>3. \A q \in Requests : createdAt[q] # Never => createdAt'[q] # Never
  BY DEF Elsewhere, CreateTradeRequest, RemoveJob, CleanupExpiredKeys, Tick,
         Crash, vars, TypeOK
<1>4. HasRequest'
  BY <1>3, ElsewhereCalls DEF HasRequest, Locked
<1>5. clock \in Nat /\ clock' \in Nat /\ clock <= clock'
  BY DEF Elsewhere, CreateTradeRequest, RemoveJob, CleanupExpiredKeys, Tick,
         Crash, vars, TypeOK
<1>6. \A k \in Calls : call'[k].since <= clock'
  BY <1>5, ElsewhereCalls, Typed, CallFields DEF TimesPassed
<1>7. ASSUME NEW q \in Requests, NEW c \in Accounts
      PROVE  /\ orderedAt'[<<q, c>>] <= clock'
             /\ orderedAt'[<<q, c>>] # Never => createdAt'[q] # Never
  <2>1. orderedAt'[<<q, c>>] = orderedAt[<<q, c>>]
    BY ElsewhereCalls
  <2>2. orderedAt[<<q, c>>] \in Int /\ orderedAt[<<q, c>>] <= clock
    BY OrderTimes DEF TimesPassed
  <2>3. orderedAt[<<q, c>>] # Never => createdAt[q] # Never
    BY DEF TimesPassed
  <2> QED
    BY <1>3, <1>5, <2>1, <2>2, <2>3
<1>8. \A s \in Slots : expiresAt'[s] <= clock' + KeyLife
  <2>1. \A s \in Slots : expiresAt[s] \in Int /\ expiresAt[s] <= clock + KeyLife
    BY DEF TypeOK, Times, Never, TimesPassed
  <2>2. \A s \in Slots : expiresAt'[s] = expiresAt[s] \/ expiresAt'[s] = Never
    BY DEF Elsewhere, CreateTradeRequest, RemoveJob, CleanupExpiredKeys, Tick,
           Crash, vars
  <2> QED
    BY <1>5, <2>1, <2>2 DEF Never
<1> QED
  BY <1>1, <1>2, <1>4, <1>6, <1>7, <1>8 DEF TimesPassed

(* A request that is inserted has no order and no call yet. *)
LEMMA ElsewhereRequests ==
    ASSUME TypeOK, HasRequest, TimesPassed, Elsewhere,
           NEW c \in Accounts, NEW t \in Int
    PROVE  /\ OrdersAfter(c, t)' = OrdersAfter(c, t)
           /\ \A q \in OrdersOf(c) : q \in RequestsAfter(t)' <=> q \in RequestsAfter(t)
           /\ \A k \in Calls :
                 call[k].at \in Locked /\ call'[k] = call[k] =>
                    Considered(k, c, t)' = Considered(k, c, t)
<1>1. \/ createdAt' = createdAt
      \/ \E q \in Requests :
            createdAt[q] = Never /\ createdAt' = [createdAt EXCEPT ![q] = clock]
  BY DEF Elsewhere, CreateTradeRequest, RemoveJob, CleanupExpiredKeys, Tick,
         Crash, vars
<1>2. \A q \in Requests : createdAt[q] # Never => createdAt'[q] = createdAt[q]
  BY <1>1 DEF TypeOK
<1>3. \A q \in OrdersOf(c) : createdAt[q] # Never
  BY DEF OrdersOf, TimesPassed
<1>4. orderedAt' = orderedAt
  BY ElsewhereCalls
<1>5. OrdersAfter(c, t)' = OrdersAfter(c, t)
  BY <1>4 DEF OrdersAfter, OrdersOf
<1>6. \A q \in OrdersOf(c) : q \in RequestsAfter(t)' <=> q \in RequestsAfter(t)
  BY <1>2, <1>3 DEF RequestsAfter
<1>7. ASSUME NEW k \in Calls, call[k].at \in Locked, call'[k] = call[k]
      PROVE  Considered(k, c, t)' = Considered(k, c, t)
  <2>1. createdAt[call[k].request] # Never /\ call[k].request \in Requests
    BY <1>7 DEF HasRequest
  <2>2. \A q \in Requests :
           orderedAt[<<q, c>>] # Never \/ q = call[k].request =>
              (q \in RequestsAfter(t)' <=> q \in RequestsAfter(t))
    BY <1>2, <1>3, <2>1 DEF RequestsAfter, OrdersOf
  <2> QED
    BY <1>4, <1>7, <2>2 DEF Considered, RequestsAfter
<1> QED
  BY <1>5, <1>6, <1>7

LEMMA ElsewhereRates ==
    ASSUME TypeOK, LockKept, HasRequest, TimesPassed, BelowLimit,
           OrdersWithinRate, Elsewhere
    PROVE  BelowLimit' /\ OrdersWithinRate'
<1>1. BelowLimit'
  <2> SUFFICES ASSUME NEW j \in Calls, call'[j].at \in Counted,
                      NEW w \in Windows \ call'[j].toCount,
                      NEW c, NEW t, c = call'[j].account, t = call'[j].since - w
               PROVE  /\ Cardinality(OrdersAfter(c, t)') < Limit[w]
                      /\ Cardinality(Considered(j, c, t)') < Limit[w]
    BY DEF BelowLimit
  <2>1. call'[j] = call[j]
    BY ElsewhereCalls DEF Counted
  <2>2. c \in Accounts /\ call[j].at \in Locked /\ call[j].since \in Nat /\ w \in Int
    BY <2>1, Typed, CallFields DEF LockKept, Counted, Locked
  <2>3. t \in Int
    BY <2>1, <2>2
  <2>4. /\ Cardinality(OrdersAfter(c, t)) < Limit[w]
        /\ Cardinality(Considered(j, c, t)) < Limit[w]
    BY <2>1 DEF BelowLimit
  <2> QED
    BY <2>1, <2>2, <2>3, <2>4, ElsewhereRequests
<1>2. OrdersWithinRate'
  <2> SUFFICES ASSUME NEW c \in Accounts, NEW w \in Windows, NEW last \in Requests,
                      orderedAt'[<<last, c>>] # Never
               PROVE  /\ Cardinality(Recent(c, w, last)') <= Limit[w]
                      /\ Cardinality((Recent(c, w, last) \cap
                            RequestsAfter(orderedAt[<<last, c>>] - w))') < Limit[w]
    BY DEF OrdersWithinRate, OrdersOf
  <2>1. orderedAt' = orderedAt /\ last \in OrdersOf(c)
    BY ElsewhereCalls DEF OrdersOf
  <2>2. PICK t \in Int : t = orderedAt[<<last, c>>] - w
    <3>1. w \in Int /\ orderedAt[<<last, c>>] \in Int
      BY OrderTimes
    <3> QED
      BY <3>1
  <2>3. Recent(c, w, last)' = Recent(c, w, last)
    BY <2>1 DEF Recent, OrdersAfter, OrdersOf
  <2>4. Recent(c, w, last) \subseteq OrdersOf(c)
    BY DEF Recent, OrdersAfter
  <2>5. (Recent(c, w, last) \cap RequestsAfter(orderedAt[<<last, c>>] - w))'
           = Recent(c, w, last) \cap RequestsAfter(orderedAt[<<last, c>>] - w)
    <3>1. RequestsAfter(orderedAt[<<last, c>>] - w)' = RequestsAfter(t)'
      BY <2>1, <2>2 DEF RequestsAfter
    <3>2. \A q \in Recent(c, w, last) : q \in RequestsAfter(t)' <=> q \in RequestsAfter(t)
      BY <2>4, ElsewhereRequests
    <3> QED
      BY <2>2, <2>3, <3>1, <3>2
  <2> QED
    BY <2>1, <2>3, <2>5 DEF OrdersWithinRate
<1> QED
  BY <1>1, <1>2

-----------------------------------------------------------------------------
(* One job for a reservation. *)

LEMMA LivesNext ==
    ASSUME NEW n \in Int
    PROVE  Lives(n) \in Int /\ Lives(n + 1) = Lives(n) + KeyLife + 1
BY DEF Lives

LEMMA LivesGrow ==
    ASSUME NEW n \in Int
    PROVE  Lives(n - 1) \in Int /\ Lives(n - 1) = Lives(n) - (KeyLife + 1)
<1>1. n - 1 \in Int /\ (n - 1) + 1 = n
  OBVIOUS
<1>2. Lives(n - 1) \in Int /\ Lives((n - 1) + 1) = Lives(n - 1) + KeyLife + 1
  BY <1>1, LivesNext
<1> QED
  BY <1>1, <1>2

(* The lock lets one call at a time be about to add a job for an order. *)
LEMMA OneLocked ==
    ASSUME LockKept, NEW j \in Calls, NEW k \in Calls,
           call[j].at \in Locked, call[k].at \in Locked,
           SlotOf(j) = SlotOf(k)
    PROVE  j = k
BY DEF LockKept, SlotOf

(* Who is about to add a job, after a step of call k. *)
LEMMA PendingOthers ==
    ASSUME TypeOK, LockKept, HasRequest, NEW k \in Calls,
           CallStep(k) \/ Fault(k) \/ EnqueueUnconfirmed(k), NEW s \in Slots,
           call[k].at \in Locked => s # SlotOf(k)
    PROVE  /\ Pending(s)' <=> Pending(s)
           /\ expiresAt'[s] = expiresAt[s] /\ added'[s] = added[s]
           /\ orderedAt'[s] = orderedAt[s] /\ (s \in held' <=> s \in held)
<1>1. OthersStay(k) /\ (Outside(k) \/ Entering(k) \/ Inside(k) \/ Leaving(k))
  BY FourKinds
<1>2. {"persist", "enqueue"} \subseteq Locked
  BY DEF Locked
<1>3. ~(Reserving(k) /\ SlotOf(k) = s) /\ ~(Reserving(k) /\ SlotOf(k) = s)'
  BY <1>1, <1>2 DEF Reserving, Outside, Entering, Inside, Leaving, SameRequest, SlotOf
<1>4. \A j \in Calls : (Reserving(j) /\ SlotOf(j) = s)' <=> (Reserving(j) /\ SlotOf(j) = s)
  BY <1>1, <1>3 DEF OthersStay, Reserving, SlotOf
<1>5. Pending(s)' <=> Pending(s)
  BY <1>4 DEF Pending, Reserving
<1>6. expiresAt'[s] = expiresAt[s]
  BY DEF CallStep, Begin, NextAccount, Return, AcquireLock, GiveUpLock,
         CheckAccount, CountTradesInWindow, RecordTrade, LoadMappingConfig,
         ReserveOrderExecution, FindDuplicate, FailReservation, PersistOrder,
         Enqueue, Fault, EnqueueUnconfirmed, Locked, TypeOK
<1>7. orderedAt'[s] = orderedAt[s]
  BY DEF CallStep, Begin, NextAccount, Return, AcquireLock, GiveUpLock,
         CheckAccount, CountTradesInWindow, RecordTrade, LoadMappingConfig,
         ReserveOrderExecution, FindDuplicate, FailReservation, PersistOrder,
         Enqueue, Fault, EnqueueUnconfirmed, Locked, TypeOK
<1>8. added'[s] = added[s]
  BY DEF CallStep, Begin, NextAccount, Return, AcquireLock, GiveUpLock,
         CheckAccount, CountTradesInWindow, RecordTrade, LoadMappingConfig,
         ReserveOrderExecution, FindDuplicate, FailReservation, PersistOrder,
         Enqueue, Fault, EnqueueUnconfirmed, Locked, TypeOK, AddJob
<1>9. s \in held' <=> s \in held
  BY DEF CallStep, Begin, NextAccount, Return, AcquireLock, GiveUpLock,
         CheckAccount, CountTradesInWindow, RecordTrade, LoadMappingConfig,
         ReserveOrderExecution, FindDuplicate, FailReservation, PersistOrder,
         Enqueue, Fault, EnqueueUnconfirmed, Locked, AddJob
<1> QED
  BY <1>5, <1>6, <1>7, <1>8, <1>9

LEMMA PendingOwn ==
    ASSUME TypeOK, LockKept, HasRequest, NEW k \in Calls,
           CallStep(k) \/ Fault(k) \/ EnqueueUnconfirmed(k),
           call[k].at \in Locked, NEW s \in Slots, s = SlotOf(k)
    PROVE  /\ Pending(s) <=> Reserving(k)
           /\ Pending(s)' <=> Reserving(k)'
<1>1. {"persist", "enqueue"} \subseteq Locked
  BY DEF Locked
<1>2. Pending(s) <=> Reserving(k)
  BY <1>1, OneLocked DEF Pending, Reserving
<1>3. OthersStay(k) /\ (Inside(k) \/ Leaving(k))
  BY FourKinds DEF Outside, Entering, Locked
<1>4. \A j \in Calls : j # k /\ Reserving(j)' => SlotOf(j)' # s
  <2> SUFFICES ASSUME NEW j \in Calls, j # k, Reserving(j)', SlotOf(j)' = s
               PROVE  FALSE
    OBVIOUS
  <2>1. call[j].at \in Locked /\ SlotOf(j) = s
    BY <1>1, <1>3 DEF OthersStay, Reserving, SlotOf
  <2> QED
    BY <2>1, OneLocked
<1>5. Pending(s)' <=> Reserving(k)'
  <2>1. CASE Leaving(k)
    <3>1. ~Reserving(k)'
      BY <2>1 DEF Leaving, Reserving
    <3> QED
      BY <1>4, <3>1 DEF Pending, Reserving
  <2>2. CASE Inside(k)
    <3>1. SlotOf(k)' = s
      BY <2>2 DEF Inside, SameRequest, SlotOf
    <3> QED
      BY <1>4, <3>1 DEF Pending, Reserving
  <2> QED
    BY <1>3, <2>1, <2>2
<1> QED
  BY <1>2, <1>5

(* The five things a call can do about its own order. *)
Reserves(k, s) ==
    /\ call[k].at = "reserve" /\ call'[k].at = "persist"
    /\ expiresAt[s] = Never /\ expiresAt'[s] = clock + KeyLife
    /\ added'[s] = added[s] /\ orderedAt'[s] = orderedAt[s] /\ held' = held

Persists(k, s) ==
    /\ call[k].at = "persist" /\ call'[k].at = "enqueue"
    /\ expiresAt'[s] = expiresAt[s] /\ added'[s] = added[s]
    /\ orderedAt'[s] # Never /\ held' = held

Adds(k, s) ==
    /\ call[k].at = "enqueue" /\ call'[k].at = "next"
    /\ expiresAt'[s] = expiresAt[s] /\ orderedAt'[s] = orderedAt[s]
    /\ \/ s \in held /\ added'[s] = added[s]
       \/ s \notin held /\ added'[s] = added[s] + 1
    /\ held' = held \cup {s}

Drops(k, s) ==
    /\ call[k].at \in {"persist", "enqueue"} /\ call'[k].at = "next"
    /\ expiresAt'[s] = expiresAt[s] /\ added'[s] = added[s]
    /\ orderedAt'[s] = orderedAt[s] /\ held' = held
    /\ s \in lost'

Spares(k, s) ==
    /\ call[k].at \in Locked \ {"persist", "enqueue"}
    /\ call'[k].at \notin {"persist", "enqueue"}
    /\ expiresAt'[s] = expiresAt[s] /\ added'[s] = added[s]
    /\ orderedAt'[s] = orderedAt[s] /\ held' = held

LEMMA OwnSlot ==
    ASSUME TypeOK, LockKept, HasRequest, NEW k \in Calls,
           CallStep(k) \/ Fault(k) \/ EnqueueUnconfirmed(k),
           call[k].at \in Locked, NEW s \in Slots, s = SlotOf(k)
    PROVE  \/ Reserves(k, s) \/ Persists(k, s) \/ Adds(k, s) \/ Drops(k, s)
           \/ Spares(k, s)
<1>1. call \in Callers /\ lock \in Locks /\ clock \in Nat /\ call[k].account \in Accounts
  BY Typed, SlotKnown DEF TypeOK
<1>2. ASSUME NEW success \in BOOLEAN, Leave(k, success)
      PROVE  call'[k].at = "next"
  BY <1>1, <1>2, LeaveMoves
<1>3. ASSUME NEW step \in Locked, GoTo(k, step)
      PROVE  call'[k].at = step
  BY <1>1, <1>3, GoToMoves DEF Steps
<1>4. CASE ReserveOrderExecution(k)
  <2>1. GoTo(k, "persist") /\ "persist" \in Locked
    BY <1>4 DEF ReserveOrderExecution, Locked
  <2> QED
    BY <1>3, <1>4, <2>1 DEF ReserveOrderExecution, Reserved, Reserves, TypeOK
<1>5. CASE PersistOrder(k)
  <2>1. GoTo(k, "enqueue") /\ "enqueue" \in Locked /\ clock # Never
    BY <1>1, <1>5 DEF PersistOrder, Locked, Never
  <2> QED
    BY <1>3, <1>5, <2>1 DEF PersistOrder, Persists, TypeOK
<1>6. CASE Enqueue(k) \/ EnqueueUnconfirmed(k)
  <2>1. /\ AddJob(s) /\ call[k].at = "enqueue" /\ call'[k].at = "next"
        /\ expiresAt' = expiresAt /\ orderedAt' = orderedAt
    BY <1>2, <1>6 DEF Enqueue, EnqueueUnconfirmed
  <2> QED
    BY <2>1 DEF AddJob, Adds, TypeOK
<1>7. CASE Fault(k)
  BY <1>2, <1>7 DEF Fault, Reserving, Drops
<1>8. CASE \/ CheckAccount(k) \/ CountTradesInWindow(k) \/ RecordTrade(k)
           \/ LoadMappingConfig(k) \/ FindDuplicate(k) \/ FailReservation(k)
  <2>1. /\ expiresAt' = expiresAt /\ orderedAt' = orderedAt
        /\ held' = held /\ added' = added
        /\ call[k].at \in Locked \ {"persist", "enqueue"}
    BY <1>8 DEF CheckAccount, CountTradesInWindow, RecordTrade, LoadMappingConfig,
                FindDuplicate, FailReservation, Locked
  <2>2. call'[k].at \notin {"persist", "enqueue"}
    <3>1. CASE CheckAccount(k)
      BY <1>1, <1>2, <3>1, CountBegins DEF CheckAccount
    <3>2. CASE CountTradesInWindow(k)
      <4>1. PICK v \in call[k].toCount :
               \/ Leave(k, FALSE)
               \/ call' = [call EXCEPT ![k].toCount = @ \ {v}]
        BY <3>2 DEF CountTradesInWindow
      <4>2. v \in Windows /\ call[k].at = "count"
        BY <1>1, <3>2, CallFields DEF CountTradesInWindow
      <4> QED
        BY <1>1, <1>2, <4>1, <4>2, CountsOneWindow
    <3>3. CASE \/ RecordTrade(k) \/ LoadMappingConfig(k)
               \/ FindDuplicate(k) \/ FailReservation(k)
      BY <1>2, <1>3, <3>3
         DEF RecordTrade, LoadMappingConfig, FindDuplicate, FailReservation, Locked
    <3> QED
      BY <1>8, <3>1, <3>2, <3>3
  <2> QED
    BY <2>1, <2>2 DEF Spares
<1> QED
  BY <1>4, <1>5, <1>6, <1>7, <1>8
     DEF CallStep, Begin, NextAccount, Return, AcquireLock, GiveUpLock, Locked

LEMMA CallLifeStep ==
    ASSUME TypeOK, LockKept, HasRequest, TimesPassed, OncePerLife,
           NEW k \in Calls,
           CallStep(k) \/ Fault(k) \/ EnqueueUnconfirmed(k)
    PROVE  OncePerLife'
<1> SUFFICES ASSUME NEW s \in Slots
             PROVE  IF Reserved(s)' THEN Lives(Due(s)' - 1) <= expiresAt'[s] - KeyLife
                                    ELSE Lives(Due(s)') <= clock
  BY TablesTypeStep DEF OncePerLife, Lives
<1>1. /\ IF Reserved(s) THEN Lives(Due(s) - 1) <= expiresAt[s] - KeyLife
                        ELSE Lives(Due(s)) <= clock
      /\ added[s] \in Nat /\ clock \in Nat /\ expiresAt[s] \in Int
  BY DEF OncePerLife, TypeOK, Times, Never
<1>2. CASE call[k].at \in Locked => s # SlotOf(k)
  BY <1>1, <1>2, PendingOthers DEF Due, Reserved
<1>3. CASE call[k].at \in Locked /\ s = SlotOf(k)
  <2>1. (Pending(s) <=> Reserving(k)) /\ (Pending(s)' <=> Reserving(k)')
    BY <1>3, PendingOwn
  <2>2. CASE Reserves(k, s)
    <3>1. Due(s) = added[s] /\ Due(s)' = added[s] + 1
      BY <2>1, <2>2 DEF Reserves, Reserving, Due
    <3>2. Lives(added[s]) <= clock /\ (added[s] + 1) - 1 = added[s]
      BY <1>1, <2>2, <3>1 DEF Reserves, Reserved
    <3>3. Reserved(s)' /\ expiresAt'[s] - KeyLife = clock
      BY <1>1, <2>2 DEF Reserves, Reserved, Never
    <3> QED
      BY <3>1, <3>2, <3>3
  <2>3. CASE Persists(k, s)
    <3>1. Due(s)' = Due(s) /\ (Reserved(s)' <=> Reserved(s))
      BY <2>1, <2>3 DEF Persists, Reserving, Due, Reserved
    <3> QED
      BY <1>1, <2>3, <3>1 DEF Persists
  <2>4. CASE Spares(k, s)
    <3>1. Due(s)' = Due(s) /\ (Reserved(s)' <=> Reserved(s))
      BY <2>1, <2>4 DEF Spares, Reserving, Due, Reserved
    <3> QED
      BY <1>1, <2>4, <3>1 DEF Spares
  <2>5. CASE Adds(k, s) \/ Drops(k, s)
    <3>1. /\ Due(s) = added[s] + 1
          /\ Due(s)' = added[s] \/ Due(s)' = added[s] + 1
          /\ expiresAt'[s] = expiresAt[s]
      BY <2>1, <2>5 DEF Adds, Drops, Reserving, Due
    <3>2. /\ Lives(added[s]) \in Int /\ Lives(added[s] - 1) \in Int
          /\ Lives(added[s] + 1) \in Int
          /\ Lives(added[s] - 1) <= Lives(added[s])
          /\ Lives(added[s]) <= Lives(added[s] + 1)
          /\ (added[s] + 1) - 1 = added[s]
      BY <1>1, LivesNext, LivesGrow
    <3>3. Reserved(s)' <=> Reserved(s)
      BY <3>1 DEF Reserved
    <3> QED
      BY <1>1, <3>1, <3>2, <3>3
  <2> QED
    BY <1>3, <2>2, <2>3, <2>4, <2>5, OwnSlot
<1> QED
  BY <1>2, <1>3

LEMMA ElsewhereLife ==
    ASSUME TypeOK, TimesPassed, OncePerLife, Elsewhere
    PROVE  OncePerLife'
<1>1. clock \in Nat /\ clock' \in Nat /\ clock <= clock' /\ added' = added
  BY DEF Elsewhere, CreateTradeRequest, RemoveJob, CleanupExpiredKeys, Tick,
         Crash, vars, TypeOK
<1> SUFFICES ASSUME NEW s \in Slots
             PROVE  IF Reserved(s)' THEN Lives(Due(s)' - 1) <= expiresAt'[s] - KeyLife
                                    ELSE Lives(Due(s)') <= clock'
  BY DEF OncePerLife, Lives
<1>2. /\ IF Reserved(s) THEN Lives(Due(s) - 1) <= expiresAt[s] - KeyLife
                        ELSE Lives(Due(s)) <= clock
      /\ added[s] \in Nat /\ expiresAt[s] \in Int
  BY DEF OncePerLife, TypeOK, Times, Never
<1>3. Pending(s)' => Pending(s)
  BY ElsewhereCalls DEF Pending, SlotOf
<1>4. /\ Due(s) \in Int /\ Due(s)' \in Int
      /\ Due(s)' = Due(s) \/ Due(s)' = Due(s) - 1
  BY <1>1, <1>2, <1>3 DEF Due
<1>5. /\ Lives(Due(s)' - 1) <= Lives(Due(s) - 1) /\ Lives(Due(s)') <= Lives(Due(s))
      /\ Lives(Due(s)) = Lives(Due(s) - 1) + KeyLife + 1
      /\ {Lives(Due(s)' - 1), Lives(Due(s)'), Lives(Due(s) - 1), Lives(Due(s))}
            \subseteq Int
  <2> DEFINE d == Due(s)
             e == Due(s)'
  <2>1. d \in Int /\ e \in Int /\ (e = d \/ e = d - 1)
    BY <1>4
  <2>2. /\ Lives(e - 1) <= Lives(d - 1) /\ Lives(e) <= Lives(d)
        /\ Lives(d) = Lives(d - 1) + KeyLife + 1
        /\ {Lives(e - 1), Lives(e), Lives(d - 1), Lives(d)} \subseteq Int
    <3> HIDE DEF d, e
    <3>1. /\ Lives(d) \in Int /\ Lives(d - 1) \in Int
          /\ Lives(d - 1) = Lives(d) - (KeyLife + 1)
      BY <2>1, LivesNext, LivesGrow
    <3>2. d - 1 \in Int /\ Lives((d - 1) - 1) \in Int
          /\ Lives((d - 1) - 1) = Lives(d - 1) - (KeyLife + 1)
      BY <2>1, LivesGrow
    <3> QED
      BY <2>1, <3>1, <3>2
  <2> QED
    BY <2>2
<1>6. \/ expiresAt'[s] = expiresAt[s]
      \/ expiresAt'[s] = Never /\ Reserved(s) /\ expiresAt[s] < clock
  <2>1. ASSUME CleanupExpiredKeys
        PROVE  \/ expiresAt'[s] = expiresAt[s]
               \/ expiresAt'[s] = Never /\ Reserved(s) /\ expiresAt[s] < clock
    BY <2>1 DEF CleanupExpiredKeys, Reserved
  <2> QED
    BY <2>1 DEF Elsewhere, CreateTradeRequest, RemoveJob, Tick, Crash, vars
<1>7. CASE expiresAt'[s] = expiresAt[s]
  <2>1. Reserved(s)' <=> Reserved(s)
    BY <1>7 DEF Reserved
  <2> QED
    BY <1>1, <1>2, <1>5, <1>7, <2>1
<1>8. CASE expiresAt'[s] = Never /\ Reserved(s) /\ expiresAt[s] < clock
  <2>1. ~Reserved(s)'
    BY <1>8 DEF Reserved
  <2> QED
    BY <1>1, <1>2, <1>5, <1>8, <2>1
<1> QED
  BY <1>6, <1>7, <1>8

-----------------------------------------------------------------------------
(* What a success means. *)

LEMMA LostStays ==
    ASSUME [Next]_vars
    PROVE  lost \subseteq lost'
BY DEF Next, CallStep, Begin, NextAccount, Return, AcquireLock, GiveUpLock,
       CheckAccount, CountTradesInWindow, RecordTrade, LoadMappingConfig,
       ReserveOrderExecution, FindDuplicate, FailReservation, PersistOrder,
       Enqueue, Fault, EnqueueUnconfirmed, CreateTradeRequest, RemoveJob,
       CleanupExpiredKeys, Tick, Crash, vars

(* An order stays, and so do the jobs added for it. *)
LEMMA OrderKept ==
    ASSUME TypeOK, LockKept, HasRequest, NEW k \in Calls,
           CallStep(k) \/ Fault(k) \/ EnqueueUnconfirmed(k), NEW s \in Slots
    PROVE  /\ orderedAt[s] # Never => orderedAt'[s] # Never
           /\ added[s] > 0 => added'[s] > 0
<1>1. added[s] \in Nat
  BY DEF TypeOK
<1>2. CASE call[k].at \in Locked => s # SlotOf(k)
  BY <1>2, PendingOthers
<1>3. CASE call[k].at \in Locked /\ s = SlotOf(k)
  BY <1>1, <1>3, OwnSlot DEF Reserves, Persists, Adds, Drops, Spares
<1> QED
  BY <1>2, <1>3

LEMMA CallReservedStep ==
    ASSUME TypeOK, LockKept, HasRequest, ReservedIsQueued,
           NEW k \in Calls,
           CallStep(k) \/ Fault(k) \/ EnqueueUnconfirmed(k)
    PROVE  ReservedIsQueued'
<1>1. OthersStay(k) /\ added \in [Slots -> Nat] /\ held' \subseteq Slots
  BY FourKinds, TablesTypeStep DEF TypeOK
<1>2. ASSUME NEW s \in held'
      PROVE  added'[s] > 0
  <2>1. s \in Slots /\ added[s] \in Nat /\ (s \in held => added[s] > 0)
    BY <1>1, <1>2 DEF ReservedIsQueued
  <2>2. CASE call[k].at \in Locked => s # SlotOf(k)
    BY <1>2, <2>1, <2>2, PendingOthers
  <2>3. CASE call[k].at \in Locked /\ s = SlotOf(k)
    BY <1>2, <2>1, <2>3, OwnSlot DEF Reserves, Persists, Adds, Drops, Spares
  <2> QED
    BY <2>2, <2>3
<1>3. ASSUME NEW j \in Calls, call'[j].at = "enqueue"
      PROVE  orderedAt'[SlotOf(j)'] # Never
  <2>1. CASE j # k
    <3>1. call'[j] = call[j] /\ call[j].at = "enqueue" /\ call[j].at \in Locked
      BY <1>1, <1>3, <2>1 DEF OthersStay, Locked
    <3>2. SlotOf(j) \in Slots /\ SlotOf(j)' = SlotOf(j) /\ orderedAt[SlotOf(j)] # Never
      BY <3>1, SlotKnown DEF ReservedIsQueued, SlotOf
    <3> QED
      BY <3>2, OrderKept
  <2>2. CASE j = k
    <3>1. Inside(k)
      BY <1>3, <2>2, FourKinds DEF Outside, Entering, Leaving
    <3>2. SlotOf(k)' = SlotOf(k) /\ call[k].at \in Locked /\ SlotOf(k) \in Slots
      BY <3>1, SlotKnown DEF Inside, SameRequest, SlotOf
    <3> QED
      BY <1>3, <2>2, <3>2, OwnSlot DEF Reserves, Persists, Adds, Drops, Spares
  <2> QED
    BY <2>1, <2>2
<1>4. ASSUME NEW s \in Slots, Reserved(s)'
      PROVE  Queued(s)' \/ Pending(s)' \/ s \in lost'
  <2>1. lost \subseteq lost'
    BY LostStays DEF Next
  <2>2. Reserved(s) => Queued(s) \/ Pending(s) \/ s \in lost
    BY DEF ReservedIsQueued
  <2>3. CASE call[k].at \in Locked => s # SlotOf(k)
    BY <1>4, <2>1, <2>2, <2>3, PendingOthers DEF Queued, Reserved
  <2>4. CASE call[k].at \in Locked /\ s = SlotOf(k)
    <3>1. (Pending(s) <=> Reserving(k)) /\ (Pending(s)' <=> Reserving(k)')
      BY <2>4, PendingOwn
    <3>2. CASE Reserves(k, s) \/ Persists(k, s)
      BY <3>1, <3>2 DEF Reserves, Persists, Reserving
    <3>3. CASE Adds(k, s)
      <4>1. orderedAt'[s] # Never
        BY <2>4, <3>3 DEF Adds, ReservedIsQueued
      <4>2. added[s] \in Nat /\ (s \in held => added[s] > 0)
        BY <1>1 DEF ReservedIsQueued
      <4>3. added'[s] > 0
        BY <3>3, <4>2 DEF Adds
      <4> QED
        BY <4>1, <4>3 DEF Queued
    <3>4. CASE Spares(k, s)
      BY <1>4, <2>1, <2>2, <3>1, <3>4 DEF Spares, Reserving, Queued, Reserved
    <3> QED
      BY <2>4, <3>2, <3>3, <3>4, OwnSlot DEF Drops
  <2> QED
    BY <2>3, <2>4
<1> QED
  BY <1>2, <1>3, <1>4 DEF ReservedIsQueued

(* What a call counts as a success. *)
LEMMA LeavingSucceeds ==
    ASSUME TypeOK, LockKept, HasRequest, NEW k \in Calls,
           CallStep(k) \/ Fault(k) \/ EnqueueUnconfirmed(k), Leaving(k)
    PROVE  \/ call'[k].succeeded = call[k].succeeded
           \/ /\ FindDuplicate(k) \/ Enqueue(k)
              /\ call'[k].succeeded = call[k].succeeded \cup {call[k].account}
<1>1. /\ call \in Callers /\ lock \in Locks /\ clock \in Nat
      /\ call[k].at \in Locked /\ call[k].account \in Accounts
  BY Typed, SlotKnown DEF Leaving, TypeOK
<1>2. ASSUME Leave(k, FALSE)
      PROVE  call'[k].succeeded = call[k].succeeded
  BY <1>1, <1>2, LeaveMoves
<1>3. ASSUME Leave(k, TRUE)
      PROVE  call'[k].succeeded = call[k].succeeded \cup {call[k].account}
  BY <1>1, <1>3, LeaveMoves
<1>4. ASSUME NEW step \in Steps, GoTo(k, step)
      PROVE  call'[k].succeeded = call[k].succeeded
  BY <1>1, <1>4, GoToMoves
<1>5. CASE CheckAccount(k)
  BY <1>1, <1>2, <1>5, CountBegins DEF CheckAccount
<1>6. CASE CountTradesInWindow(k)
  <2>1. PICK w \in call[k].toCount :
           Leave(k, FALSE) \/ call' = [call EXCEPT ![k].toCount = @ \ {w}]
    BY <1>6 DEF CountTradesInWindow
  <2>2. w \in Windows
    BY <1>1, CallFields
  <2> QED
    BY <1>1, <1>2, <2>1, <2>2, CountsOneWindow
<1>7. CASE FindDuplicate(k) \/ Enqueue(k)
  BY <1>3, <1>7 DEF FindDuplicate, Enqueue
<1>8. CASE FailReservation(k) \/ Fault(k) \/ EnqueueUnconfirmed(k)
  BY <1>2, <1>8 DEF FailReservation, Fault, EnqueueUnconfirmed
<1>9. CASE \/ RecordTrade(k) \/ LoadMappingConfig(k)
           \/ ReserveOrderExecution(k) \/ PersistOrder(k)
  BY <1>2, <1>4, <1>9
     DEF RecordTrade, LoadMappingConfig, ReserveOrderExecution, PersistOrder,
         Steps, Locked
<1> QED
  BY <1>1, <1>5, <1>6, <1>7, <1>8, <1>9
     DEF CallStep, Begin, NextAccount, Return, AcquireLock, GiveUpLock, Locked

LEMMA CallSuccessStep ==
    ASSUME TypeOK, LockKept, HasRequest, ReservedIsQueued,
           SuccessIsQueued, NEW k \in Calls,
           CallStep(k) \/ Fault(k) \/ EnqueueUnconfirmed(k)
    PROVE  SuccessIsQueued'
<1> SUFFICES ASSUME NEW j \in Calls, NEW c \in call'[j].succeeded,
                    NEW s, s = <<call'[j].request, c>>
             PROVE  s \in lost' \/ (orderedAt'[s] # Never /\ added'[s] > 0)
  BY DEF SuccessIsQueued
<1>1. OthersStay(k) /\ call \in Callers /\ lost \subseteq lost'
  BY FourKinds, Typed, LostStays DEF Next
<1>2. ASSUME c \in call[j].succeeded, call'[j].request = call[j].request
      PROVE  s \in lost' \/ (orderedAt'[s] # Never /\ added'[s] > 0)
  <2>1. s \in Slots
    BY <1>1, <1>2, CallFields DEF HasRequest, Slots
  <2> QED
    BY <1>1, <1>2, <2>1, OrderKept DEF SuccessIsQueued
<1>3. CASE j # k
  BY <1>1, <1>2, <1>3 DEF OthersStay
<1>4. CASE j = k /\ ~Leaving(k)
  <2>1. /\ call'[k].succeeded = call[k].succeeded
        /\ call'[k].request = call[k].request \/ call[k].at = "idle"
    BY <1>4, FourKinds DEF Outside, Entering, Inside, SameRequest
  <2> QED
    BY <1>2, <1>4, <2>1 DEF HasRequest
<1>5. CASE j = k /\ Leaving(k)
  <2>1. call'[k].request = call[k].request /\ call[k].at \in Locked
    BY <1>5 DEF Leaving
  <2>2. CASE c \in call[k].succeeded
    BY <1>2, <1>5, <2>1, <2>2
  <2>3. CASE c \notin call[k].succeeded
    <3>1. s = SlotOf(k) /\ s \in Slots /\ (FindDuplicate(k) \/ Enqueue(k))
      BY <1>5, <2>1, <2>3, LeavingSucceeds, SlotKnown DEF SlotOf
    <3>2. CASE FindDuplicate(k)
      <4>1. ~Reserving(k) /\ Reserved(s)
        BY <3>1, <3>2 DEF FindDuplicate, Reserving
      <4>2. Queued(s) \/ s \in lost
        BY <2>1, <3>1, <4>1, PendingOwn DEF ReservedIsQueued
      <4> QED
        BY <1>1, <3>1, <4>2, OrderKept DEF Queued
    <3>3. CASE Enqueue(k)
      <4>1. orderedAt[s] # Never /\ AddJob(s)
        BY <3>1, <3>3 DEF Enqueue, ReservedIsQueued
      <4>2. added \in [Slots -> Nat] /\ (s \in held => added[s] > 0)
        BY DEF TypeOK, ReservedIsQueued
      <4>3. added'[s] > 0
        BY <3>1, <4>1, <4>2 DEF AddJob
      <4> QED
        BY <3>1, <4>1, <4>3, OrderKept
    <3> QED
      BY <3>1, <3>2, <3>3
  <2> QED
    BY <2>2, <2>3
<1> QED
  BY <1>3, <1>4, <1>5

LEMMA ElsewhereQueued ==
    ASSUME TypeOK, HasRequest, ReservedIsQueued, SuccessIsQueued,
           Elsewhere
    PROVE  ReservedIsQueued' /\ SuccessIsQueued'
<1>1. lost \subseteq lost'
  BY LostStays DEF Next, Elsewhere
<1>2. ASSUME NEW s \in Slots, Pending(s)
      PROVE  Pending(s)' \/ s \in lost'
  <2>1. CASE Crash
    BY <1>2, <2>1 DEF Crash, Pending, Reserving
  <2>2. CASE UNCHANGED call
    BY <1>2, <2>2 DEF Pending, SlotOf
  <2> QED
    BY <2>1, <2>2, ElsewhereCalls
<1>3. \A k \in Calls : call'[k] = call[k] \/ call'[k].succeeded = {}
  BY ElsewhereCalls
<1>4. /\ held' \subseteq held /\ added' = added /\ orderedAt' = orderedAt
      /\ \A s \in Slots : Reserved(s)' => Reserved(s)
  BY DEF Elsewhere, CreateTradeRequest, RemoveJob, CleanupExpiredKeys, Tick,
         Crash, vars, Reserved
<1>5. ReservedIsQueued'
  <2>1. \A s \in held' : added'[s] > 0
    BY <1>4 DEF ReservedIsQueued
  <2>2. ASSUME NEW k \in Calls, call'[k].at = "enqueue"
        PROVE  orderedAt'[SlotOf(k)'] # Never
    <3>1. call'[k] = call[k]
      BY <2>2, ElsewhereCalls
    <3> QED
      BY <1>4, <2>2, <3>1 DEF ReservedIsQueued, SlotOf
  <2>3. ASSUME NEW s \in Slots, Reserved(s)'
        PROVE  Queued(s)' \/ Pending(s)' \/ s \in lost'
    <3>1. Queued(s) \/ Pending(s) \/ s \in lost
      BY <1>4, <2>3 DEF ReservedIsQueued
    <3> QED
      BY <1>1, <1>2, <1>4, <3>1 DEF Queued
  <2> QED
    BY <2>1, <2>2, <2>3 DEF ReservedIsQueued
<1>6. SuccessIsQueued'
  BY <1>1, <1>3, <1>4 DEF SuccessIsQueued
<1> QED
  BY <1>5, <1>6

-----------------------------------------------------------------------------
(* The invariant. *)

LEMMA InitIInv == Init => IInv
<1> SUFFICES ASSUME Init
             PROVE  IInv
  OBVIOUS
<1>1. Fresh \in CallType
  BY DEF Fresh, CallType, Steps, Locked
<1>2. TypeOK
  BY <1>1 DEF Init, TypeOK, Times, Never
<1>3. /\ \A k \in Calls : /\ call[k].at = "idle" /\ call[k].succeeded = {}
                           /\ call[k].since = 0
      /\ \A c \in Accounts : OrdersOf(c) = {}
  <2>1. \A k \in Calls : call[k] = Fresh
    BY DEF Init
  <2>2. \A q \in Requests : \A c \in Accounts : orderedAt[<<q, c>>] = Never
    BY DEF Init, Slots
  <2> QED
    BY <2>1, <2>2 DEF Fresh, OrdersOf
<1>4. LockKept /\ HasRequest /\ BelowLimit /\ AllCounted
  BY <1>3 DEF LockKept, HasRequest, BelowLimit, AllCounted, Locked, Counted
<1>5. TimesPassed
  BY <1>3 DEF Init, TimesPassed, Slots, Never
<1>6. OrdersWithinRate
  BY <1>3 DEF OrdersWithinRate
<1>7. OncePerLife
  <2> SUFFICES ASSUME NEW s \in Slots
               PROVE  ~Reserved(s) /\ Lives(Due(s)) <= clock
    BY DEF OncePerLife
  <2>1. ~Pending(s)
    BY <1>3 DEF Pending
  <2>2. Due(s) = 0 /\ clock = 0 /\ ~Reserved(s)
    BY <2>1 DEF Due, Init, Reserved
  <2>3. Lives(0) = 0
    BY DEF Lives
  <2> QED
    BY <2>2, <2>3
<1>8. ReservedIsQueued /\ SuccessIsQueued
  BY <1>3 DEF ReservedIsQueued, SuccessIsQueued, Init, Reserved
<1> QED
  BY <1>2, <1>4, <1>5, <1>6, <1>7, <1>8 DEF IInv

LEMMA NextIInv == IInv /\ [Next]_vars => IInv'
<1> SUFFICES ASSUME IInv, [Next]_vars
             PROVE  IInv'
  OBVIOUS
<1>1. /\ TypeOK /\ LockKept /\ HasRequest /\ TimesPassed /\ BelowLimit
      /\ AllCounted /\ OrdersWithinRate /\ OncePerLife
      /\ ReservedIsQueued /\ SuccessIsQueued
  BY DEF IInv
<1>2. ASSUME NEW k \in Calls, CallStep(k) \/ Fault(k) \/ EnqueueUnconfirmed(k)
      PROVE  IInv'
  <2>1. TypeOK'
    <3>1. call' \in Callers /\ lock' \in Locks
      BY <1>1, <1>2, CallTypeStep
    <3>2. /\ createdAt' = createdAt /\ clock' = clock
          /\ orderedAt' \in [Slots -> Times] /\ expiresAt' \in [Slots -> Times]
          /\ held' \subseteq Slots /\ added' \in [Slots -> Nat]
          /\ lost' \subseteq Slots
          /\ budget' \in [faults: Nat, crashes: Nat]
      BY <1>1, <1>2, TablesTypeStep
    <3> QED
      BY <1>1, <3>1, <3>2 DEF TypeOK, Callers, Locks
  <2>2. LockKept' /\ HasRequest' /\ TimesPassed'
    BY <1>1, <1>2, CallLockStep, CallRequestStep, CallTimesStep
  <2>3. BelowLimit' /\ AllCounted' /\ OrdersWithinRate'
    BY <1>1, <1>2, CallBelowStep, CallAllCountedStep, CallRateStep
  <2>4. OncePerLife'
    BY <1>1, <1>2, CallLifeStep
  <2>5. ReservedIsQueued' /\ SuccessIsQueued'
    BY <1>1, <1>2, CallReservedStep, CallSuccessStep
  <2> QED
    BY <2>1, <2>2, <2>3, <2>4, <2>5 DEF IInv
<1>3. CASE Elsewhere
  <2>1. TypeOK' /\ LockKept' /\ HasRequest' /\ TimesPassed' /\ AllCounted'
    BY <1>1, <1>3, ElsewhereTypes, ElsewhereStructure
  <2>2. BelowLimit' /\ OrdersWithinRate'
    BY <1>1, <1>3, ElsewhereRates
  <2>3. OncePerLife'
    BY <1>1, <1>3, ElsewhereLife
  <2>4. ReservedIsQueued' /\ SuccessIsQueued'
    BY <1>1, <1>3, ElsewhereQueued
  <2> QED
    BY <2>1, <2>2, <2>3, <2>4 DEF IInv
<1> QED
  BY <1>2, <1>3 DEF Next, Elsewhere

LEMMA IInvHolds == Spec => []IInv
BY InitIInv, NextIInv, PTL DEF Spec

-----------------------------------------------------------------------------

(* The state of every call, table, lock and queue is of its type in every   *)
(* execution of copyTrade, its retries and its failures.                    *)
THEOREM TypeCorrect == Spec => []TypeOK
<1>1. IInv => TypeOK
  BY DEF IInv
<1> QED
  BY <1>1, IInvHolds, PTL

(* However many calls copy trades at once, no window ends with more orders  *)
(* of an account than its limit, the trades being counted in one statement  *)
(* and the order inserted several later (rateLimit.ts:4).                   *)
THEOREM OrdersWithinRateHolds == Spec => []OrdersWithinRate
<1>1. IInv => OrdersWithinRate
  BY DEF IInv
<1> QED
  BY <1>1, IInvHolds, PTL

(* An order is queued for the nth time when n - 1 reservations of it have   *)
(* expired, whatever fails and however often the call is repeated           *)
(* (engineHardened.ts:10).                                                  *)
THEOREM QueuedOncePerLifeHolds == Spec => []QueuedOncePerLife
<1>1. IInv => QueuedOncePerLife
  <2> SUFFICES ASSUME IInv, NEW s \in Slots
               PROVE  Lives(added[s] - 1) <= clock
    BY DEF QueuedOncePerLife, Lives
  <2>1. /\ added[s] \in Nat /\ clock \in Nat /\ expiresAt[s] \in Int
        /\ expiresAt[s] <= clock + KeyLife
        /\ IF Reserved(s) THEN Lives(Due(s) - 1) <= expiresAt[s] - KeyLife
                          ELSE Lives(Due(s)) <= clock
    BY DEF IInv, TypeOK, Times, Never, TimesPassed, OncePerLife
  <2>2. /\ Lives(added[s]) \in Int /\ Lives(added[s] + 1) \in Int
        /\ Lives(added[s] - 1) \in Int /\ (added[s] + 1) - 1 = added[s]
        /\ Lives(added[s] - 1) <= Lives(added[s])
        /\ Lives(added[s]) <= Lives(added[s] + 1)
    BY <2>1, LivesNext, LivesGrow
  <2>3. Due(s) = added[s] \/ Due(s) = added[s] + 1
    BY DEF Due
  <2> QED
    BY <2>1, <2>2, <2>3
<1> QED
  BY <1>1, IInvHolds, PTL

(* An account that copyTrade reports as a success has its order and the     *)
(* order its job, unless a call failed between that order's reservation and *)
(* its job (engineHardened.ts:63).                                          *)
THEOREM SuccessIsQueuedHolds == Spec => []SuccessIsQueued
<1>1. IInv => SuccessIsQueued
  BY DEF IInv
<1> QED
  BY <1>1, IInvHolds, PTL
=============================================================================
