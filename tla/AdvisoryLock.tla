----------------------------- MODULE AdvisoryLock -----------------------------
(***************************************************************************)
(* withLock and withMultiLock (services/lock.ts) inside withTransaction     *)
(* (db/index.ts): a call takes a connection from the pool, acquires its     *)
(* PostgreSQL advisory locks in the order of their ids, runs the callback,  *)
(* releases them and gives the connection back.  The locks belong to the    *)
(* database session, that is to the pooled connection, not to the           *)
(* transaction: neither COMMIT nor ROLLBACK releases them.  A session may   *)
(* acquire a lock it holds again, and must then release it as often.        *)
(***************************************************************************)
EXTENDS Integers, FiniteSets

CONSTANTS
    Callers,          \* concurrent calls
    Sessions,         \* connections of the pool (20)
    Locks,            \* lock ids, what generateLockId makes of the resources
    Wanted,           \* the ids each caller asks for; withLock asks for one
    None,
    Timed,            \* the callers that ask for a timeout
    MaxErrors,        \* bound: statements that fail on a living session
    MaxDeaths,        \* bound: connections that are lost
    MaxTimed          \* bound: calls with a timeout

ASSUME AdvisoryLockAssumption ==
    /\ Locks \subseteq Nat
    /\ Wanted \in [Callers -> SUBSET Locks]
    /\ None \notin Callers \cup Sessions
    /\ Timed \subseteq Callers
    /\ {MaxErrors, MaxDeaths, MaxTimed} \subseteq Nat

VARIABLES
    caller,   \* where each call is, its connection and the locks it has got
    session,  \* of each connection: "fine", "aborted" (transaction), "gone"
    holds,    \* how often each session holds each lock
    budget

lockVars == <<caller, session, holds, budget>>

CallerSteps == {"idle", "connect", "acquire", "setTimeout", "callback",
                "release", "end"}

CallerType ==
    [at: CallerSteps, session: Sessions \cup {None}, got: SUBSET Locks]

BudgetType == [faults: 0..MaxErrors, deaths: 0..MaxDeaths, timed: 0..MaxTimed]

LockTypeOK ==
    /\ caller \in [Callers -> CallerType]
    /\ session \in [Sessions -> {"fine", "aborted", "gone"}]
    /\ holds \in [Sessions -> [Locks -> Nat]]
    /\ budget \in BudgetType

NoCall == [at |-> "idle", session |-> None, got |-> {}]

LockInit ==
    /\ caller = [c \in Callers |-> NoCall]
    /\ session = [s \in Sessions |-> "fine"]
    /\ holds = [s \in Sessions |-> [l \in Locks |-> 0]]
    /\ budget = [faults |-> MaxErrors, deaths |-> MaxDeaths, timed |-> MaxTimed]

SessionOf(c) == caller[c].session

CheckedOut(s) == \E c \in Callers : SessionOf(c) = s

MoveTo(c, step) == caller' = [caller EXCEPT ![c].at = step]

Spend(what) ==
    /\ budget[what] > 0
    /\ budget' = [budget EXCEPT ![what] = @ - 1]

-----------------------------------------------------------------------------
Call(c) ==
    /\ caller[c].at = "idle"
    /\ MoveTo(c, "connect")
    /\ IF c \in Timed THEN Spend("timed") ELSE UNCHANGED budget
    /\ UNCHANGED <<session, holds>>

(* pool.connect and BEGIN, ... *)
Connect(c) ==
    /\ caller[c].at = "connect"
    /\ \E s \in Sessions :
          /\ ~CheckedOut(s)
          /\ caller' = [caller EXCEPT ![c] = [at |-> "acquire", session |-> s,
                                          got |-> {}]]
    /\ UNCHANGED <<session, holds, budget>>

(* ... or, with every connection taken, connectionTimeoutMillis passes.     *)
ConnectTimesOut(c) ==
    /\ caller[c].at = "connect"
    /\ \A s \in Sessions : CheckedOut(s)
    /\ caller' = [caller EXCEPT ![c] = NoCall]
    /\ UNCHANGED <<session, holds, budget>>

(* Plausible bug: the locks are not sorted. *)
NextLockUnsorted(c, l) == l \in Wanted[c] \ caller[c].got

(* The least lock id the call has still to get. *)
NextLock(c, l) ==
    /\ l \in Wanted[c] \ caller[c].got
    /\ \A m \in Wanted[c] \ caller[c].got : l <= m

(* Plausible bug: the result of pg_try_advisory_lock is not looked at. *)
GrantsUnchecked(s, l) == session[s] = "fine"

(* pg_advisory_lock returns when no other session holds the lock. *)
Grants(s, l) ==
    /\ session[s] = "fine"
    /\ \A t \in Sessions \ {s} : holds[t][l] = 0

Acquire(c) ==
    /\ caller[c].at = "acquire"
    /\ \E l \in Locks :
          /\ NextLock(c, l)
          /\ Grants(SessionOf(c), l)
          /\ caller' = [caller EXCEPT ![c].got = @ \cup {l}]
          /\ holds' = [holds EXCEPT ![SessionOf(c)][l] = @ + 1]
    /\ UNCHANGED <<session, budget>>

AllAcquired(c) ==
    /\ caller[c].at = "acquire"
    /\ Wanted[c] \subseteq caller[c].got
    /\ MoveTo(c, "setTimeout")
    /\ UNCHANGED <<session, holds, budget>>

(* acquireLock returns false, and the call throws before its try block: the *)
(* locks it has got are not released.                                       *)
AcquireLost(c) ==
    /\ caller[c].at = "acquire"
    /\ session[SessionOf(c)] = "gone"
    /\ MoveTo(c, "end")
    /\ UNCHANGED <<session, holds, budget>>

AcquireFails(c) ==
    /\ caller[c].at = "acquire"
    /\ session[SessionOf(c)] = "fine"
    /\ session' = [session EXCEPT ![SessionOf(c)] = "aborted"]
    /\ MoveTo(c, "end")
    /\ Spend("faults")
    /\ UNCHANGED holds

(* With a timeout, SET LOCAL statement_timeout = $1: PostgreSQL takes no     *)
(* parameter in it, and the failure aborts the transaction.                 *)
SetTimeout(c) ==
    /\ caller[c].at = "setTimeout"
    /\ \/ /\ c \notin Timed
          /\ MoveTo(c, "callback")
          /\ UNCHANGED session
       \/ /\ c \in Timed
          /\ session[SessionOf(c)] = "fine"
          /\ MoveTo(c, "release")
          /\ session' = [session EXCEPT ![SessionOf(c)] = "aborted"]
       \/ /\ c \in Timed
          /\ session[SessionOf(c)] = "gone"
          /\ MoveTo(c, "release")
          /\ UNCHANGED session
    /\ UNCHANGED <<holds, budget>>

(* fn(client) returns or throws.  No callback uses the client it is given,  *)
(* so none notices that the connection is gone.                             *)
Callback(c) ==
    /\ caller[c].at = "callback"
    /\ MoveTo(c, "release")
    /\ UNCHANGED <<session, holds, budget>>

(* The finally block: the locks are released one by one, the greatest id    *)
(* first; in an aborted transaction, or without a connection, the unlock    *)
(* fails and releaseLock logs it.                                           *)
Release(c) ==
    /\ caller[c].at = "release"
    /\ \E l \in caller[c].got :
          /\ \A m \in caller[c].got : m <= l
          /\ caller' = [caller EXCEPT ![c].got = @ \ {l}]
          /\ \/ /\ session[SessionOf(c)] = "fine"
                /\ holds' = [holds EXCEPT ![SessionOf(c)][l] = @ - 1]
             \/ /\ session[SessionOf(c)] # "fine"
                /\ UNCHANGED holds
    /\ UNCHANGED <<session, budget>>

ReleaseFails(c) ==
    /\ caller[c].at = "release"
    /\ caller[c].got # {}
    /\ session[SessionOf(c)] = "fine"
    /\ session' = [session EXCEPT ![SessionOf(c)] = "aborted"]
    /\ Spend("faults")
    /\ UNCHANGED <<caller, holds>>

(* Plausible bug: the last lock acquired is not released. *)
AllReleasedButOne(c) ==
    /\ caller[c].at = "release"
    /\ Cardinality(caller[c].got) <= 1
    /\ MoveTo(c, "end")
    /\ UNCHANGED <<session, holds, budget>>

AllReleased(c) ==
    /\ caller[c].at = "release"
    /\ caller[c].got = {}
    /\ MoveTo(c, "end")
    /\ UNCHANGED <<session, holds, budget>>

(* COMMIT or ROLLBACK, then client.release(): the pool replaces a           *)
(* connection that is gone.                                                 *)
End(c) ==
    /\ caller[c].at = "end"
    /\ session' = [session EXCEPT ![SessionOf(c)] = "fine"]
    /\ caller' = [caller EXCEPT ![c] = NoCall]
    /\ UNCHANGED <<holds, budget>>

(* A connection is lost: PostgreSQL ends the session and frees its locks.   *)
(* An idle connection is replaced.                                          *)
Die(s) ==
    /\ session[s] # "gone"
    /\ session' = [session EXCEPT ![s] = IF CheckedOut(s) THEN "gone" ELSE @]
    /\ holds' = [holds EXCEPT ![s] = [l \in Locks |-> 0]]
    /\ Spend("deaths")
    /\ UNCHANGED caller

Step(c) ==
    \/ Connect(c) \/ ConnectTimesOut(c) \/ AllAcquired(c) \/ AcquireLost(c)
    \/ SetTimeout(c) \/ Callback(c) \/ Release(c) \/ AllReleased(c) \/ End(c)

LockNext ==
    \/ \E c \in Callers : \/ Call(c) \/ Step(c) \/ Acquire(c)
                          \/ AcquireFails(c) \/ ReleaseFails(c)
    \/ \E s \in Sessions : Die(s)

LockSpec == LockInit /\ [][LockNext]_lockVars

-----------------------------------------------------------------------------
(* Properties. *)

(* Two callbacks never run at once under a common lock, whatever fails or   *)
(* leaks around them (services/lock.ts:248, "Lock an account for exclusive  *)
(* access during trade processing").  A call whose connection is lost has   *)
(* lost its locks and does not notice: it alone is excepted.                *)
Exclusive ==
    \A c, d \in Callers :
        /\ c # d
        /\ \A e \in {c, d} : /\ caller[e].at = "callback"
                             /\ session[SessionOf(e)] # "gone"
        => Wanted[c] \cap Wanted[d] = {}

(* A connection that is back in the pool holds no lock (lock.ts:98,         *)
(* "Automatically acquires and releases the lock around the callback").     *)
NoLeak ==
    \A s \in Sessions : CheckedOut(s) \/ \A l \in Locks : holds[s][l] = 0
=============================================================================
