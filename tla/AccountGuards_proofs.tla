------------------------- MODULE AccountGuards_proofs -------------------------
(***************************************************************************)
(* Proofs about the two services that guard an account: the circuit breaker *)
(* (CircuitBreaker) and the advisory locks (AdvisoryLock, LockHistory).     *)
(***************************************************************************)
EXTENDS MCCircuitBreaker, LockHistory, FiniteSetTheorems, TLAPS

(***************************************************************************)
(* The breaker never opens early, for any number of concurrent runs, any    *)
(* thresholds and any interleaving of reads, writes, failures and operator. *)
(*                                                                         *)
(* Lost updates make the counter too small, and a stale count written back  *)
(* can make it larger than it just was, so "count <= failures" alone is not *)
(* inductive.  What is: the count in the row, and every count that a call   *)
(* holds, together with the number of calls still under way, is covered by  *)
(* the calls that were ever made (Covered).                                 *)
(*                                                                         *)
(* The second half is about runs that do not overlap: a run that is alone   *)
(* finds the row as it read it (Remembers), so that what it writes is an    *)
(* edge of the diagram.                                                     *)
(***************************************************************************)

(* Calls of recordFailure that have not yet written the row. *)
UnderWay == {w \in Workers : call[w].at \in FailureSteps}

(* Steps of a run that has seen the circuit open or half open. *)
PastOpening == {"failWhileOpen", "okOpen", "okHalfOpens", "okCounts", "okCloses"}

Covered ==
    failures < MaxFailures =>
        /\ breaker.count + Cardinality(UnderWay) <= failures
        /\ \A w \in UnderWay : call[w].at # "failRead" =>
              call[w].seen + Cardinality(UnderWay) <= failures

ReachedThreshold ==
    /\ breaker.state # "closed" => failures >= FailureThreshold
    /\ \A w \in Workers :
          /\ call[w].at \in PastOpening => failures >= FailureThreshold
          /\ call[w].at = "failOpens" => call[w].seen + 1 >= FailureThreshold

IInv == TypeOK /\ Covered /\ ReachedThreshold

CallType == [at: Steps, seen: Nat]

-----------------------------------------------------------------------------
(* Only the call of w changed, and it is now at step. *)
Moved(w, step) ==
    /\ call'[w].at = step
    /\ \A v \in Workers : v # w => call'[v] = call[v]

LEMMA GoToMoves ==
    ASSUME call \in [Workers -> CallType], NEW w \in Workers,
           NEW step \in Steps, GoTo(w, step)
    PROVE  /\ call' \in [Workers -> CallType]
           /\ Moved(w, step)
           /\ call'[w].seen = call[w].seen
BY DEF GoTo, Moved, CallType

LEMMA RememberMoves ==
    ASSUME call \in [Workers -> CallType], NEW w \in Workers,
           NEW step \in Steps, NEW n \in Nat, Remember(w, step, n)
    PROVE  /\ call' \in [Workers -> CallType]
           /\ Moved(w, step)
           /\ call'[w].seen = n
BY DEF Remember, Moved, CallType

LEMMA ReturnMoves ==
    ASSUME call \in [Workers -> CallType], NEW w \in Workers, Return(w)
    PROVE  /\ call' \in [Workers -> CallType]
           /\ Moved(w, "idle")
<1>1. "idle" \in Steps
  BY DEF Steps
<1> QED
  BY <1>1 DEF Return, Moved, CallType, Idle

LEMMA UnderWayFinite ==
    /\ IsFiniteSet(UnderWay)
    /\ Cardinality(UnderWay) \in Nat
BY CircuitBreakerAssumption, FS_Subset, FS_CardinalityType DEF UnderWay

(* A call that begins or writes the row changes their number by one. *)
LEMMA UnderWayGrows ==
    ASSUME NEW w \in Workers, NEW step \in FailureSteps,
           call[w].at \notin FailureSteps, Moved(w, step)
    PROVE  /\ UnderWay' = UnderWay \cup {w}
           /\ Cardinality(UnderWay') = Cardinality(UnderWay) + 1
<1>1. UnderWay' = UnderWay \cup {w} /\ w \notin UnderWay
  BY DEF UnderWay, Moved
<1> QED
  BY <1>1, UnderWayFinite, FS_AddElement

LEMMA UnderWayShrinks ==
    ASSUME NEW w \in Workers, NEW step, step \notin FailureSteps,
           call[w].at \in FailureSteps, Moved(w, step)
    PROVE  /\ UnderWay' = UnderWay \ {w}
           /\ Cardinality(UnderWay') = Cardinality(UnderWay) - 1
<1>1. UnderWay' = UnderWay \ {w} /\ w \in UnderWay
  BY DEF UnderWay, Moved
<1> QED
  BY <1>1, UnderWayFinite, FS_RemoveElement

LEMMA UnderWayStays ==
    ASSUME NEW w \in Workers, NEW step, Moved(w, step),
           call[w].at \in FailureSteps <=> step \in FailureSteps
    PROVE  UnderWay' = UnderWay
BY DEF UnderWay, Moved

-----------------------------------------------------------------------------
(* How a step of one run keeps the two invariants. *)

LEMMA UpBounds ==
    ASSUME NEW n \in Nat
    PROVE  /\ Up(n) \in Nat /\ n <= Up(n) /\ Up(n) <= n + 1
           /\ n < MaxFailures => Up(n) = n + 1
           /\ n <= MaxFailures => Up(n) <= MaxFailures
BY CircuitBreakerAssumption DEF Up

(* Steps outside recordFailure do not raise the count. *)
LEMMA CoveredOutside ==
    ASSUME TypeOK, Covered, NEW w \in Workers, NEW step, Moved(w, step),
           call[w].at \notin FailureSteps, step \notin FailureSteps,
           failures' = failures,
           breaker'.count \in Nat, breaker'.count <= breaker.count
    PROVE  Covered'
<1>1. UnderWay' = UnderWay
  BY UnderWayStays
<1>2. \A v \in UnderWay : call'[v] = call[v]
  BY DEF UnderWay, Moved
<1>3. breaker.count \in Nat /\ Cardinality(UnderWay) \in Nat
  BY UnderWayFinite DEF TypeOK, BreakerType
<1> QED
  BY <1>1, <1>2, <1>3 DEF Covered, TypeOK

LEMMA CoveredBegin ==
    ASSUME TypeOK, Covered, NEW w \in Workers, Moved(w, "failRead"),
           call[w].at \notin FailureSteps,
           failures' = Up(failures), breaker' = breaker
    PROVE  Covered'
<1>1. /\ UnderWay' = UnderWay \cup {w}
      /\ Cardinality(UnderWay') = Cardinality(UnderWay) + 1
  BY UnderWayGrows DEF FailureSteps
<1>2. \A v \in UnderWay : call'[v] = call[v]
  BY DEF UnderWay, Moved
<1>3. /\ breaker.count \in Nat /\ Cardinality(UnderWay) \in Nat
      /\ failures \in Nat /\ MaxFailures \in Nat
  BY UnderWayFinite, CircuitBreakerAssumption DEF TypeOK, BreakerType
<1>4. \A v \in UnderWay : call[v].seen \in Nat
  BY DEF UnderWay, TypeOK
<1> SUFFICES ASSUME failures' < MaxFailures
             PROVE  /\ breaker'.count + Cardinality(UnderWay') <= failures'
                    /\ \A v \in UnderWay' : call'[v].at # "failRead" =>
                          call'[v].seen + Cardinality(UnderWay') <= failures'
  BY DEF Covered
<1>5. failures < MaxFailures /\ failures' = failures + 1
  BY <1>3 DEF Up
<1>6. breaker'.count + Cardinality(UnderWay') <= failures'
  BY <1>1, <1>3, <1>5 DEF Covered
<1>7. ASSUME NEW v \in UnderWay', call'[v].at # "failRead"
      PROVE  call'[v].seen + Cardinality(UnderWay') <= failures'
  <2>1. v \in UnderWay
    BY <1>1, <1>7 DEF Moved
  <2>2. call[v].seen + Cardinality(UnderWay) <= failures
    BY <1>2, <1>5, <1>7, <2>1 DEF Covered
  <2> QED
    BY <1>1, <1>2, <1>3, <1>4, <1>5, <2>1, <2>2
<1> QED
  BY <1>6, <1>7

LEMMA CoveredRead ==
    ASSUME TypeOK, Covered, NEW w \in Workers, NEW step \in FailureSteps,
           Moved(w, step), call[w].at \in FailureSteps,
           call'[w].seen = breaker.count,
           failures' = failures, breaker' = breaker
    PROVE  Covered'
<1>1. UnderWay' = UnderWay
  BY UnderWayStays
<1>2. \A v \in UnderWay : v = w \/ call'[v] = call[v]
  BY DEF UnderWay, Moved
<1> QED
  BY <1>1, <1>2 DEF Covered

(* A call that writes the row, or ends without doing so. *)
LEMMA CoveredWrite ==
    ASSUME TypeOK, Covered, NEW w \in Workers, NEW step, Moved(w, step),
           call[w].at \in FailureSteps, step \notin FailureSteps,
           failures' = failures, breaker'.count \in Nat,
           \/ breaker'.count <= breaker.count + 1
           \/ call[w].at # "failRead" /\ breaker'.count <= call[w].seen + 1
    PROVE  Covered'
<1>1. /\ UnderWay' = UnderWay \ {w}
      /\ Cardinality(UnderWay') = Cardinality(UnderWay) - 1
  BY UnderWayShrinks
<1>2. w \in UnderWay /\ \A v \in UnderWay' : v \in UnderWay /\ call'[v] = call[v]
  BY <1>1 DEF UnderWay, Moved
<1>3. /\ breaker.count \in Nat /\ Cardinality(UnderWay) \in Nat
      /\ failures \in Nat /\ MaxFailures \in Nat
  BY UnderWayFinite, CircuitBreakerAssumption DEF TypeOK, BreakerType
<1>4. \A v \in Workers : call[v].seen \in Nat
  BY DEF TypeOK
<1>5. \A v \in UnderWay : call[v].seen \in Nat
  BY <1>4 DEF UnderWay
<1> SUFFICES ASSUME failures < MaxFailures
             PROVE  /\ breaker'.count + Cardinality(UnderWay') <= failures
                    /\ \A v \in UnderWay' : call'[v].at # "failRead" =>
                          call'[v].seen + Cardinality(UnderWay') <= failures
  BY DEF Covered
<1>6. breaker.count + Cardinality(UnderWay) <= failures
  BY DEF Covered
<1>7. \A v \in UnderWay : call[v].at # "failRead" =>
                             call[v].seen + Cardinality(UnderWay) <= failures
  BY DEF Covered
<1>8. breaker'.count + Cardinality(UnderWay') <= failures
  BY <1>1, <1>2, <1>3, <1>5, <1>6, <1>7
<1>9. ASSUME NEW v \in UnderWay', call'[v].at # "failRead"
      PROVE  call'[v].seen + Cardinality(UnderWay') <= failures
  BY <1>1, <1>2, <1>3, <1>5, <1>7, <1>9
<1> QED
  BY <1>8, <1>9

LEMMA ReachedKept ==
    ASSUME TypeOK, ReachedThreshold, NEW w \in Workers, NEW step, Moved(w, step),
           failures' \in Nat, failures <= failures',
           breaker'.state # "closed" => failures' >= FailureThreshold,
           step \in PastOpening => failures' >= FailureThreshold,
           step = "failOpens" => call'[w].seen + 1 >= FailureThreshold
    PROVE  ReachedThreshold'
<1>1. failures \in Nat /\ FailureThreshold \in Nat
  BY CircuitBreakerAssumption DEF TypeOK
<1> SUFFICES ASSUME NEW v \in Workers
             PROVE  /\ call'[v].at \in PastOpening => failures' >= FailureThreshold
                    /\ call'[v].at = "failOpens" => call'[v].seen + 1 >= FailureThreshold
  BY DEF ReachedThreshold, PastOpening
<1>2. CASE v = w
  BY <1>2 DEF Moved
<1>3. CASE v # w
  <2>1. call'[v] = call[v]
    BY <1>3 DEF Moved
  <2> QED
    BY <1>1, <2>1 DEF ReachedThreshold
<1> QED
  BY <1>2, <1>3

Calls == [Workers -> CallType]

LEMMA TypeParts ==
    ASSUME TypeOK
    PROVE  /\ breaker \in BreakerType /\ disabled \in BOOLEAN /\ call \in Calls
           /\ breaker.count \in Nat /\ breaker.attempts \in Nat
           /\ failures \in Nat /\ failures <= MaxFailures
           /\ manual \in Nat /\ faults \in Nat
           /\ FailureThreshold \in Nat /\ MaxFailures \in Nat
BY CircuitBreakerAssumption DEF TypeOK, BreakerType, Calls, CallType

LEMMA StepNames ==
    /\ FailureSteps \subseteq Steps
    /\ {"idle", "trading", "canTrade", "canTradeRow", "reload", "failDisables",
        "okRead", "okOpen", "okHalfOpens", "okCounts", "okCloses", "okEnables",
        "failRead", "failWhileOpen", "failOpens", "failCounts"} \subseteq Steps
BY DEF Steps, FailureSteps

(* A step outside recordFailure. *)
LEMMA OutsideStep ==
    ASSUME IInv, NEW w \in Workers, NEW step,
           call' \in Calls, Moved(w, step),
           call[w].at \notin FailureSteps, step \notin FailureSteps,
           failures' = failures, manual' \in Nat, faults' \in Nat,
           breaker' \in BreakerType, disabled' \in BOOLEAN,
           breaker'.count <= breaker.count,
           breaker'.state # "closed" => breaker.state # "closed"
                                        \/ call[w].at \in PastOpening,
           step \in PastOpening => breaker.state # "closed"
                                   \/ call[w].at \in PastOpening
    PROVE  IInv'
<1>1. TypeOK /\ Covered /\ ReachedThreshold
  BY DEF IInv
<1>2. TypeOK'
  BY <1>1 DEF TypeOK, Calls, CallType
<1>3. Covered'
  BY <1>1, <1>2, CoveredOutside DEF TypeOK, BreakerType
<1>4. /\ breaker.state # "closed" => failures >= FailureThreshold
      /\ call[w].at \in PastOpening => failures >= FailureThreshold
  BY <1>1 DEF ReachedThreshold
<1>5. step # "failOpens"
  BY DEF FailureSteps
<1>6. failures \in Nat
  BY <1>1, TypeParts
<1>7. ReachedThreshold'
  BY <1>1, <1>4, <1>5, <1>6, ReachedKept
<1> QED
  BY <1>2, <1>3, <1>7 DEF IInv

(* recordFailure is called. *)
LEMMA CallsFailureStep ==
    ASSUME IInv, NEW w \in Workers, CallsFailure(w),
           call[w].at \notin FailureSteps,
           UNCHANGED <<breaker, disabled, manual, faults>>
    PROVE  IInv'
<1>1. TypeOK /\ Covered /\ ReachedThreshold
  BY DEF IInv
<1>2. /\ call \in Calls /\ failures \in Nat /\ failures <= MaxFailures
      /\ MaxFailures \in Nat
  BY <1>1, TypeParts
<1>3. "failRead" \in Steps
  BY DEF Steps, FailureSteps
<1>4. call' \in Calls /\ Moved(w, "failRead")
  BY <1>2, <1>3, GoToMoves DEF CallsFailure, Calls
<1>5. failures' = Up(failures)
  BY DEF CallsFailure
<1>6. /\ failures' \in Nat /\ failures <= failures' /\ failures' <= MaxFailures
      /\ failures' \in 0..MaxFailures
  BY <1>2, <1>5, UpBounds
<1>7. TypeOK'
  BY <1>1, <1>4, <1>6 DEF TypeOK, Calls, CallType
<1>8. Covered'
  BY <1>1, <1>4, <1>5, CoveredBegin
<1>9. breaker'.state # "closed" => failures' >= FailureThreshold
  BY <1>1, <1>2, <1>6, CircuitBreakerAssumption DEF ReachedThreshold
<1>10. ReachedThreshold'
  BY <1>1, <1>4, <1>6, <1>9, ReachedKept DEF PastOpening
<1> QED
  BY <1>7, <1>8, <1>10 DEF IInv

(* recordFailure writes the row, or ends without doing so. *)
LEMMA WriteStep ==
    ASSUME IInv, NEW w \in Workers, NEW step \in {"idle", "failDisables"},
           call' \in Calls, Moved(w, step), call[w].at \in FailureSteps,
           failures' = failures, manual' \in Nat, faults' \in Nat,
           breaker' \in BreakerType, disabled' \in BOOLEAN,
           \/ breaker'.count <= breaker.count + 1
           \/ call[w].at # "failRead" /\ breaker'.count <= call[w].seen + 1,
           breaker'.state # "closed" => failures >= FailureThreshold
    PROVE  IInv'
<1>1. TypeOK /\ Covered /\ ReachedThreshold
  BY DEF IInv
<1>2. TypeOK'
  BY <1>1 DEF TypeOK, Calls, CallType
<1>3. step \notin FailureSteps /\ step \notin PastOpening /\ step # "failOpens"
  BY DEF FailureSteps, PastOpening
<1>4. breaker'.count \in Nat /\ failures \in Nat
  BY <1>1, TypeParts DEF BreakerType
<1>5. Covered'
  BY <1>1, <1>3, <1>4, CoveredWrite
<1>6. ReachedThreshold'
  BY <1>1, <1>3, <1>4, ReachedKept
<1> QED
  BY <1>2, <1>5, <1>6 DEF IInv

-----------------------------------------------------------------------------
LEMMA TradingStep ==
    ASSUME IInv, NEW w \in Workers,
           \/ BeginOrder(w) \/ TradeSucceeds(w) \/ TradeFails(w)
           \/ BeginAlert(w) \/ AlertFails(w)
           \/ CanTrade(w) \/ CanTradeRow(w) \/ Reload(w)
    PROVE  IInv'
<1>1. /\ breaker \in BreakerType /\ disabled \in BOOLEAN /\ call \in Calls
      /\ manual \in Nat /\ faults \in Nat /\ breaker.count \in Nat
  BY TypeParts DEF IInv
<1>2. ASSUME call[w].at \in {"idle", "trading", "canTrade", "canTradeRow", "reload"},
             UNCHANGED <<breaker, disabled, failures, manual, faults>>,
             NEW step \in {"idle", "trading", "canTrade", "canTradeRow", "reload",
                           "okRead"},
             GoTo(w, step) \/ (step = "idle" /\ Return(w))
      PROVE  IInv'
  <2>1. step \in Steps /\ step \notin FailureSteps /\ step \notin PastOpening
    BY StepNames DEF FailureSteps, PastOpening
  <2>2. call' \in Calls /\ Moved(w, step)
    BY <1>1, <1>2, <2>1, GoToMoves, ReturnMoves DEF Calls
  <2>3. call[w].at \notin FailureSteps
    BY <1>2 DEF FailureSteps
  <2> QED
    BY <1>1, <1>2, <2>1, <2>2, <2>3, OutsideStep
<1>3. ASSUME call[w].at \in {"idle", "trading", "canTrade", "reload"},
             CallsFailure(w), UNCHANGED <<breaker, disabled, manual, faults>>
      PROVE  IInv'
  BY <1>3, CallsFailureStep DEF FailureSteps
<1>4. CASE BeginOrder(w)
  BY <1>2, <1>3, <1>4 DEF BeginOrder
<1>5. CASE TradeSucceeds(w)
  BY <1>2, <1>5 DEF TradeSucceeds
<1>6. CASE TradeFails(w)
  BY <1>3, <1>6 DEF TradeFails
<1>7. CASE BeginAlert(w)
  BY <1>2, <1>7 DEF BeginAlert
<1>8. CASE AlertFails(w)
  BY <1>3, <1>8 DEF AlertFails
<1>9. CASE CanTrade(w)
  BY <1>2, <1>9 DEF CanTrade
<1>10. CASE CanTradeRow(w)
  BY <1>2, <1>10 DEF CanTradeRow
<1>11. CASE Reload(w)
  BY <1>2, <1>11 DEF Reload
<1> QED
  BY <1>4, <1>5, <1>6, <1>7, <1>8, <1>9, <1>10, <1>11

LEMMA FailureStep ==
    ASSUME IInv, NEW w \in Workers,
           \/ FailureRead(w) \/ FailureWhileOpen(w) \/ FailureOpens(w)
           \/ FailureDisables(w) \/ FailureCounts(w)
    PROVE  IInv'
<1>1. TypeOK /\ Covered /\ ReachedThreshold
  BY DEF IInv
<1>2. /\ breaker \in BreakerType /\ disabled \in BOOLEAN /\ call \in Calls
      /\ breaker.count \in Nat /\ failures \in Nat /\ failures <= MaxFailures
      /\ manual \in Nat /\ faults \in Nat
      /\ FailureThreshold \in Nat /\ MaxFailures \in Nat
  BY <1>1, TypeParts
<1>3. call[w].seen \in Nat
  BY <1>2 DEF Calls, CallType
<1>4. CASE FailureRead(w)
  <2> DEFINE step == IF breaker.state = "open" THEN "failWhileOpen"
                     ELSE IF breaker.count + 1 >= FailureThreshold
                     THEN "failOpens" ELSE "failCounts"
  <2>1. step \in Steps /\ step \in FailureSteps /\ call[w].at \in FailureSteps
    BY <1>4, StepNames DEF FailureRead, FailureSteps
  <2>2. Remember(w, step, breaker.count)
    BY <1>4 DEF FailureRead
  <2>3. /\ step \in PastOpening => breaker.state = "open"
        /\ step = "failOpens" => breaker.count + 1 >= FailureThreshold
    BY DEF PastOpening
  <2> HIDE DEF step
  <2>4. /\ call' \in Calls /\ Moved(w, step)
        /\ call'[w].seen = breaker.count
    BY <1>2, <2>1, <2>2, RememberMoves DEF Calls
  <2>5. UNCHANGED <<breaker, disabled, failures, manual, faults>>
    BY <1>4 DEF FailureRead
  <2>6. TypeOK'
    BY <1>1, <2>4, <2>5 DEF TypeOK, Calls, CallType
  <2>7. Covered'
    BY <1>1, <2>1, <2>4, <2>5, CoveredRead
  <2>8. breaker.state # "closed" => failures >= FailureThreshold
    BY <1>1 DEF ReachedThreshold
  <2>9. ReachedThreshold'
    BY <1>1, <1>2, <2>3, <2>4, <2>5, <2>8, ReachedKept
  <2> QED
    BY <2>6, <2>7, <2>9 DEF IInv
<1>5. CASE FailureWhileOpen(w)
  <2>1. /\ call[w].at \in FailureSteps /\ call[w].at \in PastOpening /\ Return(w)
        /\ breaker' = [breaker EXCEPT !.count = Up(breaker.count)]
        /\ UNCHANGED <<disabled, failures, manual, faults>>
    BY <1>5 DEF FailureWhileOpen, FailureSteps, PastOpening
  <2>2. call' \in Calls /\ Moved(w, "idle")
    BY <1>2, <2>1, ReturnMoves DEF Calls
  <2>3. /\ breaker' \in BreakerType
        /\ breaker'.count = Up(breaker.count) /\ breaker'.state = breaker.state
    BY <1>2, <2>1, UpBounds DEF BreakerType
  <2>4. breaker'.count <= breaker.count + 1
    BY <1>2, <2>3, UpBounds
  <2>5. failures >= FailureThreshold
    BY <1>1, <2>1 DEF ReachedThreshold
  <2> QED
    BY <1>2, <2>1, <2>2, <2>3, <2>4, <2>5, WriteStep
<1>6. CASE FailureOpens(w)
  <2>1. /\ call[w].at = "failOpens" /\ GoTo(w, "failDisables")
        /\ breaker' = [exists |-> TRUE, state |-> "open", attempts |-> 0,
                       count |-> Up(call[w].seen), opened |-> "recent"]
        /\ UNCHANGED <<disabled, failures, manual, faults>>
    BY <1>6 DEF FailureOpens
  <2>2. call[w].at \in FailureSteps /\ w \in UnderWay
    BY <2>1 DEF FailureSteps, UnderWay
  <2>3. "failDisables" \in Steps
    BY StepNames
  <2>4. call' \in Calls /\ Moved(w, "failDisables")
    BY <1>2, <2>1, <2>3, GoToMoves DEF Calls
  <2>5. breaker' \in BreakerType /\ breaker'.count = Up(call[w].seen)
    BY <1>3, <2>1, UpBounds DEF BreakerType, States, OpenedAt
  <2>6. call[w].at # "failRead" /\ breaker'.count <= call[w].seen + 1
    BY <1>3, <2>1, <2>5, UpBounds
  <2>7. failures >= FailureThreshold
    <3>1. call[w].seen + 1 >= FailureThreshold
      BY <1>1, <2>1 DEF ReachedThreshold
    <3>2. Cardinality(UnderWay) \in Nat /\ Cardinality(UnderWay) >= 1
      BY <2>2, UnderWayFinite, FS_EmptySet
    <3>3. failures < MaxFailures => call[w].seen + Cardinality(UnderWay) <= failures
      BY <1>1, <2>1, <2>2 DEF Covered
    <3> QED
      BY <1>2, <1>3, <3>1, <3>2, <3>3, CircuitBreakerAssumption
  <2> QED
    BY <1>2, <2>1, <2>2, <2>4, <2>5, <2>6, <2>7, WriteStep
<1>7. CASE FailureDisables(w)
  <2>1. /\ call[w].at \notin FailureSteps /\ "idle" \notin FailureSteps
        /\ "idle" \notin PastOpening /\ Return(w) /\ disabled' = TRUE
        /\ UNCHANGED <<breaker, failures, manual, faults>>
    BY <1>7 DEF FailureDisables, FailureSteps, PastOpening
  <2>2. call' \in Calls /\ Moved(w, "idle")
    BY <1>2, <2>1, ReturnMoves DEF Calls
  <2> QED
    BY <1>2, <2>1, <2>2, OutsideStep
<1>8. CASE FailureCounts(w)
  <2>1. /\ call[w].at = "failCounts" /\ Return(w)
        /\ breaker' = [breaker EXCEPT !.exists = TRUE, !.count = Up(call[w].seen)]
        /\ UNCHANGED <<disabled, failures, manual, faults>>
    BY <1>8 DEF FailureCounts
  <2>2. call[w].at \in FailureSteps
    BY <2>1 DEF FailureSteps
  <2>3. call' \in Calls /\ Moved(w, "idle")
    BY <1>2, <2>1, ReturnMoves DEF Calls
  <2>4. /\ breaker' \in BreakerType
        /\ breaker'.count = Up(call[w].seen) /\ breaker'.state = breaker.state
    BY <1>2, <1>3, <2>1, UpBounds DEF BreakerType
  <2>5. call[w].at # "failRead" /\ breaker'.count <= call[w].seen + 1
    BY <1>3, <2>1, <2>4, UpBounds
  <2>6. breaker.state # "closed" => failures >= FailureThreshold
    BY <1>1 DEF ReachedThreshold
  <2> QED
    BY <1>2, <2>1, <2>2, <2>3, <2>4, <2>5, <2>6, WriteStep
<1> QED
  BY <1>4, <1>5, <1>6, <1>7, <1>8

LEMMA SuccessStep ==
    ASSUME IInv, NEW w \in Workers,
           \/ SuccessRead(w) \/ SuccessOpen(w) \/ SuccessHalfOpens(w)
           \/ SuccessCounts(w) \/ SuccessCloses(w) \/ SuccessEnables(w)
    PROVE  IInv'
<1>1. /\ breaker \in BreakerType /\ disabled \in BOOLEAN /\ call \in Calls
      /\ breaker.count \in Nat /\ breaker.attempts \in Nat
      /\ manual \in Nat /\ faults \in Nat
  BY TypeParts DEF IInv
<1>2. call[w].seen \in Nat
  BY <1>1 DEF Calls, CallType
<1>3. "idle" \notin FailureSteps /\ "idle" \notin PastOpening
  BY DEF FailureSteps, PastOpening
<1>4. CASE SuccessRead(w)
  <2>1. /\ call[w].at \notin FailureSteps
        /\ UNCHANGED <<breaker, disabled, failures, manual, faults>>
    BY <1>4 DEF SuccessRead, FailureSteps
  <2>2. CASE breaker.state = "closed"
    <3>1. Return(w)
      BY <1>4, <2>2 DEF SuccessRead
    <3>2. call' \in Calls /\ Moved(w, "idle")
      BY <1>1, <3>1, ReturnMoves DEF Calls
    <3> QED
      BY <1>1, <1>3, <2>1, <3>2, OutsideStep
  <2>3. CASE breaker.state # "closed"
    <3>1. PICK step \in {"okOpen", "okCloses", "okCounts"} :
             \/ GoTo(w, step)
             \/ Remember(w, step, breaker.attempts + 1)
      BY <1>4, <2>3 DEF SuccessRead
    <3>2. step \in Steps /\ step \notin FailureSteps
      BY <3>1, StepNames DEF FailureSteps
    <3>3. breaker.attempts + 1 \in Nat
      BY <1>1
    <3>4. call' \in Calls /\ Moved(w, step)
      BY <1>1, <3>1, <3>2, <3>3, GoToMoves, RememberMoves DEF Calls
    <3> QED
      BY <1>1, <2>1, <2>3, <3>2, <3>4, OutsideStep
  <2> QED
    BY <2>2, <2>3
<1>5. CASE SuccessOpen(w)
  <2>1. /\ call[w].at \notin FailureSteps /\ call[w].at \in PastOpening
        /\ UNCHANGED <<breaker, disabled, failures, manual, faults>>
        /\ Return(w) \/ GoTo(w, "okHalfOpens")
    BY <1>5 DEF SuccessOpen, FailureSteps, PastOpening
  <2>2. "okHalfOpens" \in Steps /\ "okHalfOpens" \notin FailureSteps
    BY StepNames DEF FailureSteps
  <2>3. call' \in Calls /\ (Moved(w, "idle") \/ Moved(w, "okHalfOpens"))
    BY <1>1, <2>1, <2>2, ReturnMoves, GoToMoves DEF Calls
  <2> QED
    BY <1>1, <1>3, <2>1, <2>2, <2>3, OutsideStep
<1>6. CASE SuccessHalfOpens(w)
  <2>1. /\ call[w].at \notin FailureSteps /\ call[w].at \in PastOpening
        /\ breaker' = [breaker EXCEPT !.state = "half_open", !.attempts = 1]
        /\ Return(w) /\ UNCHANGED <<disabled, failures, manual, faults>>
    BY <1>6 DEF SuccessHalfOpens, FailureSteps, PastOpening
  <2>2. call' \in Calls /\ Moved(w, "idle")
    BY <1>1, <2>1, ReturnMoves DEF Calls
  <2>3. breaker' \in BreakerType /\ breaker'.count <= breaker.count
    <3>1. "half_open" \in States /\ 1 \in Nat
      BY DEF States
    <3>2. breaker'.count = breaker.count
      BY <1>1, <2>1 DEF BreakerType
    <3>3. breaker' \in BreakerType
      BY <1>1, <2>1, <3>1 DEF BreakerType
    <3> QED
      BY <1>1, <3>2, <3>3
  <2>4. /\ failures' = failures /\ manual' \in Nat /\ faults' \in Nat
        /\ disabled' \in BOOLEAN
    BY <1>1, <2>1
  <2> QED
    BY <1>3, <2>1, <2>2, <2>3, <2>4, OutsideStep
<1>7. CASE SuccessCounts(w)
  <2>1. /\ call[w].at \notin FailureSteps /\ call[w].at \in PastOpening
        /\ breaker' = [breaker EXCEPT !.attempts = call[w].seen]
        /\ Return(w) /\ UNCHANGED <<disabled, failures, manual, faults>>
    BY <1>7 DEF SuccessCounts, FailureSteps, PastOpening
  <2>2. call' \in Calls /\ Moved(w, "idle")
    BY <1>1, <2>1, ReturnMoves DEF Calls
  <2>3. breaker' \in BreakerType /\ breaker'.count <= breaker.count
    BY <1>1, <1>2, <2>1 DEF BreakerType
  <2> QED
    BY <1>1, <1>3, <2>1, <2>2, <2>3, OutsideStep
<1>8. CASE SuccessCloses(w)
  <2>1. /\ call[w].at \notin FailureSteps
        /\ breaker' = [breaker EXCEPT !.state = "closed", !.count = 0,
                                      !.attempts = 0, !.opened = "null"]
        /\ GoTo(w, "okEnables") /\ UNCHANGED <<disabled, failures, manual, faults>>
    BY <1>8 DEF SuccessCloses, FailureSteps
  <2>2. /\ "okEnables" \in Steps /\ "okEnables" \notin FailureSteps
        /\ "okEnables" \notin PastOpening
    BY StepNames DEF FailureSteps, PastOpening
  <2>3. call' \in Calls /\ Moved(w, "okEnables")
    BY <1>1, <2>1, <2>2, GoToMoves DEF Calls
  <2>4. /\ breaker' \in BreakerType /\ breaker'.count <= breaker.count
        /\ breaker'.state = "closed"
    <3>1. "closed" \in States /\ 0 \in Nat /\ "null" \in OpenedAt
      BY DEF States, OpenedAt
    <3>2. breaker'.count = 0 /\ breaker'.state = "closed"
      BY <1>1, <2>1 DEF BreakerType
    <3>3. breaker' \in BreakerType
      BY <1>1, <2>1, <3>1 DEF BreakerType
    <3> QED
      BY <1>1, <3>2, <3>3
  <2>5. /\ failures' = failures /\ manual' \in Nat /\ faults' \in Nat
        /\ disabled' \in BOOLEAN
    BY <1>1, <2>1
  <2>6. call[w].at \notin FailureSteps
    BY <2>1
  <2> QED
    BY <2>2, <2>3, <2>4, <2>5, <2>6, OutsideStep
<1>9. CASE SuccessEnables(w)
  <2>1. /\ call[w].at \notin FailureSteps /\ Return(w) /\ disabled' = FALSE
        /\ UNCHANGED <<breaker, failures, manual, faults>>
    BY <1>9 DEF SuccessEnables, FailureSteps
  <2>2. call' \in Calls /\ Moved(w, "idle")
    BY <1>1, <2>1, ReturnMoves DEF Calls
  <2>3. /\ failures' = failures /\ manual' \in Nat /\ faults' \in Nat
        /\ disabled' \in BOOLEAN /\ breaker' = breaker
    BY <1>1, <2>1
  <2>4. breaker' \in BreakerType /\ breaker'.count <= breaker.count
    BY <1>1, <2>3
  <2> QED
    BY <1>3, <2>1, <2>2, <2>3, <2>4, OutsideStep
<1> QED
  BY <1>4, <1>5, <1>6, <1>7, <1>8, <1>9

LEMMA CutShortStep ==
    ASSUME IInv, NEW w \in Workers, CutShort(w)
    PROVE  IInv'
<1>1. TypeOK /\ ReachedThreshold
  BY DEF IInv
<1>2. /\ breaker \in BreakerType /\ disabled \in BOOLEAN /\ call \in Calls
      /\ breaker.count \in Nat /\ manual \in Nat /\ faults \in Nat
  BY <1>1, TypeParts
<1>3. /\ Return(w) /\ UNCHANGED <<breaker, disabled, failures, manual>>
      /\ faults' = faults + 1
  BY DEF CutShort
<1>4. call' \in Calls /\ Moved(w, "idle")
  BY <1>2, <1>3, ReturnMoves DEF Calls
<1>5. "idle" \notin FailureSteps /\ "idle" \notin PastOpening
  BY DEF FailureSteps, PastOpening
<1>6. faults' \in Nat /\ breaker.count <= breaker.count + 1
  BY <1>2, <1>3
<1>7. breaker.state # "closed" => failures >= FailureThreshold
  BY <1>1 DEF ReachedThreshold
<1>8. CASE call[w].at \in FailureSteps
  BY <1>2, <1>3, <1>4, <1>6, <1>7, <1>8, WriteStep
<1>9. CASE call[w].at \notin FailureSteps
  BY <1>2, <1>3, <1>4, <1>5, <1>6, <1>9, OutsideStep
<1> QED
  BY <1>8, <1>9

(* Time and the operator touch no call and no count. *)
LEMMA EnvironmentStep ==
    ASSUME IInv, Elapse \/ SetDisabled \/ UNCHANGED vars
    PROVE  IInv'
<1>1. /\ call' = call /\ failures' = failures
      /\ breaker'.count = breaker.count /\ breaker'.state = breaker.state
  <2>1. breaker \in BreakerType
    BY DEF IInv, TypeOK
  <2> QED
    BY <2>1 DEF Elapse, SetDisabled, vars, BreakerType
<1>2. TypeOK'
  <2>1. TypeOK /\ breaker \in BreakerType /\ disabled \in BOOLEAN /\ manual \in Nat
    BY TypeParts DEF IInv
  <2>2. CASE Elapse
    <3>1. breaker' \in BreakerType
      BY <2>1, <2>2 DEF Elapse, BreakerType, OpenedAt
    <3> QED
      BY <2>1, <2>2, <3>1 DEF TypeOK, Elapse
  <2>3. CASE SetDisabled
    <3>1. disabled' \in BOOLEAN /\ manual' \in Nat
      BY <2>1, <2>3 DEF SetDisabled
    <3> QED
      BY <2>1, <2>3, <3>1 DEF TypeOK, SetDisabled
  <2>4. CASE UNCHANGED vars
    BY <2>1, <2>4 DEF TypeOK, vars
  <2> QED
    BY <2>2, <2>3, <2>4
<1>3. UnderWay' = UnderWay
  BY <1>1 DEF UnderWay
<1>4. Covered'
  BY <1>1, <1>3 DEF IInv, Covered
<1>5. ReachedThreshold'
  BY <1>1 DEF IInv, ReachedThreshold
<1> QED
  BY <1>2, <1>4, <1>5 DEF IInv

LEMMA InvInit == Init => IInv
<1> SUFFICES ASSUME Init PROVE IInv
  OBVIOUS
<1>1. TypeOK
  <2>1. breaker \in BreakerType
    BY DEF Init, BreakerType, States, OpenedAt
  <2>2. call \in [Workers -> [at: Steps, seen: Nat]]
    BY StepNames DEF Init, Idle
  <2>3. failures \in 0..MaxFailures
    BY CircuitBreakerAssumption DEF Init
  <2> QED
    BY <2>1, <2>2, <2>3 DEF Init, TypeOK
<1>2. \A w \in Workers : call[w].at = "idle"
  BY DEF Init, Idle
<1>3. UnderWay = {}
  BY <1>2 DEF UnderWay, FailureSteps
<1>4. Covered
  BY <1>3, FS_EmptySet DEF Covered, Init
<1>5. ReachedThreshold
  BY <1>2 DEF ReachedThreshold, PastOpening, Init
<1> QED
  BY <1>1, <1>4, <1>5 DEF IInv

LEMMA InvInductive == Spec => []IInv
<1>1. IInv /\ [Next]_vars => IInv'
  <2> SUFFICES ASSUME IInv, [Next]_vars PROVE IInv'
    OBVIOUS
  <2>1. ASSUME NEW w \in Workers, RunStep(w) PROVE IInv'
    BY <2>1, TradingStep, FailureStep, SuccessStep DEF RunStep
  <2>2. ASSUME NEW w \in Workers, BeginOrder(w) \/ BeginAlert(w) PROVE IInv'
    BY <2>2, TradingStep
  <2> QED
    BY <2>1, <2>2, CutShortStep, EnvironmentStep DEF Next
<1> QED
  BY <1>1, InvInit, PTL DEF Spec

(* The variables of the breaker keep their types. *)
THEOREM TypeCorrect == Spec => []TypeOK
<1>1. IInv => TypeOK
  BY DEF IInv
<1> QED
  BY <1>1, InvInductive, PTL

(* The circuit is open or half open only after recordFailure has been       *)
(* called failureThreshold times (OpensOnlyAfterThreshold).                 *)
THEOREM OpensOnlyAfterThresholdHolds == Spec => []OpensOnlyAfterThreshold
<1>1. IInv => OpensOnlyAfterThreshold
  BY DEF IInv, ReachedThreshold, OpensOnlyAfterThreshold
<1> QED
  BY <1>1, InvInductive, PTL

-----------------------------------------------------------------------------
(***************************************************************************)
(* The diagram of the breaker.  Each statement moves the row along it only  *)
(* if the row still is what its run has read; without a second run nothing  *)
(* comes between the two, because the operator, time and a run that is cut  *)
(* short leave the state of the row alone.                                  *)
(***************************************************************************)
Remembers(w) ==
    /\ call[w].at \in {"okOpen", "okHalfOpens"} => breaker.state = "open"
    /\ call[w].at \in {"okCounts", "okCloses"} => breaker.state = "half_open"

AloneRemembers ==
    ~overlapped => ~Overlap /\ \A w \in Workers : Remembers(w)

Legal ==
    breaker'.state # breaker.state =>
        <<breaker.state, breaker'.state>> \in
            {<<"closed", "open">>, <<"open", "half_open">>,
             <<"half_open", "closed">>, <<"half_open", "open">>}

OnlyCall(w) == \A v \in Workers : v # w => call'[v] = call[v]

(* A run that reports to the breaker, or begins or ends, and leaves the     *)
(* state of the row alone, remembers nothing of it afterwards.              *)
LEMMA ForgetfulStep ==
    ASSUME NEW w \in Workers, NEW step, Moved(w, step),
           step \notin {"okOpen", "okHalfOpens", "okCounts", "okCloses"},
           Legal
    PROVE  Legal /\ Remembers(w)' /\ OnlyCall(w)
BY DEF Moved, Remembers, OnlyCall

LEMMA QuietStep ==
    ASSUME TypeOK, NEW w \in Workers,
           \/ BeginOrder(w) \/ BeginAlert(w) \/ TradeSucceeds(w) \/ TradeFails(w)
           \/ CanTrade(w) \/ CanTradeRow(w) \/ Reload(w) \/ AlertFails(w)
           \/ FailureRead(w) \/ FailureDisables(w) \/ SuccessEnables(w)
           \/ CutShort(w)
    PROVE  Legal /\ Remembers(w)' /\ OnlyCall(w)
<1>1. call \in Calls /\ breaker.count \in Nat
  BY TypeParts
<1>2. breaker' = breaker
  BY DEF BeginOrder, BeginAlert, TradeSucceeds, TradeFails, CanTrade,
         CanTradeRow, Reload, AlertFails, FailureRead, FailureDisables,
         SuccessEnables, CutShort
<1>3. Legal
  BY <1>2 DEF Legal
<1>4. ASSUME NEW step \in {"failRead", "trading", "okRead", "canTrade",
                           "canTradeRow", "reload"}, GoTo(w, step)
      PROVE  Legal /\ Remembers(w)' /\ OnlyCall(w)
  <2>1. Moved(w, step)
    BY <1>1, <1>4, GoToMoves, StepNames DEF Calls
  <2> QED
    BY <1>3, <2>1, ForgetfulStep
<1>5. ASSUME Return(w)
      PROVE  Legal /\ Remembers(w)' /\ OnlyCall(w)
  <2>1. Moved(w, "idle")
    BY <1>1, <1>5, ReturnMoves DEF Calls
  <2> QED
    BY <1>3, <2>1, ForgetfulStep
<1>6. ASSUME NEW step \in {"failWhileOpen", "failOpens", "failCounts"},
             Remember(w, step, breaker.count)
      PROVE  Legal /\ Remembers(w)' /\ OnlyCall(w)
  <2>1. Moved(w, step)
    BY <1>1, <1>6, RememberMoves, StepNames DEF Calls
  <2> QED
    BY <1>3, <2>1, ForgetfulStep
<1>7. \/ Return(w)
      \/ \E step \in {"failRead", "trading", "okRead", "canTrade",
                      "canTradeRow", "reload"} : GoTo(w, step)
      \/ \E step \in {"failWhileOpen", "failOpens", "failCounts"} :
            Remember(w, step, breaker.count)
  <2>1. CASE BeginOrder(w) \/ BeginAlert(w) \/ TradeSucceeds(w) \/ TradeFails(w)
    BY <2>1 DEF BeginOrder, BeginAlert, TradeSucceeds, TradeFails, CallsFailure
  <2>2. CASE CanTrade(w) \/ CanTradeRow(w) \/ Reload(w) \/ AlertFails(w)
    BY <2>2 DEF CanTrade, CanTradeRow, Reload, AlertFails, CallsFailure
  <2>3. CASE FailureRead(w) \/ FailureDisables(w) \/ SuccessEnables(w) \/ CutShort(w)
    BY <2>3 DEF FailureRead, FailureDisables, SuccessEnables, CutShort
  <2> QED
    BY <2>1, <2>2, <2>3
<1> QED
  BY <1>4, <1>5, <1>6, <1>7

(* recordFailure opens the circuit or leaves its state. *)
LEMMA FailureMoves ==
    ASSUME TypeOK, NEW w \in Workers,
           FailureWhileOpen(w) \/ FailureOpens(w) \/ FailureCounts(w)
    PROVE  Legal /\ Remembers(w)' /\ OnlyCall(w)
<1>1. /\ call \in Calls /\ breaker \in BreakerType
      /\ breaker.state \in {"closed", "open", "half_open"}
  BY TypeParts DEF BreakerType, States
<1>2. CASE FailureWhileOpen(w) \/ FailureCounts(w)
  <2>1. Moved(w, "idle")
    BY <1>1, <1>2, ReturnMoves DEF FailureWhileOpen, FailureCounts, Calls
  <2>2. breaker'.state = breaker.state
    BY <1>1, <1>2 DEF FailureWhileOpen, FailureCounts, BreakerType
  <2> QED
    BY <2>1, <2>2, ForgetfulStep DEF Legal
<1>3. CASE FailureOpens(w)
  <2>1. Moved(w, "failDisables")
    BY <1>1, <1>3, GoToMoves, StepNames DEF FailureOpens, Calls
  <2>2. breaker'.state = "open"
    BY <1>3 DEF FailureOpens
  <2>3. Legal
    BY <1>1, <2>2 DEF Legal
  <2> QED
    BY <2>1, <2>3, ForgetfulStep
<1> QED
  BY <1>2, <1>3

(* recordSuccess moves the row on from the state it has read. *)
LEMMA SuccessMoves ==
    ASSUME TypeOK, NEW w \in Workers, Remembers(w),
           \/ SuccessRead(w) \/ SuccessOpen(w) \/ SuccessHalfOpens(w)
           \/ SuccessCounts(w) \/ SuccessCloses(w)
    PROVE  Legal /\ Remembers(w)' /\ OnlyCall(w)
<1>1. /\ call \in Calls /\ breaker \in BreakerType
      /\ breaker.attempts \in Nat
  BY TypeParts
<1>2. CASE SuccessRead(w)
  <2>1. breaker' = breaker
    BY <1>2 DEF SuccessRead
  <2>2. CASE breaker.state = "closed" /\ Return(w)
    BY <1>1, <2>1, <2>2, ReturnMoves, ForgetfulStep DEF Legal, Calls
  <2>3. CASE breaker.state = "open" /\ GoTo(w, "okOpen")
    <3>1. Moved(w, "okOpen")
      BY <1>1, <2>3, GoToMoves, StepNames DEF Calls
    <3> QED
      BY <2>1, <2>3, <3>1 DEF Legal, Remembers, OnlyCall, Moved
  <2>4. CASE /\ breaker.state = "half_open"
             /\ \E step \in {"okCloses", "okCounts"} :
                   Remember(w, step, breaker.attempts + 1)
    <3>1. PICK step \in {"okCloses", "okCounts"} :
             Remember(w, step, breaker.attempts + 1)
      BY <2>4
    <3>2. Moved(w, step)
      BY <1>1, <3>1, RememberMoves, StepNames DEF Calls
    <3> QED
      BY <2>1, <2>4, <3>2 DEF Legal, Remembers, OnlyCall, Moved
  <2> QED
    BY <1>2, <2>2, <2>3, <2>4 DEF SuccessRead
<1>3. CASE SuccessOpen(w)
  <2>1. breaker' = breaker /\ breaker.state = "open"
    BY <1>3 DEF SuccessOpen, Remembers
  <2>2. CASE Return(w)
    BY <1>1, <2>1, <2>2, ReturnMoves, ForgetfulStep DEF Legal, Calls
  <2>3. CASE GoTo(w, "okHalfOpens")
    <3>1. Moved(w, "okHalfOpens")
      BY <1>1, <2>3, GoToMoves, StepNames DEF Calls
    <3> QED
      BY <2>1, <3>1 DEF Legal, Remembers, OnlyCall, Moved
  <2> QED
    BY <1>3, <2>2, <2>3 DEF SuccessOpen
<1>4. CASE SuccessHalfOpens(w)
  <2>1. breaker.state = "open" /\ breaker'.state = "half_open"
    BY <1>1, <1>4 DEF SuccessHalfOpens, Remembers, BreakerType
  <2>2. Moved(w, "idle")
    BY <1>1, <1>4, ReturnMoves DEF SuccessHalfOpens, Calls
  <2> QED
    BY <2>1, <2>2, ForgetfulStep DEF Legal
<1>5. CASE SuccessCounts(w)
  <2>1. breaker'.state = breaker.state
    BY <1>1, <1>5 DEF SuccessCounts, BreakerType
  <2>2. Moved(w, "idle")
    BY <1>1, <1>5, ReturnMoves DEF SuccessCounts, Calls
  <2> QED
    BY <2>1, <2>2, ForgetfulStep DEF Legal
<1>6. CASE SuccessCloses(w)
  <2>1. breaker.state = "half_open" /\ breaker'.state = "closed"
    BY <1>1, <1>6 DEF SuccessCloses, Remembers, BreakerType
  <2>2. Moved(w, "okEnables")
    BY <1>1, <1>6, GoToMoves, StepNames DEF SuccessCloses, Calls
  <2> QED
    BY <2>1, <2>2, ForgetfulStep DEF Legal
<1> QED
  BY <1>2, <1>3, <1>4, <1>5, <1>6

(* While runs do not overlap, the others are idle and remember nothing. *)
LEMMA AloneStep ==
    ASSUME TypeOK, AloneRemembers, [MCNext]_<<vars, overlapped>>
    PROVE  AloneRemembers' /\ (~overlapped' => Legal)
<1>1. CASE UNCHANGED <<vars, overlapped>>
  BY <1>1 DEF vars, AloneRemembers, Remembers, Overlap, Legal
<1>2. CASE MCNext
  <2> SUFFICES ASSUME ~overlapped'
               PROVE  ~Overlap' /\ (\A w \in Workers : Remembers(w)') /\ Legal
    BY DEF AloneRemembers
  <2>1. /\ Next /\ ~overlapped /\ ~Overlap /\ ~Overlap'
        /\ \A w \in Workers : Remembers(w)
    BY <1>2 DEF MCNext, AloneRemembers
  <2>2. ASSUME NEW w \in Workers,
               BeginOrder(w) \/ BeginAlert(w) \/ RunStep(w) \/ CutShort(w)
        PROVE  Legal /\ \A v \in Workers : Remembers(v)'
    <3>1. Legal /\ Remembers(w)' /\ OnlyCall(w)
      BY <2>1, <2>2, QuietStep, FailureMoves, SuccessMoves DEF RunStep
    <3>2. call[w].at # "idle" \/ call'[w].at # "idle"
      <4>1. CASE BeginOrder(w) \/ BeginAlert(w)
        <5>1. call \in Calls
          BY TypeParts
        <5>2. \E step \in {"failRead", "trading", "canTrade"} : GoTo(w, step)
          BY <4>1 DEF BeginOrder, BeginAlert, CallsFailure
        <5> QED
          BY <5>1, <5>2, GoToMoves, StepNames DEF Calls, Moved
      <4>2. CASE RunStep(w)
        BY <4>2 DEF RunStep, TradeSucceeds, TradeFails, CanTrade, CanTradeRow,
               Reload, AlertFails, FailureRead, FailureWhileOpen, FailureOpens,
               FailureDisables, FailureCounts, SuccessRead, SuccessOpen,
               SuccessHalfOpens, SuccessCounts, SuccessCloses, SuccessEnables
      <4>3. CASE CutShort(w)
        BY <4>3 DEF CutShort
      <4> QED
        BY <2>2, <4>1, <4>2, <4>3
    <3>3. ASSUME NEW v \in Workers, v # w PROVE Remembers(v)'
      <4>1. call'[v] = call[v] /\ call'[v].at = "idle"
        BY <2>1, <3>1, <3>2, <3>3 DEF OnlyCall, Overlap
      <4> QED
        BY <4>1 DEF Remembers
    <3> QED
      BY <3>1, <3>3
  <2>3. CASE Elapse \/ SetDisabled
    <3>1. breaker \in BreakerType
      BY TypeParts
    <3>2. call' = call /\ breaker'.state = breaker.state
      BY <2>3, <3>1 DEF Elapse, SetDisabled, BreakerType
    <3> QED
      BY <2>1, <3>2 DEF Remembers, Legal
  <2> QED
    BY <2>1, <2>2, <2>3 DEF Next
<1> QED
  BY <1>1, <1>2

(* As long as no two runs have overlapped, the row of the breaker follows   *)
(* CLOSED -> OPEN -> HALF_OPEN -> CLOSED, whatever fails half-way           *)
(* (LegalTransitions).                                                      *)
THEOREM LegalTransitionsHolds == MCSpec => LegalTransitions
<1>1. MCInit => Init /\ AloneRemembers
  BY DEF MCInit, Init, Idle, AloneRemembers, Overlap, Remembers
<1>2. [MCNext]_<<vars, overlapped>> => [Next]_vars
  BY DEF MCNext
<1>3. MCSpec => Spec
  BY <1>1, <1>2, PTL DEF MCSpec, Spec
<1>4. TypeOK /\ AloneRemembers /\ [MCNext]_<<vars, overlapped>> => AloneRemembers'
  BY AloneStep
<1>5. TypeOK /\ AloneRemembers /\ [MCNext]_<<vars, overlapped>>
         => [~overlapped' /\ breaker'.state # breaker.state =>
               <<breaker.state, breaker'.state>> \in
                  {<<"closed", "open">>, <<"open", "half_open">>,
                   <<"half_open", "closed">>, <<"half_open", "open">>}]_vars
  BY AloneStep DEF Legal
<1> QED
  BY <1>1, <1>3, <1>4, <1>5, TypeCorrect, PTL DEF MCSpec, LegalTransitions

-----------------------------------------------------------------------------
(***************************************************************************)
(* Exclusion and the absence of leaks, for any number of callers, sessions  *)
(* and locks.                                                               *)
(*                                                                         *)
(* Exclusive does not speak of the database: the invariant relates each     *)
(* call to its session (the locks a call has got are held by its session,   *)
(* GotIsHeld), says that calls do not share a session (OwnSession) and that *)
(* PostgreSQL grants a lock to one session (Granted).                       *)
(***************************************************************************)

USE AdvisoryLockAssumption

HasSession ==
    \A c \in Callers : caller[c].at \notin {"idle", "connect"}
                           <=> SessionOf(c) \in Sessions

OwnSession ==
    \A c, d \in Callers :
        SessionOf(c) = SessionOf(d) /\ SessionOf(c) \in Sessions => c = d

IdleFine == \A s \in Sessions : ~CheckedOut(s) => session[s] = "fine"

Granted ==
    \A s, t \in Sessions : \A l \in Locks :
        s # t => holds[s][l] = 0 \/ holds[t][l] = 0

GotIsHeld(c) ==
    SessionOf(c) \in Sessions /\ session[SessionOf(c)] = "fine" =>
        \A l \in caller[c].got : holds[SessionOf(c)][l] > 0

AllGot(c) ==
    caller[c].at \in {"setTimeout", "callback"} => Wanted[c] \subseteq caller[c].got

Working(c) ==
    caller[c].at \in {"acquire", "setTimeout", "callback"} =>
        session[SessionOf(c)] \in {"fine", "gone"}

CallInv(c) == GotIsHeld(c) /\ AllGot(c) /\ Working(c)

Typed == LockTypeOK /\ HasSession /\ OwnSession

LockInv == Typed /\ IdleFine /\ Granted /\ \A c \in Callers : CallInv(c)

-----------------------------------------------------------------------------
(* Typing, with the connections that the calls hold. *)

LEMMA SpendTyped ==
    ASSUME LockTypeOK, NEW what \in {"faults", "deaths", "timed"}, Spend(what)
    PROVE  budget' \in BudgetType
BY DEF LockTypeOK, BudgetType, Spend

(* Call c moves to another step and keeps its connection. *)
KeepsSession(c) ==
    /\ caller' \in [Callers -> CallerType]
    /\ SessionOf(c)' = SessionOf(c)
    /\ SessionOf(c) \in Sessions
    /\ caller'[c].at \notin {"idle", "connect"}
    /\ \A d \in Callers : d # c => caller'[d] = caller[d]

(* Call c is, and remains, without a connection, or gives its own back. *)
HasNoSession(c) ==
    /\ caller' \in [Callers -> CallerType]
    /\ SessionOf(c)' = None
    /\ caller'[c].at \in {"idle", "connect"}
    /\ \A d \in Callers : d # c => caller'[d] = caller[d]

(* The pool hands out a connection in good order. *)
GivesBack(c) ==
    /\ HasNoSession(c)
    /\ SessionOf(c) \in Sessions => session'[SessionOf(c)] = "fine"

(* Call c is given a connection that no call holds. *)
GetsSession(c) ==
    /\ caller' \in [Callers -> CallerType]
    /\ SessionOf(c) \notin Sessions
    /\ SessionOf(c)' \in Sessions
    /\ ~CheckedOut(SessionOf(c)')
    /\ caller'[c].at \notin {"idle", "connect"}
    /\ \A d \in Callers : d # c => caller'[d] = caller[d]

LEMMA SessionsStay ==
    ASSUME Typed, NEW c \in Callers,
           KeepsSession(c) \/ HasNoSession(c) \/ GetsSession(c)
    PROVE  HasSession' /\ OwnSession'
<1>1. \A d \in Callers : d # c => SessionOf(d)' = SessionOf(d)
  BY DEF KeepsSession, HasNoSession, GetsSession, SessionOf
<1>2. None \notin Sessions
  OBVIOUS
<1>3. HasSession'
  <2>1. caller'[c].at \notin {"idle", "connect"} <=> SessionOf(c)' \in Sessions
    BY <1>2 DEF KeepsSession, HasNoSession, GetsSession
  <2>2. \A d \in Callers : d # c => caller'[d] = caller[d]
    BY DEF KeepsSession, HasNoSession, GetsSession
  <2> QED
    BY <1>1, <2>1, <2>2 DEF Typed, HasSession, SessionOf
<1>4. \A d \in Callers : SessionOf(c)' = SessionOf(d) /\ SessionOf(c)' \in Sessions
                             => d = c
  BY <1>2 DEF Typed, OwnSession, KeepsSession, HasNoSession, GetsSession,
              CheckedOut
<1>5. OwnSession'
  BY <1>1, <1>4 DEF Typed, OwnSession
<1> QED
  BY <1>3, <1>5

LEMMA CallGoesTo ==
    ASSUME LockTypeOK, NEW c \in Callers, NEW step \in CallerSteps, MoveTo(c, step)
    PROVE  /\ caller' \in [Callers -> CallerType]
           /\ caller'[c].at = step /\ SessionOf(c)' = SessionOf(c)
           /\ caller'[c].got = caller[c].got
           /\ \A d \in Callers : d # c => caller'[d] = caller[d]
<1>1. caller \in [Callers -> CallerType]
  BY DEF LockTypeOK
<1>2. caller' = [caller EXCEPT ![c].at = step]
  BY DEF MoveTo
<1>3. caller'[c] = [caller[c] EXCEPT !.at = step]
  BY <1>1, <1>2
<1>4. caller[c] \in CallerType
  BY <1>1
<1>5. /\ caller'[c] \in CallerType
      /\ caller'[c].at = step /\ caller'[c].session = caller[c].session
      /\ caller'[c].got = caller[c].got
  BY <1>3, <1>4 DEF CallerType
<1>6. \A d \in Callers : d # c => caller'[d] = caller[d]
  BY <1>1, <1>2
<1>7. caller' \in [Callers -> CallerType]
  BY <1>1, <1>2, <1>5
<1> QED
  BY <1>5, <1>6, <1>7 DEF SessionOf

LEMMA CallBegins ==
    ASSUME Typed, NEW c \in Callers, Call(c)
    PROVE  HasNoSession(c)
<1>1. "connect" \in CallerSteps
  BY DEF CallerSteps
<1>2. SessionOf(c) = None
  BY DEF Call, Typed, LockTypeOK, HasSession, CallerType, SessionOf
<1> QED
  BY <1>1, <1>2, CallGoesTo DEF Call, Typed, HasNoSession

LEMMA CallConnects ==
    ASSUME Typed, NEW c \in Callers, Connect(c)
    PROVE  GetsSession(c) /\ caller'[c].got = {} /\ caller'[c].at = "acquire"
<1>1. PICK s \in Sessions :
         /\ ~CheckedOut(s)
         /\ caller' = [caller EXCEPT ![c] = [at |-> "acquire", session |-> s,
                                         got |-> {}]]
  BY DEF Connect
<1>2. [at |-> "acquire", session |-> s, got |-> {}] \in CallerType
  BY DEF CallerType, CallerSteps
<1>3. caller' \in [Callers -> CallerType]
  BY <1>1, <1>2 DEF Typed, LockTypeOK
<1>4. caller'[c] = [at |-> "acquire", session |-> s, got |-> {}]
  BY <1>1 DEF Typed, LockTypeOK
<1>5. \A d \in Callers : d # c => caller'[d] = caller[d]
  BY <1>1 DEF Typed, LockTypeOK
<1>6. SessionOf(c) \notin Sessions
  BY DEF Connect, Typed, HasSession
<1> QED
  BY <1>1, <1>3, <1>4, <1>5, <1>6 DEF GetsSession, SessionOf

LEMMA CallStops ==
    ASSUME Typed, NEW c \in Callers, caller' = [caller EXCEPT ![c] = NoCall]
    PROVE  HasNoSession(c)
<1>1. NoCall \in CallerType
  BY DEF NoCall, CallerType, CallerSteps
<1>2. caller' \in [Callers -> CallerType]
  BY <1>1 DEF Typed, LockTypeOK
<1>3. caller'[c] = NoCall /\ \A d \in Callers : d # c => caller'[d] = caller[d]
  BY DEF Typed, LockTypeOK
<1> QED
  BY <1>2, <1>3 DEF HasNoSession, NoCall, SessionOf

(* The other calls: their connections are not the one call c works on. *)
LEMMA OthersStay ==
    ASSUME Typed, NEW c \in Callers, NEW d \in Callers, d # c, CallInv(d),
           caller'[d] = caller[d],
           \A s \in Sessions : s # SessionOf(c)
               => session'[s] = session[s] /\ holds'[s] = holds[s]
    PROVE  CallInv(d)'
<1>1. SessionOf(d)' = SessionOf(d)
  BY DEF SessionOf
<1>2. SessionOf(d) \in Sessions => /\ session'[SessionOf(d)] = session[SessionOf(d)]
                                   /\ holds'[SessionOf(d)] = holds[SessionOf(d)]
  BY DEF Typed, OwnSession
<1>3. GotIsHeld(d)' /\ AllGot(d)'
  BY <1>1, <1>2 DEF CallInv, GotIsHeld, AllGot
<1>4. Working(d)'
  BY <1>1, <1>2 DEF CallInv, Working, Typed, HasSession
<1> QED
  BY <1>3, <1>4 DEF CallInv

(* Only the connection of call c may have changed state. *)
LEMMA IdleStayFine ==
    ASSUME LockInv, NEW c \in Callers,
           KeepsSession(c) \/ GetsSession(c) \/ GivesBack(c),
           \A s \in Sessions : s # SessionOf(c) => session'[s] = session[s]
    PROVE  IdleFine'
<1> SUFFICES ASSUME NEW s \in Sessions, ~CheckedOut(s)'
             PROVE  session'[s] = "fine"
  BY DEF IdleFine
<1>1. \A d \in Callers : d # c => SessionOf(d)' = SessionOf(d)
  BY DEF KeepsSession, HasNoSession, GivesBack, GetsSession, SessionOf
<1>2. \A d \in Callers : d # c => SessionOf(d) # s
  BY <1>1 DEF CheckedOut
<1>3. CASE SessionOf(c) = s
  <2>1. ~KeepsSession(c) /\ ~GetsSession(c)
    BY <1>3 DEF CheckedOut, KeepsSession, GetsSession
  <2> QED
    BY <1>3, <2>1 DEF GivesBack
<1>4. CASE SessionOf(c) # s
  BY <1>2, <1>4 DEF LockInv, IdleFine, CheckedOut
<1> QED
  BY <1>3, <1>4

LEMMA GrantedStays ==
    ASSUME Granted, holds' = holds
    PROVE  Granted'
BY DEF Granted

(* A step of call c that takes or releases no lock. *)
LEMMA LockQuietStep ==
    ASSUME LockInv, NEW c \in Callers,
           KeepsSession(c) \/ GetsSession(c) \/ GivesBack(c),
           session' \in [Sessions -> {"fine", "aborted", "gone"}],
           \A s \in Sessions : s # SessionOf(c) => session'[s] = session[s],
           holds' = holds,
           budget' \in BudgetType,
           CallInv(c)'
    PROVE  LockInv'
<1>1. LockTypeOK'
  BY DEF LockInv, Typed, LockTypeOK, KeepsSession, HasNoSession, GivesBack, GetsSession
<1>2. Typed'
  BY <1>1, SessionsStay DEF LockInv, Typed, GivesBack
<1>3. IdleFine'
  BY IdleStayFine
<1>4. Granted'
  BY GrantedStays DEF LockInv
<1>5. \A d \in Callers : d # c => caller'[d] = caller[d]
  BY DEF KeepsSession, HasNoSession, GivesBack, GetsSession
<1>6. \A d \in Callers : d # c => CallInv(d)'
  BY <1>5, OthersStay DEF LockInv
<1> QED
  BY <1>2, <1>3, <1>4, <1>6 DEF LockInv

-----------------------------------------------------------------------------
(* The steps. *)

LEMMA BeginStep ==
    ASSUME LockInv, NEW c \in Callers, Call(c) \/ ConnectTimesOut(c)
    PROVE  LockInv'
<1>1. SessionOf(c) = None
  BY DEF LockInv, Typed, LockTypeOK, HasSession, CallerType, SessionOf, Call,
         ConnectTimesOut
<1>2. HasNoSession(c)
  BY CallBegins, CallStops DEF LockInv, ConnectTimesOut
<1>3. GivesBack(c)
  BY <1>1, <1>2 DEF GivesBack
<1>4. /\ session' = session /\ holds' = holds
      /\ budget' = budget \/ Spend("timed")
  BY DEF Call, ConnectTimesOut
<1>5. CallInv(c)'
  BY <1>2 DEF HasNoSession, CallInv, GotIsHeld, AllGot, Working
<1>6. /\ session' \in [Sessions -> {"fine", "aborted", "gone"}]
      /\ budget' \in BudgetType
  BY <1>4, SpendTyped DEF LockInv, Typed, LockTypeOK
<1> QED
  BY <1>3, <1>4, <1>5, <1>6, LockQuietStep

LEMMA ConnectStep ==
    ASSUME LockInv, NEW c \in Callers, Connect(c)
    PROVE  LockInv'
<1>1. GetsSession(c) /\ caller'[c].got = {} /\ caller'[c].at = "acquire"
  BY CallConnects DEF LockInv
<1>2. session' = session /\ holds' = holds /\ budget' = budget
  BY DEF Connect
<1>3. session[SessionOf(c)'] = "fine"
  BY <1>1 DEF GetsSession, LockInv, IdleFine
<1>4. CallInv(c)'
  BY <1>1, <1>2, <1>3 DEF CallInv, GotIsHeld, AllGot, Working
<1>5. /\ session' \in [Sessions -> {"fine", "aborted", "gone"}]
      /\ budget' \in BudgetType
  BY <1>2 DEF LockInv, Typed, LockTypeOK
<1> QED
  BY <1>1, <1>2, <1>4, <1>5, LockQuietStep

(* A step of a call that has a connection, and got the same locks. *)
LEMMA MoveStep ==
    ASSUME LockInv, NEW c \in Callers, NEW step \in CallerSteps, MoveTo(c, step),
           caller[c].at \notin {"idle", "connect"}, step \notin {"idle", "connect"},
           step \in {"setTimeout", "callback"} => Wanted[c] \subseteq caller[c].got,
           step # "acquire",
           step \in {"setTimeout", "callback"} =>
               session'[SessionOf(c)] \in {"fine", "gone"},
           session'[SessionOf(c)] \in {session[SessionOf(c)], "aborted"},
           \A s \in Sessions : s # SessionOf(c) => session'[s] = session[s],
           session' \in [Sessions -> {"fine", "aborted", "gone"}],
           holds' = holds, budget' \in BudgetType
    PROVE  LockInv'
<1>1. /\ caller' \in [Callers -> CallerType]
      /\ caller'[c].at = step /\ SessionOf(c)' = SessionOf(c)
      /\ caller'[c].got = caller[c].got
      /\ \A d \in Callers : d # c => caller'[d] = caller[d]
  BY CallGoesTo DEF LockInv, Typed
<1>2. SessionOf(c) \in Sessions
  BY DEF LockInv, Typed, HasSession
<1>3. KeepsSession(c)
  BY <1>1, <1>2 DEF KeepsSession
<1>4. GotIsHeld(c)'
  BY <1>1, <1>2 DEF GotIsHeld, LockInv, CallInv
<1>5. AllGot(c)' /\ Working(c)'
  BY <1>1 DEF AllGot, Working
<1> QED
  BY <1>3, <1>4, <1>5, LockQuietStep DEF CallInv

LEMMA AbortTyped ==
    ASSUME LockTypeOK, NEW s \in Sessions, NEW state \in {"fine", "aborted", "gone"},
           session' = [session EXCEPT ![s] = state]
    PROVE  /\ session' \in [Sessions -> {"fine", "aborted", "gone"}]
           /\ session'[s] = state
           /\ \A t \in Sessions : t # s => session'[t] = session[t]
BY DEF LockTypeOK

LEMMA SetTimeoutStep ==
    ASSUME LockInv, NEW c \in Callers, SetTimeout(c)
    PROVE  LockInv'
<1>1. /\ SessionOf(c) \in Sessions /\ Wanted[c] \subseteq caller[c].got
      /\ caller[c].at \notin {"idle", "connect"}
  BY DEF SetTimeout, LockInv, CallInv, AllGot, Typed, HasSession
<1>2. LockTypeOK /\ holds' = holds
  BY DEF SetTimeout, LockInv, Typed
<1>3. budget' \in BudgetType
  BY DEF SetTimeout, LockInv, Typed, LockTypeOK
<1>4. {"callback", "release"} \subseteq CallerSteps
  BY DEF CallerSteps
<1>5. CASE session' = session
  <2>1. PICK step \in {"callback", "release"} : MoveTo(c, step)
    BY DEF SetTimeout
  <2>2. session[SessionOf(c)] \in {"fine", "gone"}
    BY DEF SetTimeout, LockInv, CallInv, Working
  <2>3. session' \in [Sessions -> {"fine", "aborted", "gone"}]
    BY <1>2, <1>5 DEF LockTypeOK
  <2> QED
    BY <1>1, <1>2, <1>3, <1>4, <1>5, <2>1, <2>2, <2>3, MoveStep
<1>6. CASE session' # session
  <2>1. MoveTo(c, "release") /\ session' = [session EXCEPT ![SessionOf(c)] = "aborted"]
    BY <1>6 DEF SetTimeout
  <2> QED
    BY <1>1, <1>2, <1>3, <1>4, <2>1, AbortTyped, MoveStep
<1> QED
  BY <1>5, <1>6

LEMMA MovingSteps ==
    ASSUME LockInv, NEW c \in Callers,
           \/ AllAcquired(c) \/ AcquireLost(c) \/ AcquireFails(c)
           \/ Callback(c) \/ AllReleased(c)
    PROVE  LockInv'
<1>1. LockTypeOK
  BY DEF LockInv, Typed
<1>2. {"setTimeout", "release", "end"} \subseteq CallerSteps
  BY DEF CallerSteps
<1>3. caller[c].at \notin {"idle", "connect"}
  BY DEF AllAcquired, AcquireLost, AcquireFails, Callback, AllReleased
<1>4. SessionOf(c) \in Sessions
  BY <1>3 DEF LockInv, Typed, HasSession
<1>5. holds' = holds
  BY DEF AllAcquired, AcquireLost, AcquireFails, Callback, AllReleased
<1>6. CASE AllAcquired(c)
  <2>1. session' = session /\ MoveTo(c, "setTimeout")
        /\ Wanted[c] \subseteq caller[c].got /\ caller[c].at = "acquire"
    BY <1>6 DEF AllAcquired
  <2>2. budget' \in BudgetType
        /\ session' \in [Sessions -> {"fine", "aborted", "gone"}]
    BY <1>1, <1>6 DEF AllAcquired, LockTypeOK
  <2>3. session[SessionOf(c)] \in {"fine", "gone"}
    BY <2>1 DEF LockInv, CallInv, Working
  <2> QED
    BY <1>2, <1>3, <1>5, <2>1, <2>2, <2>3, MoveStep
<1>7. CASE AcquireFails(c)
  <2>1. /\ session' = [session EXCEPT ![SessionOf(c)] = "aborted"]
        /\ MoveTo(c, "end") /\ Spend("faults")
    BY <1>7 DEF AcquireFails
  <2>2. budget' \in BudgetType
    BY <1>1, <2>1, SpendTyped
  <2> QED
    BY <1>1, <1>2, <1>3, <1>4, <1>5, <2>1, <2>2, AbortTyped, MoveStep
<1>8. CASE AcquireLost(c) \/ Callback(c) \/ AllReleased(c)
  <2>1. PICK step \in {"release", "end"} : MoveTo(c, step)
    BY <1>8 DEF AcquireLost, Callback, AllReleased
  <2>2. session' = session /\ budget' = budget
    BY <1>8 DEF AcquireLost, Callback, AllReleased
  <2>3. budget' \in BudgetType
        /\ session' \in [Sessions -> {"fine", "aborted", "gone"}]
    BY <1>1, <2>2 DEF LockTypeOK
  <2> QED
    BY <1>2, <1>3, <1>5, <2>1, <2>2, <2>3, MoveStep
<1> QED
  BY <1>6, <1>7, <1>8

LEMMA ReleaseFailsStep ==
    ASSUME LockInv, NEW c \in Callers, ReleaseFails(c)
    PROVE  LockInv'
<1>1. /\ session' = [session EXCEPT ![SessionOf(c)] = "aborted"]
      /\ caller' = caller /\ holds' = holds /\ Spend("faults")
      /\ caller[c].at = "release"
  BY DEF ReleaseFails
<1>2. SessionOf(c) \in Sessions
  BY <1>1 DEF LockInv, Typed, HasSession
<1>3. /\ session' \in [Sessions -> {"fine", "aborted", "gone"}]
      /\ session'[SessionOf(c)] = "aborted"
      /\ \A t \in Sessions : t # SessionOf(c) => session'[t] = session[t]
  BY <1>1, <1>2, AbortTyped DEF LockInv, Typed
<1>4. budget' \in BudgetType
  BY <1>1, SpendTyped DEF LockInv, Typed
<1>5. KeepsSession(c)
  BY <1>1, <1>2 DEF KeepsSession, LockInv, Typed, LockTypeOK, SessionOf
<1>6. CallInv(c)'
  BY <1>1, <1>3, <1>5 DEF CallInv, GotIsHeld, AllGot, Working, KeepsSession
<1> QED
  BY <1>1, <1>3, <1>4, <1>5, <1>6, LockQuietStep

LEMMA EndStep ==
    ASSUME LockInv, NEW c \in Callers, End(c)
    PROVE  LockInv'
<1>1. /\ session' = [session EXCEPT ![SessionOf(c)] = "fine"]
      /\ caller' = [caller EXCEPT ![c] = NoCall] /\ holds' = holds
      /\ caller[c].at = "end" /\ budget' = budget
  BY DEF End
<1>2. SessionOf(c) \in Sessions
  BY <1>1 DEF LockInv, Typed, HasSession
<1>3. /\ session' \in [Sessions -> {"fine", "aborted", "gone"}]
      /\ session'[SessionOf(c)] = "fine"
      /\ \A t \in Sessions : t # SessionOf(c) => session'[t] = session[t]
  BY <1>1, <1>2, AbortTyped DEF LockInv, Typed
<1>4. budget' \in BudgetType
  BY <1>1 DEF LockInv, Typed, LockTypeOK
<1>5. HasNoSession(c)
  BY <1>1, CallStops DEF LockInv
<1>6. CallInv(c)'
  BY <1>5 DEF HasNoSession, CallInv, GotIsHeld, AllGot, Working
<1> QED
  BY <1>1, <1>3, <1>4, <1>5, <1>6, LockQuietStep DEF GivesBack

-----------------------------------------------------------------------------
(* The steps that take and release locks. *)

LEMMA HoldsChange ==
    ASSUME LockTypeOK, NEW s \in Sessions, NEW l \in Locks, NEW n \in Nat,
           holds' = [holds EXCEPT ![s][l] = n]
    PROVE  /\ holds' \in [Sessions -> [Locks -> Nat]]
           /\ \A t \in Sessions : t # s => holds'[t] = holds[t]
           /\ holds'[s][l] = n
           /\ \A m \in Locks : m # l => holds'[s][m] = holds[s][m]
BY DEF LockTypeOK

LEMMA GotChange ==
    ASSUME Typed, NEW c \in Callers, NEW got \in SUBSET Locks,
           caller' = [caller EXCEPT ![c].got = got],
           SessionOf(c) \in Sessions
    PROVE  /\ KeepsSession(c)
           /\ caller'[c].got = got /\ caller'[c].at = caller[c].at
<1>1. caller[c] \in CallerType /\ caller \in [Callers -> CallerType]
  BY DEF Typed, LockTypeOK
<1>2. caller'[c] = [caller[c] EXCEPT !.got = got]
  BY <1>1
<1>3. /\ caller'[c] \in CallerType /\ caller'[c].at = caller[c].at
      /\ caller'[c].session = caller[c].session /\ caller'[c].got = got
  BY <1>1, <1>2 DEF CallerType
<1>4. \A d \in Callers : d # c => caller'[d] = caller[d]
  BY <1>1
<1>5. caller' \in [Callers -> CallerType]
  BY <1>1, <1>3
<1>6. caller[c].at \notin {"idle", "connect"}
  BY DEF Typed, HasSession
<1> QED
  BY <1>3, <1>4, <1>5, <1>6 DEF KeepsSession, SessionOf

(* A step of call c on its own session that leaves the locks granted. *)
LEMMA LockStep ==
    ASSUME LockInv, NEW c \in Callers, KeepsSession(c), CallInv(c)', Granted',
           session' = session, budget' = budget,
           holds' \in [Sessions -> [Locks -> Nat]],
           \A t \in Sessions : t # SessionOf(c) => holds'[t] = holds[t]
    PROVE  LockInv'
<1>1. LockTypeOK'
  BY DEF LockInv, Typed, LockTypeOK, KeepsSession
<1>2. Typed'
  BY <1>1, SessionsStay DEF LockInv, Typed
<1>3. IdleFine'
  BY IdleStayFine
<1>4. \A d \in Callers : d # c => CallInv(d)'
  BY OthersStay DEF LockInv, KeepsSession
<1> QED
  BY <1>2, <1>3, <1>4 DEF LockInv

LEMMA AcquireStep ==
    ASSUME LockInv, NEW c \in Callers, Acquire(c)
    PROVE  LockInv'
<1> DEFINE s == SessionOf(c)
<1>1. PICK l \in Locks :
         /\ NextLock(c, l) /\ Grants(s, l)
         /\ caller' = [caller EXCEPT ![c].got = @ \cup {l}]
         /\ holds' = [holds EXCEPT ![s][l] = @ + 1]
  BY DEF Acquire
<1>2. session' = session /\ budget' = budget /\ caller[c].at = "acquire"
  BY DEF Acquire
<1>3. s \in Sessions /\ LockTypeOK /\ Typed
  BY <1>2 DEF LockInv, Typed, HasSession
<1>4. caller[c].got \in SUBSET Locks /\ holds[s][l] \in Nat
  BY <1>1, <1>3 DEF LockTypeOK, CallerType
<1>5. KeepsSession(c) /\ caller'[c].got = caller[c].got \cup {l}
      /\ caller'[c].at = "acquire"
  <2>1. caller' = [caller EXCEPT ![c].got = caller[c].got \cup {l}]
    BY <1>1
  <2>2. caller[c].got \cup {l} \in SUBSET Locks
    BY <1>4
  <2>3. SessionOf(c) \in Sessions
    BY <1>3
  <2> HIDE DEF s
  <2> QED
    BY <1>2, <1>3, <2>1, <2>2, <2>3, GotChange
<1>6. /\ holds' \in [Sessions -> [Locks -> Nat]]
      /\ \A t \in Sessions : t # s => holds'[t] = holds[t]
      /\ holds'[s][l] = holds[s][l] + 1
      /\ \A m \in Locks : m # l => holds'[s][m] = holds[s][m]
  <2>1. holds' = [holds EXCEPT ![s][l] = holds[s][l] + 1]
    BY <1>1
  <2>2. holds[s][l] + 1 \in Nat
    BY <1>4
  <2> QED
    BY <1>3, <2>1, <2>2, HoldsChange
<1>7. Granted'
  <2>1. \A t \in Sessions : t # s => holds[t][l] = 0
    BY <1>1 DEF Grants
  <2>2. Granted
    BY DEF LockInv
  <2> HIDE DEF s
  <2> QED
    BY <1>3, <1>6, <2>1, <2>2 DEF Granted
<1>8. CallInv(c)'
  <2>1. SessionOf(c)' = s
    BY <1>5 DEF KeepsSession
  <2>2. GotIsHeld(c) /\ session[s] = "fine"
    BY <1>1 DEF LockInv, CallInv, Grants
  <2>3. \A m \in caller[c].got \cup {l} : holds'[s][m] > 0
    <3>1. \A m \in caller[c].got : holds[s][m] > 0
      BY <1>3, <2>2 DEF GotIsHeld
    <3>2. holds'[s][l] > 0
      BY <1>4, <1>6
    <3> QED
      BY <1>4, <1>6, <3>1, <3>2
  <2>4. GotIsHeld(c)'
    BY <1>5, <2>1, <2>3 DEF GotIsHeld
  <2>5. AllGot(c)' /\ Working(c)'
    BY <1>2, <1>5, <2>1, <2>2 DEF AllGot, Working
  <2> QED
    BY <2>4, <2>5 DEF CallInv
<1> QED
  BY <1>2, <1>5, <1>6, <1>7, <1>8, LockStep

LEMMA ReleaseStep ==
    ASSUME LockInv, NEW c \in Callers, Release(c)
    PROVE  LockInv'
<1> DEFINE s == SessionOf(c)
<1>1. PICK l \in caller[c].got :
         /\ caller' = [caller EXCEPT ![c].got = @ \ {l}]
         /\ \/ /\ session[s] = "fine"
               /\ holds' = [holds EXCEPT ![s][l] = @ - 1]
            \/ /\ session[s] # "fine"
               /\ holds' = holds
  BY DEF Release
<1>2. session' = session /\ budget' = budget /\ caller[c].at = "release"
  BY DEF Release
<1>3. s \in Sessions /\ LockTypeOK /\ Typed
  BY <1>2 DEF LockInv, Typed, HasSession
<1>4. caller[c].got \in SUBSET Locks /\ l \in Locks
  BY <1>1, <1>3 DEF LockTypeOK, CallerType
<1>5. KeepsSession(c) /\ caller'[c].got = caller[c].got \ {l}
      /\ caller'[c].at = "release"
  <2>1. caller' = [caller EXCEPT ![c].got = caller[c].got \ {l}]
    BY <1>1
  <2>2. caller[c].got \ {l} \in SUBSET Locks
    BY <1>4
  <2>3. SessionOf(c) \in Sessions
    BY <1>3
  <2> HIDE DEF s
  <2> QED
    BY <1>2, <1>3, <2>1, <2>2, <2>3, GotChange
<1>6. holds \in [Sessions -> [Locks -> Nat]] /\ Granted
  BY <1>3 DEF LockTypeOK, LockInv
<1>7. SessionOf(c)' = s
  BY <1>5 DEF KeepsSession
<1>8. CASE session[s] # "fine"
  <2>1. holds' = holds
    BY <1>1, <1>8
  <2>2. CallInv(c)'
    BY <1>2, <1>5, <1>7, <1>8 DEF CallInv, GotIsHeld, AllGot, Working
  <2>3. Granted'
    BY <1>6, <2>1, GrantedStays
  <2> QED
    BY <1>2, <1>5, <1>6, <2>1, <2>2, <2>3, LockStep
<1>9. CASE session[s] = "fine"
  <2>1. \A m \in caller[c].got : holds[s][m] > 0
    BY <1>3, <1>9 DEF LockInv, CallInv, GotIsHeld
  <2>2. holds[s][l] \in Nat /\ holds[s][l] - 1 \in Nat
    BY <1>1, <1>3, <1>4, <1>6, <2>1
  <2>3. /\ holds' \in [Sessions -> [Locks -> Nat]]
        /\ \A t \in Sessions : t # s => holds'[t] = holds[t]
        /\ holds'[s][l] = holds[s][l] - 1
        /\ \A m \in Locks : m # l => holds'[s][m] = holds[s][m]
    <3>1. holds' = [holds EXCEPT ![s][l] = holds[s][l] - 1]
      BY <1>1, <1>9
    <3> QED
      BY <1>3, <1>4, <2>2, <3>1, HoldsChange
  <2>4. Granted'
    <3>1. \A t \in Sessions : \A m \in Locks : holds[t][m] = 0 => holds'[t][m] = 0
      <4>1. holds[s][l] > 0
        BY <1>1, <2>1
      <4> HIDE DEF s
      <4> QED
        BY <2>3, <4>1
    <3> QED
      BY <1>6, <3>1 DEF Granted
  <2>5. GotIsHeld(c)'
    BY <1>4, <1>5, <1>7, <2>1, <2>3 DEF GotIsHeld
  <2>6. AllGot(c)' /\ Working(c)'
    BY <1>5 DEF AllGot, Working
  <2> QED
    BY <1>2, <1>5, <2>3, <2>4, <2>5, <2>6, LockStep DEF CallInv
<1> QED
  BY <1>8, <1>9

LEMMA DieStep ==
    ASSUME LockInv, NEW s \in Sessions, Die(s)
    PROVE  LockInv'
<1>1. /\ session' = [session EXCEPT ![s] = IF CheckedOut(s) THEN "gone" ELSE @]
      /\ holds' = [holds EXCEPT ![s] = [l \in Locks |-> 0]]
      /\ caller' = caller /\ Spend("deaths")
  BY DEF Die
<1>2. LockTypeOK
  BY DEF LockInv, Typed
<1>3. /\ session' \in [Sessions -> {"fine", "aborted", "gone"}]
      /\ session'[s] \in {session[s], "gone"}
      /\ CheckedOut(s) => session'[s] = "gone"
      /\ ~CheckedOut(s) => session'[s] = session[s]
      /\ \A t \in Sessions : t # s => session'[t] = session[t]
  BY <1>1, <1>2 DEF LockTypeOK
<1>4. /\ holds' \in [Sessions -> [Locks -> Nat]]
      /\ \A t \in Sessions : t # s => holds'[t] = holds[t]
      /\ \A l \in Locks : holds'[s][l] = 0
  <2>1. [l \in Locks |-> 0] \in [Locks -> Nat]
    OBVIOUS
  <2> QED
    BY <1>1, <1>2, <2>1 DEF LockTypeOK
<1>5. budget' \in BudgetType
  BY <1>1, <1>2, SpendTyped
<1>6. \A c \in Callers : SessionOf(c)' = SessionOf(c)
  BY <1>1 DEF SessionOf
<1>7. Typed'
  <2>1. LockTypeOK'
    BY <1>1, <1>2, <1>3, <1>4, <1>5 DEF LockTypeOK
  <2>2. HasSession' /\ OwnSession'
    BY <1>1, <1>6 DEF LockInv, Typed, HasSession, OwnSession
  <2> QED
    BY <2>1, <2>2 DEF Typed
<1>8. IdleFine'
  <2>1. \A t \in Sessions : CheckedOut(t)' = CheckedOut(t)
    BY <1>6 DEF CheckedOut
  <2> QED
    BY <1>3, <2>1 DEF LockInv, IdleFine
<1>9. Granted'
  BY <1>4 DEF LockInv, Granted
<1>10. ASSUME NEW c \in Callers
       PROVE  CallInv(c)'
  <2>1. CallInv(c)
    BY DEF LockInv
  <2>2. CASE SessionOf(c) = s
    <3>1. session'[s] = "gone"
      BY <1>3, <2>2 DEF CheckedOut
    <3> QED
      BY <1>1, <1>6, <2>1, <2>2, <3>1 DEF CallInv, GotIsHeld, AllGot, Working
  <2>3. CASE SessionOf(c) # s
    <3>1. SessionOf(c) \in Sessions =>
             /\ session'[SessionOf(c)] = session[SessionOf(c)]
             /\ holds'[SessionOf(c)] = holds[SessionOf(c)]
      BY <1>3, <1>4, <2>3
    <3>2. caller[c].at \in {"acquire", "setTimeout", "callback"}
             => SessionOf(c) \in Sessions
      BY DEF LockInv, Typed, HasSession
    <3> QED
      BY <1>1, <1>6, <2>1, <3>1, <3>2 DEF CallInv, GotIsHeld, AllGot, Working
  <2> QED
    BY <2>2, <2>3
<1> QED
  BY <1>7, <1>8, <1>9, <1>10 DEF LockInv

LEMMA InitInv == ASSUME LockInit PROVE LockInv
<1>1. LockTypeOK
  <2>1. budget \in BudgetType
    BY DEF LockInit, BudgetType
  <2> QED
    BY <2>1 DEF LockInit, LockTypeOK, NoCall, CallerType, CallerSteps
<1>2. \A c \in Callers : caller[c].at = "idle" /\ SessionOf(c) = None
                          /\ caller[c].got = {}
  BY DEF LockInit, NoCall, SessionOf
<1>3. Typed /\ \A c \in Callers : CallInv(c)
  BY <1>1, <1>2 DEF Typed, HasSession, OwnSession, CallInv, GotIsHeld, AllGot,
                   Working
<1>4. IdleFine /\ Granted
  BY DEF LockInit, IdleFine, Granted
<1> QED
  BY <1>3, <1>4 DEF LockInv

LEMMA NextInv == ASSUME LockInv, [LockNext]_lockVars PROVE LockInv'
<1>1. CASE UNCHANGED lockVars
  <2>1. Typed' /\ IdleFine' /\ Granted'
    BY <1>1 DEF lockVars, LockInv, Typed, LockTypeOK, HasSession, OwnSession, SessionOf,
                IdleFine, CheckedOut, Granted
  <2>2. \A c \in Callers : CallInv(c)'
    BY <1>1 DEF lockVars, LockInv, CallInv, GotIsHeld, AllGot, Working, SessionOf
  <2> QED
    BY <2>1, <2>2 DEF LockInv
<1>2. CASE \E s \in Sessions : Die(s)
  BY <1>2, DieStep
<1>3. ASSUME NEW c \in Callers, Step(c)
      PROVE  LockInv'
  BY <1>3, BeginStep, ConnectStep, MovingSteps, SetTimeoutStep, ReleaseStep,
     EndStep DEF Step
<1>4. ASSUME NEW c \in Callers,
             \/ Call(c) \/ Acquire(c) \/ AcquireFails(c) \/ ReleaseFails(c)
      PROVE  LockInv'
  BY <1>4, BeginStep, AcquireStep, MovingSteps, ReleaseFailsStep
<1> QED
  BY <1>1, <1>2, <1>3, <1>4 DEF LockNext

THEOREM Inductive == LockSpec => []LockInv
BY InitInv, NextInv, PTL DEF LockSpec

(* The state of every call, connection and lock is of the declared type: in *)
(* particular no lock is released more often than it was acquired.          *)
THEOREM LockTypeCorrect == LockSpec => []LockTypeOK
<1>1. LockInv => LockTypeOK
  BY DEF LockInv, Typed
<1> QED
  BY <1>1, Inductive, PTL

-----------------------------------------------------------------------------
(* Account locks exclude: whatever leaks, fails, is lost or refused, two    *)
(* callbacks with a common lock never overlap on living connections.        *)
THEOREM ExclusiveHolds == LockSpec => []Exclusive
<1>1. LockInv => Exclusive
  <2> SUFFICES ASSUME LockInv, NEW c \in Callers, NEW d \in Callers, c # d,
                      \A e \in {c, d} : /\ caller[e].at = "callback"
                                        /\ session[SessionOf(e)] # "gone",
                      NEW l \in Wanted[c] \cap Wanted[d]
               PROVE  FALSE
    BY DEF Exclusive
  <2>1. \A e \in {c, d} : /\ SessionOf(e) \in Sessions
                          /\ session[SessionOf(e)] = "fine"
    BY DEF LockInv, Typed, HasSession, CallInv, Working
  <2>2. \A e \in {c, d} : l \in caller[e].got
    BY DEF LockInv, CallInv, AllGot
  <2>3. holds[SessionOf(c)][l] > 0 /\ holds[SessionOf(d)][l] > 0
    BY <2>1, <2>2 DEF LockInv, CallInv, GotIsHeld
  <2>4. SessionOf(c) # SessionOf(d)
    BY <2>1 DEF LockInv, Typed, OwnSession
  <2>5. SessionOf(c) \in Sessions /\ SessionOf(d) \in Sessions /\ l \in Locks
    BY <2>1
  <2>6. \/ holds[SessionOf(c)][l] = 0
        \/ holds[SessionOf(d)][l] = 0
    BY <2>4, <2>5 DEF LockInv, Granted
  <2> QED
    BY <2>3, <2>6
<1> QED
  BY <1>1, Inductive, PTL

-----------------------------------------------------------------------------
(***************************************************************************)
(* Leaks.  As long as no statement has failed on a session, each lock it    *)
(* holds is held once, for a call that has got it and is not past its       *)
(* finally block.  A session that is gone holds nothing, whatever failed.   *)
(***************************************************************************)
HeldFor(c, s, l) ==
    SessionOf(c) = s /\ l \in caller[c].got /\ caller[c].at # "end"

HeldIsGot(s) ==
    \A l \in Locks :
        holds[s][l] > 0 => /\ holds[s][l] = 1
                           /\ \E c \in Callers : HeldFor(c, s, l)

GoneEmpty ==
    \A s \in Sessions : session[s] = "gone" => \A l \in Locks : holds[s][l] = 0

Tidy(s) == HeldIsGot(s) /\ session[s] # "aborted"

LeakInv == GoneEmpty /\ \A s \in Sessions : s \in spoiled \/ Tidy(s)

(* The locks of session s and the calls they are held for stay.             *)
LEMMA HeldStays ==
    ASSUME NEW s \in Sessions, HeldIsGot(s), holds'[s] = holds[s],
           \A c \in Callers, l \in Locks :
               holds[s][l] > 0 /\ HeldFor(c, s, l) => HeldFor(c, s, l)'
    PROVE  HeldIsGot(s)'
BY DEF HeldIsGot

(* Call c moves, and session s is another one.                              *)
LEMMA HeldElsewhere ==
    ASSUME NEW s \in Sessions, HeldIsGot(s), NEW c \in Callers, SessionOf(c) # s,
           holds'[s] = holds[s], \A d \in Callers : d # c => caller'[d] = caller[d]
    PROVE  HeldIsGot(s)'
<1>1. \A d \in Callers, l \in Locks : HeldFor(d, s, l) => HeldFor(d, s, l)'
  BY DEF HeldFor, SessionOf
<1> QED
  BY <1>1, HeldStays

(* Call c moves and is not at its end. *)
LEMMA HeldOnward ==
    ASSUME NEW s \in Sessions, HeldIsGot(s), NEW c \in Callers,
           SessionOf(c)' = SessionOf(c), caller'[c].got = caller[c].got,
           caller'[c].at # "end", holds' = holds,
           \A d \in Callers : d # c => caller'[d] = caller[d]
    PROVE  HeldIsGot(s)'
<1>1. \A d \in Callers, l \in Locks : HeldFor(d, s, l) => HeldFor(d, s, l)'
  BY DEF HeldFor, SessionOf
<1> QED
  BY <1>1, HeldStays

(* Call c ends, and its session holds nothing for it. *)
LEMMA HeldEnds ==
    ASSUME Typed, GoneEmpty, NEW s \in Sessions, HeldIsGot(s), NEW c \in Callers,
           SessionOf(c) = s, holds' = holds,
           session[s] = "gone" \/ caller[c].got = {} \/ caller[c].at = "end"
    PROVE  HeldIsGot(s)'
<1>1. ASSUME NEW d \in Callers, NEW l \in Locks, holds[s][l] > 0, HeldFor(d, s, l)
      PROVE  FALSE
  <2>1. d = c
    BY <1>1 DEF HeldFor, Typed, OwnSession
  <2> QED
    BY <1>1, <2>1 DEF HeldFor, GoneEmpty
<1> QED
  BY <1>1, HeldStays

(* The steps of a call that leave the locks alone. *)
LEMMA HeldMoves ==
    ASSUME LockInv, GoneEmpty, NEW s \in Sessions, HeldIsGot(s), NEW c \in Callers,
           session'[s] # "aborted",
           \/ Call(c) \/ Connect(c) \/ ConnectTimesOut(c) \/ AllAcquired(c)
           \/ AcquireLost(c) \/ AcquireFails(c) \/ SetTimeout(c) \/ Callback(c)
           \/ ReleaseFails(c) \/ AllReleased(c) \/ End(c)
    PROVE  HeldIsGot(s)'
<1>1. holds' = holds
  BY DEF Call, Connect, ConnectTimesOut, AllAcquired, AcquireLost, AcquireFails,
         SetTimeout, Callback, ReleaseFails, AllReleased, End
<1>2. LockTypeOK /\ Typed
  BY DEF LockInv, Typed
<1>3. \A d \in Callers : d # c => caller'[d] = caller[d]
  BY <1>2 DEF LockTypeOK, Call, Connect, ConnectTimesOut, AllAcquired, AcquireLost,
     AcquireFails, SetTimeout, Callback, ReleaseFails, AllReleased, End, MoveTo
<1>4. CASE SessionOf(c) # s
  BY <1>1, <1>3, <1>4, HeldElsewhere
<1>5. CASE SessionOf(c) = s
  <2>1. ~Call(c) /\ ~Connect(c) /\ ~ConnectTimesOut(c)
    BY <1>2, <1>5 DEF Call, Connect, ConnectTimesOut, Typed, HasSession
  <2>2. ~AcquireFails(c) /\ ~ReleaseFails(c)
    BY <1>2, <1>5 DEF AcquireFails, ReleaseFails, LockTypeOK
  <2>3. CASE AllAcquired(c) \/ SetTimeout(c) \/ Callback(c)
    <3>1. PICK step \in {"setTimeout", "callback", "release"} : MoveTo(c, step)
      BY <2>3 DEF AllAcquired, SetTimeout, Callback
    <3>2. step \in CallerSteps
      BY DEF CallerSteps
    <3>3. /\ SessionOf(c)' = SessionOf(c) /\ caller'[c].got = caller[c].got
          /\ caller'[c].at # "end"
      BY <1>2, <3>1, <3>2, CallGoesTo
    <3> QED
      BY <1>1, <1>3, <3>3, HeldOnward
  <2>4. CASE AcquireLost(c) \/ AllReleased(c) \/ End(c)
    <3>1. \/ session[s] = "gone" \/ caller[c].got = {} \/ caller[c].at = "end"
      BY <1>5, <2>4 DEF AcquireLost, AllReleased, End
    <3> QED
      BY <1>1, <1>2, <1>5, <3>1, HeldEnds
  <2> QED
    BY <2>1, <2>2, <2>3, <2>4
<1> QED
  BY <1>4, <1>5

LEMMA HeldAcquire ==
    ASSUME LockInv, NEW t \in Sessions, HeldIsGot(t), NEW c \in Callers, Acquire(c)
    PROVE  HeldIsGot(t)'
<1> DEFINE s == SessionOf(c)
<1>1. PICK l \in Locks :
         /\ NextLock(c, l) /\ Grants(s, l)
         /\ caller' = [caller EXCEPT ![c].got = @ \cup {l}]
         /\ holds' = [holds EXCEPT ![s][l] = @ + 1]
  BY DEF Acquire
<1>2. session' = session /\ caller[c].at = "acquire"
  BY DEF Acquire
<1>3. s \in Sessions /\ LockTypeOK /\ Typed
  BY <1>2 DEF LockInv, Typed, HasSession
<1>4. /\ \A u \in Sessions : u # s => holds'[u] = holds[u]
      /\ holds'[s][l] = holds[s][l] + 1
      /\ \A m \in Locks : m # l => holds'[s][m] = holds[s][m]
  BY <1>1, <1>3 DEF LockTypeOK
<1>5. /\ SessionOf(c)' = s /\ caller'[c].at = "acquire"
      /\ caller'[c].got = caller[c].got \cup {l}
      /\ \A d \in Callers : d # c => caller'[d] = caller[d]
  BY <1>1, <1>2, <1>3 DEF LockTypeOK, CallerType, SessionOf
<1>6. CASE t # s
  BY <1>4, <1>5, <1>6, HeldElsewhere
<1>7. CASE t = s
  <2>1. holds[s][l] = 0
    <3>1. holds[s][l] \in Nat
      BY <1>3 DEF LockTypeOK
    <3>2. ~(holds[s][l] > 0)
      <4>1. SUFFICES ASSUME holds[s][l] > 0 PROVE FALSE
        OBVIOUS
      <4>2. PICK d \in Callers : HeldFor(d, s, l)
        BY <1>3, <1>7, <4>1 DEF HeldIsGot
      <4>3. d = c
        BY <1>3, <4>2 DEF HeldFor, Typed, OwnSession
      <4> QED
        BY <1>1, <4>2, <4>3 DEF HeldFor, NextLock
    <3> QED
      BY <3>1, <3>2
  <2> SUFFICES ASSUME NEW m \in Locks, holds'[t][m] > 0
               PROVE  /\ holds'[t][m] = 1
                      /\ \E d \in Callers : HeldFor(d, t, m)'
    BY DEF HeldIsGot
  <2>2. CASE m = l
    BY <1>4, <1>5, <1>7, <2>1, <2>2 DEF HeldFor
  <2>3. CASE m # l
    <3>1. holds'[t][m] = holds[t][m]
      BY <1>4, <1>7, <2>3
    <3>2. holds[t][m] = 1 /\ \E d \in Callers : HeldFor(d, t, m)
      BY <3>1 DEF HeldIsGot
    <3>3. PICK d \in Callers : HeldFor(d, t, m)
      BY <3>2
    <3>4. HeldFor(d, t, m)'
      BY <1>5, <3>3 DEF HeldFor, SessionOf
    <3> QED
      BY <3>1, <3>2, <3>4
  <2> QED
    BY <2>2, <2>3
<1> QED
  BY <1>6, <1>7

LEMMA HeldRelease ==
    ASSUME LockInv, GoneEmpty, NEW t \in Sessions, Tidy(t), NEW c \in Callers,
           Release(c)
    PROVE  HeldIsGot(t)'
<1> DEFINE s == SessionOf(c)
<1>1. PICK l \in caller[c].got :
         /\ caller' = [caller EXCEPT ![c].got = @ \ {l}]
         /\ \/ /\ session[s] = "fine"
               /\ holds' = [holds EXCEPT ![s][l] = @ - 1]
            \/ /\ session[s] # "fine"
               /\ holds' = holds
  BY DEF Release
<1>2. session' = session /\ caller[c].at = "release"
  BY DEF Release
<1>3. s \in Sessions /\ LockTypeOK /\ Typed
  BY <1>2 DEF LockInv, Typed, HasSession
<1>4. l \in Locks
  BY <1>1, <1>3 DEF LockTypeOK, CallerType
<1>5. /\ SessionOf(c)' = s /\ caller'[c].at = "release"
      /\ caller'[c].got = caller[c].got \ {l}
      /\ \A d \in Callers : d # c => caller'[d] = caller[d]
  BY <1>1, <1>2, <1>3 DEF LockTypeOK, CallerType, SessionOf
<1>6. holds \in [Sessions -> [Locks -> Nat]]
  BY <1>3 DEF LockTypeOK
<1>7. CASE t # s
  <2>1. holds'[t] = holds[t]
    BY <1>1, <1>6, <1>7
  <2> QED
    BY <1>5, <1>7, <2>1, HeldElsewhere DEF Tidy
<1>8. CASE t = s
  <2>1. /\ \A m \in Locks : m # l => holds'[s][m] = holds[s][m]
        /\ holds'[s][l] = 0
    <3>1. CASE session[s] = "fine"
      <4>1. holds[s][l] > 0
        BY <1>1, <1>3, <3>1 DEF LockInv, CallInv, GotIsHeld
      <4>2. holds[s][l] = 1
        BY <1>3, <1>4, <1>8, <4>1 DEF Tidy, HeldIsGot
      <4>3. holds' = [holds EXCEPT ![s][l] = holds[s][l] - 1]
        BY <1>1, <3>1
      <4> HIDE DEF s
      <4> QED
        BY <1>3, <1>4, <1>6, <4>2, <4>3
    <3>2. CASE session[s] # "fine"
      <4>1. session[s] = "gone"
        BY <1>3, <1>8, <3>2 DEF LockTypeOK, Tidy
      <4>2. holds[s][l] = 0
        BY <1>3, <1>4, <4>1 DEF GoneEmpty
      <4> QED
        BY <1>1, <3>2, <4>2
    <3> QED
      BY <3>1, <3>2
  <2> SUFFICES ASSUME NEW m \in Locks, holds'[t][m] > 0
               PROVE  /\ holds'[t][m] = 1
                      /\ \E d \in Callers : HeldFor(d, t, m)'
    BY DEF HeldIsGot
  <2>2. m # l
    <3>1. SUFFICES ASSUME m = l PROVE FALSE
      OBVIOUS
    <3>2. holds'[t][m] = 0
      BY <1>8, <2>1, <3>1
    <3> QED
      BY <3>2
  <2>3. holds'[t][m] = holds[t][m]
    BY <1>8, <2>1, <2>2
  <2>4. holds[t][m] = 1 /\ \E d \in Callers : HeldFor(d, t, m)
    BY <2>3 DEF Tidy, HeldIsGot
  <2>5. PICK d \in Callers : HeldFor(d, t, m)
    BY <2>4
  <2>6. HeldFor(d, t, m)'
    BY <1>5, <2>2, <2>5 DEF HeldFor, SessionOf
  <2> QED
    BY <2>3, <2>4, <2>6
<1> QED
  BY <1>7, <1>8

(* A session that dies is rid of its locks; the others keep theirs.         *)
LEMMA HeldDie ==
    ASSUME LockInv, NEW s \in Sessions, Die(s), NEW t \in Sessions,
           t = s \/ HeldIsGot(t)
    PROVE  HeldIsGot(t)'
<1>1. /\ caller' = caller /\ LockTypeOK
      /\ holds' = [holds EXCEPT ![s] = [l \in Locks |-> 0]]
  BY DEF Die, LockInv, Typed
<1>2. /\ t # s => holds'[t] = holds[t]
      /\ \A m \in Locks : holds'[s][m] = 0
  BY <1>1 DEF LockTypeOK
<1>3. CASE t = s
  <2>1. \A m \in Locks : ~(holds'[t][m] > 0)
    BY <1>2, <1>3
  <2> QED
    BY <2>1 DEF HeldIsGot
<1>4. CASE t # s
  <2>1. \A d \in Callers, l \in Locks : HeldFor(d, t, l) => HeldFor(d, t, l)'
    BY <1>1 DEF HeldFor, SessionOf
  <2> QED
    BY <1>2, <1>4, <2>1, HeldStays
<1> QED
  BY <1>3, <1>4

-----------------------------------------------------------------------------
(* A session that is gone holds nothing. *)

LEMMA GoneKept ==
    ASSUME GoneEmpty, holds' = holds,
           \A s \in Sessions : session'[s] \in {session[s], "fine", "aborted"}
    PROVE  GoneEmpty'
BY DEF GoneEmpty

LEMMA GoneMoves ==
    ASSUME LockInv, GoneEmpty, NEW c \in Callers,
           \/ Call(c) \/ Connect(c) \/ ConnectTimesOut(c) \/ AllAcquired(c)
           \/ AcquireLost(c) \/ AcquireFails(c) \/ SetTimeout(c) \/ Callback(c)
           \/ ReleaseFails(c) \/ AllReleased(c) \/ End(c)
    PROVE  GoneEmpty'
<1>1. holds' = holds /\ LockTypeOK
  BY DEF Call, Connect, ConnectTimesOut, AllAcquired, AcquireLost, AcquireFails,
         SetTimeout, Callback, ReleaseFails, AllReleased, End, LockInv, Typed
<1>2. \/ session' = session
      \/ session' = [session EXCEPT ![SessionOf(c)] = "fine"]
      \/ session' = [session EXCEPT ![SessionOf(c)] = "aborted"]
  BY DEF Call, Connect, ConnectTimesOut, AllAcquired, AcquireLost, AcquireFails,
         SetTimeout, Callback, ReleaseFails, AllReleased, End
<1>3. \A s \in Sessions : session'[s] \in {session[s], "fine", "aborted"}
  BY <1>1, <1>2 DEF LockTypeOK
<1> QED
  BY <1>1, <1>3, GoneKept

LEMMA GoneAcquireRelease ==
    ASSUME LockInv, GoneEmpty, NEW c \in Callers, Acquire(c) \/ Release(c)
    PROVE  GoneEmpty'
<1>1. LockTypeOK /\ session' = session
  BY DEF LockInv, Typed, Acquire, Release
<1>2. \/ holds' = holds
      \/ /\ session[SessionOf(c)] = "fine"
         /\ \A s \in Sessions : s # SessionOf(c) => holds'[s] = holds[s]
  BY <1>1 DEF LockTypeOK, Acquire, Release, Grants
<1> QED
  BY <1>1, <1>2 DEF GoneEmpty

LEMMA GoneDie ==
    ASSUME LockInv, GoneEmpty, NEW s \in Sessions, Die(s)
    PROVE  GoneEmpty'
<1>1. /\ \A t \in Sessions : t # s => holds'[t] = holds[t]
      /\ \A t \in Sessions : t # s => session'[t] = session[t]
      /\ \A m \in Locks : holds'[s][m] = 0
  BY DEF Die, LockInv, Typed, LockTypeOK
<1> SUFFICES ASSUME NEW t \in Sessions, session'[t] = "gone", NEW m \in Locks
             PROVE  holds'[t][m] = 0
  BY DEF GoneEmpty
<1>2. CASE t = s
  BY <1>1, <1>2
<1>3. CASE t # s
  BY <1>1, <1>3 DEF GoneEmpty
<1> QED
  BY <1>2, <1>3

LEMMA LeakStep ==
    ASSUME LockInv, LeakInv, [LockHistoryNext]_<<lockVars, spoiled>>
    PROVE  LeakInv'
<1>1. CASE UNCHANGED <<lockVars, spoiled>>
  BY <1>1 DEF lockVars, LeakInv, Tidy, HeldIsGot, HeldFor, SessionOf, GoneEmpty
<1>2. ASSUME NEW s \in Sessions, Die(s), LockHistoryNext
      PROVE  LeakInv'
  <2>1. GoneEmpty'
    BY <1>2, GoneDie DEF LeakInv
  <2>2. ASSUME NEW t \in Sessions, t \notin spoiled'
        PROVE  Tidy(t)'
    <3>1. session'[t] # "aborted" /\ (t \notin spoiled \/ Die(t))
      BY <1>2, <2>2 DEF LockHistoryNext
    <3>2. HeldIsGot(t)'
      BY <1>2, <3>1, HeldDie DEF LeakInv, Tidy
    <3> QED
      BY <3>1, <3>2 DEF Tidy
  <2> QED
    BY <2>1, <2>2 DEF LeakInv
<1>3. ASSUME LockHistoryNext, \A s \in Sessions : ~Die(s)
      PROVE  LeakInv'
  <2>1. PICK c \in Callers : \/ Call(c) \/ Step(c) \/ Acquire(c)
                             \/ AcquireFails(c) \/ ReleaseFails(c)
    BY <1>3 DEF LockHistoryNext, LockNext
  <2>2. GoneEmpty'
    BY <2>1, GoneMoves, GoneAcquireRelease DEF LeakInv, Step
  <2>3. ASSUME NEW t \in Sessions, t \notin spoiled'
        PROVE  Tidy(t)'
    <3>1. session'[t] # "aborted" /\ t \notin spoiled
      BY <1>3, <2>3 DEF LockHistoryNext
    <3>2. Tidy(t) /\ GoneEmpty
      BY <3>1 DEF LeakInv
    <3>3. HeldIsGot(t)'
      BY <2>1, <3>1, <3>2, HeldMoves, HeldAcquire, HeldRelease DEF Step, Tidy
    <3> QED
      BY <3>1, <3>3 DEF Tidy
  <2> QED
    BY <2>2, <2>3 DEF LeakInv
<1> QED
  BY <1>1, <1>2, <1>3

(* Whatever fails, is refused or is lost: a session that is back in the     *)
(* pool holds a lock only if a statement has failed on it since it last     *)
(* died, be it an acquisition, an unlock or the SET LOCAL of a call with a  *)
(* timeout.  Every other way out of a call gives its locks back.            *)
THEOREM LeakNeedsAFailureHolds == LockHistorySpec => []LeakNeedsAFailure
<1>1. LockHistoryInit => LockInv /\ LeakInv
  <2> SUFFICES ASSUME LockHistoryInit PROVE LockInv /\ LeakInv
    OBVIOUS
  <2>1. LockInv
    BY InitInv DEF LockHistoryInit
  <2>2. LeakInv
    BY DEF LockHistoryInit, LockInit, LeakInv, Tidy, HeldIsGot, GoneEmpty
  <2> QED
    BY <2>1, <2>2
<1>2. LockInv /\ LeakInv => LeakNeedsAFailure
  <2> SUFFICES ASSUME LockInv, LeakInv, NEW s \in Sessions, ~CheckedOut(s),
                      s \notin spoiled, NEW l \in Locks
               PROVE  holds[s][l] = 0
    BY DEF LeakNeedsAFailure
  <2>1. holds[s][l] \in Nat
    BY DEF LockInv, Typed, LockTypeOK
  <2>2. ~(holds[s][l] > 0)
    BY DEF LeakInv, Tidy, HeldIsGot, HeldFor, CheckedOut
  <2> QED
    BY <2>1, <2>2
<1>3. LockInv /\ LeakInv /\ [LockHistoryNext]_<<lockVars, spoiled>>
         => LockInv' /\ LeakInv'
  <2>1. [LockHistoryNext]_<<lockVars, spoiled>> => [LockNext]_lockVars
    BY DEF LockHistoryNext
  <2> QED
    BY <2>1, NextInv, LeakStep
<1> QED
  BY <1>1, <1>2, <1>3, PTL DEF LockHistorySpec
=============================================================================
