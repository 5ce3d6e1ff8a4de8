------------------------ MODULE OrderExecution_proofs ------------------------
(***************************************************************************)
(* Proofs about OrderExecution for every set of orders, accounts and        *)
(* workers, every number of attempts and every bound of the environment:    *)
(* the types, the advisory locks, the placements that failures pay for,     *)
(* the finality of a settled order, the books of an order whose job has     *)
(* ended, what the kill switch stops, and the refinement of OrderDesk.      *)
(* Placements, finality, books and refinement need more than the locks'     *)
(* invariant; each section states what is inductive.                        *)
(***************************************************************************)
EXTENDS OrderExecution, FiniteSetTheorems, TLAPS

Runs == [Workers -> RunType]

(* A run that has something to do has an order to do it for. *)
RunsHaveOrders ==
    \A w \in Workers : run[w].at # "idle" => run[w].order \in Orders

RunInv == run \in Runs /\ RunsHaveOrders

TypeInv == TypeOK /\ RunsHaveOrders

-----------------------------------------------------------------------------
(* What the building blocks of the steps do to the types. *)

LEMMA IdleTyped == Idle \in RunType
BY DEF Idle, RunType, Steps, Errors

LEMMA GoToTyped ==
    ASSUME RunInv, NEW w \in Workers, run[w].at # "idle",
           NEW step \in Steps, GoTo(w, step)
    PROVE  RunInv'
BY DEF GoTo, Runs, RunType, RunInv, RunsHaveOrders

LEMMA ThrowTyped ==
    ASSUME RunInv, NEW w \in Workers, run[w].at # "idle",
           NEW kind \in Errors, Throw(w, kind)
    PROVE  RunInv'
<1>1. "catch" \in Steps
  BY DEF Steps
<1> QED
  BY <1>1, ZenonT(60) DEF Throw, Runs, RunType, RunInv, RunsHaveOrders

LEMMA FinishTyped ==
    ASSUME RunInv, NEW w \in Workers, run[w].at # "idle",
           NEW failed \in BOOLEAN, Finish(w, failed)
    PROVE  RunInv'
<1>1. "ack" \in Steps
  BY DEF Steps
<1> QED
  BY <1>1, ZenonT(60) DEF Finish, Runs, RunType, RunInv, RunsHaveOrders

LEMMA ResetTyped ==
    ASSUME RunInv, NEW w \in Workers, run' = [run EXCEPT ![w] = Idle]
    PROVE  RunInv'
<1>1. Idle.at = "idle"
  BY DEF Idle
<1> QED
  BY <1>1, IdleTyped DEF Runs, RunInv, RunsHaveOrders

LEMMA SetStatusTyped ==
    ASSUME row \in [Orders -> RowType], NEW o \in Orders, NEW s \in Statuses,
           SetStatus(o, s)
    PROVE  row' \in [Orders -> RowType]
BY DEF SetStatus, RowType

LEMMA SpendTyped ==
    ASSUME budget \in BudgetType,
           NEW what \in {"flips", "faults", "crashes", "slow"}, Spend(what)
    PROVE  budget' \in BudgetType
BY DEF Spend, BudgetType

LEMMA StallTyped ==
    ASSUME job \in [Orders -> JobType], NEW o \in Orders, Stall(o)
    PROVE  job' \in [Orders -> JobType]
<1>1. "failed" \in JobStates /\ "waiting" \in JobStates
  BY DEF JobStates
<1> QED
  BY <1>1 DEF Stall, JobType

LEMMA CountTyped ==
    ASSUME NEW f \in [Orders -> Nat], NEW x \in Orders
    PROVE  [f EXCEPT ![x] = @ + 1] \in [Orders -> Nat]
OBVIOUS

-----------------------------------------------------------------------------
(* Type correctness. *)

LEMMA TypeInit == Init => TypeInv
<1> SUFFICES ASSUME Init PROVE TypeInv
  OBVIOUS
<1>1. run \in Runs /\ RunsHaveOrders
  BY IdleTyped DEF Init, Runs, RunsHaveOrders, Idle
<1>2. row \in [Orders -> RowType] /\ job \in [Orders -> JobType]
  BY DEF Init, RowType, JobType, Statuses, JobStates
<1>3. budget \in BudgetType
  BY OrderExecutionAssumption DEF Init, BudgetType
<1> QED
  BY <1>1, <1>2, <1>3 DEF Init, TypeOK, TypeInv, Runs

(* The steps of a worker's run keep the types. *)
LEMMA TypeWorkerStep ==
    ASSUME TypeInv, NEW w \in Workers, WorkerStep(w)
    PROVE  TypeInv'
<1> DEFINE o == OrderOf(w)
<1>1. RunInv /\ row \in [Orders -> RowType] /\ job \in [Orders -> JobType]
  BY DEF TypeInv, TypeOK, RunInv, Runs
<1>2. /\ "permanent" \in Errors /\ "fatal" \in Errors /\ "retryable" \in Errors
      /\ "pending" \in Statuses /\ "submitted" \in Statuses
      /\ "filled" \in Statuses /\ "rejected" \in Statuses
      /\ "waiting" \in JobStates /\ "active" \in JobStates
      /\ "completed" \in JobStates /\ "failed" \in JobStates
      /\ "load" \in Steps /\ "account" \in Steps /\ "risk" \in Steps
      /\ "riskReject" \in Steps /\ "lock" \in Steps /\ "submit" \in Steps
      /\ "place" \in Steps /\ "unlock" \in Steps /\ "record" \in Steps
      /\ "execution" \in Steps /\ "deadLetter" \in Steps
      /\ "onFailed" \in Steps /\ "killSwitch" \in Steps
  BY DEF Errors, Statuses, JobStates, Steps
<1>3. run[w].at # "idle" => o \in Orders /\ AccountOf[o] \in Accounts
  BY <1>1, OrderExecutionAssumption DEF RunInv, RunsHaveOrders, OrderOf
<1> HIDE DEF o
<1>4. CASE \E p \in Orders : Take(w, p)
  <2> PICK p \in Orders : Take(w, p)
    BY <1>4
  <2>1. run' \in Runs /\ RunsHaveOrders'
    BY <1>1, <1>2 DEF Take, Idle, Runs, RunType, RunInv, RunsHaveOrders,
                      JobType, Errors
  <2>2. job' \in [Orders -> JobType]
    BY <1>1, <1>2 DEF Take, JobType
  <2> QED
    BY <2>1, <2>2 DEF Take, TypeInv, TypeOK, Runs
<1>5. CASE CheckKillSwitch(w)
  <2>1. RunInv'
    BY <1>1, <1>2, <1>5, GoToTyped, ThrowTyped DEF CheckKillSwitch
  <2> QED
    BY <2>1, <1>5 DEF CheckKillSwitch, TypeInv, TypeOK, RunInv, Runs
<1>6. CASE LoadOrder(w)
  <2>1. CASE row[o].status \in {"pending", "submitted"}
    <3>1. run' = [run EXCEPT ![w].at = "account", ![w].seen = row[o].version]
      BY <1>6, <2>1 DEF LoadOrder, o
    <3>2. row[o].version \in Nat /\ run[w].at # "idle"
      BY <1>1, <1>3, <1>6 DEF RowType, LoadOrder
    <3>3. RunInv'
      BY <1>1, <1>2, <3>1, <3>2, ZenonT(60) DEF Runs, RunType, RunInv, RunsHaveOrders
    <3> QED
      BY <3>3, <1>6 DEF LoadOrder, TypeInv, TypeOK, RunInv, Runs
  <2>2. CASE row[o].status \notin {"pending", "submitted"}
    <3>1. RunInv'
      BY <1>1, <2>2, <1>6, FinishTyped DEF LoadOrder, o
    <3> QED
      BY <3>1, <1>6 DEF LoadOrder, TypeInv, TypeOK, RunInv, Runs
  <2> QED
    BY <2>1, <2>2
<1>7. CASE LoadAccount(w)
  <2>1. RunInv'
    BY <1>1, <1>2, <1>7, GoToTyped, ThrowTyped DEF LoadAccount
  <2> QED
    BY <2>1, <1>7 DEF LoadAccount, TypeInv, TypeOK, RunInv, Runs
<1>8. CASE RiskCheck(w)
  <2>1. RunInv'
    BY <1>1, <1>2, <1>8, GoToTyped, ThrowTyped DEF RiskCheck
  <2> QED
    BY <2>1, <1>8 DEF RiskCheck, TypeInv, TypeOK, RunInv, Runs
<1>9. CASE RiskReject(w)
  <2>1. RunInv'
    BY <1>1, <1>2, <1>9, ThrowTyped DEF RiskReject
  <2>2. row' \in [Orders -> RowType]
    BY <1>1, <1>2, <1>3, <1>9, SetStatusTyped DEF RiskReject, o
  <2> QED
    BY <2>1, <2>2, <1>9 DEF RiskReject, TypeInv, TypeOK, RunInv, Runs
<1>10. CASE AcquireLock(w)
  <2>1. RunInv'
    BY <1>1, <1>2, <1>10, GoToTyped DEF AcquireLock
  <2>2. accountLock' \in [Accounts -> Workers \cup {None}]
    BY <1>10 DEF AcquireLock, Release, TypeInv, TypeOK
  <2> QED
    BY <2>1, <2>2, <1>10 DEF AcquireLock, TypeInv, TypeOK, RunInv, Runs
<1>11. CASE Submit(w)
  <2>1. RunInv'
    BY <1>1, <1>2, <1>11, GoToTyped, ThrowTyped DEF Submit
  <2>2. accountLock' \in [Accounts -> Workers \cup {None}]
    BY <1>11 DEF Submit, Release, TypeInv, TypeOK
  <2>3. row' \in [Orders -> RowType]
    BY <1>1, <1>2, <1>3, <1>11, SetStatusTyped DEF Submit, o
  <2> QED
    BY <2>1, <2>2, <2>3, <1>11 DEF Submit, TypeInv, TypeOK, RunInv, Runs
<1>12. CASE Place(w)
  <2>1. RunInv'
    BY <1>1, <1>2, <1>12, GoToTyped DEF Place
  <2>2. run[w].seen \in Nat
    BY <1>1 DEF RunInv, Runs, RunType
  <2>3. placedAt' \in [Orders -> SUBSET Nat]
    BY <2>2, <1>12 DEF Place, TypeInv, TypeOK
  <2> QED
    BY <2>1, <2>3, <1>12 DEF Place, TypeInv, TypeOK, RunInv, Runs
<1>13. CASE BrokerError(w)
  <2>1. RunInv'
    BY <1>1, <1>2, <1>13, ThrowTyped DEF BrokerError
  <2>2. accountLock' \in [Accounts -> Workers \cup {None}]
    BY <1>13 DEF BrokerError, Release, TypeInv, TypeOK
  <2> QED
    BY <2>1, <2>2, <1>13 DEF BrokerError, TypeInv, TypeOK, RunInv, Runs
<1>14. CASE ReleaseLock(w)
  <2>1. RunInv'
    BY <1>1, <1>2, <1>14, GoToTyped DEF ReleaseLock
  <2>2. accountLock' \in [Accounts -> Workers \cup {None}]
    BY <1>14 DEF ReleaseLock, Release, TypeInv, TypeOK
  <2> QED
    BY <2>1, <2>2, <1>14 DEF ReleaseLock, TypeInv, TypeOK, RunInv, Runs
<1>15. CASE UpdateOrderWithExecution(w)
  <2>1. RunInv'
    BY <1>1, <1>2, <1>15, GoToTyped DEF UpdateOrderWithExecution
  <2>2. row' \in [Orders -> RowType]
    BY <1>1, <1>2, <1>3, <1>15, SetStatusTyped DEF UpdateOrderWithExecution, o
  <2> QED
    BY <2>1, <2>2, <1>15 DEF UpdateOrderWithExecution, TypeInv, TypeOK, RunInv, Runs
<1>16. CASE RecordExecution(w)
  <2>1. RunInv'
    BY <1>1, <1>2, <1>16, FinishTyped DEF RecordExecution
  <2>2. executions \in [Orders -> Nat]
    BY DEF TypeInv, TypeOK
  <2>3. executions' \in [Orders -> Nat]
    BY <2>2, <1>16, CountTyped DEF RecordExecution
  <2> QED
    BY <2>1, <2>3, <1>16 DEF RecordExecution, TypeInv, TypeOK, RunInv, Runs
<1>17. CASE CatchError(w)
  <2>1. RunInv'
    BY <1>1, <1>2, <1>17, GoToTyped, FinishTyped DEF CatchError
  <2>2. row' \in [Orders -> RowType]
    BY <1>1, <1>2, <1>3, <1>17, SetStatusTyped DEF CatchError, o
  <2> QED
    BY <2>1, <2>2, <1>17 DEF CatchError, TypeInv, TypeOK, RunInv, Runs
<1>18. CASE AddDeadLetter(w)
  <2>1. RunInv'
    BY <1>1, <1>2, <1>18, FinishTyped DEF AddDeadLetter
  <2>2. deadLetters \in [Orders -> Nat]
    BY DEF TypeInv, TypeOK
  <2>3. deadLetters' \in [Orders -> Nat]
    BY <2>2, <1>18, CountTyped DEF AddDeadLetter
  <2> QED
    BY <2>1, <2>3, <1>18 DEF AddDeadLetter, TypeInv, TypeOK, RunInv, Runs
<1>19. CASE Acknowledge(w)
  <2>1. RunInv'
    BY <1>1, <1>2, <1>19, GoToTyped, ResetTyped DEF Acknowledge
  <2>2. o \in Orders
    BY <1>3, <1>19 DEF Acknowledge
  <2>3. job' \in [Orders -> JobType]
    <3>1. CASE job[o].owner # w
      BY <1>1, <3>1, <1>19 DEF Acknowledge, o
    <3>2. CASE job[o].owner = w /\ ~run[w].failed
      BY <1>1, <1>2, <2>2, <3>2, <1>19 DEF Acknowledge, JobType, o
    <3>3. CASE job[o].owner = w /\ run[w].failed
      <4>1. \E s \in JobStates : job' = [job EXCEPT ![o].state = s,
                                    ![o].made = job[o].made + 1,
                                    ![o].owner = None]
        BY <1>2, <3>3, <1>19 DEF Acknowledge, o
      <4> QED
        BY <1>1, <2>2, <4>1 DEF JobType
    <3> QED
      BY <3>1, <3>2, <3>3
  <2> QED
    BY <2>1, <2>3, <1>19 DEF Acknowledge, TypeInv, TypeOK, RunInv, Runs
<1>20. CASE OnFailed(w)
  <2>1. RunInv'
    BY <1>1, <1>20, ResetTyped DEF OnFailed
  <2>2. deadLetters \in [Orders -> Nat]
    BY DEF TypeInv, TypeOK
  <2>3. deadLetters' \in [Orders -> Nat]
    BY <2>2, <1>20, CountTyped DEF OnFailed
  <2> QED
    BY <2>1, <2>3, <1>20 DEF OnFailed, TypeInv, TypeOK, RunInv, Runs
<1> QED
  BY <1>4, <1>5, <1>6, <1>7, <1>8, <1>9, <1>10, <1>11, <1>12, <1>13, <1>14, <1>15,
     <1>16, <1>17, <1>18, <1>19, <1>20 DEF WorkerStep

(* So do the failures and the operator's steps. *)
LEMMA TypeEnvironmentStep ==
    ASSUME TypeInv,
           \/ \E w \in Workers : \/ DatabaseFault(w) \/ DatabaseFaultInLock(w)
                                 \/ DatabaseFaultInCatch(w) \/ Crash(w)
           \/ \E o \in Orders : StallAfterCrash(o) \/ StallWhileRunning(o)
           \/ FlipKillSwitch
           \/ \E a \in Accounts : FlipAccount(a)
    PROVE  TypeInv'
<1>1. /\ RunInv /\ job \in [Orders -> JobType] /\ budget \in BudgetType
  BY DEF TypeInv, TypeOK, RunInv, Runs
<1>2. "fatal" \in Errors /\ "retryable" \in Errors
  BY DEF Errors
<1>3. ASSUME NEW w \in Workers, DatabaseFault(w) PROVE TypeInv'
  <2>1. RunInv' /\ budget' \in BudgetType
    BY <1>1, <1>2, <1>3, ThrowTyped, SpendTyped DEF DatabaseFault
  <2> QED
    BY <2>1, <1>3 DEF DatabaseFault, TypeInv, TypeOK, RunInv, Runs
<1>4. ASSUME NEW w \in Workers, DatabaseFaultInLock(w) PROVE TypeInv'
  <2>1. RunInv' /\ budget' \in BudgetType
    BY <1>1, <1>2, <1>4, ThrowTyped, SpendTyped DEF DatabaseFaultInLock
  <2>2. accountLock' \in [Accounts -> Workers \cup {None}]
    BY <1>4 DEF DatabaseFaultInLock, Release, TypeInv, TypeOK
  <2> QED
    BY <2>1, <2>2, <1>4 DEF DatabaseFaultInLock, TypeInv, TypeOK, RunInv, Runs
<1>5. ASSUME NEW w \in Workers, DatabaseFaultInCatch(w) PROVE TypeInv'
  <2>1. RunInv' /\ budget' \in BudgetType
    BY <1>1, <1>5, FinishTyped, SpendTyped DEF DatabaseFaultInCatch
  <2> QED
    BY <2>1, <1>5 DEF DatabaseFaultInCatch, TypeInv, TypeOK, RunInv, Runs
<1>6. ASSUME NEW w \in Workers, Crash(w) PROVE TypeInv'
  <2>1. RunInv' /\ budget' \in BudgetType
    BY <1>1, <1>6, ResetTyped, SpendTyped DEF Crash
  <2>2. accountLock' \in [Accounts -> Workers \cup {None}]
    BY <1>6 DEF Crash, TypeInv, TypeOK
  <2> QED
    BY <2>1, <2>2, <1>6 DEF Crash, TypeInv, TypeOK, RunInv, Runs
<1>7. ASSUME NEW o \in Orders, StallAfterCrash(o) PROVE TypeInv'
  <2>1. job' \in [Orders -> JobType]
    BY <1>1, <1>7, StallTyped DEF StallAfterCrash
  <2> QED
    BY <2>1, <1>7 DEF StallAfterCrash, TypeInv, TypeOK, RunsHaveOrders
<1>8. ASSUME NEW o \in Orders, StallWhileRunning(o) PROVE TypeInv'
  <2>1. job' \in [Orders -> JobType] /\ budget' \in BudgetType
    BY <1>1, <1>8, StallTyped, SpendTyped DEF StallWhileRunning
  <2> QED
    BY <2>1, <1>8 DEF StallWhileRunning, TypeInv, TypeOK, RunsHaveOrders
<1>9. CASE FlipKillSwitch
  <2>1. budget' \in BudgetType
    BY <1>1, <1>9, SpendTyped DEF FlipKillSwitch
  <2> QED
    BY <2>1, <1>9 DEF FlipKillSwitch, TypeInv, TypeOK, RunsHaveOrders
<1>10. ASSUME NEW a \in Accounts, FlipAccount(a) PROVE TypeInv'
  <2>1. budget' \in BudgetType
    BY <1>1, <1>10, SpendTyped DEF FlipAccount
  <2> QED
    BY <2>1, <1>10 DEF FlipAccount, TypeInv, TypeOK, RunsHaveOrders
<1> QED
  BY <1>3, <1>4, <1>5, <1>6, <1>7, <1>8, <1>9, <1>10

LEMMA TypeStutter == TypeInv /\ UNCHANGED vars => TypeInv'
BY DEF TypeInv, TypeOK, RunsHaveOrders, vars

LEMMA TypeInductive == Spec => []TypeInv
<1>1. TypeInv /\ [Next]_vars => TypeInv'
  <2> SUFFICES ASSUME TypeInv, [Next]_vars PROVE TypeInv'
    OBVIOUS
  <2> QED
    BY TypeWorkerStep, TypeEnvironmentStep, TypeStutter DEF Next
<1> QED
  BY <1>1, TypeInit, PTL DEF Spec

(* The rows, jobs, runs and locks only take the values they are declared   *)
(* for, whatever fails (TypeOK).                                            *)
THEOREM TypeCorrect == Spec => []TypeOK
<1>1. TypeInv => TypeOK
  BY DEF TypeInv
<1> QED
  BY <1>1, TypeInductive, PTL

-----------------------------------------------------------------------------
(* The account lock and the claims. *)

(* A run inside withAccountLock is the holder of the account's lock. *)
LockedRunsHold ==
    \A w \in Workers :
        run[w].at \in Locked => accountLock[AccountOf[run[w].order]] = w

(* The broker was asked at versions that the row has left behind, ... *)
PlacedBehind == \A o \in Orders : \A v \in placedAt[o] : v < row[o].version

(* ... and a run about to ask it has claimed a version, as yet unused. *)
ClaimFresh ==
    \A w \in Workers : run[w].at = "place" =>
        /\ run[w].seen < row[run[w].order].version
        /\ run[w].seen \notin placedAt[run[w].order]

IInv == TypeInv /\ LockedRunsHold /\ PlacedBehind /\ ClaimFresh

LEMMA LockImpliesExclusive == TypeInv /\ LockedRunsHold => AccountExclusive
BY DEF LockedRunsHold, AccountExclusive, OrderOf

(* Only w's run changes. *)
Only(w) == \A v \in Workers \ {w} : run'[v] = run[v]

(* No row loses a version. *)
VersionsGrow == \A o \in Orders : row'[o].version >= row[o].version

LEMMA GoToOnly ==
    ASSUME run \in Runs, NEW w \in Workers, NEW step, GoTo(w, step)
    PROVE  /\ Only(w)
           /\ run'[w].at = step
           /\ run'[w].order = run[w].order
           /\ run'[w].seen = run[w].seen
BY DEF Runs, RunType, GoTo, Only

LEMMA ThrowOnly ==
    ASSUME run \in Runs, NEW w \in Workers, NEW kind, Throw(w, kind)
    PROVE  Only(w) /\ run'[w].at = "catch"
BY DEF Runs, RunType, Throw, Only

LEMMA FinishOnly ==
    ASSUME run \in Runs, NEW w \in Workers, NEW failed, Finish(w, failed)
    PROVE  Only(w) /\ run'[w].at = "ack"
BY DEF Runs, RunType, Finish, Only

LEMMA ResetOnly ==
    ASSUME run \in Runs, NEW w \in Workers, run' = [run EXCEPT ![w] = Idle]
    PROVE  Only(w) /\ run'[w].at = "idle"
BY DEF Runs, Only, Idle

LEMMA SetStatusGrows ==
    ASSUME row \in [Orders -> RowType], NEW o \in Orders, NEW s, SetStatus(o, s)
    PROVE  VersionsGrow /\ row'[o].version = row[o].version + 1
BY DEF RowType, SetStatus, VersionsGrow

LEMMA SameRowsGrow == row \in [Orders -> RowType] /\ row' = row => VersionsGrow
BY DEF RowType, VersionsGrow

(* A step that leaves w outside the section and no lock changed. *)
LEMMA StayOutside ==
    ASSUME LockedRunsHold, NEW w \in Workers, Only(w),
           run'[w].at \notin Locked, accountLock' = accountLock
    PROVE  LockedRunsHold'
BY DEF LockedRunsHold, Only

(* A step in which w leaves the section and releases its lock. *)
LEMMA LeaveSection ==
    ASSUME TypeInv, LockedRunsHold, NEW w \in Workers, Only(w),
           run[w].at \in Locked, run'[w].at \notin Locked,
           Release(AccountOf[OrderOf(w)])
    PROVE  LockedRunsHold'
<1> SUFFICES ASSUME NEW v \in Workers, run'[v].at \in Locked
             PROVE  accountLock'[AccountOf[run'[v].order]] = v
  BY DEF LockedRunsHold
<1>1. v # w /\ run'[v] = run[v]
  BY DEF Only
<1>2. accountLock[AccountOf[run[v].order]] = v
  BY <1>1 DEF LockedRunsHold
<1>3. accountLock[AccountOf[OrderOf(w)]] = w
  BY DEF LockedRunsHold, OrderOf
<1>4. AccountOf[run[v].order] # AccountOf[OrderOf(w)]
  BY <1>1, <1>2, <1>3
<1>5. accountLock \in [Accounts -> Workers \cup {None}]
  BY DEF TypeInv, TypeOK
<1>6. AccountOf[run[v].order] \in Accounts
  BY <1>1, OrderExecutionAssumption DEF TypeInv, RunsHaveOrders, Locked
<1> QED
  BY <1>1, <1>2, <1>4, <1>5, <1>6 DEF Release

(* A step in which w moves on inside the section. *)
LEMMA StayInside ==
    ASSUME LockedRunsHold, NEW w \in Workers, Only(w),
           run[w].at \in Locked, run'[w].order = run[w].order,
           accountLock' = accountLock
    PROVE  LockedRunsHold'
BY DEF LockedRunsHold, Only

(* A step that neither claims a row nor places an order. *)
LEMMA ClaimsKept ==
    ASSUME TypeInv, PlacedBehind, ClaimFresh, NEW w \in Workers, Only(w),
           run'[w].at # "place", placedAt' = placedAt, VersionsGrow,
           row' \in [Orders -> RowType]
    PROVE  PlacedBehind' /\ ClaimFresh'
<1>1. \A o \in Orders : row[o].version \in Nat /\ row'[o].version \in Nat
  BY DEF TypeInv, TypeOK, RowType
<1>2. \A o \in Orders : \A v \in placedAt[o] : v \in Nat
  BY DEF TypeInv, TypeOK
<1>3. \A v \in Workers : run[v].at = "place" => run[v].order \in Orders
  BY DEF TypeInv, RunsHaveOrders
<1>4. \A v \in Workers : run[v].seen \in Nat
  BY DEF TypeInv, TypeOK, RunType
<1>5. PlacedBehind'
  BY <1>1, <1>2 DEF PlacedBehind, VersionsGrow
<1>6. ClaimFresh'
  <2> SUFFICES ASSUME NEW v \in Workers, run'[v].at = "place"
               PROVE  /\ run'[v].seen < row'[run'[v].order].version
                      /\ run'[v].seen \notin placedAt'[run'[v].order]
    BY DEF ClaimFresh
  <2>1. v # w /\ run'[v] = run[v]
    BY DEF Only
  <2>2. run[v].seen < row[run[v].order].version /\ run[v].order \in Orders
    BY <1>3, <2>1 DEF ClaimFresh
  <2>3. row'[run[v].order].version >= row[run[v].order].version
    BY <2>2 DEF VersionsGrow
  <2>4. run'[v].seen < row'[run'[v].order].version
    BY <1>1, <1>4, <2>1, <2>2, <2>3
  <2>5. run'[v].seen \notin placedAt'[run'[v].order]
    BY <2>1 DEF ClaimFresh
  <2> QED
    BY <2>4, <2>5
<1> QED
  BY <1>5, <1>6

LEMMA InvInit == Init => IInv
<1> SUFFICES ASSUME Init PROVE IInv
  OBVIOUS
<1>1. \A w \in Workers : run[w].at = "idle"
  BY DEF Init, Idle
<1> QED
  BY <1>1, TypeInit
     DEF Init, IInv, LockedRunsHold, PlacedBehind, ClaimFresh, Locked

(* The steps of a worker's run keep the invariant. *)
LEMMA InvWorkerStep ==
    ASSUME IInv, NEW w \in Workers, WorkerStep(w)
    PROVE  IInv'
<1>1. TypeInv /\ LockedRunsHold /\ PlacedBehind /\ ClaimFresh
  BY DEF IInv
<1>2. TypeInv'
  BY <1>1, TypeWorkerStep
<1>3. /\ run \in Runs
      /\ row \in [Orders -> RowType] /\ row' \in [Orders -> RowType]
      /\ accountLock \in [Accounts -> Workers \cup {None}]
      /\ run[w].seen \in Nat
  BY <1>1, <1>2 DEF TypeInv, TypeOK, Runs, RunType
<1>4. run[w].at # "idle" => OrderOf(w) \in Orders /\ AccountOf[OrderOf(w)] \in Accounts
  BY <1>1, OrderExecutionAssumption DEF TypeInv, RunsHaveOrders, OrderOf
<1> SUFFICES LockedRunsHold' /\ PlacedBehind' /\ ClaimFresh'
  BY <1>2 DEF IInv
<1>5. CASE \E p \in Orders : Take(w, p)
  <2>1. Only(w) /\ run'[w].at \notin Locked
    BY <1>3, <1>5 DEF Take, Locked, Only, Runs, Idle
  <2> QED
    BY <1>1, <1>3, <2>1, <1>5, StayOutside, ClaimsKept, SameRowsGrow
       DEF Take, Locked
<1>6. CASE CheckKillSwitch(w)
  <2>1. Only(w) /\ run'[w].at \notin Locked
    BY <1>3, <1>6, GoToOnly, ThrowOnly DEF CheckKillSwitch, Locked
  <2>2. VersionsGrow
    BY <1>3, <1>4, <1>6, SetStatusGrows, SameRowsGrow DEF CheckKillSwitch
  <2> QED
    BY <1>1, <1>3, <2>1, <2>2, <1>6, StayOutside, ClaimsKept DEF CheckKillSwitch, Locked
<1>7. CASE LoadOrder(w)
  <2>1. CASE row[OrderOf(w)].status \in {"pending", "submitted"}
    BY <1>1, <1>3, <2>1, <1>7, StayOutside, ClaimsKept, SameRowsGrow
       DEF LoadOrder, Locked, Only, Runs, RunType
  <2>2. CASE row[OrderOf(w)].status \notin {"pending", "submitted"}
    BY <1>1, <1>3, <2>2, <1>7, FinishOnly, StayOutside, ClaimsKept, SameRowsGrow
       DEF LoadOrder, Locked
  <2> QED
    BY <2>1, <2>2
<1>8. CASE LoadAccount(w)
  <2>1. Only(w) /\ run'[w].at \notin Locked
    BY <1>3, <1>8, GoToOnly, ThrowOnly DEF LoadAccount, Locked
  <2>2. VersionsGrow
    BY <1>3, <1>4, <1>8, SetStatusGrows, SameRowsGrow DEF LoadAccount
  <2> QED
    BY <1>1, <1>3, <2>1, <2>2, <1>8, StayOutside, ClaimsKept DEF LoadAccount, Locked
<1>9. CASE RiskCheck(w)
  <2>1. Only(w) /\ run'[w].at \notin Locked
    BY <1>3, <1>9, GoToOnly, ThrowOnly DEF RiskCheck, Locked
  <2>2. VersionsGrow
    BY <1>3, <1>4, <1>9, SetStatusGrows, SameRowsGrow DEF RiskCheck
  <2> QED
    BY <1>1, <1>3, <2>1, <2>2, <1>9, StayOutside, ClaimsKept DEF RiskCheck, Locked
<1>10. CASE RiskReject(w)
  <2>1. Only(w) /\ run'[w].at \notin Locked
    BY <1>3, <1>10, ThrowOnly DEF RiskReject, Locked
  <2>2. VersionsGrow
    BY <1>3, <1>4, <1>10, SetStatusGrows, SameRowsGrow DEF RiskReject
  <2> QED
    BY <1>1, <1>3, <2>1, <2>2, <1>10, StayOutside, ClaimsKept DEF RiskReject, Locked
<1>11. CASE AcquireLock(w)
  <2>1. Only(w) /\ run'[w].at = "submit" /\ run'[w].order = run[w].order
    BY <1>3, <1>11, GoToOnly DEF AcquireLock
  <2>2. LockedRunsHold'
    <3> SUFFICES ASSUME NEW v \in Workers, run'[v].at \in Locked
                 PROVE  accountLock'[AccountOf[run'[v].order]] = v
      BY DEF LockedRunsHold
    <3>1. CASE v = w
      BY <1>3, <1>4, <2>1, <3>1, <1>11 DEF AcquireLock, OrderOf
    <3>2. CASE v # w
      <4>1. run'[v] = run[v] /\ accountLock[AccountOf[run[v].order]] = v
        BY <1>1, <2>1, <3>2 DEF Only, LockedRunsHold
      <4>2. AccountOf[run[v].order] # AccountOf[OrderOf(w)]
        BY <4>1, <1>11, OrderExecutionAssumption DEF AcquireLock
      <4> QED
        BY <4>1, <4>2, <1>11 DEF AcquireLock
    <3> QED
      BY <3>1, <3>2
  <2> QED
    BY <1>1, <1>3, <2>1, <2>2, <1>11, ClaimsKept, SameRowsGrow DEF AcquireLock
<1>12. CASE Submit(w)
  <2> DEFINE o == OrderOf(w)
  <2>0. o \in Orders /\ run[w].at \in Locked /\ o = run[w].order
    BY <1>4, <1>12 DEF Submit, Locked, OrderOf
  <2>1. CASE VersionMatches(w)
    <3>1. SetStatus(o, "submitted") /\ GoTo(w, "place") /\ accountLock' = accountLock
          /\ placedAt' = placedAt
      BY <2>1, <1>12 DEF Submit
    <3>2. Only(w) /\ run'[w].order = run[w].order /\ run'[w].seen = run[w].seen
      BY <1>3, <3>1, GoToOnly
    <3>3. VersionsGrow /\ row'[o].version = row[o].version + 1
      BY <1>3, <2>0, <3>1, SetStatusGrows
    <3>4. LockedRunsHold'
      BY <1>1, <2>0, <3>1, <3>2, StayInside
    <3>5. \A p \in Orders : /\ row[p].version \in Nat /\ row'[p].version \in Nat
                           /\ \A v \in placedAt[p] : v \in Nat
      BY <1>1, <1>3 DEF RowType, TypeInv, TypeOK
    <3>6. PlacedBehind'
      BY <1>1, <3>1, <3>3, <3>5 DEF PlacedBehind, VersionsGrow
    <3>7. run[w].seen = row[o].version
      BY <2>1 DEF VersionMatches
    <3>8. run[w].seen < row'[o].version /\ run[w].seen \notin placedAt[o]
      BY <1>1, <2>0, <3>3, <3>5, <3>7 DEF PlacedBehind
    <3>9. ClaimFresh'
      <4> SUFFICES ASSUME NEW v \in Workers, run'[v].at = "place"
                   PROVE  /\ run'[v].seen < row'[run'[v].order].version
                          /\ run'[v].seen \notin placedAt'[run'[v].order]
        BY DEF ClaimFresh
      <4>1. CASE v = w
        BY <2>0, <3>1, <3>2, <3>8, <4>1
      <4>2. CASE v # w
        <5>1. run'[v] = run[v] /\ run[v].order \in Orders /\ run[v].seen \in Nat
          BY <1>1, <3>2, <4>2 DEF Only, TypeInv, TypeOK, RunsHaveOrders, RunType
        <5>2. /\ run[v].seen < row[run[v].order].version
              /\ run[v].seen \notin placedAt[run[v].order]
          BY <1>1, <5>1 DEF ClaimFresh
        <5>3. row'[run[v].order].version >= row[run[v].order].version
          BY <3>3, <5>1 DEF VersionsGrow
        <5> QED
          BY <3>1, <3>5, <5>1, <5>2, <5>3
      <4> QED
        BY <4>1, <4>2
    <3> QED
      BY <3>4, <3>6, <3>9
  <2>2. CASE ~VersionMatches(w)
    <3>1. /\ Throw(w, "fatal") /\ Release(AccountOf[o])
          /\ row' = row /\ placedAt' = placedAt
      BY <2>2, <1>12 DEF Submit
    <3>2. Only(w) /\ run'[w].at = "catch"
      BY <1>3, <3>1, ThrowOnly
    <3>3. LockedRunsHold'
      BY <1>1, <2>0, <3>1, <3>2, LeaveSection DEF Locked
    <3> QED
      BY <1>1, <1>3, <3>1, <3>2, <3>3, ClaimsKept, SameRowsGrow
  <2> QED
    BY <2>1, <2>2
<1>13. CASE Place(w)
  <2> DEFINE o == OrderOf(w)
  <2>0. o \in Orders /\ run[w].at \in Locked /\ o = run[w].order
    BY <1>4, <1>13 DEF Place, Locked, OrderOf
  <2>1. Only(w) /\ run'[w].at = "unlock" /\ run'[w].order = run[w].order
    BY <1>3, <1>13, GoToOnly DEF Place
  <2>2. LockedRunsHold'
    BY <1>1, <2>0, <2>1, <1>13, StayInside DEF Place
  <2>3. run[w].seen < row[o].version
    BY <1>1, <2>0, <1>13 DEF ClaimFresh, Place
  <2>4. placedAt \in [Orders -> SUBSET Nat]
    BY <1>1 DEF TypeInv, TypeOK
  <2>5. /\ \A p \in Orders : p # o => placedAt'[p] = placedAt[p]
        /\ placedAt'[o] = placedAt[o] \cup {run[w].seen}
        /\ row' = row
    BY <2>0, <2>4, <1>13 DEF Place
  <2>6. PlacedBehind'
    BY <1>1, <2>3, <2>5 DEF PlacedBehind
  <2>7. ClaimFresh'
    <3> SUFFICES ASSUME NEW v \in Workers, run'[v].at = "place"
                 PROVE  /\ run'[v].seen < row'[run'[v].order].version
                        /\ run'[v].seen \notin placedAt'[run'[v].order]
      BY DEF ClaimFresh
    <3>1. v # w /\ run'[v] = run[v]
      BY <2>1 DEF Only
    <3>2. run[v].order \in Orders /\ run[v].order # o
      <4>1. run[v].order \in Orders
        BY <1>1, <3>1 DEF TypeInv, RunsHaveOrders
      <4>2. /\ accountLock[AccountOf[run[v].order]] = v
            /\ accountLock[AccountOf[o]] = w
        BY <1>1, <2>0, <3>1 DEF LockedRunsHold, Locked
      <4> QED
        BY <3>1, <4>1, <4>2
    <3> QED
      BY <1>1, <2>5, <3>1, <3>2 DEF ClaimFresh
  <2> QED
    BY <2>2, <2>6, <2>7
<1>14. CASE BrokerError(w)
  <2>1. Only(w) /\ run[w].at \in Locked /\ run'[w].at \notin Locked
    BY <1>3, <1>14, ThrowOnly DEF BrokerError, Locked
  <2>2. LockedRunsHold'
    BY <1>1, <2>1, <1>14, LeaveSection DEF BrokerError
  <2> QED
    BY <1>1, <1>3, <2>1, <2>2, <1>14, ClaimsKept, SameRowsGrow DEF BrokerError, Locked
<1>15. CASE ReleaseLock(w)
  <2>1. Only(w) /\ run[w].at \in Locked /\ run'[w].at \notin Locked
    BY <1>3, <1>15, GoToOnly DEF ReleaseLock, Locked
  <2>2. LockedRunsHold'
    BY <1>1, <2>1, <1>15, LeaveSection DEF ReleaseLock
  <2> QED
    BY <1>1, <1>3, <2>1, <2>2, <1>15, ClaimsKept, SameRowsGrow DEF ReleaseLock, Locked
<1>16. CASE UpdateOrderWithExecution(w)
  <2>1. Only(w) /\ run'[w].at \notin Locked
    BY <1>3, <1>16, GoToOnly DEF UpdateOrderWithExecution, Locked
  <2>2. VersionsGrow
    BY <1>3, <1>4, <1>16, SetStatusGrows, SameRowsGrow DEF UpdateOrderWithExecution
  <2> QED
    BY <1>1, <1>3, <2>1, <2>2, <1>16, StayOutside, ClaimsKept DEF UpdateOrderWithExecution, Locked
<1>17. CASE RecordExecution(w)
  <2>1. Only(w) /\ run'[w].at \notin Locked
    BY <1>3, <1>17, FinishOnly DEF RecordExecution, Locked
  <2>2. VersionsGrow
    BY <1>3, <1>4, <1>17, SetStatusGrows, SameRowsGrow DEF RecordExecution
  <2> QED
    BY <1>1, <1>3, <2>1, <2>2, <1>17, StayOutside, ClaimsKept DEF RecordExecution, Locked
<1>18. CASE CatchError(w)
  <2>1. Only(w) /\ run'[w].at \notin Locked
    <3>1. GoTo(w, "deadLetter") \/ Finish(w, TRUE)
      BY <1>18 DEF CatchError
    <3>2. ASSUME GoTo(w, "deadLetter") PROVE Only(w) /\ run'[w].at \notin Locked
      BY <1>3, <3>2, GoToOnly DEF Locked
    <3>3. ASSUME Finish(w, TRUE) PROVE Only(w) /\ run'[w].at \notin Locked
      BY <1>3, <3>3, FinishOnly DEF Locked
    <3> QED
      BY <3>1, <3>2, <3>3
  <2>2. VersionsGrow
    BY <1>3, <1>4, <1>18, SetStatusGrows, SameRowsGrow DEF CatchError
  <2> QED
    BY <1>1, <1>3, <2>1, <2>2, <1>18, StayOutside, ClaimsKept DEF CatchError, Locked
<1>19. CASE AddDeadLetter(w)
  <2>1. Only(w) /\ run'[w].at \notin Locked
    BY <1>3, <1>19, FinishOnly DEF AddDeadLetter, Locked
  <2>2. VersionsGrow
    BY <1>3, <1>4, <1>19, SetStatusGrows, SameRowsGrow DEF AddDeadLetter
  <2> QED
    BY <1>1, <1>3, <2>1, <2>2, <1>19, StayOutside, ClaimsKept DEF AddDeadLetter, Locked
<1>20. CASE Acknowledge(w)
  <2>1. Only(w) /\ run'[w].at \notin Locked
    BY <1>3, <1>20, GoToOnly, ResetOnly DEF Acknowledge, Locked
  <2>2. VersionsGrow
    BY <1>3, <1>4, <1>20, SetStatusGrows, SameRowsGrow DEF Acknowledge
  <2> QED
    BY <1>1, <1>3, <2>1, <2>2, <1>20, StayOutside, ClaimsKept DEF Acknowledge, Locked
<1>21. CASE OnFailed(w)
  <2>1. Only(w) /\ run'[w].at \notin Locked
    BY <1>3, <1>21, ResetOnly DEF OnFailed, Locked
  <2>2. VersionsGrow
    BY <1>3, <1>4, <1>21, SetStatusGrows, SameRowsGrow DEF OnFailed
  <2> QED
    BY <1>1, <1>3, <2>1, <2>2, <1>21, StayOutside, ClaimsKept DEF OnFailed, Locked
<1> QED
  BY <1>5, <1>6, <1>7, <1>8, <1>9, <1>10, <1>11, <1>12, <1>13, <1>14, <1>15, <1>16,
     <1>17, <1>18, <1>19, <1>20, <1>21 DEF WorkerStep

(* So do the failures and the operator's steps. *)
LEMMA InvEnvironmentStep ==
    ASSUME IInv,
           \/ \E w \in Workers : \/ DatabaseFault(w) \/ DatabaseFaultInLock(w)
                                 \/ DatabaseFaultInCatch(w) \/ Crash(w)
           \/ \E o \in Orders : StallAfterCrash(o) \/ StallWhileRunning(o)
           \/ FlipKillSwitch
           \/ \E a \in Accounts : FlipAccount(a)
    PROVE  IInv'
<1>1. TypeInv /\ LockedRunsHold /\ PlacedBehind /\ ClaimFresh
  BY DEF IInv
<1>2. TypeInv'
  BY <1>1, TypeEnvironmentStep
<1>3. /\ run \in Runs
      /\ row \in [Orders -> RowType] /\ row' \in [Orders -> RowType]
      /\ accountLock \in [Accounts -> Workers \cup {None}]
  BY <1>1, <1>2 DEF TypeInv, TypeOK, Runs
<1> SUFFICES LockedRunsHold' /\ PlacedBehind' /\ ClaimFresh'
  BY <1>2 DEF IInv
<1>4. ASSUME NEW w \in Workers, DatabaseFault(w)
      PROVE  LockedRunsHold' /\ PlacedBehind' /\ ClaimFresh'
  <2>1. Only(w) /\ run'[w].at \notin Locked
    BY <1>3, <1>4, ThrowOnly DEF DatabaseFault, Locked
  <2> QED
    BY <1>1, <1>3, <2>1, <1>4, StayOutside, ClaimsKept, SameRowsGrow
       DEF DatabaseFault, Locked
<1>5. ASSUME NEW w \in Workers, DatabaseFaultInLock(w)
      PROVE  LockedRunsHold' /\ PlacedBehind' /\ ClaimFresh'
  <2>1. Only(w) /\ run[w].at \in Locked /\ run'[w].at \notin Locked
    BY <1>3, <1>5, ThrowOnly DEF DatabaseFaultInLock, Locked
  <2>2. LockedRunsHold'
    BY <1>1, <2>1, <1>5, LeaveSection DEF DatabaseFaultInLock
  <2> QED
    BY <1>1, <1>3, <2>1, <2>2, <1>5, ClaimsKept, SameRowsGrow
       DEF DatabaseFaultInLock, Locked
<1>6. ASSUME NEW w \in Workers, DatabaseFaultInCatch(w)
      PROVE  LockedRunsHold' /\ PlacedBehind' /\ ClaimFresh'
  <2>1. Only(w) /\ run'[w].at \notin Locked
    BY <1>3, <1>6, FinishOnly DEF DatabaseFaultInCatch, Locked
  <2> QED
    BY <1>1, <1>3, <2>1, <1>6, StayOutside, ClaimsKept, SameRowsGrow
       DEF DatabaseFaultInCatch, Locked
<1>7. ASSUME NEW w \in Workers, Crash(w)
      PROVE  LockedRunsHold' /\ PlacedBehind' /\ ClaimFresh'
  <2>1. Only(w) /\ run'[w].at = "idle"
    BY <1>3, <1>7, ResetOnly DEF Crash
  <2>2. LockedRunsHold'
    <3> SUFFICES ASSUME NEW v \in Workers, run'[v].at \in Locked
                 PROVE  accountLock'[AccountOf[run'[v].order]] = v
      BY DEF LockedRunsHold
    <3>1. v # w /\ run'[v] = run[v]
      BY <2>1 DEF Only, Locked
    <3>2. AccountOf[run[v].order] \in Accounts
      BY <1>1, <3>1, OrderExecutionAssumption DEF TypeInv, RunsHaveOrders, Locked
    <3>3. accountLock[AccountOf[run[v].order]] = v
      BY <1>1, <3>1 DEF LockedRunsHold
    <3> QED
      BY <3>1, <3>2, <3>3, <1>7 DEF Crash
  <2> QED
    BY <1>1, <1>3, <2>1, <2>2, <1>7, ClaimsKept, SameRowsGrow DEF Crash
<1>8. ASSUME UNCHANGED <<run, row, accountLock, placedAt>>
      PROVE  LockedRunsHold' /\ PlacedBehind' /\ ClaimFresh'
  BY <1>1, <1>8 DEF LockedRunsHold, PlacedBehind, ClaimFresh
<1> QED
  BY <1>4, <1>5, <1>6, <1>7, <1>8
     DEF StallAfterCrash, StallWhileRunning, FlipKillSwitch, FlipAccount

LEMMA InvStep == IInv /\ [Next]_vars => IInv'
<1> SUFFICES ASSUME IInv, [Next]_vars PROVE IInv'
  OBVIOUS
<1>1. CASE UNCHANGED vars
  BY <1>1, TypeStutter
     DEF IInv, LockedRunsHold, PlacedBehind, ClaimFresh, vars
<1> QED
  BY <1>1, InvWorkerStep, InvEnvironmentStep DEF Next

LEMMA InvInductive == Spec => []IInv
BY InvInit, InvStep, PTL DEF Spec

(* Two runs are never in the broker section of the same account, whatever   *)
(* crashes, stalls and failing statements do (AccountExclusive).            *)
THEOREM AccountExclusiveHolds == Spec => []AccountExclusive
<1>1. IInv => AccountExclusive
  BY LockImpliesExclusive DEF IInv
<1> QED
  BY <1>1, InvInductive, PTL

(* A run that is about to call the broker holds a version of the order that *)
(* no placement has used, for any number of runs of the job                 *)
(* (OnePlacementPerClaim).                                                  *)
THEOREM OnePlacementPerClaimHolds == Spec => []OnePlacementPerClaim
<1>1. IInv => OnePlacementPerClaim
  BY DEF IInv, ClaimFresh, OnePlacementPerClaim, OrderOf
<1> QED
  BY <1>1, InvInductive, PTL

(* Each placement of an order was paid for by a version of its row: the     *)
(* broker was asked only at versions the row has since left.                *)
THEOREM PlacedBehindHolds == Spec => []PlacedBehind
<1>1. IInv => PlacedBehind
  BY DEF IInv
<1> QED
  BY <1>1, InvInductive, PTL
-----------------------------------------------------------------------------
(* The queue, the owners of its jobs, and the budgets.                      *)

(* A job is owned exactly while it is active, ... *)
JobsOwned == \A o \in Orders : job[o].state = "active" <=> job[o].owner # None

(* ... and the handler of a failed job runs after its last attempt. *)
HandlersLast ==
    \A w \in Workers :
        run[w].at = "onFailed" => job[run[w].order].state = "failed"

(* A run that is over has no order. *)
IdleRuns == \A w \in Workers : run[w].at = "idle" => run[w].order = None

(* Nothing is given back to a budget. *)
BudgetsShrink == /\ budget.flips <= MaxFlips /\ budget.faults <= MaxFaults
                 /\ budget.crashes <= MaxCrashes /\ budget.slow <= MaxSlow

Works(w) == run[w].at \notin {"idle", "onFailed"}

(* Until a slow run has been handed out again, a job has one run: the one   *)
(* of its owner.                                                            *)
RunsOwn == \A w \in Workers : Works(w) => job[run[w].order].owner = w

QInv == /\ TypeInv /\ JobsOwned /\ HandlersLast /\ IdleRuns /\ BudgetsShrink
        /\ budget.slow = MaxSlow => RunsOwn

(* The steps of a run between its start and its report to the queue. *)
RunStep(w) ==
    \/ CheckKillSwitch(w) \/ LoadOrder(w) \/ LoadAccount(w)
    \/ RiskCheck(w) \/ RiskReject(w) \/ AcquireLock(w)
    \/ Submit(w) \/ Place(w) \/ BrokerError(w) \/ ReleaseLock(w)
    \/ UpdateOrderWithExecution(w) \/ RecordExecution(w)
    \/ CatchError(w) \/ AddDeadLetter(w)

FaultStep(w) ==
    DatabaseFault(w) \/ DatabaseFaultInLock(w) \/ DatabaseFaultInCatch(w)

(* They leave the queue alone and keep the run at work for its order. *)
Moves(w) == /\ Only(w)
            /\ run[w].at \notin {"idle", "onFailed", "ack"}
            /\ run'[w].at \notin {"idle", "onFailed"}
            /\ run'[w].order = run[w].order
            /\ job' = job

LEMMA GoToMoves ==
    ASSUME run \in Runs, NEW w \in Workers, NEW step, GoTo(w, step)
    PROVE  /\ Only(w)
           /\ run'[w].at = step /\ run'[w].order = run[w].order
           /\ run'[w].failed = run[w].failed /\ run'[w].error = run[w].error
BY DEF Runs, RunType, GoTo, Only

LEMMA ThrowMoves ==
    ASSUME run \in Runs, NEW w \in Workers, NEW kind, Throw(w, kind)
    PROVE  /\ Only(w)
           /\ run'[w].at = "catch" /\ run'[w].order = run[w].order
           /\ run'[w].error = kind
BY DEF Runs, RunType, Throw, Only

LEMMA FinishMoves ==
    ASSUME run \in Runs, NEW w \in Workers, NEW failed, Finish(w, failed)
    PROVE  /\ Only(w)
           /\ run'[w].at = "ack" /\ run'[w].order = run[w].order
           /\ run'[w].failed = failed
BY DEF Runs, RunType, Finish, Only

LEMMA ResetMoves ==
    ASSUME run \in Runs, NEW w \in Workers, run' = [run EXCEPT ![w] = Idle]
    PROVE  /\ Only(w)
           /\ run'[w].at = "idle" /\ run'[w].order = None
BY DEF Runs, Only, Idle

LEMMA LoadMoves ==
    ASSUME run \in Runs, NEW w \in Workers, LoadOrder(w)
    PROVE  /\ Only(w) /\ run'[w].order = run[w].order
           /\ \/ /\ row[OrderOf(w)].status \in {"pending", "submitted"}
                 /\ run'[w].at = "account"
              \/ run'[w].at = "ack" /\ run'[w].failed = FALSE
<1>1. CASE row[OrderOf(w)].status \in {"pending", "submitted"}
  BY <1>1 DEF Runs, RunType, LoadOrder, Only
<1>2. CASE row[OrderOf(w)].status \notin {"pending", "submitted"}
  BY <1>2, FinishMoves DEF LoadOrder
<1> QED
  BY <1>1, <1>2

LEMMA StatusSet ==
    ASSUME row \in [Orders -> RowType], NEW o \in Orders, NEW s, SetStatus(o, s)
    PROVE  row'[o].status = s
BY DEF RowType, SetStatus

LEMMA CatchMoves ==
    ASSUME run \in Runs, NEW w \in Workers, CatchError(w)
    PROVE  /\ Only(w) /\ run'[w].order = run[w].order /\ run[w].at = "catch"
           /\ placedAt' = placedAt /\ executions' = executions
           /\ \/ run'[w].at = "ack" /\ run'[w].failed = TRUE /\ row' = row
              \/ /\ run'[w].at = "ack" /\ run'[w].failed = TRUE
                 /\ run[w].error = "retryable"
                 /\ SetStatus(OrderOf(w), "pending")
              \/ /\ run'[w].at = "deadLetter"
                 /\ SetStatus(OrderOf(w), "rejected")
<1>1. ASSUME Finish(w, TRUE)
      PROVE  /\ Only(w) /\ run'[w].order = run[w].order
             /\ run'[w].at = "ack" /\ run'[w].failed = TRUE
  BY <1>1, FinishMoves
<1>2. ASSUME GoTo(w, "deadLetter")
      PROVE  /\ Only(w) /\ run'[w].order = run[w].order
             /\ run'[w].at = "deadLetter"
  BY <1>2, GoToMoves
<1> QED
  BY <1>1, <1>2 DEF CatchError

LEMMA RunStepMoves ==
    ASSUME TypeInv, NEW w \in Workers, RunStep(w) \/ FaultStep(w)
    PROVE  Moves(w)
<1>0. run \in Runs
  BY DEF TypeInv, TypeOK, Runs
<1>1. CASE CheckKillSwitch(w)
  BY <1>0, <1>1, GoToMoves, ThrowMoves DEF Moves, CheckKillSwitch
<1>2. CASE LoadAccount(w)
  BY <1>0, <1>2, GoToMoves, ThrowMoves DEF Moves, LoadAccount
<1>3. CASE RiskCheck(w)
  BY <1>0, <1>3, GoToMoves, ThrowMoves DEF Moves, RiskCheck
<1>4. CASE RiskReject(w)
  BY <1>0, <1>4, ThrowMoves DEF Moves, RiskReject
<1>5. CASE AcquireLock(w)
  BY <1>0, <1>5, GoToMoves DEF Moves, AcquireLock
<1>6. CASE Submit(w)
  BY <1>0, <1>6, GoToMoves, ThrowMoves DEF Moves, Submit
<1>7. CASE Place(w)
  BY <1>0, <1>7, GoToMoves DEF Moves, Place
<1>8. CASE BrokerError(w)
  BY <1>0, <1>8, ThrowMoves DEF Moves, BrokerError
<1>9. CASE ReleaseLock(w)
  BY <1>0, <1>9, GoToMoves DEF Moves, ReleaseLock
<1>10. CASE UpdateOrderWithExecution(w)
  BY <1>0, <1>10, GoToMoves DEF Moves, UpdateOrderWithExecution
<1>11. CASE RecordExecution(w)
  BY <1>0, <1>11, FinishMoves DEF Moves, RecordExecution
<1>12. CASE CatchError(w)
  <2>1. job' = job
    BY <1>12 DEF CatchError
  <2> QED
    BY <1>0, <1>12, <2>1, CatchMoves DEF Moves
<1>13. CASE AddDeadLetter(w)
  BY <1>0, <1>13, FinishMoves DEF Moves, AddDeadLetter
<1>14. CASE LoadOrder(w)
  BY <1>0, <1>14, LoadMoves DEF Moves, LoadOrder
<1>15. CASE FaultStep(w)
  BY <1>0, <1>15, ThrowMoves, FinishMoves
     DEF Moves, FaultStep, DatabaseFault, DatabaseFaultInLock,
         DatabaseFaultInCatch
<1> QED
  BY <1>1, <1>2, <1>3, <1>4, <1>5, <1>6, <1>7, <1>8,
     <1>9, <1>10, <1>11, <1>12, <1>13, <1>14, <1>15 DEF RunStep

LEMMA SpendOne ==
    ASSUME budget \in BudgetType,
           NEW what \in {"flips", "faults", "crashes", "slow"}, Spend(what)
    PROVE  /\ budget[what] \in Nat /\ budget'[what] = budget[what] - 1
           /\ \A b \in {"flips", "faults", "crashes", "slow"} \ {what} :
                 budget'[b] = budget[b]
BY DEF Spend, BudgetType

LEMMA SpendShrinks ==
    ASSUME TypeInv, BudgetsShrink,
           NEW what \in {"flips", "faults", "crashes", "slow"}, Spend(what)
    PROVE  BudgetsShrink'
<1>1. budget \in BudgetType
  BY DEF TypeInv, TypeOK
<1> QED
  BY <1>1, SpendOne, OrderExecutionAssumption DEF BudgetsShrink, BudgetType

LEMMA RunStepBudget ==
    ASSUME TypeInv, BudgetsShrink, NEW w \in Workers, RunStep(w) \/ FaultStep(w)
    PROVE  /\ BudgetsShrink'
           /\ RunStep(w) => budget' = budget
           /\ FaultStep(w) => Spend("faults")
           /\ budget'.slow = budget.slow
<1>1. RunStep(w) => budget' = budget
  BY DEF RunStep, CheckKillSwitch, LoadOrder, LoadAccount, RiskCheck, RiskReject,
         AcquireLock, Submit, Place, BrokerError, ReleaseLock,
         UpdateOrderWithExecution, RecordExecution, CatchError, AddDeadLetter
<1>2. FaultStep(w) => Spend("faults")
  BY DEF FaultStep, DatabaseFault, DatabaseFaultInLock, DatabaseFaultInCatch
<1>3. budget \in BudgetType
  BY DEF TypeInv, TypeOK
<1>4. Spend("faults") => budget'.slow = budget.slow
  BY <1>3 DEF Spend, BudgetType
<1> QED
  BY <1>1, <1>2, <1>4, SpendShrinks DEF BudgetsShrink

(* The report of a run: its job may have gone to another worker; it is      *)
(* completed, tried again, or failed for good, and then the handler runs.   *)
LEMMA AckCases ==
    ASSUME TypeInv, NEW w \in Workers, Acknowledge(w),
           NEW o, o = run[w].order
    PROVE  /\ o \in Orders /\ run[w].at = "ack" /\ Only(w)
           /\ \/ /\ job[o].owner # w /\ job' = job
                 /\ run'[w].at = "idle" /\ run'[w].order = None
              \/ /\ job[o].owner = w
                 /\ \A p \in Orders \ {o} : job'[p] = job[p]
                 /\ job'[o].owner = None
                 /\ \/ /\ ~run[w].failed /\ job'[o].state = "completed"
                       /\ run'[w].at = "idle" /\ run'[w].order = None
                    \/ /\ run[w].failed /\ job'[o].state = "waiting"
                       /\ run'[w].at = "idle" /\ run'[w].order = None
                    \/ /\ run[w].failed /\ job'[o].state = "failed"
                       /\ run'[w].at = "onFailed" /\ run'[w].order = o
<1>1. /\ run \in Runs /\ job \in [Orders -> JobType]
      /\ o \in Orders /\ run[w].at = "ack"
  BY DEF TypeInv, TypeOK, Runs, RunsHaveOrders, Acknowledge
<1>2. CASE job[o].owner # w
  BY <1>1, <1>2, ResetMoves DEF Acknowledge, OrderOf
<1>3. CASE job[o].owner = w /\ ~run[w].failed
  BY <1>1, <1>3, ResetMoves DEF Acknowledge, OrderOf, JobType
<1>4. CASE job[o].owner = w /\ run[w].failed
  <2> DEFINE last == job[o].made + 1 >= Attempts
  <2>1. /\ job' = [job EXCEPT ![o].state = IF last THEN "failed" ELSE "waiting",
                              ![o].made = job[o].made + 1,
                              ![o].owner = None]
        /\ IF last THEN GoTo(w, "onFailed")
                   ELSE run' = [run EXCEPT ![w] = Idle]
    BY <1>4 DEF Acknowledge, OrderOf
  <2> HIDE DEF last
  <2>2. /\ \A p \in Orders \ {o} : job'[p] = job[p]
        /\ job'[o].owner = None
        /\ job'[o].state = IF last THEN "failed" ELSE "waiting"
    BY <1>1, <2>1 DEF JobType
  <2>3. /\ Only(w)
        /\ IF last THEN run'[w].at = "onFailed" /\ run'[w].order = run[w].order
                   ELSE run'[w].at = "idle" /\ run'[w].order = None
    BY <1>1, <2>1, GoToMoves, ResetMoves
  <2> QED
    BY <1>1, <1>4, <2>2, <2>3
<1> QED
  BY <1>2, <1>3, <1>4

(* What a step does to the invariant of the queue. *)
LEMMA QueueStep ==
    ASSUME QInv, [Next]_vars
    PROVE  QInv'
<1>1. TypeInv /\ JobsOwned /\ HandlersLast /\ IdleRuns /\ BudgetsShrink
      /\ (budget.slow = MaxSlow => RunsOwn)
  BY DEF QInv
<1>2. TypeInv'
  BY <1>1, TypeWorkerStep, TypeEnvironmentStep, TypeStutter DEF Next
<1>3. /\ run \in Runs /\ job \in [Orders -> JobType] /\ budget \in BudgetType
      /\ None \notin Workers /\ None \notin Orders
      /\ \A v \in Workers : run[v].at # "idle" => run[v].order \in Orders
  BY <1>1, OrderExecutionAssumption DEF TypeInv, TypeOK, Runs, RunsHaveOrders
<1> SUFFICES /\ JobsOwned' /\ HandlersLast' /\ IdleRuns' /\ BudgetsShrink'
             /\ budget'.slow = MaxSlow => RunsOwn'
  BY <1>2 DEF QInv
<1>4. ASSUME NEW w \in Workers, RunStep(w) \/ FaultStep(w)
      PROVE  /\ JobsOwned' /\ HandlersLast' /\ IdleRuns' /\ BudgetsShrink'
             /\ budget'.slow = MaxSlow => RunsOwn'
  <2>1. Moves(w) /\ BudgetsShrink' /\ budget'.slow = budget.slow
    BY <1>1, <1>4, RunStepMoves, RunStepBudget
  <2>2. JobsOwned' /\ HandlersLast' /\ IdleRuns'
    BY <1>1, <2>1 DEF JobsOwned, HandlersLast, IdleRuns, Moves, Only
  <2>3. RunsOwn => RunsOwn'
    BY <2>1 DEF RunsOwn, Works, Moves, Only
  <2> QED
    BY <1>1, <2>1, <2>2, <2>3
<1>5. ASSUME NEW w \in Workers, NEW o \in Orders, Take(w, o)
      PROVE  /\ JobsOwned' /\ HandlersLast' /\ IdleRuns' /\ BudgetsShrink'
             /\ budget'.slow = MaxSlow => RunsOwn'
  <2>1. /\ Only(w) /\ run'[w].at = "killSwitch" /\ run'[w].order = o
        /\ budget' = budget /\ job[o].state = "waiting"
        /\ \A p \in Orders \ {o} : job'[p] = job[p]
        /\ job'[o].state = "active" /\ job'[o].owner = w
    BY <1>3, <1>5 DEF Take, Only, Runs, Idle, JobType
  <2>2. JobsOwned' /\ BudgetsShrink'
    BY <1>1, <1>3, <2>1 DEF JobsOwned, BudgetsShrink
  <2>3. HandlersLast' /\ IdleRuns'
    BY <1>1, <1>3, <2>1 DEF HandlersLast, IdleRuns, Only
  <2>4. RunsOwn => RunsOwn'
    <3> SUFFICES ASSUME RunsOwn, NEW v \in Workers, Works(v)'
                 PROVE  job'[run'[v].order].owner = v
      BY DEF RunsOwn
    <3>1. CASE v = w
      BY <2>1, <3>1
    <3>2. CASE v # w
      <4>1. run'[v] = run[v] /\ job[run[v].order].owner = v
            /\ run[v].order \in Orders
        BY <1>3, <2>1, <3>2 DEF Only, RunsOwn, Works
      <4>2. job[o].owner = None
        BY <1>1, <2>1 DEF JobsOwned
      <4> QED
        BY <1>3, <2>1, <4>1, <4>2
    <3> QED
      BY <3>1, <3>2
  <2> QED
    BY <1>1, <2>1, <2>2, <2>3, <2>4
<1>6. ASSUME NEW w \in Workers, Acknowledge(w)
      PROVE  /\ JobsOwned' /\ HandlersLast' /\ IdleRuns' /\ BudgetsShrink'
             /\ budget'.slow = MaxSlow => RunsOwn'
  <2> DEFINE o == OrderOf(w)
  <2>0. o \in Orders /\ o = run[w].order /\ run[w].at = "ack" /\ budget' = budget
    BY <1>3, <1>6 DEF Acknowledge, OrderOf
  <2> HIDE DEF o
  <2>1. /\ Only(w)
        /\ \/ /\ job[o].owner # w /\ job' = job
              /\ run'[w].at = "idle" /\ run'[w].order = None
           \/ /\ job[o].owner = w
              /\ \A p \in Orders \ {o} : job'[p] = job[p]
              /\ job'[o].owner = None /\ job'[o].state # "active"
              /\ \/ run'[w].at = "idle" /\ run'[w].order = None
                 \/ /\ run'[w].at = "onFailed" /\ run'[w].order = o
                    /\ job'[o].state = "failed"
    BY <1>1, <1>6, <2>0, AckCases
  <2>2. JobsOwned' /\ IdleRuns' /\ BudgetsShrink'
    BY <1>1, <2>0, <2>1 DEF JobsOwned, IdleRuns, BudgetsShrink, Only
  <2>3. HandlersLast'
    <3> SUFFICES ASSUME NEW v \in Workers, run'[v].at = "onFailed"
                 PROVE  job'[run'[v].order].state = "failed"
      BY DEF HandlersLast
    <3>1. CASE v = w
      BY <2>1, <3>1
    <3>2. CASE v # w
      <4>1. run'[v] = run[v] /\ run[v].order \in Orders
            /\ job[run[v].order].state = "failed"
        BY <1>1, <1>3, <2>1, <3>2 DEF Only, HandlersLast
      <4>2. job[run[v].order].owner = None
        BY <1>1, <4>1 DEF JobsOwned
      <4> QED
        BY <1>3, <2>1, <4>1, <4>2
    <3> QED
      BY <3>1, <3>2
  <2>4. RunsOwn => RunsOwn'
    <3> SUFFICES ASSUME RunsOwn, NEW v \in Workers, Works(v)'
                 PROVE  job'[run'[v].order].owner = v
      BY DEF RunsOwn
    <3>1. v # w
      BY <2>1 DEF Works
    <3>2. run'[v] = run[v] /\ job[run[v].order].owner = v
          /\ run[v].order \in Orders
      BY <1>3, <2>1, <3>1 DEF Only, RunsOwn, Works
    <3> QED
      BY <2>1, <3>1, <3>2
  <2> QED
    BY <1>1, <2>0, <2>2, <2>3, <2>4
<1>7. ASSUME NEW w \in Workers, OnFailed(w) \/ Crash(w)
      PROVE  /\ JobsOwned' /\ HandlersLast' /\ IdleRuns' /\ BudgetsShrink'
             /\ budget'.slow = MaxSlow => RunsOwn'
  <2>1. /\ Only(w) /\ run'[w].at = "idle" /\ run'[w].order = None
        /\ job' = job
    BY <1>3, <1>7, ResetMoves DEF OnFailed, Crash
  <2>2. BudgetsShrink' /\ budget'.slow = budget.slow
    <3>1. CASE budget' = budget
      BY <1>1, <3>1 DEF BudgetsShrink
    <3>2. CASE Spend("crashes")
      BY <1>1, <1>3, <3>2, SpendShrinks, SpendOne
    <3> QED
      BY <1>7, <3>1, <3>2 DEF OnFailed, Crash
  <2>3. JobsOwned' /\ HandlersLast' /\ IdleRuns' /\ (RunsOwn => RunsOwn')
    BY <1>1, <2>1 DEF JobsOwned, HandlersLast, IdleRuns, RunsOwn, Works, Only
  <2> QED
    BY <1>1, <2>2, <2>3
<1>8. ASSUME NEW o \in Orders, StallAfterCrash(o) \/ StallWhileRunning(o)
      PROVE  /\ JobsOwned' /\ HandlersLast' /\ IdleRuns' /\ BudgetsShrink'
             /\ budget'.slow = MaxSlow => RunsOwn'
  <2>1. /\ job[o].state = "active" /\ run' = run
        /\ \A p \in Orders \ {o} : job'[p] = job[p]
        /\ job'[o].state # "active" /\ job'[o].owner = None
    BY <1>3, <1>8 DEF StallAfterCrash, StallWhileRunning, Stall, JobType
  <2>2. JobsOwned' /\ HandlersLast' /\ IdleRuns'
    BY <1>1, <1>3, <2>1 DEF JobsOwned, HandlersLast, IdleRuns
  <2>3. CASE StallAfterCrash(o)
    <3>1. budget' = budget /\ run[job[o].owner].order # o
      BY <2>3 DEF StallAfterCrash, OrderOf
    <3>2. RunsOwn => RunsOwn'
      BY <1>3, <2>1, <3>1 DEF RunsOwn, Works
    <3> QED
      BY <1>1, <2>2, <3>1, <3>2 DEF BudgetsShrink
  <2>4. CASE StallWhileRunning(o)
    <3>1. Spend("slow")
      BY <2>4 DEF StallWhileRunning
    <3>2. BudgetsShrink' /\ budget'.slow # MaxSlow
      BY <1>1, <1>3, <3>1, SpendShrinks, SpendOne, OrderExecutionAssumption
         DEF BudgetsShrink
    <3> QED
      BY <2>2, <3>2
  <2> QED
    BY <1>8, <2>3, <2>4
<1>9. ASSUME FlipKillSwitch \/ \E a \in Accounts : FlipAccount(a)
      PROVE  /\ JobsOwned' /\ HandlersLast' /\ IdleRuns' /\ BudgetsShrink'
             /\ budget'.slow = MaxSlow => RunsOwn'
  <2>1. run' = run /\ job' = job /\ Spend("flips")
    BY <1>9 DEF FlipKillSwitch, FlipAccount
  <2>2. BudgetsShrink' /\ budget'.slow = budget.slow
    BY <1>1, <1>3, <2>1, SpendShrinks, SpendOne
  <2> QED
    BY <1>1, <2>1, <2>2 DEF JobsOwned, HandlersLast, IdleRuns, RunsOwn, Works
<1>10. CASE UNCHANGED vars
  BY <1>1, <1>10 DEF vars, JobsOwned, HandlersLast, IdleRuns, BudgetsShrink, RunsOwn, Works
<1> QED
  BY <1>4, <1>5, <1>6, <1>7, <1>8, <1>9, <1>10
     DEF Next, WorkerStep, RunStep, FaultStep

LEMMA QueueInit == Init => QInv
<1> SUFFICES ASSUME Init PROVE QInv
  OBVIOUS
<1>1. \A w \in Workers : run[w].at = "idle"
  BY DEF Init, Idle
<1>2. BudgetsShrink
  BY OrderExecutionAssumption DEF Init, BudgetsShrink
<1> QED
  BY <1>1, <1>2, TypeInit
     DEF Init, QInv, JobsOwned, HandlersLast, IdleRuns, RunsOwn, Works, Idle

-----------------------------------------------------------------------------
(* Placements are paid for.                                                 *)
(*                                                                          *)
(* The bound of DuplicatesNeedAFault is not inductive: it says nothing of   *)
(* the runs that are about to place the order again.  The invariant adds to *)
(* the placements every run that may still ask the broker or make its job   *)
(* run once more, and a job that will be handed out again.                  *)

MayPlace == {"killSwitch", "load", "account", "risk", "riskReject", "lock",
             "submit", "place", "catch", "deadLetter"}

Alive(w) == run[w].at \in MayPlace \/ (run[w].at = "ack" /\ run[w].failed)

RunsFor(o) == {w \in Workers : run[w].order = o /\ Alive(w)}

(* The job waits, or is active for a worker that died. *)
Awaits(o) == \/ job[o].state = "waiting"
             \/ job[o].state = "active" /\ run[job[o].owner].order # o

Disruptions == Spent("crashes", MaxCrashes) + Spent("faults", MaxFaults)
                 + Spent("slow", MaxSlow)

Paid(o) ==
    /\ IsFiniteSet(placedAt[o]) /\ IsFiniteSet(RunsFor(o))
    /\ Cardinality(placedAt[o]) + Cardinality(RunsFor(o))
         + (IF Awaits(o) THEN 1 ELSE 0) <= 1 + Disruptions

PlacementsPaid == \A o \in Orders : Paid(o)

LEMMA DisruptionsInt == TypeInv => Disruptions \in Int
<1> SUFFICES ASSUME TypeInv PROVE Disruptions \in Int
  OBVIOUS
<1>1. budget \in BudgetType
  BY DEF TypeInv, TypeOK
<1> QED
  BY <1>1, OrderExecutionAssumption DEF Disruptions, Spent, BudgetType

LEMMA SpendDisrupts ==
    ASSUME TypeInv, NEW what \in {"faults", "crashes", "slow"}, Spend(what)
    PROVE  Disruptions' = Disruptions + 1
<1>1. budget \in BudgetType
  BY DEF TypeInv, TypeOK
<1>2. /\ budget["faults"] \in Nat /\ budget["crashes"] \in Nat
      /\ budget["slow"] \in Nat
  BY <1>1 DEF BudgetType
<1> QED
  BY <1>1, <1>2, SpendOne, OrderExecutionAssumption DEF Disruptions, Spent

(* When only w's run changes, only w can enter or leave the runs of an order.*)
LEMMA RunsForStep ==
    ASSUME NEW w \in Workers, Only(w), NEW o \in Orders,
           IsFiniteSet(RunsFor(o))
    PROVE  /\ IsFiniteSet(RunsFor(o)') /\ Cardinality(RunsFor(o)) \in Nat
           /\ Cardinality(RunsFor(o)') \in Nat
           /\ Cardinality(RunsFor(o)') =
                Cardinality(RunsFor(o))
                  + (IF w \in RunsFor(o)' THEN 1 ELSE 0)
                  - (IF w \in RunsFor(o)  THEN 1 ELSE 0)
<1>1. CASE w \in RunsFor(o)'
  <2>1. RunsFor(o)' = RunsFor(o) \cup {w}
    BY <1>1 DEF RunsFor, Alive, Only
  <2> QED
    BY <1>1, <2>1, FS_AddElement, FS_CardinalityType
<1>2. CASE w \notin RunsFor(o)'
  <2>1. RunsFor(o)' = RunsFor(o) \ {w}
    BY <1>2 DEF RunsFor, Alive, Only
  <2> QED
    BY <1>2, <2>1, FS_RemoveElement, FS_CardinalityType
<1> QED
  BY <1>1, <1>2

(* A step of a run gives up the chance to place the order, or keeps to what *)
(* it had; it places the order only when it gives that up.                  *)
LEMMA RunStepPays ==
    ASSUME TypeInv, NEW w \in Workers, RunStep(w)
    PROVE  \/ placedAt' = placedAt /\ (Alive(w)' => Alive(w))
           \/ /\ Alive(w) /\ ~Alive(w)'
              /\ placedAt' = [placedAt EXCEPT ![run[w].order] = @ \cup {run[w].seen}]
<1>0. run \in Runs
  BY DEF TypeInv, TypeOK, Runs
<1>1. CASE Place(w)
  BY <1>0, <1>1, GoToMoves DEF Place, Alive, MayPlace, OrderOf
<1>2. CASE ReleaseLock(w)
  BY <1>0, <1>2, GoToMoves DEF ReleaseLock, Alive, MayPlace
<1>3. CASE UpdateOrderWithExecution(w)
  BY <1>0, <1>3, GoToMoves DEF UpdateOrderWithExecution, Alive, MayPlace
<1>4. CASE RecordExecution(w)
  BY <1>0, <1>4, FinishMoves DEF RecordExecution, Alive, MayPlace
<1>5. CASE \/ CheckKillSwitch(w) \/ LoadOrder(w) \/ LoadAccount(w)
           \/ RiskCheck(w) \/ RiskReject(w) \/ AcquireLock(w)
           \/ Submit(w) \/ BrokerError(w)
  BY <1>5 DEF CheckKillSwitch, LoadOrder, LoadAccount, RiskCheck, RiskReject,
              AcquireLock, Submit, BrokerError, Alive, MayPlace
<1>6. CASE CatchError(w) \/ AddDeadLetter(w)
  BY <1>6 DEF CatchError, AddDeadLetter, Alive, MayPlace
<1> QED
  BY <1>1, <1>2, <1>3, <1>4, <1>5, <1>6 DEF RunStep

(* The steps that leave the queue alone. *)
LEMMA MovesPay ==
    ASSUME QInv, PlacementsPaid, NEW w \in Workers, RunStep(w) \/ FaultStep(w)
    PROVE  PlacementsPaid'
<1>1. TypeInv /\ BudgetsShrink /\ Disruptions \in Int
  BY DisruptionsInt DEF QInv
<1>2. Moves(w)
  BY <1>1, RunStepMoves
<1> SUFFICES ASSUME NEW o \in Orders
             PROVE  Paid(o)'
  BY DEF PlacementsPaid
<1>3. Paid(o) /\ placedAt \in [Orders -> SUBSET Nat]
      /\ \A v \in Workers : run[v].at # "idle" => run[v].order \in Orders
  BY <1>1 DEF PlacementsPaid, TypeInv, TypeOK, RunsHaveOrders
<1>4. /\ IsFiniteSet(RunsFor(o)') /\ Cardinality(RunsFor(o)) \in Nat
      /\ Cardinality(RunsFor(o)') \in Nat
      /\ Cardinality(RunsFor(o)') =
           Cardinality(RunsFor(o)) + (IF w \in RunsFor(o)' THEN 1 ELSE 0)
                                   - (IF w \in RunsFor(o)  THEN 1 ELSE 0)
  BY <1>2, <1>3, RunsForStep DEF Moves, Paid
<1>5. Awaits(o)' <=> Awaits(o)
  <2>1. CASE job[o].state = "active" /\ job[o].owner = w
    BY <1>2, <2>1 DEF Awaits, Moves
  <2>2. CASE job[o].state = "active" /\ job[o].owner # w
    <3>1. job[o].owner \in Workers
      BY <1>1, <2>2 DEF QInv, JobsOwned, TypeInv, TypeOK, JobType
    <3> QED
      BY <1>2, <2>2, <3>1 DEF Awaits, Moves, Only
  <2>3. CASE job[o].state # "active"
    BY <1>2, <2>3 DEF Awaits, Moves
  <2> QED
    BY <2>1, <2>2, <2>3
<1>6. Cardinality(placedAt[o]) \in Nat
  BY <1>3, FS_CardinalityType DEF Paid
<1>7. CASE FaultStep(w)
  <2>1. Spend("faults") /\ placedAt' = placedAt
    BY <1>1, <1>7, RunStepBudget
       DEF FaultStep, DatabaseFault, DatabaseFaultInLock, DatabaseFaultInCatch
  <2>2. Disruptions' = Disruptions + 1
    BY <1>1, <2>1, SpendDisrupts
  <2> QED
    BY <1>1, <1>3, <1>4, <1>5, <1>6, <2>1, <2>2 DEF Paid
<1>8. CASE RunStep(w)
  <2>1. Disruptions' = Disruptions
    BY <1>1, <1>8, RunStepBudget DEF Disruptions, Spent
  <2>2. CASE placedAt' = placedAt /\ (Alive(w)' => Alive(w))
    <3>1. w \in RunsFor(o)' => w \in RunsFor(o)
      BY <1>2, <2>2 DEF RunsFor, Moves
    <3> QED
      BY <1>1, <1>3, <1>4, <1>5, <1>6, <2>1, <2>2, <3>1 DEF Paid
  <2>3. CASE /\ Alive(w) /\ ~Alive(w)'
             /\ placedAt' = [placedAt EXCEPT ![run[w].order] = @ \cup {run[w].seen}]
    <3>1. CASE run[w].order = o
      <4>1. w \in RunsFor(o) /\ w \notin RunsFor(o)'
        BY <2>3, <3>1 DEF RunsFor
      <4>2. placedAt'[o] = placedAt[o] \cup {run[w].seen}
        BY <1>3, <2>3, <3>1
      <4>3. /\ IsFiniteSet(placedAt'[o])
            /\ Cardinality(placedAt'[o]) \in Nat
            /\ Cardinality(placedAt'[o]) <= Cardinality(placedAt[o]) + 1
        <5>1. /\ IsFiniteSet(placedAt[o] \cup {run[w].seen})
              /\ Cardinality(placedAt[o] \cup {run[w].seen}) =
                   IF run[w].seen \in placedAt[o] THEN Cardinality(placedAt[o])
                                                 ELSE Cardinality(placedAt[o]) + 1
          BY <1>3, FS_AddElement DEF Paid
        <5> QED
          BY <1>6, <4>2, <5>1
      <4> QED
        BY <1>1, <1>3, <1>4, <1>5, <1>6, <2>1, <4>1, <4>3 DEF Paid
    <3>2. CASE run[w].order # o
      <4>1. w \notin RunsFor(o)' /\ placedAt'[o] = placedAt[o]
        BY <1>2, <1>3, <2>3, <3>2 DEF RunsFor, Moves
      <4>2. w \notin RunsFor(o)
        BY <3>2 DEF RunsFor
      <4> QED
        BY <1>1, <1>3, <1>4, <1>5, <1>6, <2>1, <4>1, <4>2 DEF Paid
    <3> QED
      BY <3>1, <3>2
  <2> QED
    BY <1>1, <1>8, <2>2, <2>3, RunStepPays
<1> QED
  BY <1>7, <1>8

(* Cardinalities of what a state counts, and the types of its jobs. *)
LEMMA PaidFacts ==
    ASSUME QInv, PlacementsPaid, NEW o \in Orders
    PROVE  /\ Paid(o) /\ IsFiniteSet(RunsFor(o))
           /\ Cardinality(placedAt[o]) \in Nat
           /\ Cardinality(RunsFor(o)) \in Nat /\ Disruptions \in Int
           /\ None \notin Workers /\ None \notin Orders
           /\ job[o].state = "active" <=> job[o].owner # None
           /\ job[o].owner \in Workers \cup {None}
           /\ run \in Runs /\ job \in [Orders -> JobType]
<1>1. TypeInv
  BY DEF QInv
<1> QED
  BY <1>1, DisruptionsInt, FS_CardinalityType, OrderExecutionAssumption
     DEF PlacementsPaid, Paid, QInv, JobsOwned, TypeInv, TypeOK, JobType, Runs

LEMMA TakePays ==
    ASSUME QInv, PlacementsPaid, NEW w \in Workers, NEW p \in Orders, Take(w, p)
    PROVE  PlacementsPaid'
<1> SUFFICES ASSUME NEW o \in Orders
             PROVE  Paid(o)'
  BY DEF PlacementsPaid
<1>1. /\ Only(w) /\ run'[w].order = p /\ run[w].at = "idle"
      /\ job[p].state = "waiting"
      /\ \A q \in Orders \ {p} : job'[q] = job[q]
      /\ job'[p].state = "active" /\ job'[p].owner = w
  BY PaidFacts DEF Take, Only, Runs, Idle, JobType
<1>2. placedAt' = placedAt /\ Disruptions' = Disruptions
  BY DEF Take, Disruptions, Spent
<1>3. /\ IsFiniteSet(RunsFor(o)') /\ Cardinality(RunsFor(o)') \in Nat
      /\ Cardinality(RunsFor(o)') =
           Cardinality(RunsFor(o)) + (IF w \in RunsFor(o)' THEN 1 ELSE 0)
                                   - (IF w \in RunsFor(o)  THEN 1 ELSE 0)
  BY <1>1, PaidFacts, RunsForStep
<1>4. w \notin RunsFor(o)
  BY <1>1 DEF RunsFor, Alive, MayPlace
<1>5. CASE o = p
  <2>1. Awaits(o) /\ ~Awaits(o)'
    BY <1>1, <1>5 DEF Awaits
  <2> QED
    BY <1>2, <1>3, <1>4, <2>1, PaidFacts DEF Paid
<1>6. CASE o # p
  <2>1. w \notin RunsFor(o)'
    BY <1>1, <1>6 DEF RunsFor
  <2>2. Awaits(o)' => Awaits(o)
    <3> SUFFICES ASSUME Awaits(o)', job[o].state = "active"
                 PROVE  Awaits(o)
      BY <1>1, <1>6 DEF Awaits
    <3>1. CASE job[o].owner = w
      <4>1. run[w].order = None /\ None \notin Orders
        BY <1>1, PaidFacts DEF QInv, IdleRuns
      <4> QED
        BY <3>1, <4>1 DEF Awaits
    <3>2. CASE job[o].owner # w
      BY <1>1, <1>6, <3>2, PaidFacts DEF Awaits, Only
    <3> QED
      BY <3>1, <3>2
  <2> QED
    BY <1>2, <1>3, <1>4, <2>1, <2>2, PaidFacts DEF Paid
<1> QED
  BY <1>5, <1>6

LEMMA AcknowledgePays ==
    ASSUME QInv, PlacementsPaid, NEW w \in Workers, Acknowledge(w)
    PROVE  PlacementsPaid'
<1> SUFFICES ASSUME NEW o \in Orders
             PROVE  Paid(o)'
  BY DEF PlacementsPaid
<1> DEFINE p == run[w].order
<1>1. /\ TypeInv /\ p \in Orders /\ run[w].at = "ack" /\ Only(w)
  BY AckCases DEF QInv
<1>2. placedAt' = placedAt /\ Disruptions' = Disruptions
  BY DEF Acknowledge, Disruptions, Spent
<1>3. /\ IsFiniteSet(RunsFor(o)') /\ Cardinality(RunsFor(o)') \in Nat
      /\ Cardinality(RunsFor(o)') =
           Cardinality(RunsFor(o)) + (IF w \in RunsFor(o)' THEN 1 ELSE 0)
                                   - (IF w \in RunsFor(o)  THEN 1 ELSE 0)
  BY <1>1, PaidFacts, RunsForStep
<1>4. w \notin RunsFor(o)'
  BY <1>1, AckCases DEF RunsFor, Alive, MayPlace
<1>5. CASE o = p
  <2>1. Awaits(o)' => Awaits(o) \/ w \in RunsFor(o)
    <3>1. CASE job[o].owner # w /\ job' = job
      BY <1>1, <3>1, PaidFacts DEF Awaits, Only
    <3>2. CASE run[w].failed
      BY <1>1, <1>5, <3>2 DEF RunsFor, Alive
    <3>3. CASE job'[o].state = "completed"
      BY <3>3 DEF Awaits
    <3> QED
      BY <1>1, <1>5, <3>1, <3>2, <3>3, AckCases
  <2> QED
    BY <1>2, <1>3, <1>4, <2>1, PaidFacts DEF Paid
<1>6. CASE o # p
  <2>1. job'[o] = job[o] /\ run'[w].order # o /\ run[w].order # o
    BY <1>1, <1>6, AckCases, PaidFacts
  <2>2. Awaits(o)' => Awaits(o)
    <3>1. CASE job[o].owner = w
      BY <2>1, <3>1 DEF Awaits
    <3>2. CASE job[o].owner # w
      BY <1>1, <2>1, <3>2, PaidFacts DEF Awaits, Only
    <3> QED
      BY <3>1, <3>2
  <2> QED
    BY <1>2, <1>3, <1>4, <2>2, PaidFacts DEF Paid
<1> QED
  BY <1>5, <1>6

(* A run that ends without a report: its handler is done, or its process    *)
(* died, which is paid for.                                                 *)
LEMMA EndPays ==
    ASSUME QInv, PlacementsPaid, NEW w \in Workers, OnFailed(w) \/ Crash(w)
    PROVE  PlacementsPaid'
<1> SUFFICES ASSUME NEW o \in Orders
             PROVE  Paid(o)'
  BY DEF PlacementsPaid
<1>1. /\ Only(w) /\ run'[w].at = "idle" /\ run'[w].order = None
      /\ job' = job /\ placedAt' = placedAt /\ run[w].at # "idle"
  BY PaidFacts, ResetMoves DEF OnFailed, Crash
<1>2. /\ IsFiniteSet(RunsFor(o)') /\ Cardinality(RunsFor(o)') \in Nat
      /\ Cardinality(RunsFor(o)') =
           Cardinality(RunsFor(o)) + (IF w \in RunsFor(o)' THEN 1 ELSE 0)
                                   - (IF w \in RunsFor(o)  THEN 1 ELSE 0)
  BY <1>1, PaidFacts, RunsForStep
<1>3. w \notin RunsFor(o)'
  BY <1>1 DEF RunsFor, Alive, MayPlace
<1>4. Awaits(o)' => Awaits(o) \/ run[w].order = o
  <2>1. CASE job[o].owner = w
    BY <1>1, <2>1 DEF Awaits
  <2>2. CASE job[o].owner # w
    <3>1. job[o].state = "active" => job[o].owner \in Workers \ {w}
      BY <2>2, PaidFacts
    <3> QED
      BY <1>1, <3>1 DEF Awaits, Only
  <2> QED
    BY <2>1, <2>2
<1>5. CASE OnFailed(w)
  <2>1. Disruptions' = Disruptions
    BY <1>5 DEF OnFailed, Disruptions, Spent
  <2>2. Awaits(o)' => Awaits(o)
    <3>1. run[w].order = o => job[o].state = "failed"
      BY <1>5 DEF OnFailed, QInv, HandlersLast
    <3> QED
      BY <1>1, <1>4, <3>1 DEF Awaits
  <2> QED
    BY <1>1, <1>2, <1>3, <2>1, <2>2, PaidFacts DEF Paid
<1>6. CASE Crash(w)
  <2>1. Disruptions' = Disruptions + 1
    BY <1>6, SpendDisrupts DEF Crash, QInv
  <2> QED
    BY <1>1, <1>2, <1>3, <2>1, PaidFacts DEF Paid
<1> QED
  BY <1>5, <1>6

LEMMA StallPays ==
    ASSUME QInv, PlacementsPaid, NEW p \in Orders,
           StallAfterCrash(p) \/ StallWhileRunning(p)
    PROVE  PlacementsPaid'
<1> SUFFICES ASSUME NEW o \in Orders
             PROVE  Paid(o)'
  BY DEF PlacementsPaid
<1>1. /\ job[p].state = "active" /\ run' = run /\ placedAt' = placedAt
      /\ \A q \in Orders \ {p} : job'[q] = job[q]
      /\ job'[p].state # "active"
  BY PaidFacts DEF StallAfterCrash, StallWhileRunning, Stall, JobType
<1>2. RunsFor(o)' = RunsFor(o)
  BY <1>1 DEF RunsFor, Alive
<1>3. CASE StallAfterCrash(p)
  <2>1. Disruptions' = Disruptions /\ run[job[p].owner].order # p
    BY <1>3 DEF StallAfterCrash, Disruptions, Spent, OrderOf
  <2>2. Awaits(o)' => Awaits(o)
    BY <1>1, <2>1 DEF Awaits
  <2> QED
    BY <1>1, <1>2, <2>1, <2>2, PaidFacts DEF Paid
<1>4. CASE StallWhileRunning(p)
  <2>1. Disruptions' = Disruptions + 1
    BY <1>4, SpendDisrupts DEF StallWhileRunning, QInv
  <2> QED
    BY <1>1, <1>2, <2>1, PaidFacts DEF Paid
<1> QED
  BY <1>3, <1>4

LEMMA PaidInductive ==
    ASSUME QInv, PlacementsPaid, [Next]_vars
    PROVE  PlacementsPaid'
<1>1. ASSUME UNCHANGED <<run, job, placedAt>>, Disruptions' = Disruptions
      PROVE  PlacementsPaid'
  BY <1>1 DEF PlacementsPaid, Paid, RunsFor, Alive, Awaits
<1>2. CASE FlipKillSwitch \/ \E a \in Accounts : FlipAccount(a)
  <2>1. UNCHANGED <<run, job, placedAt>> /\ Spend("flips")
    BY <1>2 DEF FlipKillSwitch, FlipAccount
  <2>2. budget \in BudgetType
    BY DEF QInv, TypeInv, TypeOK
  <2> QED
    BY <1>1, <2>1, <2>2, SpendOne DEF Disruptions, Spent
<1>3. CASE UNCHANGED vars
  BY <1>1, <1>3 DEF vars, Disruptions, Spent
<1> QED
  BY <1>2, <1>3, MovesPay, TakePays, AcknowledgePays, EndPays, StallPays
     DEF Next, WorkerStep, RunStep, FaultStep

LEMMA PaidInit == Init => PlacementsPaid
<1> SUFFICES ASSUME Init, NEW o \in Orders PROVE Paid(o)
  BY DEF PlacementsPaid
<1>1. RunsFor(o) = {} /\ placedAt[o] = {}
  BY DEF Init, Idle, RunsFor, Alive, MayPlace
<1>2. Disruptions = 0
  BY OrderExecutionAssumption DEF Init, Disruptions, Spent
<1> QED
  BY <1>1, <1>2, FS_EmptySet DEF Paid

LEMMA QueueInductive == Spec => []QInv
BY QueueInit, QueueStep, PTL DEF Spec

(* However its runs fail, stall, overlap and die, an order reaches the      *)
(* broker at most once more than processes died, statements failed and runs *)
(* were handed out twice: no retry of the program's own places it again     *)
(* (DuplicatesNeedAFault).                                                  *)
THEOREM DuplicatesNeedAFaultHolds == Spec => []DuplicatesNeedAFault
<1>1. QInv /\ PlacementsPaid /\ [Next]_vars => PlacementsPaid'
  BY PaidInductive
<1>2. QInv /\ PlacementsPaid => DuplicatesNeedAFault
  <2> SUFFICES ASSUME QInv, PlacementsPaid, NEW o \in Orders
               PROVE  Cardinality(placedAt[o]) <= 1 + Disruptions
    BY DisruptionsInt, OrderExecutionAssumption
       DEF DuplicatesNeedAFault, Disruptions, Spent, QInv, TypeInv, TypeOK, BudgetType
  <2> QED
    BY PaidFacts DEF Paid
<1> QED
  BY <1>1, <1>2, PaidInit, QueueInductive, PTL DEF Spec

-----------------------------------------------------------------------------
(* The books, and the finality of a settled order.  Both hold only as long  *)
(* as some kinds of failure have not occurred, and say of each run what its *)
(* order looks like at each of its steps: one run for each order suffices,  *)
(* since a second one needs a slow first one (RunsOwn).                     *)

Calm == /\ budget.flips = MaxFlips
        /\ budget.faults = MaxFaults
        /\ budget.slow = MaxSlow

Open(o) == row[o].status \in {"pending", "submitted"}

AfterLoad == {"account", "risk", "riskReject", "lock", "submit", "place",
              "unlock", "record"}

(* A run works on an order that is not settled, ... *)
RunOpen(w) ==
    LET o == run[w].order IN
    /\ run[w].at \in AfterLoad => Open(o)
    /\ run[w].at = "catch" => /\ row[o].status # "filled"
                              /\ run[w].error = "retryable" => Open(o)

(* ... and an active kill switch lets no run pass. *)
SwitchHolds ==
    killSwitch => /\ \A o \in Orders : row[o].status # "filled"
                  /\ \A w \in Workers : run[w].at \notin AfterLoad \cup {"load"}

SettledInv == Calm => SwitchHolds /\ \A w \in Workers : RunOpen(w)

Unplaced(o) ==
    placedAt[o] = {} /\ executions[o] = 0 /\ row[o].status # "filled"
Placed(o) == /\ Cardinality(placedAt[o]) = 1 /\ placedAt[o] # {}
             /\ executions[o] = 0 /\ row[o].status # "filled"
Recorded(o) == /\ Cardinality(placedAt[o]) = 1 /\ placedAt[o] # {}
               /\ executions[o] = 0 /\ row[o].status = "filled"
Booked(o) == /\ Cardinality(placedAt[o]) = 1 /\ placedAt[o] # {}
             /\ executions[o] = 1 /\ row[o].status = "filled"

(* What has been written when a run is at a step, ... *)
RunBooks(w) ==
    LET o == run[w].order IN
    /\ run[w].at \in MayPlace => Unplaced(o)
    /\ run[w].at \in {"unlock", "record"} => Placed(o)
    /\ run[w].at = "execution" => Recorded(o)
    /\ run[w].at = "ack" => Unplaced(o) \/ (~run[w].failed /\ Booked(o))

(* ... when its job is not active, ... *)
JobBooks(o) ==
    /\ job[o].state \in {"waiting", "failed"} => Unplaced(o)
    /\ job[o].state = "completed" => Unplaced(o) \/ Booked(o)

(* ... and that an active job has its run. *)
Attended(o) == job[o].state = "active" => run[job[o].owner].order = o

BooksInv == Undisturbed => /\ \A w \in Workers : RunBooks(w)
                           /\ \A o \in Orders : JobBooks(o) /\ Attended(o)

(* What a step of a run may write: the row of its own order, and only one   *)
(* of its own records.                                                      *)
Writes(o) == \A p \in Orders \ {o} : /\ row'[p] = row[p]
                                     /\ placedAt'[p] = placedAt[p]
                                     /\ executions'[p] = executions[p]

LEMMA RunStepWrites ==
    ASSUME TypeInv, NEW w \in Workers, RunStep(w) \/ FaultStep(w)
    PROVE  Writes(run[w].order) /\ killSwitch' = killSwitch
<1>1. /\ row \in [Orders -> RowType]
      /\ placedAt \in [Orders -> SUBSET Nat] /\ executions \in [Orders -> Nat]
  BY DEF TypeInv, TypeOK
<1>2. CASE \/ CheckKillSwitch(w) \/ LoadAccount(w) \/ RiskCheck(w)
           \/ RiskReject(w) \/ AcquireLock(w) \/ LoadOrder(w)
  BY <1>1, <1>2
     DEF Writes, CheckKillSwitch, LoadAccount, RiskCheck, RiskReject, LoadOrder,
         AcquireLock, SetStatus, OrderOf
<1>3. CASE Submit(w) \/ Place(w) \/ BrokerError(w) \/ ReleaseLock(w)
  BY <1>1, <1>3
     DEF Writes, Submit, Place, BrokerError, ReleaseLock, SetStatus, OrderOf
<1>4. CASE \/ UpdateOrderWithExecution(w) \/ RecordExecution(w)
           \/ CatchError(w) \/ AddDeadLetter(w)
  BY <1>1, <1>4
     DEF Writes, UpdateOrderWithExecution, RecordExecution, CatchError,
         AddDeadLetter, SetStatus, OrderOf
<1>5. CASE FaultStep(w)
  BY <1>5 DEF Writes, FaultStep, DatabaseFault, DatabaseFaultInLock,
              DatabaseFaultInCatch
<1> QED
  BY <1>2, <1>3, <1>4, <1>5 DEF RunStep

(* The runs of other orders see nothing of it. *)
LEMMA OthersKept ==
    ASSUME QInv, RunsOwn, NEW w \in Workers, Moves(w), Writes(run[w].order),
           NEW v \in Workers, v # w
    PROVE  (RunOpen(v) => RunOpen(v)') /\ (RunBooks(v) => RunBooks(v)')
<1>1. run'[v] = run[v]
  BY DEF Moves, Only
<1>2. CASE Works(v)
  <2>1. run[v].order \in Orders /\ job[run[v].order].owner = v
    BY <1>2 DEF QInv, TypeInv, RunsHaveOrders, Works, RunsOwn
  <2>2. job[run[w].order].owner = w
    BY DEF Moves, Works, RunsOwn
  <2>3. run[v].order \in Orders \ {run[w].order}
    BY <2>1, <2>2
  <2> QED
    BY <1>1, <2>3 DEF Writes, RunOpen, RunBooks, Open, Unplaced, Placed, Recorded,
                      Booked
<1>3. CASE ~Works(v)
  BY <1>1, <1>3 DEF Works, RunOpen, RunBooks, AfterLoad, MayPlace
<1> QED
  BY <1>2, <1>3

SettledStep(w) ==
    LET o == run[w].order IN
    /\ RunOpen(w)'
    /\ killSwitch => /\ row'[o].status # "filled"
                     /\ run'[w].at \notin AfterLoad \cup {"load"}
    /\ row[o].status \in {"filled", "rejected"} => row'[o].status = row[o].status

LEMMA RunStepSettles ==
    ASSUME QInv, SwitchHolds, NEW w \in Workers, RunOpen(w), RunStep(w)
    PROVE  SettledStep(w)
<1>0. /\ run \in Runs /\ row \in [Orders -> RowType]
      /\ run[w].order \in Orders /\ OrderOf(w) = run[w].order
  <2>1. TypeInv
    BY DEF QInv
  <2>2. run[w].at # "idle"
    BY <2>1, RunStepMoves DEF Moves
  <2> QED
    BY <2>1, <2>2 DEF TypeInv, TypeOK, Runs, RunsHaveOrders, OrderOf
<1>1. CASE CheckKillSwitch(w)
  BY <1>0, <1>1, GoToMoves, ThrowMoves
     DEF CheckKillSwitch, SettledStep, RunOpen, Open, AfterLoad, SwitchHolds, SetStatus, RowType
<1>2. CASE LoadOrder(w)
  BY <1>0, <1>2, LoadMoves
     DEF LoadOrder, SettledStep, RunOpen, Open, AfterLoad, SwitchHolds, SetStatus, RowType
<1>3. CASE LoadAccount(w)
  BY <1>0, <1>3, GoToMoves, ThrowMoves
     DEF LoadAccount, SettledStep, RunOpen, Open, AfterLoad, SwitchHolds, SetStatus, RowType
<1>4. CASE RiskCheck(w)
  BY <1>0, <1>4, GoToMoves, ThrowMoves
     DEF RiskCheck, SettledStep, RunOpen, Open, AfterLoad, SwitchHolds, SetStatus, RowType
<1>5. CASE RiskReject(w)
  BY <1>0, <1>5, ThrowMoves
     DEF RiskReject, SettledStep, RunOpen, Open, AfterLoad, SwitchHolds, SetStatus, RowType
<1>6. CASE AcquireLock(w)
  BY <1>0, <1>6, GoToMoves
     DEF AcquireLock, SettledStep, RunOpen, Open, AfterLoad, SwitchHolds, SetStatus, RowType
<1>7. CASE Submit(w)
  BY <1>0, <1>7, GoToMoves, ThrowMoves
     DEF Submit, SettledStep, RunOpen, Open, AfterLoad, SwitchHolds, SetStatus, RowType
<1>8. CASE Place(w)
  BY <1>0, <1>8, GoToMoves
     DEF Place, SettledStep, RunOpen, Open, AfterLoad, SwitchHolds, SetStatus, RowType
<1>9. CASE BrokerError(w)
  BY <1>0, <1>9, ThrowMoves
     DEF BrokerError, SettledStep, RunOpen, Open, AfterLoad, SwitchHolds, SetStatus, RowType
<1>10. CASE ReleaseLock(w)
  BY <1>0, <1>10, GoToMoves
     DEF ReleaseLock, SettledStep, RunOpen, Open, AfterLoad, SwitchHolds, SetStatus, RowType
<1>11. CASE UpdateOrderWithExecution(w)
  BY <1>0, <1>11, GoToMoves
     DEF UpdateOrderWithExecution, SettledStep, RunOpen, Open, AfterLoad, SwitchHolds, SetStatus, RowType
<1>12. CASE RecordExecution(w)
  BY <1>0, <1>12, FinishMoves
     DEF RecordExecution, SettledStep, RunOpen, Open, AfterLoad, SwitchHolds, SetStatus, RowType
<1>13. CASE CatchError(w)
  <2> DEFINE o == run[w].order
  <2>1. /\ run[w].at = "catch" /\ run'[w].at \in {"ack", "deadLetter"}
        /\ \/ row'[o].status = row[o].status
           \/ run[w].error = "retryable" /\ row'[o].status = "pending"
           \/ row'[o].status = "rejected"
    BY <1>0, <1>13, CatchMoves, StatusSet
  <2>2. /\ row[o].status # "filled"
        /\ run[w].error = "retryable" => Open(o)
    BY <2>1 DEF RunOpen
  <2> QED
    BY <2>1, <2>2 DEF SettledStep, RunOpen, Open, AfterLoad
<1>14. CASE AddDeadLetter(w)
  BY <1>0, <1>14, FinishMoves
     DEF AddDeadLetter, SettledStep, RunOpen, Open, AfterLoad, SwitchHolds, SetStatus, RowType
<1> QED
  BY <1>1, <1>2, <1>3, <1>4, <1>5, <1>6, <1>7,
     <1>8, <1>9, <1>10, <1>11, <1>12, <1>13, <1>14 DEF RunStep

LEMMA RunStepBooks ==
    ASSUME QInv, NEW w \in Workers, RunBooks(w), RunStep(w)
    PROVE  RunBooks(w)'
<1>0. /\ run \in Runs /\ row \in [Orders -> RowType]
      /\ placedAt \in [Orders -> SUBSET Nat] /\ executions \in [Orders -> Nat]
      /\ run[w].order \in Orders /\ OrderOf(w) = run[w].order
  <2>1. TypeInv
    BY DEF QInv
  <2>2. run[w].at # "idle"
    BY <2>1, RunStepMoves DEF Moves
  <2> QED
    BY <2>1, <2>2 DEF TypeInv, TypeOK, Runs, RunsHaveOrders, OrderOf
<1>1. CASE CheckKillSwitch(w)
  BY <1>0, <1>1, GoToMoves, ThrowMoves
     DEF CheckKillSwitch, RunBooks, MayPlace, Unplaced, Placed, Recorded, Booked, SetStatus,
         RowType
<1>2. CASE LoadOrder(w)
  BY <1>0, <1>2, LoadMoves
     DEF LoadOrder, RunBooks, MayPlace, Unplaced, Placed, Recorded, Booked, SetStatus,
         RowType
<1>3. CASE LoadAccount(w)
  BY <1>0, <1>3, GoToMoves, ThrowMoves
     DEF LoadAccount, RunBooks, MayPlace, Unplaced, Placed, Recorded, Booked, SetStatus,
         RowType
<1>4. CASE RiskCheck(w)
  BY <1>0, <1>4, GoToMoves, ThrowMoves
     DEF RiskCheck, RunBooks, MayPlace, Unplaced, Placed, Recorded, Booked, SetStatus,
         RowType
<1>5. CASE RiskReject(w)
  BY <1>0, <1>5, ThrowMoves
     DEF RiskReject, RunBooks, MayPlace, Unplaced, Placed, Recorded, Booked, SetStatus,
         RowType
<1>6. CASE AcquireLock(w)
  BY <1>0, <1>6, GoToMoves
     DEF AcquireLock, RunBooks, MayPlace, Unplaced, Placed, Recorded, Booked, SetStatus,
         RowType
<1>7. CASE Submit(w)
  BY <1>0, <1>7, GoToMoves, ThrowMoves
     DEF Submit, RunBooks, MayPlace, Unplaced, Placed, Recorded, Booked, SetStatus,
         RowType
<1>8. CASE Place(w)
  <2>1. /\ placedAt[run[w].order] = {}
        /\ placedAt'[run[w].order] = {run[w].seen}
    BY <1>0, <1>8 DEF Place, RunBooks, MayPlace, Unplaced
  <2>2. Cardinality({run[w].seen}) = 1
    BY FS_Singleton
  <2> QED
    BY <1>0, <1>8, <2>1, <2>2, GoToMoves
       DEF Place, RunBooks, MayPlace, Unplaced, Placed
<1>9. CASE BrokerError(w)
  BY <1>0, <1>9, ThrowMoves
     DEF BrokerError, RunBooks, MayPlace, Unplaced, Placed, Recorded, Booked, SetStatus,
         RowType
<1>10. CASE ReleaseLock(w)
  BY <1>0, <1>10, GoToMoves
     DEF ReleaseLock, RunBooks, MayPlace, Unplaced, Placed, Recorded, Booked, SetStatus,
         RowType
<1>11. CASE UpdateOrderWithExecution(w)
  BY <1>0, <1>11, GoToMoves
     DEF UpdateOrderWithExecution, RunBooks, MayPlace, Unplaced, Placed, Recorded, Booked, SetStatus,
         RowType
<1>12. CASE RecordExecution(w)
  <2>1. /\ Recorded(run[w].order) /\ Finish(w, FALSE)
        /\ row' = row /\ placedAt' = placedAt
        /\ executions' = [executions EXCEPT ![run[w].order] = @ + 1]
    BY <1>0, <1>12 DEF RecordExecution, RunBooks
  <2>2. Booked(run[w].order)'
    <3>1. executions[run[w].order] = 0
      BY <2>1 DEF Recorded
    <3>2. executions'[run[w].order] = 1
      BY <1>0, <2>1, <3>1
    <3>3. run'[w].order = run[w].order
      BY <1>0, <2>1, FinishMoves
    <3> QED
      BY <2>1, <3>2, <3>3 DEF Recorded, Booked
  <2> QED
    BY <1>0, <2>1, <2>2, FinishMoves DEF RunBooks, MayPlace
<1>13. CASE CatchError(w)
  <2> DEFINE o == run[w].order
  <2>1. /\ run[w].at = "catch" /\ run'[w].at \in {"ack", "deadLetter"}
        /\ run'[w].order = o
        /\ placedAt' = placedAt /\ executions' = executions
        /\ row'[o].status = row[o].status \/ row'[o].status \in {"pending", "rejected"}
    BY <1>0, <1>13, CatchMoves, StatusSet
  <2>2. Unplaced(o)'
    BY <2>1 DEF RunBooks, MayPlace, Unplaced
  <2> QED
    BY <2>1, <2>2 DEF RunBooks, MayPlace
<1>14. CASE AddDeadLetter(w)
  BY <1>0, <1>14, FinishMoves
     DEF AddDeadLetter, RunBooks, MayPlace, Unplaced, Placed, Recorded, Booked, SetStatus,
         RowType
<1> QED
  BY <1>1, <1>2, <1>3, <1>4, <1>5, <1>6, <1>7,
     <1>8, <1>9, <1>10, <1>11, <1>12, <1>13, <1>14 DEF RunStep

(* Each step spends one unit of one budget, or none. *)
LEMMA BudgetStep ==
    ASSUME QInv, [Next]_vars
    PROVE  \/ budget' = budget
           \/ \E what \in {"flips", "faults", "crashes", "slow"} : Spend(what)
<1>0. TypeInv /\ BudgetsShrink
  BY DEF QInv
<1>1. ASSUME NEW w \in Workers, RunStep(w) \/ FaultStep(w)
      PROVE  budget' = budget \/ Spend("faults")
  BY <1>0, <1>1, RunStepBudget
<1>2. ASSUME NEW w \in Workers,
             \/ \E o \in Orders : Take(w, o)
             \/ Acknowledge(w) \/ OnFailed(w) \/ Crash(w)
      PROVE  budget' = budget \/ Spend("crashes")
  BY <1>2 DEF Take, Acknowledge, OnFailed, Crash
<1>3. ASSUME NEW o \in Orders, StallAfterCrash(o) \/ StallWhileRunning(o)
      PROVE  budget' = budget \/ Spend("slow")
  BY <1>3 DEF StallAfterCrash, StallWhileRunning
<1>4. ASSUME FlipKillSwitch \/ \E a \in Accounts : FlipAccount(a)
      PROVE  Spend("flips")
  BY <1>4 DEF FlipKillSwitch, FlipAccount
<1>5. ASSUME UNCHANGED vars PROVE budget' = budget
  BY <1>5 DEF vars
<1> QED
  BY <1>1, <1>2, <1>3, <1>4, <1>5 DEF Next, WorkerStep, RunStep, FaultStep

(* What has not been touched after a step was not touched before it. *)
LEMMA UntouchedBefore ==
    ASSUME QInv, [Next]_vars
    PROVE  (Calm' => Calm) /\ (Undisturbed' => Undisturbed)
<1>1. budget \in BudgetType /\ BudgetsShrink
  BY DEF QInv, TypeInv, TypeOK
<1>2. CASE budget' = budget
  BY <1>2 DEF Calm, Undisturbed
<1>3. ASSUME NEW what \in {"flips", "faults", "crashes", "slow"}, Spend(what)
      PROVE  (Calm' => Calm) /\ (Undisturbed' => Undisturbed)
  BY <1>1, <1>3, SpendOne, OrderExecutionAssumption
     DEF Calm, Undisturbed, BudgetsShrink
<1> QED
  BY <1>2, <1>3, BudgetStep

LEMMA SpentFlips ==
    ASSUME QInv, Spend("flips") PROVE ~Calm'
BY SpendOne, OrderExecutionAssumption
   DEF QInv, TypeInv, TypeOK, BudgetsShrink, Calm

LEMMA SpentFaults ==
    ASSUME QInv, Spend("faults") PROVE ~Calm' /\ ~Undisturbed'
BY SpendOne, OrderExecutionAssumption
   DEF QInv, TypeInv, TypeOK, BudgetsShrink, Calm, Undisturbed

LEMMA SpentSlow ==
    ASSUME QInv, Spend("slow") PROVE ~Calm' /\ ~Undisturbed'
BY SpendOne, OrderExecutionAssumption
   DEF QInv, TypeInv, TypeOK, BudgetsShrink, Calm, Undisturbed

LEMMA SpentCrashes ==
    ASSUME QInv, Spend("crashes") PROVE ~Undisturbed'
BY SpendOne, OrderExecutionAssumption
   DEF QInv, TypeInv, TypeOK, BudgetsShrink, Undisturbed

-----------------------------------------------------------------------------
(* A settled order stays as it is. *)

RowsFinal == \A o \in Orders :
    row[o].status \in {"filled", "rejected"} => row'[o].status = row[o].status

(* A step in which a run begins or ends, or none moves. *)
LEMMA RestSettles ==
    ASSUME SwitchHolds, \A w \in Workers : RunOpen(w),
           UNCHANGED <<row, killSwitch>>,
           \A v \in Workers :
              run'[v] = run[v] \/ run'[v].at \in {"killSwitch", "idle", "onFailed"}
    PROVE  SwitchHolds' /\ (\A w \in Workers : RunOpen(w)') /\ RowsFinal
BY DEF SwitchHolds, RunOpen, Open, AfterLoad, RowsFinal

LEMMA SettledNext ==
    ASSUME QInv, SettledInv, [Next]_vars
    PROVE  SettledInv' /\ (Calm' => RowsFinal)
<1> SUFFICES ASSUME Calm'
             PROVE  SwitchHolds' /\ (\A w \in Workers : RunOpen(w)') /\ RowsFinal
  BY DEF SettledInv
<1>1. /\ Calm /\ SwitchHolds /\ (\A w \in Workers : RunOpen(w)) /\ RunsOwn
      /\ TypeInv /\ BudgetsShrink /\ run \in Runs
  BY UntouchedBefore DEF SettledInv, QInv, Calm, TypeInv, TypeOK, Runs
<1>2. ASSUME NEW w \in Workers, RunStep(w)
      PROVE  SwitchHolds' /\ (\A v \in Workers : RunOpen(v)') /\ RowsFinal
  <2>1. /\ Moves(w) /\ Writes(run[w].order) /\ SettledStep(w)
        /\ killSwitch' = killSwitch
    BY <1>1, <1>2, RunStepMoves, RunStepWrites, RunStepSettles
  <2>2. \A v \in Workers : RunOpen(v)'
    BY <1>1, <2>1, OthersKept DEF SettledStep
  <2>3. RowsFinal
    BY <2>1 DEF RowsFinal, SettledStep, Writes
  <2>4. SwitchHolds'
    BY <1>1, <2>1 DEF SwitchHolds, SettledStep, Writes, Moves, Only
  <2> QED
    BY <2>2, <2>3, <2>4
<1>3. ASSUME NEW w \in Workers, NEW o \in Orders, Take(w, o)
      PROVE  SwitchHolds' /\ (\A v \in Workers : RunOpen(v)') /\ RowsFinal
  <2>1. /\ UNCHANGED <<row, killSwitch>>
        /\ \A v \in Workers : run'[v] = run[v] \/ run'[v].at = "killSwitch"
    BY <1>1, <1>3 DEF Take, Runs, Idle
  <2> QED
    BY <1>1, <2>1, RestSettles
<1>4. ASSUME NEW w \in Workers, Acknowledge(w) \/ OnFailed(w) \/ Crash(w)
      PROVE  SwitchHolds' /\ (\A v \in Workers : RunOpen(v)') /\ RowsFinal
  <2>1. UNCHANGED <<row, killSwitch>>
    BY <1>4 DEF Acknowledge, OnFailed, Crash
  <2>2. Only(w) /\ run'[w].at \in {"idle", "onFailed"}
    <3>1. CASE Acknowledge(w)
      BY <1>1, <3>1, AckCases
    <3>2. CASE OnFailed(w) \/ Crash(w)
      BY <1>1, <3>2, ResetMoves DEF OnFailed, Crash
    <3> QED
      BY <1>4, <3>1, <3>2
  <2> QED
    BY <1>1, <2>1, <2>2, RestSettles DEF Only
<1>5. ASSUME NEW o \in Orders, StallAfterCrash(o)
      PROVE  SwitchHolds' /\ (\A v \in Workers : RunOpen(v)') /\ RowsFinal
  BY <1>1, <1>5, RestSettles DEF StallAfterCrash
<1>6. CASE UNCHANGED vars
  BY <1>1, <1>6, RestSettles DEF vars
<1>7. ~ \E w \in Workers : FaultStep(w)
  BY <1>1, RunStepBudget, SpentFaults
<1>8. ~ \E o \in Orders : StallWhileRunning(o)
  BY SpentSlow DEF StallWhileRunning
<1>9. ~ (FlipKillSwitch \/ \E a \in Accounts : FlipAccount(a))
  BY SpentFlips DEF FlipKillSwitch, FlipAccount
<1> QED
  BY <1>2, <1>3, <1>4, <1>5, <1>6, <1>7, <1>8, <1>9
     DEF Next, WorkerStep, RunStep, FaultStep

LEMMA SettledInit == Init => SettledInv
BY DEF Init, Idle, SettledInv, SwitchHolds, RunOpen, AfterLoad

(* While no statement has failed, no run was handed out twice and the       *)
(* operator has not intervened, the status of a filled or rejected order    *)
(* never changes, however often processes die and jobs are run again        *)
(* (SettledIsFinal).                                                        *)
THEOREM SettledIsFinalHolds == Spec => SettledIsFinal
<1>1. Init => QInv /\ SettledInv
  BY QueueInit, SettledInit
<1>2. QInv /\ SettledInv /\ [Next]_vars => QInv' /\ SettledInv'
  BY QueueStep, SettledNext
<1>3. QInv /\ SettledInv /\ [Next]_vars =>
        [\A o \in Orders :
          /\ budget'.faults = MaxFaults
          /\ budget'.slow = MaxSlow
          /\ budget'.flips = MaxFlips
          /\ row[o].status \in {"filled", "rejected"}
          => row'[o].status = row[o].status]_vars
  BY SettledNext DEF Calm, RowsFinal
<1> QED
  BY <1>1, <1>2, <1>3, PTL DEF Spec, SettledIsFinal

-----------------------------------------------------------------------------
(* The books of an order whose job has ended agree. *)

LEMMA BooksNext ==
    ASSUME QInv, BooksInv, [Next]_vars
    PROVE  BooksInv'
<1> SUFFICES ASSUME Undisturbed'
             PROVE  /\ \A w \in Workers : RunBooks(w)'
                    /\ \A o \in Orders : JobBooks(o)' /\ Attended(o)'
  BY DEF BooksInv
<1>1. /\ Undisturbed /\ RunsOwn /\ TypeInv /\ BudgetsShrink /\ run \in Runs
      /\ \A w \in Workers : RunBooks(w)
      /\ \A o \in Orders : JobBooks(o) /\ Attended(o)
      /\ JobsOwned /\ HandlersLast /\ IdleRuns
      /\ None \notin Workers /\ None \notin Orders /\ job \in [Orders -> JobType]
      /\ \A o \in Orders : job[o].owner \in Workers \cup {None}
  BY UntouchedBefore, OrderExecutionAssumption
     DEF BooksInv, QInv, Undisturbed, TypeInv, TypeOK, Runs, JobType
<1> DEFINE Books == /\ \A w \in Workers : RunBooks(w)'
                    /\ \A o \in Orders : JobBooks(o)' /\ Attended(o)'
<1>2. ASSUME NEW w \in Workers, RunStep(w)
      PROVE  Books
  <2>1. Moves(w) /\ Writes(run[w].order)
    BY <1>1, <1>2, RunStepMoves, RunStepWrites
  <2>2. \A v \in Workers : RunBooks(v)'
    <3>1. RunBooks(w)'
      BY <1>1, <1>2, RunStepBooks
    <3>2. ASSUME NEW v \in Workers, v # w PROVE RunBooks(v)'
      BY <1>1, <2>1, <3>2, OthersKept
    <3> QED
      BY <3>1, <3>2
  <2>3. job[run[w].order].state = "active" /\ run[w].order \in Orders
    BY <1>1, <2>1 DEF Moves, Works, RunsOwn, JobsOwned, TypeInv, RunsHaveOrders
  <2>4. \A o \in Orders : JobBooks(o)'
    BY <1>1, <2>1, <2>3 DEF JobBooks, Moves, Writes, Unplaced, Booked
  <2>5. \A o \in Orders : Attended(o)'
    BY <1>1, <2>1 DEF Attended, Moves, Only, JobsOwned
  <2> QED
    BY <2>2, <2>4, <2>5
<1>3. ASSUME NEW w \in Workers, NEW o \in Orders, Take(w, o)
      PROVE  Books
  <2>1. /\ Only(w) /\ run[w].at = "idle" /\ run'[w].at = "killSwitch"
        /\ run'[w].order = o /\ job[o].state = "waiting"
        /\ \A p \in Orders \ {o} : job'[p] = job[p]
        /\ job'[o].state = "active" /\ job'[o].owner = w
        /\ UNCHANGED <<row, placedAt, executions>>
    BY <1>1, <1>3 DEF Take, Only, Runs, Idle, JobType
  <2>2. Unplaced(o)
    BY <1>1, <2>1 DEF JobBooks
  <2>3. \A v \in Workers : RunBooks(v)'
    <3>1. Unplaced(o)' /\ RunBooks(w)'
      BY <2>1, <2>2 DEF RunBooks, Unplaced
    <3>2. ASSUME NEW v \in Workers, v # w PROVE RunBooks(v)'
      <4>1. RunBooks(v) /\ run'[v] = run[v] /\ UNCHANGED <<row, placedAt, executions>>
        BY <1>1, <2>1, <3>2 DEF Only
      <4> QED
        BY <4>1 DEF RunBooks, Unplaced, Placed, Recorded, Booked
    <3> QED
      BY <3>1, <3>2
  <2>4. \A p \in Orders : JobBooks(p)'
    BY <1>1, <2>1 DEF JobBooks, Unplaced, Booked
  <2>5. ASSUME NEW p \in Orders PROVE Attended(p)'
    <3>1. CASE p = o
      BY <2>1, <3>1 DEF Attended
    <3>2. CASE p # o
      <4>1. job[p].state = "active" => job[p].owner \in Workers \ {w}
        BY <1>1, <2>1 DEF Attended, IdleRuns, JobsOwned
      <4> QED
        BY <1>1, <2>1, <3>2, <4>1 DEF Attended, Only
    <3> QED
      BY <3>1, <3>2
  <2> QED
    BY <2>3, <2>4, <2>5
<1>4. ASSUME NEW w \in Workers, Acknowledge(w)
      PROVE  Books
  <2> DEFINE o == run[w].order
  <2>1. /\ o \in Orders /\ run[w].at = "ack" /\ Only(w)
        /\ run'[w].at \in {"idle", "onFailed"}
        /\ \A p \in Orders \ {o} : job'[p] = job[p]
        /\ \/ ~run[w].failed /\ job'[o].state = "completed"
           \/ run[w].failed /\ job'[o].state \in {"waiting", "failed"}
    BY <1>1, <1>4, AckCases DEF RunsOwn, Works
  <2>2. UNCHANGED <<row, placedAt, executions>>
    BY <1>4 DEF Acknowledge
  <2>3. Unplaced(o) \/ (~run[w].failed /\ Booked(o))
    BY <1>1, <2>1 DEF RunBooks
  <2>4. \A v \in Workers : RunBooks(v)'
    BY <1>1, <2>1, <2>2
       DEF RunBooks, Only, Unplaced, Placed, Recorded, Booked, MayPlace
  <2>5. \A p \in Orders : JobBooks(p)'
    BY <1>1, <2>1, <2>2, <2>3 DEF JobBooks, Unplaced, Booked
  <2>6. ASSUME NEW p \in Orders PROVE Attended(p)'
    <3>1. CASE p = o
      BY <2>1, <3>1 DEF Attended
    <3>2. CASE p # o
      <4>1. job[p].state = "active" => job[p].owner \in Workers \ {w}
        BY <1>1, <3>2 DEF Attended, JobsOwned
      <4> QED
        BY <1>1, <2>1, <3>2, <4>1 DEF Attended, Only
    <3> QED
      BY <3>1, <3>2
  <2> QED
    BY <2>4, <2>5, <2>6
<1>5. ASSUME NEW w \in Workers, OnFailed(w)
      PROVE  Books
  <2>1. /\ Only(w) /\ run[w].at = "onFailed" /\ run'[w].at = "idle"
        /\ UNCHANGED <<job, row, placedAt, executions>>
    BY <1>1, <1>5, ResetMoves DEF OnFailed
  <2>2. \A v \in Workers : RunBooks(v)'
    BY <1>1, <2>1
       DEF RunBooks, Only, Unplaced, Placed, Recorded, Booked, MayPlace
  <2>3. \A p \in Orders : JobBooks(p)'
    BY <1>1, <2>1 DEF JobBooks, Unplaced, Booked
  <2>4. ASSUME NEW p \in Orders PROVE Attended(p)'
    <3>1. job[p].state = "active" => job[p].owner \in Workers \ {w}
      BY <1>1, <2>1 DEF Attended, HandlersLast, JobsOwned
    <3> QED
      BY <1>1, <2>1, <3>1 DEF Attended, Only
  <2> QED
    BY <2>2, <2>3, <2>4
<1>6. ASSUME UNCHANGED <<run, job, row, placedAt, executions>>
      PROVE  Books
  BY <1>1, <1>6 DEF RunBooks, JobBooks, Attended, Unplaced, Placed, Recorded, Booked
<1>7. CASE UNCHANGED vars
  BY <1>6, <1>7 DEF vars
<1>8. CASE FlipKillSwitch \/ \E a \in Accounts : FlipAccount(a)
  BY <1>6, <1>8 DEF FlipKillSwitch, FlipAccount
<1>9. ~ \E w \in Workers : FaultStep(w) \/ Crash(w)
  BY <1>1, RunStepBudget, SpentFaults, SpentCrashes DEF Crash
<1>10. ~ \E o \in Orders : StallAfterCrash(o) \/ StallWhileRunning(o)
  BY <1>1, SpentSlow DEF StallAfterCrash, StallWhileRunning, Attended, OrderOf
<1> QED
  BY <1>2, <1>3, <1>4, <1>5, <1>7, <1>8, <1>9, <1>10
     DEF Next, WorkerStep, RunStep, FaultStep

LEMMA BooksInit == Init => BooksInv
BY DEF Init, Idle, BooksInv, RunBooks, JobBooks, Attended, Unplaced, MayPlace

(* When a job has ended, before anything has failed, the order is filled    *)
(* exactly if the broker was asked to place it, which happened once and     *)
(* left one execution, whatever the broker, the risk rules and the operator *)
(* did meanwhile (BooksBalance).                                            *)
THEOREM BooksBalanceHolds == Spec => []BooksBalance
<1>1. Init => QInv /\ BooksInv
  BY QueueInit, BooksInit
<1>2. QInv /\ BooksInv /\ [Next]_vars => QInv' /\ BooksInv'
  BY QueueStep, BooksNext
<1>3. BooksInv => BooksBalance
  <2> SUFFICES ASSUME BooksInv, NEW o \in Orders, Undisturbed, Ended(o)
               PROVE  /\ (row[o].status = "filled") <=> (placedAt[o] # {})
                      /\ Cardinality(placedAt[o]) = executions[o]
                      /\ executions[o] <= 1
    BY DEF BooksBalance
  <2>1. Unplaced(o) \/ Booked(o)
    BY DEF BooksInv, JobBooks, Ended
  <2> QED
    BY <2>1, FS_EmptySet DEF Unplaced, Booked
<1> QED
  BY <1>1, <1>2, <1>3, PTL DEF Spec

-----------------------------------------------------------------------------
(***************************************************************************)
(* The kill switch.  A run is past it from the step that has read it until  *)
(* its placement; that step is the only way there, and it throws as long as *)
(* the switch is set.                                                       *)
(***************************************************************************)
Past == {"load", "account", "risk", "lock", "submit", "place"}

(* A step of one run that places nothing and does not pass the switch. *)
LEMMA NotPassing ==
    ASSUME NEW w \in Workers, Only(w), placedAt' = placedAt,
           run'[w].at \in Past => run[w].at \in Past
    PROVE  /\ PastSwitch' \subseteq PastSwitch
           /\ placedAt' # placedAt => PastSwitch' # PastSwitch
BY DEF Only, Past, PastSwitch

LEMMA StepDrains ==
    ASSUME TypeInv, killSwitch, NEW w \in Workers, WorkerStep(w)
    PROVE  /\ PastSwitch' \subseteq PastSwitch
           /\ placedAt' # placedAt => PastSwitch' # PastSwitch
<1>0. run \in Runs
  BY DEF TypeInv, TypeOK, Runs
<1>1. CASE \E o \in Orders : Take(w, o)
  <2>1. /\ placedAt' = placedAt
        /\ Only(w) /\ run'[w].at = "killSwitch"
    BY <1>0, <1>1 DEF Take, Idle, Only, Runs
  <2> QED
    BY <2>1, NotPassing DEF Past
<1>2. CASE CheckKillSwitch(w)
  <2>1. placedAt' = placedAt /\ Throw(w, "fatal")
    BY <1>2 DEF CheckKillSwitch
  <2> QED
    BY <1>0, <2>1, ThrowOnly, NotPassing DEF Past
<1>3. CASE LoadOrder(w)
  <2>1. placedAt' = placedAt /\ run[w].at = "load" /\ Only(w)
    BY <1>0, <1>3, LoadMoves DEF LoadOrder
  <2> QED
    BY <2>1, NotPassing DEF Past
<1>4. CASE LoadAccount(w)
  <2>1. placedAt' = placedAt /\ run[w].at = "account" /\ Only(w)
    BY <1>0, <1>4, GoToOnly, ThrowOnly DEF LoadAccount
  <2> QED
    BY <2>1, NotPassing DEF Past
<1>5. CASE RiskCheck(w)
  <2>1. placedAt' = placedAt /\ run[w].at = "risk" /\ Only(w)
    BY <1>0, <1>5, GoToOnly, ThrowOnly DEF RiskCheck
  <2> QED
    BY <2>1, NotPassing DEF Past
<1>6. CASE RiskReject(w)
  <2>1. placedAt' = placedAt /\ run'[w].at = "catch" /\ Only(w)
    BY <1>0, <1>6, ThrowOnly DEF RiskReject
  <2> QED
    BY <2>1, NotPassing DEF Past
<1>7. CASE AcquireLock(w)
  <2>1. placedAt' = placedAt /\ run[w].at = "lock" /\ Only(w)
    BY <1>0, <1>7, GoToOnly DEF AcquireLock
  <2> QED
    BY <2>1, NotPassing DEF Past
<1>8. CASE Submit(w)
  <2>1. placedAt' = placedAt /\ run[w].at = "submit" /\ Only(w)
    BY <1>0, <1>8, GoToOnly, ThrowOnly DEF Submit
  <2> QED
    BY <2>1, NotPassing DEF Past
<1>9. CASE Place(w)
  <2>1. run[w].at = "place" /\ run'[w].at = "unlock" /\ Only(w)
    BY <1>0, <1>9, GoToOnly DEF Place
  <2>2. w \in PastSwitch /\ w \notin PastSwitch'
    BY <2>1 DEF PastSwitch
  <2>3. PastSwitch' \subseteq PastSwitch
    BY <2>1 DEF PastSwitch, Only
  <2> QED
    BY <2>2, <2>3
<1>10. CASE BrokerError(w)
  <2>1. placedAt' = placedAt /\ run'[w].at = "catch" /\ Only(w)
    BY <1>0, <1>10, ThrowOnly DEF BrokerError
  <2> QED
    BY <2>1, NotPassing DEF Past
<1>11. CASE ReleaseLock(w)
  <2>1. placedAt' = placedAt /\ run'[w].at = "record" /\ Only(w)
    BY <1>0, <1>11, GoToOnly DEF ReleaseLock
  <2> QED
    BY <2>1, NotPassing DEF Past
<1>12. CASE UpdateOrderWithExecution(w)
  <2>1. placedAt' = placedAt /\ run'[w].at = "execution" /\ Only(w)
    BY <1>0, <1>12, GoToOnly DEF UpdateOrderWithExecution
  <2> QED
    BY <2>1, NotPassing DEF Past
<1>13. CASE RecordExecution(w)
  <2>1. placedAt' = placedAt /\ run'[w].at = "ack" /\ Only(w)
    BY <1>0, <1>13, FinishOnly DEF RecordExecution
  <2> QED
    BY <2>1, NotPassing DEF Past
<1>14. CASE CatchError(w)
  <2>1. placedAt' = placedAt /\ run'[w].at \notin Past /\ Only(w)
    BY <1>0, <1>14, CatchMoves DEF Past
  <2> QED
    BY <2>1, NotPassing
<1>15. CASE AddDeadLetter(w)
  <2>1. placedAt' = placedAt /\ run'[w].at = "ack" /\ Only(w)
    BY <1>0, <1>15, FinishOnly DEF AddDeadLetter
  <2> QED
    BY <2>1, NotPassing DEF Past
<1>16. CASE Acknowledge(w)
  <2>1. placedAt' = placedAt /\ run'[w].at \notin Past /\ Only(w)
    BY <1>0, <1>16, GoToOnly, ResetOnly DEF Acknowledge, Past
  <2> QED
    BY <2>1, NotPassing
<1>17. CASE OnFailed(w)
  <2>1. placedAt' = placedAt /\ run'[w].at = "idle" /\ Only(w)
    BY <1>0, <1>17, ResetOnly DEF OnFailed
  <2> QED
    BY <2>1, NotPassing DEF Past
<1> QED
  BY <1>1, <1>2, <1>3, <1>4, <1>5, <1>6, <1>7, <1>8, <1>9, <1>10, <1>11, <1>12,
     <1>13, <1>14, <1>15, <1>16, <1>17 DEF WorkerStep

LEMMA FailureDrains ==
    ASSUME TypeInv, NEW w \in Workers, FaultStep(w) \/ Crash(w)
    PROVE  /\ PastSwitch' \subseteq PastSwitch
           /\ placedAt' # placedAt => PastSwitch' # PastSwitch
<1>0. run \in Runs
  BY DEF TypeInv, TypeOK, Runs
<1>1. placedAt' = placedAt /\ run'[w].at \notin Past /\ Only(w)
  BY <1>0, ThrowOnly, FinishOnly, ResetOnly
     DEF FaultStep, DatabaseFault, DatabaseFaultInLock, DatabaseFaultInCatch,
         Crash, Past
<1> QED
  BY <1>1, NotPassing

(* While the kill switch is set no run passes it, and each placement uses   *)
(* up a run that had passed it before, for any number of runs, retries,     *)
(* stalls and failures (KillSwitchDrains).                                  *)
THEOREM KillSwitchDrainsHolds == Spec => KillSwitchDrains
<1>1. TypeInv /\ [Next]_vars => [killSwitch =>
          /\ PastSwitch' \subseteq PastSwitch
          /\ placedAt' # placedAt => PastSwitch' # PastSwitch]_vars
  <2> SUFFICES ASSUME TypeInv, Next, killSwitch
               PROVE  /\ PastSwitch' \subseteq PastSwitch
                      /\ placedAt' # placedAt => PastSwitch' # PastSwitch
    OBVIOUS
  <2>1. ASSUME UNCHANGED <<run, placedAt>>
        PROVE  /\ PastSwitch' \subseteq PastSwitch
               /\ placedAt' # placedAt => PastSwitch' # PastSwitch
    BY <2>1 DEF PastSwitch
  <2>2. CASE \E w \in Workers : WorkerStep(w)
    BY <2>2, StepDrains
  <2>3. CASE \E w \in Workers : FaultStep(w) \/ Crash(w)
    BY <2>3, FailureDrains
  <2>4. CASE \/ \E o \in Orders : StallAfterCrash(o) \/ StallWhileRunning(o)
             \/ FlipKillSwitch
             \/ \E a \in Accounts : FlipAccount(a)
             \/ UNCHANGED vars
    BY <2>1, <2>4 DEF StallAfterCrash, StallWhileRunning, FlipKillSwitch,
                      FlipAccount, vars
  <2> QED
    BY <2>2, <2>3, <2>4 DEF Next, FaultStep
<1> QED
  BY <1>1, TypeInductive, PTL DEF Spec, KillSwitchDrains

-----------------------------------------------------------------------------
(***************************************************************************)
(* The refinement of OrderDesk.  The desk of an account shows the run that  *)
(* holds its lock, so the proof needs the converse of LockedRunsHold, and,  *)
(* as an order comes to the desk under a version that its row has had, that *)
(* no run is ahead of the row.                                              *)
(***************************************************************************)
HoldersLocked ==
    \A a \in Accounts : accountLock[a] # None =>
        /\ run[accountLock[a]].at \in Locked
        /\ AccountOf[run[accountLock[a]].order] = a

SeenBehind ==
    \A w \in Workers :
        run[w].at # "idle" => run[w].seen <= row[run[w].order].version

DeskInv == IInv /\ HoldersLocked /\ SeenBehind

DeskMove == [Desk!Next]_(Desk!vars)

LEMMA DeskTypes ==
    ASSUME DeskInv
    PROVE  /\ run \in Runs /\ row \in [Orders -> RowType]
           /\ accountLock \in [Accounts -> Workers \cup {None}]
           /\ placedAt \in [Orders -> SUBSET Nat]
           /\ \A w \in Workers : run[w].at # "idle" =>
                 OrderOf(w) \in Orders /\ AccountOf[OrderOf(w)] \in Accounts
BY OrderExecutionAssumption
   DEF DeskInv, IInv, TypeInv, TypeOK, Runs, RunsHaveOrders, OrderOf

(* Who is at the desk of each account, seen one account at a time. *)
OthersAtDesk(a) == \A b \in Accounts \ {a} : AtDesk(b)' = AtDesk(b)

LEMMA DeskChanges ==
    ASSUME NEW a \in Accounts, NEW visit, AtDesk(a)' = visit, OthersAtDesk(a)
    PROVE  [b \in Accounts |-> AtDesk(b)]'
             = [[b \in Accounts |-> AtDesk(b)] EXCEPT ![a] = visit]
BY DEF OthersAtDesk

LEMMA DeskStays ==
    ASSUME \A a \in Accounts : AtDesk(a)' = AtDesk(a)
    PROVE  [b \in Accounts |-> AtDesk(b)]' = [b \in Accounts |-> AtDesk(b)]
OBVIOUS

LEMMA VersionsStay ==
    ASSUME row' = row
    PROVE  [o \in Orders |-> row[o].version]' = [o \in Orders |-> row[o].version]
OBVIOUS

LEMMA VersionChanges ==
    ASSUME row \in [Orders -> RowType], NEW o \in Orders, NEW s, SetStatus(o, s)
    PROVE  [p \in Orders |-> row[p].version]'
             = [[p \in Orders |-> row[p].version] EXCEPT ![o] = @ + 1]
<1>1. row'[o].version = row[o].version + 1
  BY SetStatusGrows
<1>2. \A p \in Orders : p # o => row'[p] = row[p]
  BY DEF SetStatus
<1> QED
  BY <1>1, <1>2

(* A step of a run that holds no lock. *)
LEMMA DeskUnmoved ==
    ASSUME DeskInv, NEW w \in Workers, Only(w), run[w].at \notin Locked,
           accountLock' = accountLock
    PROVE  HoldersLocked' /\ \A a \in Accounts : AtDesk(a)' = AtDesk(a)
<1>1. accountLock \in [Accounts -> Workers \cup {None}]
  BY DeskTypes
<1>2. ASSUME NEW a \in Accounts, accountLock[a] # None
      PROVE  /\ run'[accountLock[a]] = run[accountLock[a]]
             /\ run[accountLock[a]].at \in Locked
             /\ AccountOf[run[accountLock[a]].order] = a
  <2>1. accountLock[a] \in Workers /\ run[accountLock[a]].at \in Locked
    BY <1>1, <1>2 DEF DeskInv, HoldersLocked
  <2> QED
    BY <1>2, <2>1 DEF Only, DeskInv, HoldersLocked
<1>3. HoldersLocked'
  BY <1>2 DEF HoldersLocked
<1>4. ASSUME NEW a \in Accounts
      PROVE  AtDesk(a)' = AtDesk(a)
  <2>1. CASE accountLock[a] = None
    BY <2>1 DEF AtDesk
  <2>2. CASE accountLock[a] # None
    BY <1>2, <2>2 DEF AtDesk, OrderOf
  <2> QED
    BY <2>1, <2>2
<1> QED
  BY <1>3, <1>4

(* The lock of run w is released, and w is out of the section. *)
LEMMA DeskLeft ==
    ASSUME DeskInv, NEW w \in Workers, Only(w), run[w].at \in Locked,
           NEW a \in Accounts, a = AccountOf[OrderOf(w)], Release(a)
    PROVE  HoldersLocked' /\ AtDesk(a)' = None /\ OthersAtDesk(a)
<1>1. /\ accountLock \in [Accounts -> Workers \cup {None}]
      /\ OrderOf(w) = run[w].order
  BY DeskTypes DEF OrderOf
<1>2. accountLock'[a] = None /\ \A b \in Accounts : b # a => accountLock'[b] = accountLock[b]
  BY <1>1 DEF Release
<1>3. ASSUME NEW b \in Accounts, b # a, accountLock[b] # None
      PROVE  /\ run'[accountLock[b]] = run[accountLock[b]]
             /\ run[accountLock[b]].at \in Locked
             /\ AccountOf[run[accountLock[b]].order] = b
  <2>1. /\ accountLock[b] \in Workers /\ run[accountLock[b]].at \in Locked
        /\ AccountOf[run[accountLock[b]].order] = b
    BY <1>1, <1>3 DEF DeskInv, HoldersLocked
  <2>2. accountLock[b] # w
    BY <1>1, <1>3, <2>1
  <2> QED
    BY <2>1, <2>2 DEF Only
<1>4. HoldersLocked'
  BY <1>2, <1>3 DEF HoldersLocked
<1>5. ASSUME NEW b \in Accounts, b # a
      PROVE  AtDesk(b)' = AtDesk(b)
  <2>1. CASE accountLock[b] = None
    BY <1>2, <1>5, <2>1 DEF AtDesk
  <2>2. CASE accountLock[b] # None
    BY <1>2, <1>3, <1>5, <2>2 DEF AtDesk, OrderOf
  <2> QED
    BY <2>1, <2>2
<1> QED
  BY <1>2, <1>4, <1>5 DEF AtDesk, OthersAtDesk

(* Run w has the lock, or gets it, and is at a step of the section. *)
LEMMA DeskTaken ==
    ASSUME DeskInv, NEW w \in Workers, Only(w), run'[w].at \in Locked,
           run'[w].order = run[w].order,
           NEW a \in Accounts, a = AccountOf[OrderOf(w)],
           accountLock[a] \in {None, w}, accountLock'[a] = w,
           \A b \in Accounts \ {a} : accountLock'[b] = accountLock[b]
    PROVE  /\ HoldersLocked' /\ OthersAtDesk(a)
           /\ AtDesk(a)' = Desk!Visit(run[w].order, run'[w].seen, run'[w].at)
<1>1. /\ accountLock \in [Accounts -> Workers \cup {None}]
      /\ OrderOf(w) = run[w].order
  BY DeskTypes DEF OrderOf
<1>2. ASSUME NEW b \in Accounts, b # a, accountLock[b] # None
      PROVE  /\ run'[accountLock[b]] = run[accountLock[b]]
             /\ run[accountLock[b]].at \in Locked
             /\ AccountOf[run[accountLock[b]].order] = b
  <2>1. /\ accountLock[b] \in Workers /\ run[accountLock[b]].at \in Locked
        /\ AccountOf[run[accountLock[b]].order] = b
    BY <1>1, <1>2 DEF DeskInv, HoldersLocked
  <2>2. accountLock[b] # w
    BY <1>1, <1>2, <2>1
  <2> QED
    BY <2>1, <2>2 DEF Only
<1>3. HoldersLocked'
  BY <1>1, <1>2 DEF HoldersLocked
<1>4. ASSUME NEW b \in Accounts, b # a
      PROVE  AtDesk(b)' = AtDesk(b)
  <2>1. CASE accountLock[b] = None
    BY <1>4, <2>1 DEF AtDesk
  <2>2. CASE accountLock[b] # None
    BY <1>2, <1>4, <2>2 DEF AtDesk, OrderOf
  <2> QED
    BY <2>1, <2>2
<1>5. AtDesk(a)' = Desk!Visit(run[w].order, run'[w].seen, run'[w].at)
  BY OrderExecutionAssumption DEF AtDesk, OrderOf, Desk!Visit
<1> QED
  BY <1>3, <1>4, <1>5 DEF OthersAtDesk

(* The run keeps its order and the version it has loaded. *)
Keeps(w) == /\ Only(w)
            /\ run'[w].order = run[w].order
            /\ run'[w].seen = run[w].seen

LEMMA GoToKeeps ==
    ASSUME run \in Runs, NEW w \in Workers, NEW step, GoTo(w, step)
    PROVE  Keeps(w) /\ run'[w].at = step
BY DEF Runs, RunType, GoTo, Only, Keeps

LEMMA ThrowKeeps ==
    ASSUME run \in Runs, NEW w \in Workers, NEW kind, Throw(w, kind)
    PROVE  Keeps(w) /\ run'[w].at = "catch"
BY DEF Runs, RunType, Throw, Only, Keeps

LEMMA FinishKeeps ==
    ASSUME run \in Runs, NEW w \in Workers, NEW failed, Finish(w, failed)
    PROVE  Keeps(w) /\ run'[w].at = "ack"
BY DEF Runs, RunType, Finish, Only, Keeps

(* Run w is no further than the row of its order. *)
Behind(w) == run[w].at # "idle" => run[w].seen <= row[run[w].order].version

LEMMA SeenStaysBehind ==
    ASSUME DeskInv, NEW w \in Workers, Only(w), VersionsGrow,
           row' \in [Orders -> RowType], Behind(w)'
    PROVE  SeenBehind'
<1> SUFFICES ASSUME NEW v \in Workers, v # w, run'[v].at # "idle"
             PROVE  run'[v].seen <= row'[run'[v].order].version
  BY DEF SeenBehind, Behind
<1>1. run'[v] = run[v] /\ run[v].at # "idle"
  BY DEF Only
<1>2. run[v].order \in Orders /\ run[v].seen \in Nat
  BY <1>1, DeskTypes DEF OrderOf, Runs, RunType
<1>3. run[v].seen <= row[run[v].order].version
  BY <1>1 DEF DeskInv, SeenBehind
<1>4. row'[run[v].order].version >= row[run[v].order].version
  BY <1>2 DEF VersionsGrow
<1>5. row[run[v].order].version \in Nat /\ row'[run[v].order].version \in Nat
  BY <1>2, DeskTypes DEF RowType
<1> QED
  BY <1>1, <1>2, <1>3, <1>4, <1>5

LEMMA KeptStaysBehind ==
    ASSUME DeskInv, NEW w \in Workers, run[w].at # "idle", Keeps(w),
           VersionsGrow, row' \in [Orders -> RowType]
    PROVE  Behind(w)'
<1>1. run[w].order \in Orders /\ run[w].seen \in Nat
  BY DeskTypes DEF OrderOf, Runs, RunType
<1>2. run[w].seen <= row[run[w].order].version
  BY DEF DeskInv, SeenBehind
<1>3. row'[run[w].order].version >= row[run[w].order].version
  BY <1>1 DEF VersionsGrow
<1>4. row[run[w].order].version \in Nat /\ row'[run[w].order].version \in Nat
  BY <1>1, DeskTypes DEF RowType
<1>5. run'[w].seen = run[w].seen /\ run'[w].order = run[w].order
  BY DEF Keeps
<1>6. run[w].seen <= row'[run[w].order].version
  BY <1>1, <1>2, <1>3, <1>4
<1> QED
  BY <1>5, <1>6 DEF Behind

(* A step of a run that has no lock: it updates a row, or the desk sees    *)
(* nothing of it.                                                           *)
LEMMA DeskAround ==
    ASSUME DeskInv, NEW w \in Workers, Only(w), run[w].at \notin Locked,
           Behind(w)', row' \in [Orders -> RowType],
           accountLock' = accountLock, placedAt' = placedAt,
           \/ row' = row
           \/ \E o \in Orders : \E s \in Statuses : SetStatus(o, s)
    PROVE  HoldersLocked' /\ SeenBehind' /\ DeskMove
<1>1. /\ run \in Runs /\ row \in [Orders -> RowType]
  BY DeskTypes
<1>2. HoldersLocked' /\ \A a \in Accounts : AtDesk(a)' = AtDesk(a)
  BY DeskUnmoved
<1>3. [b \in Accounts |-> AtDesk(b)]' = [b \in Accounts |-> AtDesk(b)]
  BY <1>2, DeskStays
<1>4. CASE row' = row
  <2>1. VersionsGrow
    BY <1>1, <1>4, SameRowsGrow
  <2>2. UNCHANGED Desk!vars
    BY <1>3, <1>4, VersionsStay DEF Desk!vars
  <2> QED
    BY <1>2, <2>1, <2>2, SeenStaysBehind DEF DeskMove
<1>5. ASSUME NEW o \in Orders, NEW s \in Statuses, SetStatus(o, s)
      PROVE  HoldersLocked' /\ SeenBehind' /\ DeskMove
  <2>1. VersionsGrow
    BY <1>1, <1>5, SetStatusGrows
  <2>2. Desk!Update(o)
    BY <1>1, <1>3, <1>5, VersionChanges DEF Desk!Update
  <2>3. DeskMove
    BY <2>2 DEF DeskMove, Desk!Next
  <2> QED
    BY <1>2, <2>1, <2>3, SeenStaysBehind
<1> QED
  BY <1>4, <1>5

(* A step in which the run gives its lock back: it leaves the desk. *)
LEMMA DeskAway ==
    ASSUME DeskInv, NEW w \in Workers, Only(w), run[w].at \in Locked,
           Release(AccountOf[OrderOf(w)]),
           Behind(w)', row' = row, placedAt' = placedAt
    PROVE  HoldersLocked' /\ SeenBehind' /\ DeskMove
<1>1. /\ run \in Runs /\ row \in [Orders -> RowType]
      /\ AccountOf[OrderOf(w)] \in Accounts
  BY DeskTypes DEF Locked
<1> PICK a \in Accounts : a = AccountOf[OrderOf(w)]
  BY <1>1
<1>2. HoldersLocked' /\ AtDesk(a)' = None /\ OthersAtDesk(a)
  BY DeskLeft
<1>3. [b \in Accounts |-> AtDesk(b)]'
        = [[b \in Accounts |-> AtDesk(b)] EXCEPT ![a] = None]
  BY <1>2, DeskChanges
<1>4. Desk!Leave(a)
  BY <1>3, VersionsStay DEF Desk!Leave
<1>5. DeskMove
  BY <1>4 DEF DeskMove, Desk!Next
<1>6. SeenBehind'
  BY <1>1, SameRowsGrow, SeenStaysBehind
<1> QED
  BY <1>2, <1>5, <1>6

(* A run inside the section is the one at the desk. *)
LEMMA DeskHeld ==
    ASSUME DeskInv, NEW w \in Workers, run[w].at \in Locked,
           NEW a \in Accounts, a = AccountOf[OrderOf(w)]
    PROVE  /\ accountLock[a] = w
           /\ AtDesk(a) = Desk!Visit(OrderOf(w), run[w].seen, run[w].at)
<1>1. accountLock[a] = w
  BY DEF DeskInv, IInv, LockedRunsHold, OrderOf
<1> QED
  BY <1>1, OrderExecutionAssumption DEF AtDesk, Desk!Visit

LEMMA AcquireAdmits ==
    ASSUME DeskInv, NEW w \in Workers, AcquireLock(w)
    PROVE  HoldersLocked' /\ SeenBehind' /\ DeskMove
<1>1. /\ run \in Runs /\ row \in [Orders -> RowType]
      /\ OrderOf(w) \in Orders /\ AccountOf[OrderOf(w)] \in Accounts
      /\ accountLock \in [Accounts -> Workers \cup {None}]
  BY DeskTypes DEF AcquireLock
<1> PICK o \in Orders : o = OrderOf(w)
  BY <1>1
<1> PICK a \in Accounts : a = AccountOf[o]
  BY <1>1
<1>2. /\ GoTo(w, "submit") /\ row' = row /\ placedAt' = placedAt
      /\ accountLock[a] = None /\ accountLock' = [accountLock EXCEPT ![a] = w]
      /\ run[w].at = "lock"
  BY DEF AcquireLock
<1>3. Keeps(w) /\ run'[w].at = "submit"
  BY <1>1, <1>2, GoToKeeps
<1>4. /\ Only(w) /\ run'[w].order = o /\ run[w].order = o
      /\ run'[w].seen = run[w].seen /\ run'[w].at \in Locked
  BY <1>3 DEF Keeps, OrderOf, Locked
<1>5. /\ accountLock'[a] = w
      /\ \A b \in Accounts \ {a} : accountLock'[b] = accountLock[b]
  BY <1>1, <1>2
<1>6. /\ HoldersLocked' /\ OthersAtDesk(a)
      /\ AtDesk(a)' = Desk!Visit(o, run[w].seen, "submit")
  BY <1>2, <1>3, <1>4, <1>5, DeskTaken
<1>7. [b \in Accounts |-> AtDesk(b)]'
        = [[b \in Accounts |-> AtDesk(b)]
             EXCEPT ![a] = Desk!Visit(o, run[w].seen, "submit")]
  BY <1>6, DeskChanges
<1>8. AtDesk(a) = None
  BY <1>2 DEF AtDesk
<1>9. run[w].seen \in 0..row[o].version
  <2>1. run[w].seen <= row[o].version
    BY <1>2, <1>4 DEF DeskInv, SeenBehind
  <2>2. run[w].seen \in Nat /\ row[o].version \in Nat
    BY <1>1 DEF Runs, RunType, RowType
  <2> QED
    BY <2>1, <2>2
<1>10. Desk!Admit(o, run[w].seen)
  BY <1>2, <1>7, <1>8, VersionsStay DEF Desk!Admit, Desk!MoveOn
<1>11. DeskMove
  BY <1>9, <1>10 DEF DeskMove, Desk!Next
<1>12. VersionsGrow
  BY <1>1, <1>2, SameRowsGrow
<1>13. SeenBehind'
  BY <1>1, <1>2, <1>3, <1>4, <1>12, KeptStaysBehind, SeenStaysBehind
<1> QED
  BY <1>6, <1>11, <1>13

LEMMA SubmitClaims ==
    ASSUME DeskInv, NEW w \in Workers, Submit(w), VersionMatches(w)
    PROVE  HoldersLocked' /\ SeenBehind' /\ DeskMove
<1>1. /\ run \in Runs /\ row \in [Orders -> RowType]
      /\ OrderOf(w) \in Orders /\ AccountOf[OrderOf(w)] \in Accounts
      /\ accountLock \in [Accounts -> Workers \cup {None}]
  BY DeskTypes DEF Submit
<1> PICK o \in Orders : o = OrderOf(w)
  BY <1>1
<1> PICK a \in Accounts : a = AccountOf[o]
  BY <1>1
<1>2. /\ GoTo(w, "place") /\ SetStatus(o, "submitted") /\ placedAt' = placedAt
      /\ accountLock' = accountLock /\ run[w].at = "submit"
      /\ run[w].seen = row[o].version
  BY DEF Submit, VersionMatches
<1>3. Keeps(w) /\ run'[w].at = "place"
  BY <1>1, <1>2, GoToKeeps
<1>4. /\ Only(w) /\ run'[w].order = o /\ run[w].order = o
      /\ run'[w].seen = run[w].seen /\ run'[w].at \in Locked
      /\ run[w].at \in Locked
  BY <1>2, <1>3 DEF Keeps, OrderOf, Locked
<1>5. /\ accountLock[a] = w
      /\ AtDesk(a) = Desk!Visit(o, row[o].version, "submit")
  BY <1>2, <1>4, DeskHeld
<1>6. /\ HoldersLocked' /\ OthersAtDesk(a)
      /\ AtDesk(a)' = Desk!Visit(o, row[o].version, "place")
  BY <1>2, <1>3, <1>4, <1>5, DeskTaken
<1>7. [b \in Accounts |-> AtDesk(b)]'
        = [[b \in Accounts |-> AtDesk(b)]
             EXCEPT ![a] = Desk!Visit(o, row[o].version, "place")]
  BY <1>6, DeskChanges
<1>8. [p \in Orders |-> row[p].version]'
        = [[p \in Orders |-> row[p].version] EXCEPT ![o] = @ + 1]
  BY <1>1, <1>2, VersionChanges
<1>9. Desk!Claim(o)
  BY <1>2, <1>5, <1>7, <1>8 DEF Desk!Claim, Desk!MoveOn
<1>10. DeskMove
  BY <1>9 DEF DeskMove, Desk!Next
<1>11. row' \in [Orders -> RowType] /\ VersionsGrow
  BY <1>1, <1>2, SetStatusGrows, SetStatusTyped DEF Statuses
<1>12. SeenBehind'
  BY <1>1, <1>2, <1>3, <1>4, <1>11, KeptStaysBehind, SeenStaysBehind
<1> QED
  BY <1>6, <1>10, <1>12

LEMMA PlacePlaces ==
    ASSUME DeskInv, NEW w \in Workers, Place(w)
    PROVE  HoldersLocked' /\ SeenBehind' /\ DeskMove
<1>1. /\ run \in Runs /\ row \in [Orders -> RowType]
      /\ OrderOf(w) \in Orders /\ AccountOf[OrderOf(w)] \in Accounts
      /\ accountLock \in [Accounts -> Workers \cup {None}]
  BY DeskTypes DEF Place
<1> PICK o \in Orders : o = OrderOf(w)
  BY <1>1
<1> PICK a \in Accounts : a = AccountOf[o]
  BY <1>1
<1>2. /\ GoTo(w, "unlock") /\ row' = row /\ accountLock' = accountLock
      /\ placedAt' = [placedAt EXCEPT ![o] = @ \cup {run[w].seen}]
      /\ run[w].at = "place"
  BY DEF Place
<1>3. Keeps(w) /\ run'[w].at = "unlock"
  BY <1>1, <1>2, GoToKeeps
<1>4. /\ Only(w) /\ run'[w].order = o /\ run[w].order = o
      /\ run'[w].seen = run[w].seen /\ run'[w].at \in Locked
      /\ run[w].at \in Locked
  BY <1>2, <1>3 DEF Keeps, OrderOf, Locked
<1>5. /\ accountLock[a] = w
      /\ AtDesk(a) = Desk!Visit(o, run[w].seen, "place")
  BY <1>2, <1>4, DeskHeld
<1>6. /\ HoldersLocked' /\ OthersAtDesk(a)
      /\ AtDesk(a)' = Desk!Visit(o, run[w].seen, "unlock")
  BY <1>2, <1>3, <1>4, <1>5, DeskTaken
<1>7. [b \in Accounts |-> AtDesk(b)]'
        = [[b \in Accounts |-> AtDesk(b)]
             EXCEPT ![a] = Desk!Visit(o, run[w].seen, "unlock")]
  BY <1>6, DeskChanges
<1>8. run[w].seen \notin placedAt[o]
  BY <1>2, <1>4 DEF DeskInv, IInv, ClaimFresh
<1>9. run[w].seen \in 0..row[o].version
  <2>1. run[w].seen <= row[o].version
    BY <1>2, <1>4 DEF DeskInv, SeenBehind
  <2>2. run[w].seen \in Nat /\ row[o].version \in Nat
    BY <1>1 DEF Runs, RunType, RowType
  <2> QED
    BY <2>1, <2>2
<1>10. Desk!Place(o, run[w].seen)
  BY <1>2, <1>5, <1>7, <1>8, VersionsStay DEF Desk!Place, Desk!MoveOn
<1>11. DeskMove
  BY <1>9, <1>10 DEF DeskMove, Desk!Next
<1>12. VersionsGrow
  BY <1>1, <1>2, SameRowsGrow
<1>13. SeenBehind'
  BY <1>1, <1>2, <1>3, <1>4, <1>12, KeptStaysBehind, SeenStaysBehind
<1> QED
  BY <1>6, <1>11, <1>13

LEMMA KeptAround ==
    ASSUME DeskInv, NEW w \in Workers, Keeps(w),
           run[w].at \notin Locked \cup {"idle"},
           accountLock' = accountLock, placedAt' = placedAt,
           \/ row' = row
           \/ \E o \in Orders : \E s \in Statuses : SetStatus(o, s)
    PROVE  HoldersLocked' /\ SeenBehind' /\ DeskMove
<1>1. row \in [Orders -> RowType]
  BY DeskTypes
<1>2. row' \in [Orders -> RowType] /\ VersionsGrow
  BY <1>1, SetStatusTyped, SetStatusGrows, SameRowsGrow
<1>3. Only(w) /\ Behind(w)'
  BY <1>2, KeptStaysBehind DEF Keeps
<1> QED
  BY <1>2, <1>3, DeskAround

LEMMA KeptAway ==
    ASSUME DeskInv, NEW w \in Workers, Keeps(w), run[w].at \in Locked,
           Release(AccountOf[OrderOf(w)]), row' = row, placedAt' = placedAt
    PROVE  HoldersLocked' /\ SeenBehind' /\ DeskMove
<1>1. row \in [Orders -> RowType]
  BY DeskTypes
<1>2. Only(w) /\ Behind(w)'
  BY <1>1, SameRowsGrow, KeptStaysBehind DEF Keeps, Locked
<1> QED
  BY <1>2, DeskAway

LEMMA TakeAtDesk ==
    ASSUME DeskInv, NEW w \in Workers, NEW o \in Orders, Take(w, o)
    PROVE  HoldersLocked' /\ SeenBehind' /\ DeskMove
<1>1. run \in Runs /\ row \in [Orders -> RowType]
  BY DeskTypes
<1>2. /\ Only(w) /\ run'[w].order = o /\ run'[w].seen = 0
      /\ run[w].at \notin Locked
      /\ row' = row /\ accountLock' = accountLock /\ placedAt' = placedAt
  BY <1>1 DEF Take, Only, Runs, Idle, Locked
<1>3. row'[o].version \in Nat
  BY <1>1, <1>2 DEF RowType
<1>4. 0 <= row'[o].version
  BY <1>3
<1>5. Behind(w)'
  BY <1>2, <1>4 DEF Behind
<1> QED
  BY <1>1, <1>2, <1>5, DeskAround

LEMMA LoadAtDesk ==
    ASSUME DeskInv, NEW w \in Workers, LoadOrder(w)
    PROVE  HoldersLocked' /\ SeenBehind' /\ DeskMove
<1>1. /\ run \in Runs /\ row \in [Orders -> RowType]
      /\ OrderOf(w) \in Orders
  BY DeskTypes DEF LoadOrder
<1>2. /\ run[w].at = "load" /\ row' = row /\ accountLock' = accountLock
      /\ placedAt' = placedAt
  BY DEF LoadOrder
<1>3. CASE row[OrderOf(w)].status \in {"pending", "submitted"}
  <2>1. /\ Only(w) /\ run'[w].order = OrderOf(w)
        /\ run'[w].seen = row[OrderOf(w)].version
    BY <1>1, <1>3 DEF LoadOrder, Only, Runs, RunType, OrderOf
  <2>2. row[OrderOf(w)].version \in Nat
    BY <1>1 DEF RowType
  <2>3. run'[w].seen <= row'[run'[w].order].version
    BY <1>2, <2>1, <2>2
  <2> QED
    BY <1>1, <1>2, <2>1, <2>3, DeskAround DEF Behind, Locked
<1>4. CASE row[OrderOf(w)].status \notin {"pending", "submitted"}
  <2>1. Keeps(w)
    BY <1>1, <1>4, FinishKeeps DEF LoadOrder
  <2> QED
    BY <1>2, <2>1, KeptAround DEF Locked
<1> QED
  BY <1>3, <1>4

(* A run that ends without a lock. *)
LEMMA ResetAround ==
    ASSUME DeskInv, NEW w \in Workers, run' = [run EXCEPT ![w] = Idle],
           run[w].at \notin Locked, row' = row, accountLock' = accountLock,
           placedAt' = placedAt
    PROVE  HoldersLocked' /\ SeenBehind' /\ DeskMove
<1>1. run \in Runs /\ row \in [Orders -> RowType]
  BY DeskTypes
<1>2. Only(w) /\ Behind(w)'
  BY <1>1, ResetOnly DEF Behind
<1> QED
  BY <1>1, <1>2, DeskAround

LEMMA WorkerAtDesk ==
    ASSUME DeskInv, NEW w \in Workers, WorkerStep(w)
    PROVE  HoldersLocked' /\ SeenBehind' /\ DeskMove
<1>0. /\ run \in Runs /\ row \in [Orders -> RowType]
      /\ run[w].at # "idle" => OrderOf(w) \in Orders
  BY DeskTypes
<1>1. CASE \E o \in Orders : Take(w, o)
  BY <1>1, TakeAtDesk
<1>2. CASE CheckKillSwitch(w)
  <2>1. /\ Keeps(w) /\ run[w].at \notin Locked \cup {"idle"}
        /\ accountLock' = accountLock /\ placedAt' = placedAt
    BY <1>0, <1>2, GoToKeeps, ThrowKeeps DEF CheckKillSwitch, Locked
  <2>2. \/ row' = row
        \/ \E o \in Orders : \E s \in Statuses : SetStatus(o, s)
    BY <1>0, <1>2 DEF CheckKillSwitch, Statuses
  <2> QED
    BY <2>1, <2>2, KeptAround
<1>3. CASE LoadOrder(w)
  BY <1>3, LoadAtDesk
<1>4. CASE LoadAccount(w)
  <2>1. /\ Keeps(w) /\ run[w].at \notin Locked \cup {"idle"}
        /\ accountLock' = accountLock /\ placedAt' = placedAt
    BY <1>0, <1>4, GoToKeeps, ThrowKeeps DEF LoadAccount, Locked
  <2>2. \/ row' = row
        \/ \E o \in Orders : \E s \in Statuses : SetStatus(o, s)
    BY <1>0, <1>4 DEF LoadAccount, Statuses
  <2> QED
    BY <2>1, <2>2, KeptAround
<1>5. CASE RiskCheck(w)
  <2>1. /\ Keeps(w) /\ run[w].at \notin Locked \cup {"idle"}
        /\ accountLock' = accountLock /\ placedAt' = placedAt
    BY <1>0, <1>5, GoToKeeps, ThrowKeeps DEF RiskCheck, Locked
  <2>2. \/ row' = row
        \/ \E o \in Orders : \E s \in Statuses : SetStatus(o, s)
    BY <1>0, <1>5 DEF RiskCheck, Statuses
  <2> QED
    BY <2>1, <2>2, KeptAround
<1>6. CASE RiskReject(w)
  <2>1. /\ Keeps(w) /\ run[w].at \notin Locked \cup {"idle"}
        /\ accountLock' = accountLock /\ placedAt' = placedAt
    BY <1>0, <1>6, ThrowKeeps DEF RiskReject, Locked
  <2>2. \/ row' = row
        \/ \E o \in Orders : \E s \in Statuses : SetStatus(o, s)
    BY <1>0, <1>6 DEF RiskReject, Statuses
  <2> QED
    BY <2>1, <2>2, KeptAround
<1>7. CASE AcquireLock(w)
  BY <1>7, AcquireAdmits
<1>8. CASE Submit(w)
  <2>1. CASE VersionMatches(w)
    BY <1>8, <2>1, SubmitClaims
  <2>2. CASE ~VersionMatches(w)
    <3>1. /\ Keeps(w) /\ run[w].at \in Locked /\ Release(AccountOf[OrderOf(w)])
          /\ row' = row /\ placedAt' = placedAt
      BY <1>0, <1>8, <2>2, ThrowKeeps DEF Submit, Locked
    <3> QED
      BY <3>1, KeptAway
  <2> QED
    BY <2>1, <2>2
<1>9. CASE Place(w)
  BY <1>9, PlacePlaces
<1>10. CASE BrokerError(w)
  <2>1. /\ Keeps(w) /\ run[w].at \in Locked /\ Release(AccountOf[OrderOf(w)])
        /\ row' = row /\ placedAt' = placedAt
    BY <1>0, <1>10, ThrowKeeps DEF BrokerError, Locked
  <2> QED
    BY <2>1, KeptAway
<1>11. CASE ReleaseLock(w)
  <2>1. /\ Keeps(w) /\ run[w].at \in Locked /\ Release(AccountOf[OrderOf(w)])
        /\ row' = row /\ placedAt' = placedAt
    BY <1>0, <1>11, GoToKeeps DEF ReleaseLock, Locked
  <2> QED
    BY <2>1, KeptAway
<1>12. CASE UpdateOrderWithExecution(w)
  <2>1. /\ Keeps(w) /\ run[w].at \notin Locked \cup {"idle"}
        /\ accountLock' = accountLock /\ placedAt' = placedAt
    BY <1>0, <1>12, GoToKeeps DEF UpdateOrderWithExecution, Locked
  <2>2. \/ row' = row
        \/ \E o \in Orders : \E s \in Statuses : SetStatus(o, s)
    BY <1>0, <1>12 DEF UpdateOrderWithExecution, Statuses
  <2> QED
    BY <2>1, <2>2, KeptAround
<1>13. CASE RecordExecution(w)
  <2>1. /\ Keeps(w) /\ run[w].at \notin Locked \cup {"idle"}
        /\ accountLock' = accountLock /\ placedAt' = placedAt
    BY <1>0, <1>13, FinishKeeps DEF RecordExecution, Locked
  <2>2. \/ row' = row
        \/ \E o \in Orders : \E s \in Statuses : SetStatus(o, s)
    BY <1>0, <1>13 DEF RecordExecution, Statuses
  <2> QED
    BY <2>1, <2>2, KeptAround
<1>14. CASE CatchError(w)
  <2>1. /\ Keeps(w) /\ run[w].at \notin Locked \cup {"idle"}
        /\ accountLock' = accountLock /\ placedAt' = placedAt
    BY <1>0, <1>14, GoToKeeps, FinishKeeps DEF CatchError, Locked
  <2>2. \/ row' = row
        \/ \E o \in Orders : \E s \in Statuses : SetStatus(o, s)
    BY <1>0, <1>14 DEF CatchError, Statuses
  <2> QED
    BY <2>1, <2>2, KeptAround
<1>15. CASE AddDeadLetter(w)
  <2>1. /\ Keeps(w) /\ run[w].at \notin Locked \cup {"idle"}
        /\ accountLock' = accountLock /\ placedAt' = placedAt
    BY <1>0, <1>15, FinishKeeps DEF AddDeadLetter, Locked
  <2>2. \/ row' = row
        \/ \E o \in Orders : \E s \in Statuses : SetStatus(o, s)
    BY <1>0, <1>15 DEF AddDeadLetter, Statuses
  <2> QED
    BY <2>1, <2>2, KeptAround
<1>16. CASE Acknowledge(w)
  <2>1. /\ run[w].at = "ack" /\ row' = row /\ accountLock' = accountLock
        /\ placedAt' = placedAt
    BY <1>16 DEF Acknowledge
  <2>2. CASE run' = [run EXCEPT ![w] = Idle]
    BY <2>1, <2>2, ResetAround DEF Locked
  <2>3. CASE GoTo(w, "onFailed")
    BY <1>0, <2>1, <2>3, GoToKeeps, KeptAround DEF Locked
  <2> QED
    BY <1>16, <2>2, <2>3 DEF Acknowledge
<1>17. CASE OnFailed(w)
  BY <1>17, ResetAround DEF OnFailed, Locked
<1> QED
  BY <1>1, <1>2, <1>3, <1>4, <1>5, <1>6, <1>7, <1>8, <1>9, <1>10, <1>11, <1>12,
     <1>13, <1>14, <1>15, <1>16, <1>17 DEF WorkerStep

LEMMA FailureAtDesk ==
    ASSUME DeskInv, NEW w \in Workers, FaultStep(w) \/ Crash(w)
    PROVE  HoldersLocked' /\ SeenBehind' /\ DeskMove
<1>0. /\ run \in Runs /\ row \in [Orders -> RowType]
      /\ accountLock \in [Accounts -> Workers \cup {None}]
      /\ run[w].at # "idle" =>
            OrderOf(w) \in Orders /\ AccountOf[OrderOf(w)] \in Accounts
  BY DeskTypes
<1>1. CASE DatabaseFault(w)
  <2>1. /\ Keeps(w) /\ run[w].at \notin Locked \cup {"idle"}
        /\ accountLock' = accountLock /\ placedAt' = placedAt
    BY <1>0, <1>1, ThrowKeeps DEF DatabaseFault, Locked
  <2>2. \/ row' = row
        \/ \E o \in Orders : \E s \in Statuses : SetStatus(o, s)
    BY <1>0, <1>1 DEF DatabaseFault, Statuses
  <2> QED
    BY <2>1, <2>2, KeptAround
<1>2. CASE DatabaseFaultInLock(w)
  <2>1. /\ Keeps(w) /\ run[w].at \in Locked /\ Release(AccountOf[OrderOf(w)])
        /\ row' = row /\ placedAt' = placedAt
    BY <1>0, <1>2, ThrowKeeps DEF DatabaseFaultInLock, Locked
  <2> QED
    BY <2>1, KeptAway
<1>3. CASE DatabaseFaultInCatch(w)
  <2>1. /\ Keeps(w) /\ run[w].at \notin Locked \cup {"idle"}
        /\ accountLock' = accountLock /\ placedAt' = placedAt
    BY <1>0, <1>3, FinishKeeps DEF DatabaseFaultInCatch, Locked
  <2>2. \/ row' = row
        \/ \E o \in Orders : \E s \in Statuses : SetStatus(o, s)
    BY <1>0, <1>3 DEF DatabaseFaultInCatch, Statuses
  <2> QED
    BY <2>1, <2>2, KeptAround
<1>4. CASE Crash(w)
  <2>1. /\ run' = [run EXCEPT ![w] = Idle] /\ run[w].at # "idle"
        /\ row' = row /\ placedAt' = placedAt
        /\ accountLock' = [a \in Accounts |-> IF accountLock[a] = w THEN None
                                              ELSE accountLock[a]]
    BY <1>4 DEF Crash
  <2>2. Only(w) /\ Behind(w)'
    BY <1>0, <2>1, ResetOnly DEF Behind
  <2>3. CASE run[w].at \notin Locked
    <3>1. \A a \in Accounts : accountLock[a] # w
      BY <2>3, OrderExecutionAssumption DEF DeskInv, HoldersLocked
    <3>2. accountLock' = accountLock
      BY <1>0, <2>1, <3>1
    <3> QED
      BY <2>1, <2>3, <3>2, ResetAround
  <2>4. CASE run[w].at \in Locked
    <3> PICK a \in Accounts : a = AccountOf[OrderOf(w)]
      BY <1>0, <2>1
    <3>1. accountLock[a] = w
      BY <2>4, DeskHeld
    <3>2. \A b \in Accounts : accountLock[b] = w => b = a
      BY OrderExecutionAssumption DEF DeskInv, HoldersLocked, OrderOf
    <3>3. Release(a)
      BY <1>0, <2>1, <3>1, <3>2 DEF Release
    <3> QED
      BY <2>1, <2>2, <2>4, <3>3, DeskAway
  <2> QED
    BY <2>3, <2>4
<1> QED
  BY <1>1, <1>2, <1>3, <1>4 DEF FaultStep

LEMMA DeskInit == Init => DeskInv /\ Desk!Init
<1> SUFFICES ASSUME Init PROVE DeskInv /\ Desk!Init
  OBVIOUS
<1>1. HoldersLocked
  BY DEF Init, HoldersLocked
<1>2. SeenBehind
  BY DEF Init, SeenBehind, Idle
<1>3. [a \in Accounts |-> AtDesk(a)] = [a \in Accounts |-> None]
  BY DEF Init, AtDesk
<1>4. [o \in Orders |-> row[o].version] = [o \in Orders |-> 1]
  BY DEF Init
<1>5. Desk!Init
  BY <1>3, <1>4 DEF Init, Desk!Init
<1> QED
  BY <1>1, <1>2, <1>5, InvInit DEF DeskInv

LEMMA DeskStep == DeskInv /\ [Next]_vars => DeskInv' /\ DeskMove
<1> SUFFICES ASSUME DeskInv, [Next]_vars
             PROVE  HoldersLocked' /\ SeenBehind' /\ DeskMove
  BY InvStep DEF DeskInv
<1>1. ASSUME UNCHANGED <<run, row, accountLock, placedAt>>
      PROVE  HoldersLocked' /\ SeenBehind' /\ DeskMove
  <2>1. HoldersLocked' /\ SeenBehind'
    BY <1>1 DEF DeskInv, HoldersLocked, SeenBehind
  <2>2. \A a \in Accounts : AtDesk(a)' = AtDesk(a)
    BY <1>1 DEF AtDesk, OrderOf
  <2>3. UNCHANGED Desk!vars
    BY <1>1, <2>2, DeskStays, VersionsStay DEF Desk!vars
  <2> QED
    BY <2>1, <2>3 DEF DeskMove
<1>2. CASE \E w \in Workers : WorkerStep(w)
  BY <1>2, WorkerAtDesk
<1>3. CASE \E w \in Workers : FaultStep(w) \/ Crash(w)
  BY <1>3, FailureAtDesk
<1>4. CASE \/ \E o \in Orders : StallAfterCrash(o) \/ StallWhileRunning(o)
           \/ FlipKillSwitch
           \/ \E a \in Accounts : FlipAccount(a)
           \/ UNCHANGED vars
  BY <1>1, <1>4 DEF StallAfterCrash, StallWhileRunning, FlipKillSwitch,
                    FlipAccount, vars
<1> QED
  BY <1>2, <1>3, <1>4 DEF Next, FaultStep

(* The processor implements OrderDesk, for every number of orders, accounts,*)
(* workers and failures: no order is placed but by the run at its account's *)
(* desk, after a claim of the version it has loaded, and once per claim     *)
(* (ImplementsDesk).                                                        *)
THEOREM DeskImplemented == Spec => ImplementsDesk
<1>1. DeskInv /\ [Next]_vars => DeskInv'
  BY DeskStep
<1>2. DeskInv /\ [Next]_vars => [Desk!Next]_(Desk!vars)
  BY DeskStep DEF DeskMove
<1> QED
  BY <1>1, <1>2, DeskInit, PTL DEF Spec, ImplementsDesk, Desk!Spec
=============================================================================
