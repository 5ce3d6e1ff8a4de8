-------------------------- MODULE AlertIntake_proofs --------------------------
(***************************************************************************)
(* One job per alert for any number of deliveries, alerts and failures.     *)
(*                                                                         *)
(* EnqueuedOnce is not inductive: it says nothing of a delivery that has    *)
(* recorded the alert and has still to add its job.  The invariant adds     *)
(* that such a delivery is the only one (OneHolder) and that the row it     *)
(* wrote stands, with no job added yet (HolderOwnsRow).  From the same      *)
(* invariant every step is one of AlertLedger or leaves the ledger as it    *)
(* is.  Last, the switch stops intake because both copies of it agree       *)
(* between two toggles (SwitchAgrees).                                      *)
(***************************************************************************)
EXTENDS AlertIntake, TLAPS

Holds(r, a) == request[r].at = "enqueue" /\ request[r].alert = a

(* A request between its arrival and its answer carries an alert. *)
CarriesAlert ==
    \A r \in Requests : request[r].at \notin {"new", "answered"}
                            => request[r].alert \in Alerts

OneHolder ==
    \A a \in Alerts : \A r, s \in Requests : Holds(r, a) /\ Holds(s, a) => r = s

HolderOwnsRow ==
    \A a \in Alerts : \A r \in Requests :
        Holds(r, a) => row[a] = "accepted" /\ added[a] = 0

AddedOwnsRow ==
    \A a \in Alerts : added[a] = 0 \/ (added[a] = 1 /\ row[a] = "accepted")

IInv == /\ TypeOK /\ CarriesAlert
        /\ OneHolder /\ HolderOwnsRow /\ AddedOwnsRow

ReqType == [Requests -> RequestType]

-----------------------------------------------------------------------------
(* Only request r changed, and it is now at step. *)
Moved(r, step) ==
    /\ request'[r].at = step
    /\ request'[r].alert = request[r].alert
    /\ \A s \in Requests : s # r => request'[s] = request[s]

LEMMA GoToMoves ==
    ASSUME request \in ReqType, NEW r \in Requests, NEW step \in Steps,
           GoTo(r, step)
    PROVE  request' \in ReqType /\ Moved(r, step)
BY DEF GoTo, Moved, RequestType, ReqType

LEMMA AnswerMoves ==
    ASSUME request \in ReqType, NEW r \in Requests, NEW answer \in Answers,
           Answer(r, answer)
    PROVE  request' \in ReqType /\ Moved(r, "answered")
<1>1. "answered" \in Steps
  BY DEF Steps
<1> QED
  BY <1>1 DEF Answer, Moved, RequestType, ReqType

LEMMA TypeParts ==
    ASSUME TypeOK
    PROVE  /\ request \in ReqType /\ cooling \subseteq Signals
           /\ row \in [Alerts -> {"absent", "accepted", "killed"}]
           /\ added \in [Alerts -> Nat]
           /\ switchDb \in BOOLEAN /\ switchMemory \in BOOLEAN
           /\ toggling \in BOOLEAN
           /\ budget \in [toggles: Nat, faults: Nat, crashes: Nat]
BY DEF TypeOK, ReqType

LEMMA SpendType ==
    ASSUME budget \in [toggles: Nat, faults: Nat, crashes: Nat],
           NEW what \in {"toggles", "faults", "crashes"}, Spend(what)
    PROVE  budget' \in [toggles: Nat, faults: Nat, crashes: Nat]
BY DEF Spend

(* A request that neither gets nor holds a row, nor touches one that has    *)
(* been accepted, keeps the invariant.                                      *)
LEMMA BystanderStep ==
    ASSUME IInv, TypeOK', NEW r \in Requests, NEW step, Moved(r, step),
           step # "enqueue",
           step \in {"new", "answered"} \/ request[r].alert \in Alerts,
           added' = added,
           \A a \in Alerts : row[a] = "accepted" => row'[a] = "accepted"
    PROVE  IInv'
<1>1. \A a \in Alerts : \A s \in Requests :
         Holds(s, a)' => s # r /\ Holds(s, a)
  BY DEF Holds, Moved
<1>2. CarriesAlert'
  BY DEF IInv, CarriesAlert, Moved
<1>3. OneHolder'
  BY <1>1 DEF IInv, OneHolder
<1>4. HolderOwnsRow'
  BY <1>1 DEF IInv, HolderOwnsRow
<1>5. AddedOwnsRow'
  BY DEF IInv, AddedOwnsRow
<1> QED
  BY <1>2, <1>3, <1>4, <1>5 DEF IInv

(* Adding the job: the holder lets go of the row. *)
LEMMA EnqueueStep ==
    ASSUME IInv, TypeOK', NEW r \in Requests, Moved(r, "answered"),
           request[r].at = "enqueue", row' = row,
           added' = [added EXCEPT ![AlertOf(r)] = @ + 1]
    PROVE  IInv'
<1> DEFINE b == request[r].alert
<1>1. b \in Alerts /\ Holds(r, b) /\ AlertOf(r) = b
  BY DEF IInv, CarriesAlert, Holds, AlertOf
<1>2. row[b] = "accepted" /\ added[b] = 0
  BY <1>1 DEF IInv, HolderOwnsRow
<1>3. /\ added'[b] = 1
      /\ \A a \in Alerts : a # b => added'[a] = added[a]
  BY <1>1, <1>2 DEF IInv, TypeOK
<1>4. \A a \in Alerts : \A s \in Requests :
         Holds(s, a)' => s # r /\ Holds(s, a) /\ a # b
  <2> SUFFICES ASSUME NEW a \in Alerts, NEW s \in Requests, Holds(s, a)'
               PROVE  s # r /\ Holds(s, a) /\ a # b
    OBVIOUS
  <2>1. s # r /\ Holds(s, a)
    BY DEF Holds, Moved
  <2>2. a # b
    BY <1>1, <2>1 DEF IInv, OneHolder
  <2> QED
    BY <2>1, <2>2
<1>5. CarriesAlert'
  BY DEF IInv, CarriesAlert, Moved
<1>6. OneHolder'
  BY <1>4 DEF IInv, OneHolder
<1>7. HolderOwnsRow'
  BY <1>3, <1>4 DEF IInv, HolderOwnsRow
<1>8. AddedOwnsRow'
  BY <1>2, <1>3 DEF IInv, AddedOwnsRow
<1> QED
  BY <1>5, <1>6, <1>7, <1>8 DEF IInv

(* Getting the row: it was absent, so no request holds the alert. *)
LEMMA InsertStep ==
    ASSUME IInv, TypeOK', NEW r \in Requests, Moved(r, "enqueue"),
           request[r].at = "insert", row[AlertOf(r)] = "absent",
           row' = [row EXCEPT ![AlertOf(r)] = "accepted"], added' = added
    PROVE  IInv'
<1> DEFINE b == request[r].alert
<1>1. b \in Alerts /\ AlertOf(r) = b /\ row[b] = "absent"
  BY DEF IInv, CarriesAlert, AlertOf
<1>2. \A s \in Requests : ~Holds(s, b)
  BY <1>1 DEF IInv, HolderOwnsRow
<1>3. added[b] = 0
  BY <1>1 DEF IInv, AddedOwnsRow
<1>4. /\ row'[b] = "accepted"
      /\ \A a \in Alerts : a # b => row'[a] = row[a]
  BY <1>1 DEF IInv, TypeOK
<1>5. \A a \in Alerts : \A s \in Requests :
         Holds(s, a)' => \/ s # r /\ a # b /\ Holds(s, a)
                         \/ s = r /\ a = b
  BY <1>2 DEF Holds, Moved
<1>6. CarriesAlert'
  BY <1>1 DEF IInv, CarriesAlert, Moved
<1>7. OneHolder'
  BY <1>5 DEF IInv, OneHolder
<1>8. HolderOwnsRow'
  BY <1>3, <1>4, <1>5 DEF IInv, HolderOwnsRow
<1>9. AddedOwnsRow'
  BY <1>3, <1>4 DEF IInv, AddedOwnsRow
<1> QED
  BY <1>6, <1>7, <1>8, <1>9 DEF IInv

-----------------------------------------------------------------------------
LEMMA HandleStep ==
    ASSUME IInv, NEW r \in Requests, Handle(r)
    PROVE  IInv'
<1>1. /\ request \in ReqType /\ cooling \subseteq Signals
      /\ row \in [Alerts -> {"absent", "accepted", "killed"}]
      /\ added \in [Alerts -> Nat]
  BY TypeParts DEF IInv
<1>2. request[r].at \notin {"new", "answered"}
  BY DEF Handle, CheckKillSwitch, PersistAlertWithKillSwitch, CheckCooldown,
         InsertAlertAtomic, Enqueue
<1>3. request[r].alert \in Alerts
  BY <1>2 DEF IInv, CarriesAlert
<1>4. {"saveKilled", "cooldown", "insert", "enqueue"} \subseteq Steps
  BY DEF Steps
<1>5. {"killed", "cooldown", "duplicate", "accepted"} \subseteq Answers
  BY DEF Answers
<1>6. CASE CheckKillSwitch(r)
  <2>1. PICK step \in {"saveKilled", "cooldown"} : GoTo(r, step)
    BY <1>6 DEF CheckKillSwitch
  <2>2. request' \in ReqType /\ Moved(r, step) /\ step # "enqueue"
    BY <1>1, <1>4, <2>1, GoToMoves
  <2>3. TypeOK'
    BY <1>6, <2>2 DEF IInv, TypeOK, CheckKillSwitch, ReqType
  <2>4. added' = added /\ row' = row
    BY <1>6 DEF CheckKillSwitch
  <2> QED
    BY <1>3, <2>2, <2>3, <2>4, BystanderStep
<1>7. CASE PersistAlertWithKillSwitch(r)
  <2>1. request' \in ReqType /\ Moved(r, "answered")
    BY <1>1, <1>5, <1>7, AnswerMoves DEF PersistAlertWithKillSwitch
  <2>2. /\ row' \in [Alerts -> {"absent", "accepted", "killed"}]
        /\ \A a \in Alerts : row[a] = "accepted" => row'[a] = "accepted"
    BY <1>1, <1>3, <1>7 DEF PersistAlertWithKillSwitch, AlertOf
  <2>3. TypeOK'
    BY <1>7, <2>1, <2>2 DEF IInv, TypeOK, PersistAlertWithKillSwitch, ReqType
  <2>4. added' = added
    BY <1>7 DEF PersistAlertWithKillSwitch
  <2> QED
    BY <1>3, <2>1, <2>2, <2>3, <2>4, BystanderStep
<1>8. CASE CheckCooldown(r)
  <2>1. Answer(r, "cooldown") \/ GoTo(r, "insert")
    BY <1>8 DEF CheckCooldown
  <2>2. PICK step \in {"answered", "insert"} : request' \in ReqType /\ Moved(r, step)
    BY <1>1, <1>4, <1>5, <2>1, AnswerMoves, GoToMoves
  <2>3. cooling' \subseteq Signals
    BY <1>1, <1>3, <1>8, AlertIntakeAssumption DEF CheckCooldown, AlertOf
  <2>4. TypeOK'
    BY <1>8, <2>2, <2>3 DEF IInv, TypeOK, CheckCooldown, ReqType
  <2>5. added' = added /\ row' = row
    BY <1>8 DEF CheckCooldown
  <2> QED
    BY <1>3, <2>2, <2>4, <2>5, BystanderStep
<1>9. CASE InsertAlertAtomic(r)
  <2>1. CASE row[AlertOf(r)] = "absent"
    <3>1. request' \in ReqType /\ Moved(r, "enqueue")
      BY <1>1, <1>4, <1>9, <2>1, GoToMoves DEF InsertAlertAtomic
    <3>2. /\ row' = [row EXCEPT ![AlertOf(r)] = "accepted"] /\ added' = added
          /\ request[r].at = "insert"
      BY <1>9, <2>1 DEF InsertAlertAtomic
    <3>3. TypeOK'
      BY <1>1, <1>9, <3>1, <3>2 DEF IInv, TypeOK, InsertAlertAtomic, ReqType
    <3> QED
      BY <2>1, <3>1, <3>2, <3>3, InsertStep
  <2>2. CASE row[AlertOf(r)] # "absent"
    <3>1. request' \in ReqType /\ Moved(r, "answered")
      BY <1>1, <1>5, <1>9, <2>2, AnswerMoves DEF InsertAlertAtomic
    <3>2. row' = row /\ added' = added
      BY <1>9, <2>2 DEF InsertAlertAtomic
    <3>3. TypeOK'
      BY <1>9, <3>1, <3>2 DEF IInv, TypeOK, InsertAlertAtomic, ReqType
    <3> QED
      BY <3>1, <3>2, <3>3, BystanderStep
  <2> QED
    BY <2>1, <2>2
<1>10. CASE Enqueue(r)
  <2>1. request' \in ReqType /\ Moved(r, "answered")
    BY <1>1, <1>5, <1>10, AnswerMoves DEF Enqueue
  <2>2. /\ request[r].at = "enqueue" /\ row' = row
        /\ added' = [added EXCEPT ![AlertOf(r)] = @ + 1]
    BY <1>10 DEF Enqueue
  <2>3. added' \in [Alerts -> Nat]
    <3>1. added[AlertOf(r)] + 1 \in Nat
      BY <1>1, <1>3 DEF AlertOf
    <3> QED
      BY <1>1, <2>2, <3>1
  <2>4. TypeOK'
    BY <1>10, <2>1, <2>3 DEF IInv, TypeOK, Enqueue, ReqType
  <2> QED
    BY <2>1, <2>2, <2>4, EnqueueStep
<1> QED
  BY <1>6, <1>7, <1>8, <1>9, <1>10 DEF Handle

LEMMA ArrivalStep ==
    ASSUME IInv, NEW r \in Requests, Receive(r) \/ Refuse(r)
    PROVE  IInv'
<1>1. request \in ReqType /\ row \in [Alerts -> {"absent", "accepted", "killed"}]
  BY TypeParts DEF IInv
<1>2. CASE Refuse(r)
  <2>1. "refused" \in Answers
    BY DEF Answers
  <2>2. request' \in ReqType /\ Moved(r, "answered")
    BY <1>1, <1>2, <2>1, AnswerMoves DEF Refuse
  <2>3. TypeOK' /\ row' = row /\ added' = added
    BY <1>2, <2>2 DEF IInv, TypeOK, Refuse, ReqType
  <2> QED
    BY <2>2, <2>3, BystanderStep
<1>3. CASE Receive(r)
  <2>1. PICK a \in Alerts :
           request' = [request EXCEPT ![r].at = "killSwitch", ![r].alert = a]
    BY <1>3 DEF Receive
  <2>2. "killSwitch" \in Steps
    BY DEF Steps
  <2>3. /\ request' \in ReqType
        /\ request'[r].at = "killSwitch" /\ request'[r].alert = a
        /\ \A s \in Requests : s # r => request'[s] = request[s]
    BY <1>1, <2>1, <2>2 DEF ReqType, RequestType
  <2>4. TypeOK' /\ row' = row /\ added' = added
    BY <1>3, <2>3 DEF IInv, TypeOK, Receive, ReqType
  <2>5. CarriesAlert'
    BY <2>3 DEF IInv, CarriesAlert
  <2>6. \A b \in Alerts : \A s \in Requests : Holds(s, b)' => Holds(s, b)
    BY <2>3 DEF Holds
  <2> QED
    BY <2>4, <2>5, <2>6 DEF IInv, OneHolder, HolderOwnsRow, AddedOwnsRow
<1> QED
  BY <1>2, <1>3

LEMMA FaultStep ==
    ASSUME IInv, NEW r \in Requests, Fault(r) \/ EnqueueUnconfirmed(r)
    PROVE  IInv'
<1>1. /\ request \in ReqType /\ added \in [Alerts -> Nat]
      /\ budget \in [toggles: Nat, faults: Nat, crashes: Nat]
  BY TypeParts DEF IInv
<1>2. budget' \in [toggles: Nat, faults: Nat, crashes: Nat]
  BY <1>1, SpendType DEF Fault, EnqueueUnconfirmed
<1>3. /\ {"error", "killed"} \subseteq Answers /\ "insert" \in Steps
      /\ "insert" # "enqueue"
  BY DEF Answers, Steps
<1>4. CASE Fault(r)
  <2>1. /\ row' = row /\ added' = added
        /\ request[r].at \notin {"new", "answered"}
        /\ Answer(r, "error") \/ GoTo(r, "insert") \/ Answer(r, "killed")
    BY <1>4 DEF Fault
  <2>2. PICK step \in {"answered", "insert"} : request' \in ReqType /\ Moved(r, step)
    BY <1>1, <1>3, <2>1, AnswerMoves, GoToMoves
  <2>3. TypeOK'
    BY <1>2, <1>4, <2>2 DEF IInv, TypeOK, Fault, ReqType
  <2>4. request[r].alert \in Alerts
    BY <2>1 DEF IInv, CarriesAlert
  <2> QED
    BY <2>1, <2>2, <2>3, <2>4, BystanderStep
<1>5. CASE EnqueueUnconfirmed(r)
  <2>1. /\ request[r].at = "enqueue" /\ row' = row /\ Answer(r, "error")
        /\ added' = [added EXCEPT ![AlertOf(r)] = @ + 1]
    BY <1>5 DEF EnqueueUnconfirmed
  <2>2. request' \in ReqType /\ Moved(r, "answered")
    BY <1>1, <1>3, <2>1, AnswerMoves
  <2>3. request[r].alert \in Alerts
    BY <2>1 DEF IInv, CarriesAlert
  <2>4. added' \in [Alerts -> Nat]
    BY <1>1, <2>1, <2>3 DEF AlertOf
  <2>5. TypeOK'
    BY <1>2, <1>5, <2>2, <2>4 DEF IInv, TypeOK, EnqueueUnconfirmed, ReqType
  <2> QED
    BY <2>1, <2>2, <2>5, EnqueueStep
<1> QED
  BY <1>4, <1>5

LEMMA CrashStep ==
    ASSUME IInv, Crash
    PROVE  IInv'
<1>1. /\ request \in ReqType
      /\ budget \in [toggles: Nat, faults: Nat, crashes: Nat]
  BY TypeParts DEF IInv
<1>2. budget' \in [toggles: Nat, faults: Nat, crashes: Nat]
  BY <1>1, SpendType DEF Crash
<1>3. "answered" \in Steps /\ "lost" \in Answers
  BY DEF Steps, Answers
<1>4. request' \in ReqType
  BY <1>1, <1>3 DEF Crash, ReqType, RequestType
<1>5. \A r \in Requests : request'[r].at \in {"new", "answered"}
  BY <1>1 DEF Crash, ReqType, RequestType
<1>6. TypeOK'
  BY <1>2, <1>4, AlertIntakeAssumption DEF IInv, TypeOK, Crash, ReqType
<1>7. \A a \in Alerts : \A r \in Requests : ~Holds(r, a)'
  BY <1>5 DEF Holds
<1>8. row' = row /\ added' = added
  BY DEF Crash
<1> QED
  BY <1>5, <1>6, <1>7, <1>8
     DEF IInv, CarriesAlert, OneHolder, HolderOwnsRow, AddedOwnsRow

LEMMA EnvironmentStep ==
    ASSUME IInv,
           \/ \E s \in Signals : CooldownExpires(s)
           \/ SaveSwitch \/ ApplySwitch \/ UNCHANGED vars
    PROVE  IInv'
<1>1. request' = request /\ row' = row /\ added' = added
  BY DEF CooldownExpires, SaveSwitch, ApplySwitch, vars
<1>2. TypeOK'
  <2>1. /\ cooling \subseteq Signals /\ switchDb \in BOOLEAN
        /\ budget \in [toggles: Nat, faults: Nat, crashes: Nat]
    BY TypeParts DEF IInv
  <2>2. ASSUME NEW s \in Signals, CooldownExpires(s) PROVE TypeOK'
    BY <2>1, <2>2 DEF IInv, TypeOK, CooldownExpires
  <2>3. CASE SaveSwitch
    <3>1. budget' \in [toggles: Nat, faults: Nat, crashes: Nat]
      BY <2>1, <2>3, SpendType DEF SaveSwitch
    <3> QED
      BY <2>1, <2>3, <3>1 DEF IInv, TypeOK, SaveSwitch
  <2>4. CASE ApplySwitch
    BY <2>1, <2>4 DEF IInv, TypeOK, ApplySwitch
  <2>5. CASE UNCHANGED vars
    BY <2>5 DEF IInv, TypeOK, vars
  <2> QED
    BY <2>2, <2>3, <2>4, <2>5
<1> QED
  BY <1>1, <1>2
     DEF IInv, CarriesAlert, OneHolder, HolderOwnsRow, AddedOwnsRow, Holds

LEMMA InvInit == Init => IInv
<1> SUFFICES ASSUME Init PROVE IInv
  OBVIOUS
<1>1. request \in ReqType
  BY DEF Init, ReqType, RequestType, Steps, Answers
<1>2. TypeOK
  BY <1>1, AlertIntakeAssumption DEF Init, TypeOK, ReqType
<1>3. \A r \in Requests : request[r].at = "new"
  BY DEF Init
<1> QED
  BY <1>2, <1>3
     DEF Init, IInv, CarriesAlert, OneHolder, HolderOwnsRow, AddedOwnsRow, Holds

LEMMA InvInductive == Spec => []IInv
<1>1. IInv /\ [Next]_vars => IInv'
  BY HandleStep, ArrivalStep, FaultStep, CrashStep, EnvironmentStep DEF Next
<1> QED
  BY <1>1, InvInit, PTL DEF Spec

(* The variables of the intake keep their types. *)
THEOREM TypeCorrect == Spec => []TypeOK
<1>1. IInv => TypeOK
  BY DEF IInv
<1> QED
  BY <1>1, InvInductive, PTL

(* An alert is queued at most once, for any number of deliveries, crashes   *)
(* and failures (EnqueuedOnce).                                             *)
THEOREM EnqueuedOnceHolds == Spec => []EnqueuedOnce
<1>1. IInv => EnqueuedOnce
  BY DEF IInv, AddedOwnsRow, EnqueuedOnce
<1> QED
  BY <1>1, InvInductive, PTL

(* An alert that the kill switch recorded is never queued                   *)
(* (KilledStaysKilled).                                                     *)
THEOREM KilledStaysKilledHolds == Spec => []KilledStaysKilled
<1>1. IInv => KilledStaysKilled
  BY DEF IInv, AddedOwnsRow, KilledStaysKilled
<1> QED
  BY <1>1, InvInductive, PTL

-----------------------------------------------------------------------------
(***************************************************************************)
(* The webhook implements AlertLedger.  The mapping reads the holder of an  *)
(* alert off the program counters of the deliveries; the invariant says     *)
(* that there is at most one, that its row stands and that no job was added *)
(* before.  Failures are recognised by what is left of their budgets.       *)
(***************************************************************************)
WithinBudget == budget.faults <= MaxFaults /\ budget.crashes <= MaxCrashes

Held(a) == \E r \in Requests : Holds(r, a)

LEMMA BudgetInit == Init => WithinBudget
BY AlertIntakeAssumption DEF Init, WithinBudget

LEMMA BudgetStep ==
    ASSUME IInv, WithinBudget, [Next]_vars
    PROVE  WithinBudget'
<1> budget \in [toggles: Nat, faults: Nat, crashes: Nat]
  BY TypeParts DEF IInv
<1>1. CASE UNCHANGED budget
  BY <1>1 DEF WithinBudget
<1>2. ASSUME NEW what \in {"toggles", "faults", "crashes"}, Spend(what)
      PROVE  WithinBudget'
  BY <1>2, AlertIntakeAssumption DEF WithinBudget, Spend
<1>3. \/ UNCHANGED budget
      \/ \E what \in {"toggles", "faults", "crashes"} : Spend(what)
  BY DEF Next, Handle, Receive, Refuse, CheckKillSwitch,
         PersistAlertWithKillSwitch, CheckCooldown, InsertAlertAtomic, Enqueue,
         Fault, EnqueueUnconfirmed, CooldownExpires, SaveSwitch, ApplySwitch,
         Crash, vars
<1> QED
  BY <1>1, <1>2, <1>3

(* The entry of an alert, by what it depends on. *)
LEMMA EntryCases ==
    ASSUME IInv, NEW a \in Alerts
    PROVE  /\ added[a] > 0 => Entry(a) = "queued"
           /\ added[a] = 0 /\ row[a] = "killed" => Entry(a) = "killed"
           /\ added[a] = 0 /\ row[a] = "absent" => Entry(a) = "unknown"
           /\ added[a] = 0 /\ row[a] = "accepted" /\ Held(a) => Entry(a) = "stored"
           /\ added[a] = 0 /\ row[a] = "accepted" /\ ~Held(a) => Entry(a) = "lost"
BY DEF Entry, Held, Holds, AlertOf

LEMMA EntryCasesNext ==
    ASSUME IInv', NEW a \in Alerts
    PROVE  /\ added'[a] > 0 => Entry(a)' = "queued"
           /\ added'[a] = 0 /\ row'[a] = "killed" => Entry(a)' = "killed"
           /\ added'[a] = 0 /\ row'[a] = "absent" => Entry(a)' = "unknown"
           /\ added'[a] = 0 /\ row'[a] = "accepted" /\ Held(a)' => Entry(a)' = "stored"
           /\ added'[a] = 0 /\ row'[a] = "accepted" /\ ~Held(a)' => Entry(a)' = "lost"
BY DEF Entry, Held, Holds, AlertOf

LEMMA EntryKept ==
    ASSUME row' = row, added' = added, NEW a \in Alerts, Held(a)' <=> Held(a)
    PROVE  Entry(a)' = Entry(a)
BY DEF Entry, Held, Holds, AlertOf

(* Nothing the ledger shows has changed, but for a failure perhaps. *)
LEMMA LedgerStutters ==
    ASSUME row' = row, added' = added,
           \A a \in Alerts : Held(a)' <=> Held(a),
           Faultless' = Faultless \/ Faultless' = FALSE
    PROVE  [Ledger!Next]_(Ledger!vars)
<1>1. [a \in Alerts |-> Entry(a)]' = [a \in Alerts |-> Entry(a)]
  BY EntryKept
<1>2. CASE Faultless' = Faultless
  BY <1>1, <1>2 DEF Ledger!vars
<1>3. CASE Faultless' = FALSE
  <2>1. Ledger!Fail
    <3>1. {} \in SUBSET {a \in Alerts : [b \in Alerts |-> Entry(b)][a] = "stored"}
      OBVIOUS
    <3>2. [a \in Alerts |-> Entry(a)]' =
             [a \in Alerts |-> IF a \in {} THEN "lost"
                               ELSE [b \in Alerts |-> Entry(b)][a]]
      BY <1>1
    <3> QED
      BY <1>3, <3>1, <3>2 DEF Ledger!Fail
  <2> QED
    BY <2>1 DEF Ledger!Next
<1> QED
  BY <1>2, <1>3

(* Some alerts lost the delivery that held them. *)
LEMMA LedgerLoses ==
    ASSUME IInv, IInv', row' = row, added' = added, Faultless' = FALSE,
           \A a \in Alerts : Held(a)' => Held(a)
    PROVE  [Ledger!Next]_(Ledger!vars)
<1> DEFINE gone == {a \in Alerts : Held(a) /\ ~Held(a)'}
<1>1. ASSUME NEW a \in Alerts, a \in gone
      PROVE  Entry(a) = "stored" /\ Entry(a)' = "lost"
  <2>1. added[a] = 0 /\ row[a] = "accepted"
    BY <1>1 DEF IInv, HolderOwnsRow, Held
  <2> QED
    BY <1>1, <2>1, EntryCases, EntryCasesNext
<1>2. \A a \in Alerts \ gone : Entry(a)' = Entry(a)
  BY EntryKept
<1>3. gone \in SUBSET {a \in Alerts : [b \in Alerts |-> Entry(b)][a] = "stored"}
  BY <1>1
<1>4. [a \in Alerts |-> Entry(a)]' =
         [a \in Alerts |-> IF a \in gone THEN "lost"
                           ELSE [b \in Alerts |-> Entry(b)][a]]
  BY <1>1, <1>2
<1>5. Ledger!Fail
  BY <1>3, <1>4 DEF Ledger!Fail
<1> QED
  BY <1>5 DEF Ledger!Next

(* One alert's entry changed. *)
LEMMA EntryChanged ==
    ASSUME NEW b \in Alerts, NEW entry, Entry(b)' = entry,
           \A a \in Alerts : a # b => Entry(a)' = Entry(a)
    PROVE  [a \in Alerts |-> Entry(a)]' =
              [[a \in Alerts |-> Entry(a)] EXCEPT ![b] = entry]
OBVIOUS

LEMMA LedgerRecords ==
    ASSUME IInv, IInv', Faultless' = Faultless, added' = added,
           NEW b \in Alerts, NEW r \in Requests, NEW step,
           Moved(r, step), AlertOf(r) = b, request[r].at # "enqueue",
           row[b] = "absent",
           NEW kept \in {"accepted", "killed"},
           (kept = "accepted") <=> (step = "enqueue"),
           row' = [row EXCEPT ![b] = kept]
    PROVE  [Ledger!Next]_(Ledger!vars)
<1> DEFINE entry == IF kept = "accepted" THEN "stored" ELSE "killed"
<1>1. row'[b] = kept /\ \A a \in Alerts : a # b => row'[a] = row[a]
  BY DEF IInv, TypeOK
<1>2. added[b] = 0
  BY DEF IInv, AddedOwnsRow
<1>3. Entry(b) = "unknown"
  BY <1>2, EntryCases
<1>4. Held(b)' <=> step = "enqueue"
  <2>1. ~Held(b)
    BY DEF IInv, HolderOwnsRow, Held
  <2> QED
    BY <2>1 DEF Held, Holds, Moved, AlertOf
<1>5. Entry(b)' = entry
  BY <1>1, <1>2, <1>4, EntryCasesNext
<1>6. ASSUME NEW a \in Alerts, a # b
      PROVE  Entry(a)' = Entry(a)
  <2>1. Held(a)' <=> Held(a)
    BY <1>6 DEF Held, Holds, Moved, AlertOf
  <2> QED
    BY <1>1, <1>6, <2>1 DEF Entry, Held, Holds, AlertOf
<1>7. [a \in Alerts |-> Entry(a)]' = [[a \in Alerts |-> Entry(a)] EXCEPT ![b] = entry]
  BY <1>5, <1>6, EntryChanged
<1>8. Ledger!Record(b, entry)
  BY <1>3, <1>7 DEF Ledger!Record
<1> QED
  BY <1>8 DEF Ledger!Next

LEMMA LedgerQueues ==
    ASSUME IInv, IInv', Faultless' = Faultless \/ Faultless' = FALSE, row' = row,
           NEW r \in Requests, Moved(r, "answered"), request[r].at = "enqueue",
           added' = [added EXCEPT ![AlertOf(r)] = @ + 1]
    PROVE  [Ledger!Next]_(Ledger!vars)
<1>1. PICK b \in Alerts : AlertOf(r) = b /\ Holds(r, b)
  BY DEF IInv, CarriesAlert, Holds, AlertOf
<1>2. row[b] = "accepted" /\ added[b] = 0
  BY <1>1 DEF IInv, HolderOwnsRow
<1>3. /\ added'[b] = 1
      /\ \A a \in Alerts : a # b => added'[a] = added[a]
  BY <1>1, <1>2 DEF IInv, TypeOK
<1>4. Entry(b) = "stored"
  BY <1>1, <1>2, EntryCases DEF Held
<1>5. Entry(b)' = "queued"
  BY <1>1, <1>3, EntryCasesNext
<1>6. ASSUME NEW a \in Alerts, a # b
      PROVE  Entry(a)' = Entry(a)
  <2>1. Held(a)' <=> Held(a)
    BY <1>1, <1>6 DEF Held, Holds, Moved, AlertOf
  <2> QED
    BY <1>3, <1>6, <2>1 DEF Entry, Held, Holds, AlertOf
<1>7. [a \in Alerts |-> Entry(a)]' =
         [[a \in Alerts |-> Entry(a)] EXCEPT ![b] = "queued"]
  BY <1>1, <1>5, <1>6, EntryChanged
<1>8. Ledger!Queue(b)
  <2>1. (~Faultless)' \in {~Faultless, TRUE}
    BY DEF Faultless
  <2> QED
    BY <1>1, <1>4, <1>7, <2>1 DEF Ledger!Queue
<1> QED
  BY <1>1, <1>8 DEF Ledger!Next

LEMMA FailureShows ==
    ASSUME IInv, WithinBudget, NEW what \in {"toggles", "faults", "crashes"},
           Spend(what)
    PROVE  IF what = "toggles" THEN Faultless' = Faultless
                               ELSE Faultless' = FALSE
<1>1. budget \in [toggles: Nat, faults: Nat, crashes: Nat]
  BY TypeParts DEF IInv
<1>2. MaxFaults \in Nat /\ MaxCrashes \in Nat
  BY AlertIntakeAssumption
<1>3. CASE what = "toggles"
  BY <1>1, <1>3 DEF Spend, Faultless, NoRestart
<1>4. CASE what = "faults"
  <2>1. budget'.faults < MaxFaults
    BY <1>1, <1>2, <1>4 DEF Spend, WithinBudget
  <2> QED
    BY <1>2, <1>4, <2>1 DEF Faultless
<1>5. CASE what = "crashes"
  <2>1. budget'.crashes < MaxCrashes
    BY <1>1, <1>2, <1>5 DEF Spend, WithinBudget
  <2> QED
    BY <1>2, <1>5, <2>1 DEF Faultless, NoRestart
<1> QED
  BY <1>3, <1>4, <1>5

LEMMA HandleLedgerStep ==
    ASSUME IInv, IInv', NEW r \in Requests, Handle(r)
    PROVE  [Ledger!Next]_(Ledger!vars)
<1>1. request \in ReqType
  BY TypeParts DEF IInv
<1>2. /\ {"saveKilled", "cooldown", "insert", "enqueue"} \subseteq Steps
      /\ {"killed", "cooldown", "duplicate", "accepted"} \subseteq Answers
  BY DEF Steps, Answers
<1>3. Faultless' = Faultless
  BY DEF Handle, CheckKillSwitch, PersistAlertWithKillSwitch, CheckCooldown,
         InsertAlertAtomic, Enqueue, Faultless, NoRestart
<1>4. ASSUME NEW step \in {"saveKilled", "cooldown", "insert", "answered"},
             Moved(r, step), request[r].at # "enqueue",
             row' = row, added' = added
      PROVE  [Ledger!Next]_(Ledger!vars)
  <2>1. \A a \in Alerts : Held(a)' <=> Held(a)
    BY <1>4 DEF Held, Holds, Moved
  <2> QED
    BY <1>3, <1>4, <2>1, LedgerStutters
<1>5. request[r].at # "new" /\ request[r].at # "answered"
  BY DEF Handle, CheckKillSwitch, PersistAlertWithKillSwitch, CheckCooldown,
         InsertAlertAtomic, Enqueue
<1>6. PICK b \in Alerts : AlertOf(r) = b
  BY <1>5 DEF IInv, CarriesAlert, AlertOf
<1>7. CASE CheckKillSwitch(r)
  <2>1. PICK step \in {"saveKilled", "cooldown"} : GoTo(r, step)
    BY <1>7 DEF CheckKillSwitch
  <2>2. Moved(r, step)
    BY <1>1, <1>2, <2>1, GoToMoves
  <2> QED
    BY <1>4, <1>7, <2>2 DEF CheckKillSwitch
<1>8. CASE PersistAlertWithKillSwitch(r)
  <2>1. Moved(r, "answered")
    BY <1>1, <1>2, <1>8, AnswerMoves DEF PersistAlertWithKillSwitch
  <2>2. request[r].at # "enqueue" /\ added' = added
    BY <1>8 DEF PersistAlertWithKillSwitch
  <2>3. CASE row[b] = "absent"
    <3>1. row' = [row EXCEPT ![b] = "killed"]
      BY <1>6, <1>8, <2>3 DEF PersistAlertWithKillSwitch
    <3> DEFINE kept == "killed"
               step == "answered"
    <3>2. /\ kept \in {"accepted", "killed"} /\ step \in {"enqueue", "answered"}
          /\ (kept = "accepted") <=> (step = "enqueue")
      OBVIOUS
    <3>3. Moved(r, step) /\ row' = [row EXCEPT ![b] = kept]
      BY <2>1, <3>1
    <3> HIDE DEF kept, step
    <3> QED
      BY <1>3, <1>6, <2>2, <2>3, <3>2, <3>3, LedgerRecords
  <2>4. CASE row[b] # "absent"
    <3>1. row' = row
      BY <1>6, <1>8, <2>4 DEF PersistAlertWithKillSwitch, IInv, TypeOK
    <3> QED
      BY <1>4, <2>1, <2>2, <3>1
  <2> QED
    BY <2>3, <2>4
<1>9. CASE CheckCooldown(r)
  <2>1. PICK step \in {"answered", "insert"} : Moved(r, step)
    BY <1>1, <1>2, <1>9, AnswerMoves, GoToMoves DEF CheckCooldown
  <2> QED
    BY <1>4, <1>9, <2>1 DEF CheckCooldown
<1>10. CASE InsertAlertAtomic(r)
  <2>1. request[r].at # "enqueue" /\ added' = added
    BY <1>10 DEF InsertAlertAtomic
  <2>2. CASE row[b] = "absent"
    <3>1. Moved(r, "enqueue") /\ row' = [row EXCEPT ![b] = "accepted"]
      BY <1>1, <1>2, <1>6, <1>10, <2>2, GoToMoves DEF InsertAlertAtomic
    <3> QED
      BY <1>3, <1>6, <2>1, <2>2, <3>1, LedgerRecords
  <2>3. CASE row[b] # "absent"
    <3>1. Moved(r, "answered") /\ row' = row
      BY <1>1, <1>2, <1>6, <1>10, <2>3, AnswerMoves DEF InsertAlertAtomic
    <3> QED
      BY <1>4, <2>1, <3>1
  <2> QED
    BY <2>2, <2>3
<1>11. CASE Enqueue(r)
  <2>1. Moved(r, "answered")
    BY <1>1, <1>2, <1>11, AnswerMoves DEF Enqueue
  <2> QED
    BY <1>3, <1>11, <2>1, LedgerQueues DEF Enqueue
<1> QED
  BY <1>7, <1>8, <1>9, <1>10, <1>11 DEF Handle

LEMMA FaultLedgerStep ==
    ASSUME IInv, IInv', WithinBudget, NEW r \in Requests,
           Fault(r) \/ EnqueueUnconfirmed(r)
    PROVE  [Ledger!Next]_(Ledger!vars)
<1>1. request \in ReqType
  BY TypeParts DEF IInv
<1>2. {"error", "killed"} \subseteq Answers /\ "insert" \in Steps
  BY DEF Answers, Steps
<1>3. Faultless' = FALSE
  BY FailureShows DEF Fault, EnqueueUnconfirmed
<1>4. CASE Fault(r)
  <2>1. PICK step \in {"answered", "insert"} : Moved(r, step)
    BY <1>1, <1>2, <1>4, AnswerMoves, GoToMoves DEF Fault
  <2>2. \A a \in Alerts : Held(a)' => Held(a)
    BY <2>1 DEF Held, Holds, Moved
  <2> QED
    BY <1>3, <1>4, <2>2, LedgerLoses DEF Fault
<1>5. CASE EnqueueUnconfirmed(r)
  <2>1. Moved(r, "answered")
    BY <1>1, <1>2, <1>5, AnswerMoves DEF EnqueueUnconfirmed
  <2> QED
    BY <1>3, <1>5, <2>1, LedgerQueues DEF EnqueueUnconfirmed
<1> QED
  BY <1>4, <1>5

LEMMA OtherLedgerStep ==
    ASSUME IInv, IInv', WithinBudget,
           \/ \E r \in Requests : Receive(r) \/ Refuse(r)
           \/ \E s \in Signals : CooldownExpires(s)
           \/ SaveSwitch \/ ApplySwitch \/ Crash \/ UNCHANGED vars
    PROVE  [Ledger!Next]_(Ledger!vars)
<1>1. row' = row /\ added' = added
  BY DEF Receive, Refuse, CooldownExpires, SaveSwitch, ApplySwitch, Crash, vars
<1>2. CASE Crash
  <2>1. Faultless' = FALSE
    BY <1>2, FailureShows DEF Crash
  <2>2. \A r \in Requests : request'[r].at # "enqueue"
    BY <1>2, TypeParts DEF Crash, Answer, IInv, ReqType, RequestType
  <2>3. \A a \in Alerts : Held(a)' => Held(a)
    BY <2>2 DEF Held, Holds
  <2> QED
    BY <1>1, <2>1, <2>3, LedgerLoses
<1>3. ASSUME NEW r \in Requests, Receive(r) \/ Refuse(r)
      PROVE  [Ledger!Next]_(Ledger!vars)
  <2>1. /\ request[r].at = "new" /\ request'[r].at # "enqueue"
        /\ \A s \in Requests : s # r => request'[s] = request[s]
        /\ Faultless' = Faultless
    BY <1>3, TypeParts
       DEF Receive, Refuse, Answer, IInv, ReqType, RequestType, Faultless, NoRestart
  <2>2. \A a \in Alerts : Held(a)' <=> Held(a)
    BY <2>1 DEF Held, Holds
  <2> QED
    BY <1>1, <2>1, <2>2, LedgerStutters
<1>4. ASSUME \/ \E s \in Signals : CooldownExpires(s)
             \/ SaveSwitch \/ ApplySwitch \/ UNCHANGED vars
      PROVE  [Ledger!Next]_(Ledger!vars)
  <2>1. request' = request
    BY <1>4 DEF CooldownExpires, SaveSwitch, ApplySwitch, vars
  <2>2. Faultless' = Faultless
    <3>1. CASE SaveSwitch
      BY <3>1, FailureShows DEF SaveSwitch
    <3>2. CASE budget' = budget
      BY <3>2 DEF Faultless, NoRestart
    <3> QED
      BY <1>4, <3>1, <3>2 DEF CooldownExpires, ApplySwitch, vars
  <2> QED
    BY <1>1, <2>1, <2>2, LedgerStutters DEF Held, Holds
<1> QED
  BY <1>2, <1>3, <1>4

LEMMA LedgerInit == Init => Ledger!Init
<1> SUFFICES ASSUME Init PROVE Ledger!Init
  OBVIOUS
<1>1. \A a \in Alerts : Entry(a) = "unknown"
  BY DEF Init, Entry
<1> QED
  BY <1>1 DEF Init, Ledger!Init, Faultless, NoRestart

(* The webhook implements AlertLedger: for any number of deliveries and     *)
(* failures, each of its steps is a step of the ledger or leaves it alone   *)
(* (ImplementsLedger).                                                      *)
THEOREM IntakeImplementsLedger == Spec => ImplementsLedger
<1>1. IInv /\ WithinBudget /\ [Next]_vars => WithinBudget'
  BY BudgetStep
<1>2. IInv /\ IInv' /\ WithinBudget /\ [Next]_vars => [Ledger!Next]_(Ledger!vars)
  BY HandleLedgerStep, FaultLedgerStep, OtherLedgerStep DEF Next
<1> QED
  BY <1>1, <1>2, InvInductive, BudgetInit, LedgerInit, PTL
     DEF Spec, ImplementsLedger, Ledger!Spec

-----------------------------------------------------------------------------
(***************************************************************************)
(* The switch in memory is a copy.  SwitchStopsIntake says what a delivery  *)
(* does that reads it; the invariant says why that is enough: between two   *)
(* toggles, and until a restart reads the environment again, the copy       *)
(* agrees with the database.                                                *)
(***************************************************************************)
SwitchAgrees == NoRestart /\ ~toggling => switchMemory = switchDb

LEMMA SwitchInit == Init => SwitchAgrees
BY DEF Init, SwitchAgrees

LEMMA SwitchStep ==
    ASSUME IInv, WithinBudget, SwitchAgrees, [Next]_vars
    PROVE  SwitchAgrees'
<1> /\ toggling \in BOOLEAN /\ switchDb \in BOOLEAN /\ switchMemory \in BOOLEAN
    /\ budget \in [toggles: Nat, faults: Nat, crashes: Nat]
  BY TypeParts DEF IInv
<1>1. CASE UNCHANGED <<switchDb, switchMemory, toggling, budget>>
  BY <1>1 DEF SwitchAgrees, NoRestart
<1>2. CASE /\ UNCHANGED <<switchDb, switchMemory, toggling>>
           /\ Spend("faults")
  BY <1>2 DEF SwitchAgrees, NoRestart, Spend
<1>3. CASE SaveSwitch
  BY <1>3 DEF SaveSwitch, SwitchAgrees
<1>4. CASE ApplySwitch
  BY <1>4 DEF ApplySwitch, SwitchAgrees
<1>5. CASE Crash
  <2>1. Spend("crashes")
    BY <1>5 DEF Crash
  <2>2. budget'.crashes < MaxCrashes
    BY <2>1, AlertIntakeAssumption DEF Spend, WithinBudget
  <2> QED
    BY <2>2, AlertIntakeAssumption DEF SwitchAgrees, NoRestart
<1>6. \/ UNCHANGED <<switchDb, switchMemory, toggling, budget>>
      \/ UNCHANGED <<switchDb, switchMemory, toggling>> /\ Spend("faults")
      \/ SaveSwitch \/ ApplySwitch \/ Crash
  BY DEF Next, Handle, Receive, Refuse, CheckKillSwitch,
         PersistAlertWithKillSwitch, CheckCooldown, InsertAlertAtomic, Enqueue,
         Fault, EnqueueUnconfirmed, CooldownExpires, vars
<1> QED
  BY <1>1, <1>2, <1>3, <1>4, <1>5, <1>6

(* A delivery that comes to the switch while the database says on, no       *)
(* toggle is half-way and the server has not restarted, does not pass it    *)
(* (SwitchStopsIntake).                                                     *)
THEOREM SwitchStopsIntakeHolds == Spec => SwitchStopsIntake
<1> DEFINE Stops(r) == NoRestart /\ CheckKillSwitch(r) /\ switchDb /\ ~toggling
                          => request'[r].at = "saveKilled"
<1>1. IInv /\ WithinBudget /\ [Next]_vars => WithinBudget'
  BY BudgetStep
<1>2. IInv /\ WithinBudget /\ SwitchAgrees /\ [Next]_vars => SwitchAgrees'
  BY SwitchStep
<1>3. IInv /\ SwitchAgrees => \A r \in Requests : Stops(r)
  <2> SUFFICES ASSUME IInv, SwitchAgrees, NEW r \in Requests, NoRestart,
                      CheckKillSwitch(r), switchDb, ~toggling
               PROVE  request'[r].at = "saveKilled"
    OBVIOUS
  <2>1. switchMemory
    BY DEF SwitchAgrees
  <2>2. GoTo(r, "saveKilled")
    BY <2>1 DEF CheckKillSwitch
  <2>3. request \in ReqType /\ "saveKilled" \in Steps
    BY TypeParts DEF IInv, Steps
  <2> QED
    BY <2>2, <2>3, GoToMoves DEF Moved
<1> QED
  BY <1>1, <1>2, <1>3, InvInductive, BudgetInit, SwitchInit, PTL
     DEF Spec, SwitchStopsIntake
=============================================================================
