-------------------------- MODULE TradeRules_proofs --------------------------
(***************************************************************************)
(* Orders keep within the limits for any rules, mappings, signals and        *)
(* number of workers.                                                       *)
(*                                                                         *)
(* OrdersWithinLimits is not inductive: an order is written long after its  *)
(* signal was checked.  The invariant adds that a run has evaluated the     *)
(* rules it no longer has to (Vetted), that its signal is there and stays   *)
(* what it was (CarriesSignal), and that an order belongs to a signal.      *)
(*                                                                         *)
(* The limits over several trades follow from what has not been disturbed   *)
(* (Calm): one run at a time, every pending order is its own, what it has   *)
(* still to write is unwritten, and what a rule counted when the run passed *)
(* it still stands when its order is filled.                                *)
(***************************************************************************)
EXTENDS TradeHistory, FiniteSetTheorems, TLAPS

(* The rules of R that look at nothing but the signal pass. *)
Admitted(sig, R) ==
    /\ "symbol_whitelist" \in R => CheckSymbolWhitelist(sig)
    /\ "max_contracts" \in R => CheckMaxContracts(sig)

(* The run is past the check at strategy level, with success. *)
Passed(w) ==
    \/ run[w].at \in {"account", "copy"}
    \/ run[w].account # None
    \/ run[w].at = "create" /\ run[w].ok

CarriesSignal ==
    \A w \in Workers : run[w].at # "idle" => /\ run[w].alert \in Alerts
                                             /\ alert[run[w].alert] # None

Vetted ==
    \A w \in Workers :
        /\ run[w].at = "rule" => Admitted(SignalOf(w), rules \ run[w].rules)
        /\ Passed(w) => /\ run[w].at # "idle"
                        /\ Admitted(SignalOf(w), rules)

OrderHasSignal ==
    \A a \in Alerts, c \in Accounts : order[a][c] # NoOrder => alert[a] # None

(* What was executed without being stored yet is an order's. *)
UnrecordedOrdered ==
    \A a \in Alerts, c \in Accounts :
        <<a, c>> \in unrecorded => order[a][c] # NoOrder

IInv == /\ TypeOK /\ CarriesSignal /\ Vetted /\ OrderHasSignal
        /\ OrdersWithinLimits /\ UnrecordedOrdered

-----------------------------------------------------------------------------
(* A floor of a product with a multiplier of at most one. *)
LEMMA FloorBound ==
    ASSUME NEW n \in Nat, NEW m \in Nat, m <= 10000
    PROVE  (n * m) \div 10000 \in Int /\ (n * m) \div 10000 <= n
<1>1. n * m \in Nat /\ n * m <= n * 10000
  OBVIOUS
<1>2. PICK p \in Nat : p = n * m
  BY <1>1
<1>3. p \div 10000 \in Int /\ p \div 10000 <= n
  BY <1>1, <1>2
<1> QED
  BY <1>2, <1>3

LEMMA FloorType ==
    ASSUME NEW n \in Nat, NEW m \in Nat
    PROVE  (n * m) \div 10000 \in Int
<1>1. PICK p \in Nat : p = n * m
  OBVIOUS
<1> QED
  BY <1>1

(* What the copier's size is worth: never more than the account's limit,    *)
(* nor than the signal asks for unless the mapping raises it.               *)
LEMMA SizeBound ==
    ASSUME NEW sig \in SignalType, NEW m \in MappingType, AccountLimit \in Int
    PROVE  /\ CalculateSize(sig, m) \in Int
           /\ CalculateSize(sig, m) <= AccountLimit
           /\ m.fixed = 0 /\ m.multiplier <= Scale
                => CalculateSize(sig, m) <= sig.contracts
<1>1. sig.contracts \in Nat /\ m.multiplier \in Nat /\ m.fixed \in Nat
  BY DEF SignalType, MappingType
<1>2. PICK q \in Int : q = (sig.contracts * m.multiplier) \div 10000
  BY <1>1, FloorType
<1>3. m.multiplier <= Scale => q <= sig.contracts
  BY <1>1, <1>2, FloorBound DEF Scale
<1>4. CalculateSize(sig, m) = IF m.fixed # 0 THEN Lesser(m.fixed, AccountLimit)
                                             ELSE Lesser(q, AccountLimit)
  BY <1>2 DEF CalculateSize, Scale
<1> QED
  BY <1>1, <1>3, <1>4 DEF Lesser

-----------------------------------------------------------------------------
(* Type correctness. *)

LEMMA VerdictType ==
    ASSUME TypeOK, NEW w \in Workers, NEW ok \in BOOLEAN, Verdict(w, ok)
    PROVE  /\ run' \in [Workers -> RunType]
           /\ \A v \in Workers : v # w => run'[v] = run[v]
           /\ run'[w].at = IF run[w].account = None THEN "create" ELSE "account"
           /\ run'[w].ok = ok
           /\ run'[w].alert = run[w].alert
           /\ run'[w].account = run[w].account
<1>1. run \in [Workers -> RunType] /\ run[w] \in RunType
  BY DEF TypeOK
<1>2. PICK safe \in SUBSET Accounts :
         safe = IF ok /\ run[w].account # None
                  THEN run[w].safe \cup {run[w].account} ELSE run[w].safe
  BY <1>1 DEF RunType
<1>3. PICK step \in Steps :
         step = IF run[w].account = None THEN "create" ELSE "account"
  BY DEF Steps
<1>4. run' = [run EXCEPT ![w].at = step, ![w].ok = ok, ![w].safe = safe]
  BY <1>2, <1>3 DEF Verdict
<1>5. [run[w] EXCEPT !.at = step, !.ok = ok, !.safe = safe] \in RunType
  BY <1>1 DEF RunType
<1>6. run' = [run EXCEPT ![w] =
                [run[w] EXCEPT !.at = step, !.ok = ok, !.safe = safe]]
  BY <1>1, <1>4
<1>7. /\ run' \in [Workers -> RunType]
      /\ \A v \in Workers : v # w => run'[v] = run[v]
      /\ run'[w] = [run[w] EXCEPT !.at = step, !.ok = ok, !.safe = safe]
  BY <1>1, <1>5, <1>6
<1>8. /\ run'[w].at = step /\ run'[w].ok = ok
      /\ run'[w].alert = run[w].alert /\ run'[w].account = run[w].account
  BY <1>1, <1>7 DEF RunType
<1> QED
  BY <1>3, <1>7, <1>8

LEMMA InitType == Init => TypeOK
<1> SUFFICES ASSUME Init PROVE TypeOK
  OBVIOUS
<1> USE TradeRulesAssumption DEF TradeRulesAssumption
<1>1. run \in [Workers -> RunType]
  BY DEF Init, Idle, RunType, Steps
<1>2. recent \in Seq(Alerts)
  BY DEF Init
<1>3. order \in [Alerts -> [Accounts -> OrderType \cup {NoOrder}]]
  BY DEF Init
<1>4. /\ {moves, faults} \subseteq Nat /\ cash \in [Accounts -> Int]
      /\ unrecorded \in SUBSET (Alerts \X Accounts)
  BY DEF Init
<1> QED
  BY <1>1, <1>2, <1>3, <1>4 DEF Init, TypeOK

(* The order written by copyToAccount. *)
LEMMA CopyOrder ==
    ASSUME TypeOK, CarriesSignal, NEW w \in Workers, NEW c \in Accounts,
           CopyToAccount(w, c)
    PROVE  /\ run[w].alert \in Alerts
           /\ SignalOf(w) \in SignalType
           /\ mapping[c] \in MappingType
           /\ order' \in [Alerts -> [Accounts -> OrderType \cup {NoOrder}]]
           /\ \/ order' = order
              \/ /\ ApplyFilters(SignalOf(w), mapping[c])
                 /\ order'[run[w].alert][c] \in OrderType
                 /\ order'[run[w].alert][c].symbol = SignalOf(w).symbol
                 /\ order'[run[w].alert][c].side
                       = GetOrderSide(SignalOf(w).action)
                 /\ order'[run[w].alert][c].quantity
                       = CalculateSize(SignalOf(w), mapping[c])
                 /\ \A b \in Alerts, d \in Accounts :
                       b # run[w].alert \/ d # c => order'[b][d] = order[b][d]
<1> DEFINE a == run[w].alert
<1>1. a \in Alerts /\ alert[a] # None
  BY DEF CarriesSignal, CopyToAccount
<1>2. SignalOf(w) \in SignalType
  BY <1>1, TradeRulesAssumption DEF TypeOK, SignalOf, TradeRulesAssumption
<1>3. mapping[c] \in MappingType
  BY TradeRulesAssumption DEF TypeOK, TradeRulesAssumption
<1>4. order \in [Alerts -> [Accounts -> OrderType \cup {NoOrder}]]
  BY DEF TypeOK
<1>5. PICK size : size = CalculateSize(SignalOf(w), mapping[c])
  OBVIOUS
<1>6. PICK o : o = [symbol   |-> SignalOf(w).symbol,
                    side     |-> GetOrderSide(SignalOf(w).action),
                    quantity |-> size,
                    status   |-> "pending"]
  OBVIOUS
<1>7. \/ order' = order
      \/ /\ ApplyFilters(SignalOf(w), mapping[c])
         /\ size > 0
         /\ order' = [order EXCEPT ![a][c] = o]
  BY <1>5, <1>6 DEF CopyToAccount
<1>8. CASE order' = order
  BY <1>1, <1>2, <1>3, <1>4, <1>8
<1>9. CASE /\ ApplyFilters(SignalOf(w), mapping[c])
           /\ size > 0
           /\ order' = [order EXCEPT ![a][c] = o]
  <2>1. size \in Nat \ {0}
    BY <1>2, <1>3, <1>5, <1>9, SizeBound, TradeRulesAssumption
       DEF TradeRulesAssumption
  <2>2. SignalOf(w).symbol \in Symbols
    BY <1>2 DEF SignalType
  <2>3. GetOrderSide(SignalOf(w).action) \in {"buy", "sell"}
    BY DEF GetOrderSide
  <2>4. o \in OrderType
    BY <1>6, <2>1, <2>2, <2>3 DEF OrderType, OrderStatuses
  <2>5. /\ order' \in [Alerts -> [Accounts -> OrderType \cup {NoOrder}]]
        /\ order'[a][c] = o
        /\ \A b \in Alerts, d \in Accounts :
              b # a \/ d # c => order'[b][d] = order[b][d]
    BY <1>1, <1>4, <1>9, <2>4
  <2>6. /\ o.symbol = SignalOf(w).symbol
        /\ o.side = GetOrderSide(SignalOf(w).action)
        /\ o.quantity = CalculateSize(SignalOf(w), mapping[c])
    BY <1>5, <1>6
  <2> QED
    BY <1>1, <1>2, <1>3, <1>9, <2>4, <2>5, <2>6
<1> QED
  BY <1>7, <1>8, <1>9

(* An order whose status is set, and nothing else of it. *)
Restating(a, c, status) ==
    /\ order[a][c] # NoOrder
    /\ order' = [order EXCEPT ![a][c].status = status]

OnlyStatus(a, c, status) ==
    /\ order[a][c] \in OrderType
    /\ order'[a][c] = [order[a][c] EXCEPT !.status = status]
    /\ order'[a][c].status = status
    /\ order'[a][c].symbol = order[a][c].symbol
    /\ order'[a][c].side = order[a][c].side
    /\ order'[a][c].quantity = order[a][c].quantity
    /\ order'[a][c] # NoOrder
    /\ \A b \in Alerts, d \in Accounts :
          b # a \/ d # c => order'[b][d] = order[b][d]

LEMMA Restated ==
    ASSUME TypeOK, NEW a \in Alerts, NEW c \in Accounts, NEW status,
           Restating(a, c, status)
    PROVE  /\ OnlyStatus(a, c, status)
           /\ status \in OrderStatuses
                => order' \in [Alerts -> [Accounts -> OrderType \cup {NoOrder}]]
<1>1. /\ order \in [Alerts -> [Accounts -> OrderType \cup {NoOrder}]]
      /\ order[a][c] \in OrderType
  BY DEF TypeOK, Restating
<1>2. order' = [order EXCEPT ![a] = [order[a] EXCEPT
                  ![c] = [order[a][c] EXCEPT !.status = status]]]
  BY <1>1 DEF Restating
<1>3. /\ order'[a][c] = [order[a][c] EXCEPT !.status = status]
      /\ \A b \in Alerts, d \in Accounts :
            b # a \/ d # c => order'[b][d] = order[b][d]
  BY <1>1, <1>2
<1>4. /\ order'[a][c].status = status
      /\ order'[a][c].symbol = order[a][c].symbol
      /\ order'[a][c].side = order[a][c].side
      /\ order'[a][c].quantity = order[a][c].quantity
  BY <1>1, <1>3 DEF OrderType
<1>5. status \in OrderStatuses
        => order' \in [Alerts -> [Accounts -> OrderType \cup {NoOrder}]]
  <2> SUFFICES ASSUME status \in OrderStatuses
               PROVE  order' \in [Alerts -> [Accounts -> OrderType \cup {NoOrder}]]
    OBVIOUS
  <2>1. [order[a][c] EXCEPT !.status = status] \in OrderType
    BY <1>1 DEF OrderType
  <2> QED
    BY <1>1, <1>2, <2>1
<1>6. order'[a][c] # NoOrder
  <2>1. order'[a][c] = [symbol   |-> order[a][c].symbol,
                        side     |-> order[a][c].side,
                        quantity |-> order[a][c].quantity,
                        status   |-> status]
    BY <1>1, <1>3 DEF OrderType
  <2>2. "symbol" \in DOMAIN order'[a][c] /\ "symbol" \notin DOMAIN NoOrder
    BY <2>1 DEF NoOrder
  <2> QED
    BY <2>2
<1> QED
  BY <1>1, <1>3, <1>4, <1>5, <1>6 DEF OnlyStatus

(* The steps that set the status of an order. *)
Answers == {"filled", "partially_filled", "rejected"}

LEMMA Answered ==
    ASSUME NEW a \in Alerts, NEW c \in Accounts,
           Fill(a, c) \/ FillPartially(a, c) \/ Reject(a, c)
    PROVE  \E status \in Answers : UpdateOrder(a, c, status)
BY DEF Fill, FillPartially, Reject, Answers

LEMMA Restates ==
    ASSUME TypeOK, UnrecordedOrdered, NEW a \in Alerts, NEW c \in Accounts,
           NEW status,
           UpdateOrder(a, c, status) \/ LoseExecution(a, c, status)
    PROVE  /\ Restating(a, c, status)
           /\ UNCHANGED <<rules, mapping, killSwitch, clock, run, alert,
                          request, recent, cash, moves>>
<1>1. CASE UpdateOrder(a, c, status)
  BY <1>1 DEF UpdateOrder, NoOrder, Restating
<1>2. CASE LoseExecution(a, c, status)
  BY <1>2 DEF LoseExecution, UnrecordedOrdered, Restating
<1> QED
  BY <1>1, <1>2

LEMMA LostStatus ==
    ASSUME TypeOK, UnrecordedOrdered, NEW a \in Alerts, NEW c \in Accounts,
           NEW status \in {order[a][c].status, "pending", "rejected"},
           LoseExecution(a, c, status)
    PROVE  status \in OrderStatuses
<1>1. order[a][c] \in OrderType
  BY DEF LoseExecution, UnrecordedOrdered, TypeOK
<1> QED
  BY <1>1 DEF OrderType, OrderStatuses

LEMMA RestatesType ==
    ASSUME TypeOK, UnrecordedOrdered, NEW a \in Alerts, NEW c \in Accounts,
           NEW status \in OrderStatuses,
           UpdateOrder(a, c, status) \/ LoseExecution(a, c, status)
    PROVE  TypeOK'
<1>0. Restating(a, c, status)
  BY Restates
<1>1. order' \in [Alerts -> [Accounts -> OrderType \cup {NoOrder}]]
  BY <1>0, Restated
<1>2. unrecorded' \in SUBSET (Alerts \X Accounts) /\ {moves', faults'} \subseteq Nat
  BY DEF TypeOK, UpdateOrder, LoseExecution
<1> QED
  BY <1>1, <1>2, Restates DEF TypeOK

(* What an order brings in lies within its size. *)
LEMMA ProceedsBound ==
    ASSUME NEW o \in OrderType
    PROVE  /\ Proceeds(o) \in Int
           /\ -o.quantity <= Proceeds(o) /\ Proceeds(o) <= o.quantity
<1>1. PICK q \in Nat : q = o.quantity
  BY DEF OrderType
<1>2. q \div 2 \in Nat /\ q \div 2 <= q
  BY <1>1
<1> QED
  BY <1>1, <1>2 DEF Proceeds

LEMMA RecordType ==
    ASSUME TypeOK, UnrecordedOrdered, NEW a \in Alerts, NEW c \in Accounts,
           RecordExecution(a, c)
    PROVE  TypeOK'
<1>1. order[a][c] \in OrderType
  BY DEF RecordExecution, UnrecordedOrdered, TypeOK
<1>2. Proceeds(order[a][c]) \in Int
  BY <1>1, ProceedsBound
<1>3. cash' \in [Accounts -> Int]
  BY <1>2 DEF RecordExecution, TypeOK
<1>4. unrecorded' \in SUBSET (Alerts \X Accounts)
  BY DEF RecordExecution, TypeOK
<1> QED
  BY <1>3, <1>4 DEF RecordExecution, TypeOK

LEMMA StepType ==
    TypeOK /\ CarriesSignal /\ UnrecordedOrdered /\ [Next]_vars => TypeOK'
<1> SUFFICES ASSUME TypeOK, CarriesSignal, UnrecordedOrdered, [Next]_vars
             PROVE  TypeOK'
  OBVIOUS
<1>0. /\ run \in [Workers -> RunType]
      /\ \A w \in Workers : run[w] \in RunType
      /\ \A w \in Workers : run[w].at # "idle" => run[w].alert \in Alerts
  BY DEF TypeOK, CarriesSignal
<1>1. ASSUME NEW w \in Workers, NEW a \in Alerts, NEW sig \in Signals,
             Take(w, a, sig)
      PROVE  TypeOK'
  <2>1. [Idle EXCEPT !.at = "switches", !.alert = a] \in RunType
    BY DEF Idle, RunType, Steps
  <2>2. run' \in [Workers -> RunType]
    BY <1>0, <1>1, <2>1 DEF Take
  <2>3. alert' \in [Alerts -> Signals \cup {None}]
    BY <1>1 DEF Take, TypeOK
  <2> QED
    BY <1>1, <2>2, <2>3 DEF Take, TypeOK
<1>2. ASSUME NEW w \in Workers, LoadRules(w) PROVE TypeOK'
  <2>1. run' \in [Workers -> RunType]
    <3>1. CASE killSwitch
      BY <1>2, <3>1, VerdictType DEF LoadRules
    <3>2. CASE ~killSwitch
      <4>1. rules \in SUBSET RuleTypes
        BY TradeRulesAssumption DEF TypeOK, TradeRulesAssumption
      <4> QED
        BY <1>0, <1>2, <3>2, <4>1 DEF LoadRules, RunType, Steps
    <3> QED
      BY <3>1, <3>2
  <2> QED
    BY <1>2, <2>1 DEF LoadRules, TypeOK
<1>3. ASSUME NEW w \in Workers, ApplyRule(w) PROVE TypeOK'
  <2>1. run' \in [Workers -> RunType]
    <3>1. CASE Verdict(w, FALSE)
      BY <3>1, VerdictType
    <3>2. ASSUME NEW rule, run' = [run EXCEPT ![w].rules = @ \ {rule}]
          PROVE  run' \in [Workers -> RunType]
      BY <1>0, <3>2 DEF RunType
    <3> QED
      BY <1>3, <3>1, <3>2 DEF ApplyRule
  <2> QED
    BY <1>3, <2>1 DEF ApplyRule, TypeOK
<1>4. ASSUME NEW w \in Workers, AllRulesPass(w) PROVE TypeOK'
  <2>1. run' \in [Workers -> RunType]
    BY <1>4, VerdictType DEF AllRulesPass
  <2> QED
    BY <1>4, <2>1 DEF AllRulesPass, TypeOK
<1>5. ASSUME NEW w \in Workers, CreateTradeRequest(w) PROVE TypeOK'
  <2>1. run[w].alert \in Alerts
    BY <1>0, <1>5 DEF CreateTradeRequest
  <2>2. /\ Idle \in RunType
        /\ [Idle EXCEPT !.at = "account", !.alert = run[w].alert,
                        !.left = Accounts] \in RunType
    BY <2>1 DEF Idle, RunType, Steps
  <2>3. run' \in [Workers -> RunType]
    BY <1>0, <1>5, <2>2 DEF CreateTradeRequest
  <2>4. recent' \in Seq(Alerts)
    BY <1>5, <2>1 DEF CreateTradeRequest, TypeOK
  <2>5. request' \in [Alerts -> {"none", "risk_rejected", "copying",
                                 "completed", "failed"}]
    BY <1>5, <2>1 DEF CreateTradeRequest, TypeOK
  <2> QED
    BY <1>5, <2>3, <2>4, <2>5 DEF CreateTradeRequest, TypeOK
<1>6. ASSUME NEW w \in Workers, AccountsChecked(w) PROVE TypeOK'
  <2>1. run[w].alert \in Alerts
    BY <1>0, <1>6 DEF AccountsChecked
  <2>2. run' \in [Workers -> RunType]
    <3>1. Idle \in RunType
      BY DEF Idle, RunType, Steps
    <3>2. [run[w] EXCEPT !.at = "copy", !.left = Accounts] \in RunType
      BY <1>0 DEF RunType, Steps
    <3>3. \/ run' = [run EXCEPT ![w] = Idle]
          \/ run' = [run EXCEPT ![w] =
                       [run[w] EXCEPT !.at = "copy", !.left = Accounts]]
      BY <1>0, <1>6 DEF AccountsChecked
    <3> QED
      BY <1>0, <3>1, <3>2, <3>3
  <2>3. request' \in [Alerts -> {"none", "risk_rejected", "copying",
                                 "completed", "failed"}]
    BY <1>6, <2>1 DEF AccountsChecked, TypeOK
  <2> QED
    BY <1>6, <2>2, <2>3 DEF AccountsChecked, TypeOK
<1>7. ASSUME NEW w \in Workers, CopyDone(w) PROVE TypeOK'
  <2>1. run[w].alert \in Alerts
    BY <1>0, <1>7 DEF CopyDone
  <2>2. run' \in [Workers -> RunType]
    BY <1>0, <1>7 DEF CopyDone, Idle, RunType, Steps
  <2>3. request' \in [Alerts -> {"none", "risk_rejected", "copying",
                                 "completed", "failed"}]
    BY <1>7, <2>1 DEF CopyDone, TypeOK
  <2> QED
    BY <1>7, <2>2, <2>3 DEF CopyDone, TypeOK
<1>8. ASSUME NEW w \in Workers, NEW c \in Accounts, CheckAccount(w, c)
      PROVE  TypeOK'
  <2>1. run' \in [Workers -> RunType]
    BY <1>0, <1>8 DEF CheckAccount, RunType, Steps
  <2> QED
    BY <1>8, <2>1 DEF CheckAccount, TypeOK
<1>9. ASSUME NEW w \in Workers, NEW c \in Accounts, CopyToAccount(w, c)
      PROVE  TypeOK'
  <2>1. run' \in [Workers -> RunType]
    BY <1>0, <1>9 DEF CopyToAccount, RunType
  <2>2. order' \in [Alerts -> [Accounts -> OrderType \cup {NoOrder}]]
    BY <1>9, CopyOrder
  <2> QED
    BY <1>9, <2>1, <2>2 DEF CopyToAccount, TypeOK
<1>10. ASSUME NEW a \in Alerts, NEW c \in Accounts,
              Fill(a, c) \/ FillPartially(a, c) \/ Reject(a, c)
       PROVE  TypeOK'
  BY <1>10, Answered, RestatesType DEF Answers, OrderStatuses
<1>15. ASSUME NEW a \in Alerts, NEW c \in Accounts, RecordExecution(a, c)
       PROVE  TypeOK'
  BY <1>15, RecordType
<1>16. ASSUME NEW a \in Alerts, NEW c \in Accounts,
              NEW status \in {order[a][c].status, "pending", "rejected"},
              LoseExecution(a, c, status)
       PROVE  TypeOK'
  BY <1>16, LostStatus, RestatesType
<1>11. CASE Tick
  <2>1. (clock + 1) % Day \in 0..(Day - 1)
    <3>1. PICK d \in Nat \ {0} : d = Day
      BY TradeRulesAssumption DEF TradeRulesAssumption
    <3>2. PICK k \in Nat : k = clock + 1
      BY <3>1 DEF TypeOK
    <3>3. k % d \in 0..(d - 1)
      OBVIOUS
    <3> QED
      BY <3>1, <3>2, <3>3
  <2>2. cash' \in [Accounts -> Int]
    BY <1>11 DEF Tick, TypeOK
  <2>3. moves' \in Nat
    BY <1>11 DEF Tick, TypeOK
  <2> QED
    BY <1>11, <2>1, <2>2, <2>3 DEF Tick, TypeOK
<1>12. CASE CooldownEnds
  <2>1. recent' \in Seq(Alerts)
    BY <1>12 DEF CooldownEnds, TypeOK
  <2> QED
    BY <1>12, <2>1 DEF CooldownEnds, TypeOK
<1>13. CASE FlipKillSwitch
  <2>1. moves' \in Nat /\ killSwitch' \in BOOLEAN
    BY <1>13 DEF FlipKillSwitch, TypeOK
  <2> QED
    BY <1>13, <2>1 DEF FlipKillSwitch, TypeOK
<1>14. CASE UNCHANGED vars
  BY <1>14 DEF vars, TypeOK
<1> QED
  BY <1>1, <1>2, <1>3, <1>4, <1>5, <1>6, <1>7, <1>8, <1>9, <1>10, <1>11,
     <1>12, <1>13, <1>14, <1>15, <1>16 DEF Next

-----------------------------------------------------------------------------
(* Limits. *)

(* Only the run of w moved, and what it has evaluated still passes. *)
LEMMA VettedStep ==
    ASSUME IInv, NEW w \in Workers,
           UNCHANGED <<rules, alert>>,
           \A v \in Workers : v # w => run'[v] = run[v],
           run[w].at # "idle",
           run'[w].at # "idle" => run'[w].alert = run[w].alert,
           run'[w].at = "rule" => Admitted(SignalOf(w), rules \ run'[w].rules),
           Passed(w)' => run'[w].at # "idle" /\ Admitted(SignalOf(w), rules)
    PROVE  CarriesSignal' /\ Vetted'
<1>1. CarriesSignal'
  BY DEF IInv, CarriesSignal
<1>2. ASSUME NEW v \in Workers
      PROVE  /\ run'[v].at = "rule"
                   => Admitted(SignalOf(v)', rules' \ run'[v].rules)
             /\ Passed(v)' => /\ run'[v].at # "idle"
                              /\ Admitted(SignalOf(v)', rules')
  <2>1. CASE v = w
    BY <2>1 DEF SignalOf, Passed
  <2>2. CASE v # w
    <3>1. SignalOf(v)' = SignalOf(v) /\ (Passed(v)' <=> Passed(v))
      BY <2>2 DEF SignalOf, Passed
    <3> QED
      BY <2>2, <3>1 DEF IInv, Vetted
  <2> QED
    BY <2>1, <2>2
<1>3. Vetted'
  BY <1>2 DEF Vetted, Admitted, CheckSymbolWhitelist, CheckMaxContracts
<1> QED
  BY <1>1, <1>3

LEMMA RunStep ==
    ASSUME IInv, NEW w \in Workers,
           UNCHANGED <<rules, mapping, alert, order>>,
           \A v \in Workers : v # w => run'[v] = run[v],
           run[w].at # "idle",
           run'[w].at # "idle" => run'[w].alert = run[w].alert,
           run'[w].at = "rule" => Admitted(SignalOf(w), rules \ run'[w].rules),
           Passed(w)' => run'[w].at # "idle" /\ Admitted(SignalOf(w), rules)
    PROVE  CarriesSignal' /\ Vetted' /\ OrderHasSignal' /\ OrdersWithinLimits'
<1>1. CarriesSignal' /\ Vetted'
  BY VettedStep
<1>2. OrderHasSignal'
  BY DEF IInv, OrderHasSignal
<1>3. OrdersWithinLimits'
  BY DEF IInv, OrdersWithinLimits
<1> QED
  BY <1>1, <1>2, <1>3

LEMMA VerdictStep ==
    ASSUME IInv, NEW w \in Workers, NEW ok \in BOOLEAN, Verdict(w, ok),
           UNCHANGED <<rules, mapping, alert, order>>,
           run[w].at # "idle",
           ok /\ run[w].account = None => Admitted(SignalOf(w), rules)
    PROVE  CarriesSignal' /\ Vetted' /\ OrderHasSignal' /\ OrdersWithinLimits'
<1>1. /\ \A v \in Workers : v # w => run'[v] = run[v]
      /\ run'[w].at = IF run[w].account = None THEN "create" ELSE "account"
      /\ run'[w].ok = ok
      /\ run'[w].alert = run[w].alert
      /\ run'[w].account = run[w].account
  BY VerdictType DEF IInv
<1>2. run[w].account # None => Admitted(SignalOf(w), rules)
  BY DEF IInv, Vetted, Passed
<1>3. Passed(w)' => Admitted(SignalOf(w), rules)
  BY <1>1, <1>2 DEF Passed
<1>4. run'[w].at # "idle" /\ run'[w].at # "rule"
  BY <1>1
<1> QED
  BY <1>1, <1>3, <1>4, RunStep

(* Nothing the limits speak of changed. *)
LEMMA OutsideStep ==
    ASSUME IInv, UNCHANGED <<rules, mapping, alert, order, run>>
    PROVE  CarriesSignal' /\ Vetted' /\ OrderHasSignal' /\ OrdersWithinLimits'
<1>1. CarriesSignal'
  BY DEF IInv, CarriesSignal
<1>2. \A v \in Workers : SignalOf(v)' = SignalOf(v) /\ (Passed(v)' <=> Passed(v))
  BY DEF SignalOf, Passed
<1>3. Vetted'
  BY <1>2 DEF IInv, Vetted, Admitted, CheckSymbolWhitelist, CheckMaxContracts
<1>4. OrderHasSignal' /\ OrdersWithinLimits'
  BY DEF IInv, OrderHasSignal, OrdersWithinLimits
<1> QED
  BY <1>1, <1>3, <1>4

(* A run begins: the signal it brings is one no other run carries. *)
LEMMA TakeStep ==
    ASSUME IInv, NEW w \in Workers, NEW a \in Alerts, NEW sig \in Signals,
           Take(w, a, sig)
    PROVE  CarriesSignal' /\ Vetted' /\ OrderHasSignal' /\ OrdersWithinLimits'
<1>1. /\ sig # None /\ alert[a] = None /\ run[w].at = "idle"
      /\ alert' = [alert EXCEPT ![a] = sig]
      /\ alert \in [Alerts -> Signals \cup {None}]
      /\ UNCHANGED <<rules, mapping, order>>
  BY TradeRulesAssumption DEF TradeRulesAssumption, Take, IInv, TypeOK
<1>2. /\ run'[w].at = "switches" /\ run'[w].alert = a
      /\ run'[w].account = None
      /\ \A v \in Workers : v # w => run'[v] = run[v]
  BY DEF Take, Idle, IInv, TypeOK
<1>3. /\ alert'[a] = sig
      /\ \A b \in Alerts : b # a => alert'[b] = alert[b]
  BY <1>1
<1>4. \A v \in Workers : v # w /\ run[v].at # "idle" =>
         run[v].alert \in Alerts /\ run[v].alert # a /\ alert[run[v].alert] # None
  BY <1>1 DEF IInv, CarriesSignal
<1>5. CarriesSignal'
  BY <1>1, <1>2, <1>3, <1>4 DEF CarriesSignal
<1>6. ASSUME NEW v \in Workers
      PROVE  /\ run'[v].at = "rule"
                   => Admitted(SignalOf(v)', rules' \ run'[v].rules)
             /\ Passed(v)' => /\ run'[v].at # "idle"
                              /\ Admitted(SignalOf(v)', rules')
  <2>1. CASE v = w
    BY <1>2, <2>1 DEF Passed
  <2>2. CASE v # w
    <3>1. Passed(v)' <=> Passed(v)
      BY <1>2, <2>2 DEF Passed
    <3>2. run[v].at # "idle" => SignalOf(v)' = SignalOf(v)
      BY <1>2, <1>3, <1>4, <2>2 DEF SignalOf
    <3> QED
      BY <1>1, <1>2, <2>2, <3>1, <3>2 DEF IInv, Vetted
  <2> QED
    BY <2>1, <2>2
<1>7. Vetted'
  BY <1>6 DEF Vetted, Admitted, CheckSymbolWhitelist, CheckMaxContracts
<1>8. OrderHasSignal'
  BY <1>1, <1>3 DEF IInv, OrderHasSignal
<1>9. OrdersWithinLimits'
  <2> SUFFICES ASSUME NEW b \in Alerts, NEW c \in Accounts,
                      order[b][c] # NoOrder
               PROVE  /\ order[b][c] = order'[b][c]
                      /\ alert'[b] = alert[b]
    BY <1>1 DEF IInv, OrdersWithinLimits
  <2> QED
    BY <1>1, <1>3 DEF IInv, OrderHasSignal
<1> QED
  BY <1>5, <1>7, <1>8, <1>9

(* The copier writes an order: its signal was admitted. *)
LEMMA CopyStep ==
    ASSUME IInv, NEW w \in Workers, NEW c \in Accounts, CopyToAccount(w, c)
    PROVE  CarriesSignal' /\ Vetted' /\ OrderHasSignal' /\ OrdersWithinLimits'
<1> DEFINE a == run[w].alert
           sig == SignalOf(w)
<1>1. /\ a \in Alerts /\ sig \in SignalType /\ mapping[c] \in MappingType
      /\ \/ order' = order
         \/ /\ ApplyFilters(sig, mapping[c])
            /\ order'[a][c] \in OrderType
            /\ order'[a][c].symbol = sig.symbol
            /\ order'[a][c].side = GetOrderSide(sig.action)
            /\ order'[a][c].quantity = CalculateSize(sig, mapping[c])
            /\ \A b \in Alerts, d \in Accounts :
                  b # a \/ d # c => order'[b][d] = order[b][d]
  BY CopyOrder DEF IInv
<1>2. /\ UNCHANGED <<rules, mapping, alert>>
      /\ run[w].at = "copy" /\ run'[w].at = "copy"
      /\ run'[w].alert = a /\ run'[w].account = run[w].account
      /\ \A v \in Workers : v # w => run'[v] = run[v]
  BY DEF CopyToAccount, IInv, TypeOK, RunType
<1>3. Admitted(sig, rules) /\ alert[a] # None /\ sig = alert[a]
  BY <1>2 DEF IInv, Vetted, Passed, CarriesSignal, SignalOf
<1>4. Passed(w)' => run'[w].at # "idle" /\ Admitted(SignalOf(w), rules)
  BY <1>2, <1>3
<1>5. run[w].at # "idle" /\ run'[w].at # "idle" /\ run'[w].at # "rule"
  BY <1>2
<1>6. CarriesSignal' /\ Vetted'
  BY <1>2, <1>4, <1>5, VettedStep
<1>7. CASE order' = order
  <2>1. OrderHasSignal' /\ OrdersWithinLimits'
    BY <1>2, <1>7 DEF IInv, OrderHasSignal, OrdersWithinLimits
  <2> QED
    BY <1>6, <2>1
<1>8. CASE /\ ApplyFilters(sig, mapping[c])
           /\ order'[a][c] \in OrderType
           /\ order'[a][c].symbol = sig.symbol
           /\ order'[a][c].side = GetOrderSide(sig.action)
           /\ order'[a][c].quantity = CalculateSize(sig, mapping[c])
           /\ \A b \in Alerts, d \in Accounts :
                 b # a \/ d # c => order'[b][d] = order[b][d]
  <2>1. OrderHasSignal'
    BY <1>1, <1>2, <1>3, <1>8 DEF IInv, OrderHasSignal
  <2> DEFINE o == order'[a][c]
             m == mapping[c]
  <2>2. o.quantity \in 1..AccountLimit
    BY <1>1, <1>8, SizeBound, TradeRulesAssumption
       DEF TradeRulesAssumption, OrderType
  <2>3. ("max_contracts" \in rules /\ m.fixed = 0 /\ m.multiplier <= Scale)
          => o.quantity <= MaxContracts
    <3>1. sig.contracts \in Int /\ MaxContracts \in Int /\ o.quantity \in Int
      BY <1>1, <2>2, TradeRulesAssumption DEF SignalType, TradeRulesAssumption
    <3>2. m.fixed = 0 /\ m.multiplier <= Scale => o.quantity <= sig.contracts
      BY <1>1, <1>8, SizeBound, TradeRulesAssumption DEF TradeRulesAssumption
    <3> QED
      BY <1>3, <3>1, <3>2 DEF Admitted, CheckMaxContracts
  <2>4. /\ m.symbols = {} \/ o.symbol \in m.symbols
        /\ ("symbol_whitelist" \in rules /\ Whitelist # {})
              => o.symbol \in Whitelist
    BY <1>3, <1>8 DEF Admitted, CheckSymbolWhitelist, ApplyFilters
  <2>5. /\ (m.longOnly /\ o.side = "sell") => alert[a].action \in {"close", "reverse"}
        /\ m.shortOnly => o.side = "sell"
    BY <1>1, <1>3, <1>8 DEF ApplyFilters, GetOrderSide, SignalType, Actions
  <2>6. ASSUME NEW b \in Alerts, NEW d \in Accounts, order'[b][d] # NoOrder
        PROVE  LET p == order'[b][d]
                   q == mapping[d]
               IN  /\ p.quantity \in 1..AccountLimit
                   /\ q.symbols = {} \/ p.symbol \in q.symbols
                   /\ ("symbol_whitelist" \in rules /\ Whitelist # {})
                         => p.symbol \in Whitelist
                   /\ ("max_contracts" \in rules /\ q.fixed = 0
                          /\ q.multiplier <= Scale)
                         => p.quantity <= MaxContracts
                   /\ (q.longOnly /\ p.side = "sell")
                         => alert[b].action \in {"close", "reverse"}
                   /\ q.shortOnly => p.side = "sell"
    <3>1. CASE b = a /\ d = c
      BY <2>2, <2>3, <2>4, <2>5, <3>1
    <3>2. CASE b # a \/ d # c
      <4>1. order'[b][d] = order[b][d]
        BY <1>8, <3>2
      <4> QED
        BY <2>6, <4>1 DEF IInv, OrdersWithinLimits
    <3> QED
      BY <3>1, <3>2
  <2>7. OrdersWithinLimits'
    BY <1>2, <2>6 DEF OrdersWithinLimits
  <2> QED
    BY <1>6, <2>1, <2>7
<1> QED
  BY <1>1, <1>7, <1>8

(* The status of an order changes, and nothing else of it. *)
LEMMA RestatedStep ==
    ASSUME IInv, NEW a \in Alerts, NEW c \in Accounts, NEW status,
           UpdateOrder(a, c, status) \/ LoseExecution(a, c, status)
    PROVE  CarriesSignal' /\ Vetted' /\ OrderHasSignal' /\ OrdersWithinLimits'
<1>1. /\ UNCHANGED <<rules, mapping, alert, run>>
      /\ Restating(a, c, status) /\ order[a][c] # NoOrder
  BY Restates DEF IInv, Restating
<1>2. CarriesSignal'
  BY <1>1 DEF IInv, CarriesSignal
<1>3. \A v \in Workers : SignalOf(v)' = SignalOf(v) /\ (Passed(v)' <=> Passed(v))
  BY <1>1 DEF SignalOf, Passed
<1>4. Vetted'
  BY <1>1, <1>3 DEF IInv, Vetted, Admitted, CheckSymbolWhitelist, CheckMaxContracts
<1>5. /\ order'[a][c].symbol = order[a][c].symbol
      /\ order'[a][c].side = order[a][c].side
      /\ order'[a][c].quantity = order[a][c].quantity
      /\ \A b \in Alerts, d \in Accounts :
            b # a \/ d # c => order'[b][d] = order[b][d]
  <2>1. OnlyStatus(a, c, status)
    BY <1>1, Restated DEF IInv
  <2> QED
    BY <2>1 DEF OnlyStatus
<1>6. ASSUME NEW b \in Alerts, NEW d \in Accounts
      PROVE  /\ order'[b][d] # NoOrder => order[b][d] # NoOrder
             /\ order[b][d] # NoOrder =>
                   /\ order'[b][d].symbol = order[b][d].symbol
                   /\ order'[b][d].side = order[b][d].side
                   /\ order'[b][d].quantity = order[b][d].quantity
  BY <1>1, <1>5
<1>7. OrderHasSignal'
  BY <1>1, <1>6 DEF IInv, OrderHasSignal
<1>8. OrdersWithinLimits'
  BY <1>1, <1>6 DEF IInv, OrdersWithinLimits
<1> QED
  BY <1>2, <1>4, <1>7, <1>8

LEMMA ApplyRuleStep ==
    ASSUME IInv, NEW w \in Workers, ApplyRule(w)
    PROVE  CarriesSignal' /\ Vetted' /\ OrderHasSignal' /\ OrdersWithinLimits'
<1> DEFINE rule == NextRule(run[w].rules)
           c == run[w].account
<1>1. /\ UNCHANGED <<rules, mapping, alert, order>>
      /\ run[w].at = "rule"
      /\ run \in [Workers -> RunType]
  BY DEF ApplyRule, IInv, TypeOK
<1>2. \/ /\ EvaluateRule(rule, SignalOf(w), c)
         /\ run' = [run EXCEPT ![w].rules = @ \ {rule}]
      \/ Verdict(w, FALSE)
  BY DEF ApplyRule
<1>3. CASE Verdict(w, FALSE)
  BY <1>1, <1>3, VerdictStep
<1>4. CASE /\ EvaluateRule(rule, SignalOf(w), c)
           /\ run' = [run EXCEPT ![w].rules = @ \ {rule}]
  <2>1. /\ rule = "symbol_whitelist" => CheckSymbolWhitelist(SignalOf(w))
        /\ rule = "max_contracts" => CheckMaxContracts(SignalOf(w))
    BY <1>4 DEF EvaluateRule
  <2>2. /\ \A v \in Workers : v # w => run'[v] = run[v]
        /\ run'[w].at = "rule" /\ run'[w].alert = run[w].alert
        /\ run'[w].account = run[w].account
        /\ run'[w].rules = run[w].rules \ {rule}
    BY <1>1, <1>4 DEF RunType
  <2>3. Admitted(SignalOf(w), rules \ run[w].rules)
    BY <1>1 DEF IInv, Vetted
  <2>4. Admitted(SignalOf(w), rules \ run'[w].rules)
    BY <2>1, <2>2, <2>3 DEF Admitted
  <2>5. Passed(w)' => Admitted(SignalOf(w), rules)
    BY <1>1, <2>2 DEF IInv, Vetted, Passed
  <2> QED
    BY <1>1, <2>2, <2>4, <2>5, RunStep
<1> QED
  BY <1>2, <1>3, <1>4

LEMMA LoadRulesStep ==
    ASSUME IInv, NEW w \in Workers, LoadRules(w)
    PROVE  CarriesSignal' /\ Vetted' /\ OrderHasSignal' /\ OrdersWithinLimits'
<1>1. /\ UNCHANGED <<rules, mapping, alert, order>>
      /\ run[w].at = "switches"
      /\ run \in [Workers -> RunType]
  BY DEF LoadRules, IInv, TypeOK
<1>2. CASE killSwitch
  BY <1>1, <1>2, VerdictStep DEF LoadRules
<1>3. CASE ~killSwitch
  <2>1. /\ \A v \in Workers : v # w => run'[v] = run[v]
        /\ run'[w].at = "rule" /\ run'[w].alert = run[w].alert
        /\ run'[w].account = run[w].account
        /\ run'[w].rules = rules
    BY <1>1, <1>3 DEF LoadRules, RunType
  <2>2. Admitted(SignalOf(w), rules \ run'[w].rules)
    BY <2>1 DEF Admitted
  <2>3. Passed(w)' => Admitted(SignalOf(w), rules)
    BY <1>1, <2>1 DEF IInv, Vetted, Passed
  <2> QED
    BY <1>1, <2>1, <2>2, <2>3, RunStep
<1> QED
  BY <1>2, <1>3

-----------------------------------------------------------------------------
LEMMA InitInv == Init => IInv
<1> SUFFICES ASSUME Init PROVE IInv
  OBVIOUS
<1>1. TypeOK
  BY InitType
<1>2. \A w \in Workers : run[w] = Idle
  BY DEF Init
<1>3. CarriesSignal /\ Vetted
  BY <1>2 DEF CarriesSignal, Vetted, Passed, Idle
<1>4. OrderHasSignal /\ OrdersWithinLimits /\ UnrecordedOrdered
  BY DEF Init, OrderHasSignal, OrdersWithinLimits, UnrecordedOrdered
<1> QED
  BY <1>1, <1>3, <1>4 DEF IInv

(* An order is never taken back. *)
LEMMA UnrecordedStep ==
    ASSUME IInv, [Next]_vars
    PROVE  UnrecordedOrdered'
<1>1. ASSUME UNCHANGED order, unrecorded' \subseteq unrecorded
      PROVE  UnrecordedOrdered'
  BY <1>1 DEF IInv, UnrecordedOrdered
<1>2. ASSUME NEW w \in Workers, NEW c \in Accounts, CopyToAccount(w, c)
      PROVE  UnrecordedOrdered'
  <2>1. /\ unrecorded' = unrecorded /\ run[w].alert \in Alerts
        /\ \/ order' = order
           \/ /\ order'[run[w].alert][c] \in OrderType
              /\ \A b \in Alerts, d \in Accounts :
                    b # run[w].alert \/ d # c => order'[b][d] = order[b][d]
    <3>1. TypeOK /\ CarriesSignal /\ unrecorded' = unrecorded
      BY <1>2 DEF IInv, CopyToAccount
    <3>2. run[w].alert \in Alerts
      BY <1>2, <3>1, CopyOrder
    <3>3. \/ order' = order
          \/ /\ order'[run[w].alert][c] \in OrderType
             /\ \A b \in Alerts, d \in Accounts :
                   b # run[w].alert \/ d # c => order'[b][d] = order[b][d]
      BY <1>2, <3>1, CopyOrder
    <3> QED
      BY <3>1, <3>2, <3>3
  <2>2. NoOrder \notin OrderType
    <3>1. \A o \in OrderType : "symbol" \in DOMAIN o
      BY DEF OrderType
    <3>2. "symbol" \notin DOMAIN NoOrder
      BY DEF NoOrder
    <3> QED
      BY <3>1, <3>2
  <2> QED
    BY <2>1, <2>2 DEF IInv, UnrecordedOrdered
<1>3. ASSUME NEW a \in Alerts, NEW c \in Accounts, NEW status,
             UpdateOrder(a, c, status) \/ LoseExecution(a, c, status)
      PROVE  UnrecordedOrdered'
  <2>0. TypeOK /\ Restating(a, c, status)
    BY <1>3, Restates DEF IInv
  <2>1. /\ order'[a][c] # NoOrder
        /\ \A b \in Alerts, d \in Accounts :
              b # a \/ d # c => order'[b][d] = order[b][d]
    BY <2>0, Restated DEF OnlyStatus
  <2>2. \A b \in Alerts, d \in Accounts :
           <<b, d>> \in unrecorded' => <<b, d>> \in unrecorded \/ (b = a /\ d = c)
    BY <1>3 DEF UpdateOrder, LoseExecution
  <2> QED
    BY <2>1, <2>2 DEF IInv, UnrecordedOrdered
<1>4. \/ UNCHANGED order /\ unrecorded' \subseteq unrecorded
      \/ \E w \in Workers, c \in Accounts : CopyToAccount(w, c)
      \/ \E a \in Alerts, c \in Accounts, status \in Answers : UpdateOrder(a, c, status)
      \/ \E a \in Alerts, c \in Accounts :
            \E status \in {order[a][c].status, "pending", "rejected"} :
               LoseExecution(a, c, status)
  <2>1. CASE \E a \in Alerts, c \in Accounts :
                Fill(a, c) \/ FillPartially(a, c) \/ Reject(a, c)
    BY <2>1, Answered
  <2>2. CASE \E w \in Workers, a \in Alerts, sig \in Signals : Take(w, a, sig)
    BY <2>2 DEF Take
  <2> QED
    BY <2>1, <2>2 DEF Next, LoadRules, ApplyRule, AllRulesPass,
       CreateTradeRequest, AccountsChecked, CopyDone, CheckAccount,
       RecordExecution, Tick, CooldownEnds, FlipKillSwitch, vars
<1> QED
  BY <1>1, <1>2, <1>3, <1>4

LEMMA StepInv == IInv /\ [Next]_vars => IInv'
<1> SUFFICES ASSUME IInv, [Next]_vars
             PROVE  /\ CarriesSignal' /\ Vetted'
                    /\ OrderHasSignal' /\ OrdersWithinLimits'
  BY StepType, UnrecordedStep DEF IInv
<1>0. run \in [Workers -> RunType]
  BY DEF IInv, TypeOK
<1>1. ASSUME NEW w \in Workers, NEW a \in Alerts, NEW sig \in Signals,
             Take(w, a, sig)
      PROVE  CarriesSignal' /\ Vetted' /\ OrderHasSignal' /\ OrdersWithinLimits'
  BY <1>1, TakeStep
<1>2. ASSUME NEW w \in Workers, LoadRules(w)
      PROVE  CarriesSignal' /\ Vetted' /\ OrderHasSignal' /\ OrdersWithinLimits'
  BY <1>2, LoadRulesStep
<1>3. ASSUME NEW w \in Workers, ApplyRule(w)
      PROVE  CarriesSignal' /\ Vetted' /\ OrderHasSignal' /\ OrdersWithinLimits'
  BY <1>3, ApplyRuleStep
<1>4. ASSUME NEW w \in Workers, AllRulesPass(w)
      PROVE  CarriesSignal' /\ Vetted' /\ OrderHasSignal' /\ OrdersWithinLimits'
  <2>1. rules \ run[w].rules = rules
    BY <1>4 DEF AllRulesPass
  <2>2. Admitted(SignalOf(w), rules)
    BY <1>4, <2>1 DEF AllRulesPass, IInv, Vetted
  <2> QED
    BY <1>4, <2>2, VerdictStep DEF AllRulesPass
<1>5. ASSUME NEW w \in Workers, CreateTradeRequest(w)
      PROVE  CarriesSignal' /\ Vetted' /\ OrderHasSignal' /\ OrdersWithinLimits'
  <2>1. /\ UNCHANGED <<rules, mapping, alert, order>>
        /\ run[w].at = "create"
        /\ \A v \in Workers : v # w => run'[v] = run[v]
        /\ run'[w] = IF run[w].ok
                       THEN [Idle EXCEPT !.at = "account", !.alert = run[w].alert,
                                         !.left = Accounts]
                       ELSE Idle
    BY <1>0, <1>5 DEF CreateTradeRequest
  <2>2. /\ run'[w].at # "idle" => run'[w].alert = run[w].alert /\ run[w].ok
        /\ run'[w].at # "rule"
        /\ run'[w].at # "idle" \/ ~Passed(w)'
    BY <2>1 DEF Idle, Passed
  <2>3. run[w].ok => Admitted(SignalOf(w), rules)
    BY <2>1 DEF IInv, Vetted, Passed
  <2> QED
    BY <2>1, <2>2, <2>3, RunStep
<1>6. ASSUME NEW w \in Workers, AccountsChecked(w)
      PROVE  CarriesSignal' /\ Vetted' /\ OrderHasSignal' /\ OrdersWithinLimits'
  <2>1. /\ UNCHANGED <<rules, mapping, alert, order>>
        /\ run[w].at = "account"
        /\ \A v \in Workers : v # w => run'[v] = run[v]
        /\ \/ run'[w].at = "idle" /\ run'[w].account = None
           \/ run'[w].at = "copy" /\ run'[w].alert = run[w].alert
    <3>1. CASE run' = [run EXCEPT ![w] = Idle]
      BY <1>0, <1>6, <3>1 DEF AccountsChecked, Idle
    <3>2. CASE run' = [run EXCEPT ![w].at = "copy", ![w].left = Accounts]
      <4>1. run'[w] = [run[w] EXCEPT !.at = "copy", !.left = Accounts]
        BY <1>0, <3>2
      <4>2. \A v \in Workers : v # w => run'[v] = run[v]
        BY <1>0, <3>2
      <4>3. run'[w].at = "copy" /\ run'[w].alert = run[w].alert
        BY <1>0, <4>1 DEF RunType
      <4> QED
        BY <1>6, <4>2, <4>3 DEF AccountsChecked
    <3> QED
      BY <1>6, <3>1, <3>2 DEF AccountsChecked
  <2>2. /\ run'[w].at # "idle" => run'[w].alert = run[w].alert
        /\ run'[w].at # "rule"
        /\ run'[w].at # "idle" \/ ~Passed(w)'
    BY <2>1 DEF Passed
  <2>3. Admitted(SignalOf(w), rules)
    BY <2>1 DEF IInv, Vetted, Passed
  <2> QED
    BY <2>1, <2>2, <2>3, RunStep
<1>7. ASSUME NEW w \in Workers, CopyDone(w)
      PROVE  CarriesSignal' /\ Vetted' /\ OrderHasSignal' /\ OrdersWithinLimits'
  <2>1. /\ UNCHANGED <<rules, mapping, alert, order>>
        /\ run[w].at = "copy"
        /\ \A v \in Workers : v # w => run'[v] = run[v]
        /\ run'[w] = Idle
    BY <1>0, <1>7 DEF CopyDone
  <2>2. run'[w].at = "idle" /\ ~Passed(w)'
    BY <2>1 DEF Idle, Passed
  <2> QED
    BY <2>1, <2>2, RunStep
<1>8. ASSUME NEW w \in Workers, NEW c \in Accounts, CheckAccount(w, c)
      PROVE  CarriesSignal' /\ Vetted' /\ OrderHasSignal' /\ OrdersWithinLimits'
  <2>1. /\ UNCHANGED <<rules, mapping, alert, order>>
        /\ run[w].at = "account"
        /\ \A v \in Workers : v # w => run'[v] = run[v]
        /\ run'[w].at = "switches" /\ run'[w].alert = run[w].alert
    BY <1>0, <1>8 DEF CheckAccount, RunType
  <2>2. Admitted(SignalOf(w), rules)
    BY <2>1 DEF IInv, Vetted, Passed
  <2> QED
    BY <2>1, <2>2, RunStep
<1>9. ASSUME NEW w \in Workers, NEW c \in Accounts, CopyToAccount(w, c)
      PROVE  CarriesSignal' /\ Vetted' /\ OrderHasSignal' /\ OrdersWithinLimits'
  BY <1>9, CopyStep
<1>10. ASSUME NEW a \in Alerts, NEW c \in Accounts,
              Fill(a, c) \/ FillPartially(a, c) \/ Reject(a, c)
       PROVE  CarriesSignal' /\ Vetted' /\ OrderHasSignal' /\ OrdersWithinLimits'
  BY <1>10, Answered, RestatedStep
<1>11. CASE Tick \/ CooldownEnds \/ FlipKillSwitch \/ UNCHANGED vars
  BY <1>11, OutsideStep DEF Tick, CooldownEnds, FlipKillSwitch, vars
<1>12. ASSUME NEW a \in Alerts, NEW c \in Accounts, RecordExecution(a, c)
       PROVE  CarriesSignal' /\ Vetted' /\ OrderHasSignal' /\ OrdersWithinLimits'
  BY <1>12, OutsideStep DEF RecordExecution
<1>13. ASSUME NEW a \in Alerts, NEW c \in Accounts, NEW status,
              LoseExecution(a, c, status)
       PROVE  CarriesSignal' /\ Vetted' /\ OrderHasSignal' /\ OrdersWithinLimits'
  BY <1>13, RestatedStep
<1> QED
  BY <1>1, <1>2, <1>3, <1>4, <1>5, <1>6, <1>7, <1>8, <1>9, <1>10, <1>11, <1>12,
     <1>13 DEF Next

LEMMA Invariance == Spec => []IInv
BY InitInv, StepInv, PTL DEF Spec

(* Every reachable state is well typed, whatever the rules, the mappings    *)
(* and the alerts (risk/engine.ts, copier/engine.ts).                       *)
THEOREM TypeCorrect == Spec => []TypeOK
<1>1. IInv => TypeOK
  BY DEF IInv
<1> QED
  BY Invariance, <1>1, PTL

(* No order exceeds the account's limit, leaves the admitted symbols or     *)
(* turns a long-only account round except to close or reverse, however the  *)
(* checks and fills of any number of alerts interleave.                     *)
THEOREM OrdersWithinLimitsHolds == Spec => []OrdersWithinLimits
<1>1. IInv => OrdersWithinLimits
  BY DEF IInv
<1> QED
  BY Invariance, <1>1, PTL

-----------------------------------------------------------------------------
(***************************************************************************)
(* The limits that depend on earlier trades.  A run evaluates them long     *)
(* before its orders are filled, so none of them is inductive.  While       *)
(* trades do not disturb each other, the invariant (Calm) says that what a  *)
(* rule found stands until the order is filled: every rule that a run has   *)
(* evaluated for an account still passes, and so does every rule of the     *)
(* strategy for every order that is pending (RunPasses, OrderPasses).       *)
(***************************************************************************)

(* The rules that read what earlier orders left behind, less those an order *)
(* that was made pending or rejected after it was executed misleads.        *)
Standing ==
    IF misfiled THEN {"daily_loss_limit"}
    ELSE {"max_positions", "conflicting_position", "daily_loss_limit"}

Onward == misfiled => misfiled'

OnePending == \A a, b \in Alerts : Pending(a) /\ Pending(b) => a = b

(* The run has not yet come to copy to c. *)
Uncopied(w, c) == /\ run[w].at # "idle"
                  /\ run[w].at = "copy" => c \in run[w].left

Unwritten == \A w \in Workers, c \in Accounts :
                Uncopied(w, c) => order[run[w].alert][c] = NoOrder

Checked(w, c, R) ==
    /\ Uncopied(w, c)
    /\ \/ c \in run[w].safe
       \/ run[w].at = "rule" /\ run[w].account = c /\ R \notin run[w].rules

RunPasses ==
    \A R \in rules \cap Standing, w \in Workers, c \in Accounts :
        Checked(w, c, R) => EvaluateRule(R, SignalOf(w), c)

OrderPasses ==
    \A R \in rules \cap Standing, a \in Alerts, c \in Accounts :
        order[a][c].status = "pending" => EvaluateRule(R, alert[a], c)

Steady == OnePending /\ Unwritten /\ RunPasses /\ OrderPasses

(* The loss limit stands until what was executed is stored. *)
Covered ==
    \A a \in Alerts, c \in Accounts :
        <<a, c>> \in unrecorded =>
            /\ order[a][c].status \in {"filled", "partially_filled"}
            /\ "daily_loss_limit" \in rules => CheckDailyLossLimit(c)

Calm == ~disturbed => ~Overlap /\ ~Unchecked /\ Steady /\ Covered

(* The orders of c are those there were, with new ones still pending. *)
KeptOrders(c) ==
    \A b \in Alerts : \/ order'[b][c] = order[b][c]
                      \/ order[b][c] = NoOrder /\ order'[b][c].status = "pending"

Kept(c) == KeptOrders(c) /\ (cash'[c] = cash[c] \/ cash'[c] = 0)

LEMMA StandingRules ==
    ASSUME NEW sig, NEW c
    PROVE  /\ EvaluateRule("max_positions", sig, c) <=> CheckMaxPositions(sig, c)
           /\ EvaluateRule("conflicting_position", sig, c)
                <=> CheckConflictingPosition(sig, c)
           /\ EvaluateRule("daily_loss_limit", sig, c) <=> CheckDailyLossLimit(c)
BY DEF EvaluateRule

LEMMA StandingRulesNext ==
    ASSUME NEW sig, NEW c
    PROVE  /\ EvaluateRule("max_positions", sig, c)' <=> CheckMaxPositions(sig, c)'
           /\ EvaluateRule("conflicting_position", sig, c)'
                <=> CheckConflictingPosition(sig, c)'
           /\ EvaluateRule("daily_loss_limit", sig, c)' <=> CheckDailyLossLimit(c)'
BY DEF EvaluateRule

LEMMA KeptExecuted ==
    ASSUME NEW c \in Accounts, KeptOrders(c)
    PROVE  /\ Executed(c)' = Executed(c)
           /\ \A b \in Executed(c) : order'[b][c] = order[b][c]
BY DEF KeptOrders, Executed, NoOrder

LEMMA KeptSymbols ==
    ASSUME NEW c \in Accounts, KeptOrders(c)
    PROVE  TradedSymbols(c)' = TradedSymbols(c)
BY KeptExecuted DEF TradedSymbols

LEMMA KeptSides ==
    ASSUME NEW c \in Accounts, KeptOrders(c), NEW s, NEW side
    PROVE  HasFilled(c, s, side)' <=> HasFilled(c, s, side)
BY DEF KeptOrders, HasFilled, NoOrder

(* Nothing that such a rule reads for c has changed for the worse. *)
LEMMA KeptPasses ==
    ASSUME NEW R \in Standing, NEW sig, NEW c \in Accounts, Kept(c),
           EvaluateRule(R, sig, c)
    PROVE  EvaluateRule(R, sig, c)'
<1>1. CASE R = "max_positions"
  <2>1. CheckMaxPositions(sig, c)
    BY <1>1, StandingRules
  <2>2. CheckMaxPositions(sig, c)'
    BY <2>1, KeptSymbols DEF CheckMaxPositions, Kept
  <2> QED
    BY <1>1, <2>2, StandingRulesNext
<1>2. CASE R = "conflicting_position"
  <2>1. CheckConflictingPosition(sig, c)
    BY <1>2, StandingRules
  <2>2. CheckConflictingPosition(sig, c)'
    BY <2>1, KeptSides DEF CheckConflictingPosition, Kept
  <2> QED
    BY <1>2, <2>2, StandingRulesNext
<1>3. CASE R = "daily_loss_limit"
  <2>1. CheckDailyLossLimit(c)
    BY <1>3, StandingRules
  <2>2. MaxLoss \in Nat
    BY TradeRulesAssumption DEF TradeRulesAssumption
  <2>3. CheckDailyLossLimit(c)'
    BY <2>1, <2>2 DEF CheckDailyLossLimit, Kept
  <2> QED
    BY <1>3, <2>3, StandingRulesNext
<1> QED
  BY <1>1, <1>2, <1>3 DEF Standing

(* Every rule found to pass before the step still passes after it. *)
LEMMA PassesKept ==
    ASSUME UNCHANGED rules, Onward,
           \A R \in rules \cap Standing, v \in Workers, c \in Accounts :
              Checked(v, c, R)' =>
                 Kept(c) /\ \E sig : sig = SignalOf(v)' /\ EvaluateRule(R, sig, c),
           \A R \in rules \cap Standing, b \in Alerts, c \in Accounts :
              order'[b][c].status = "pending" =>
                 \/ Kept(c) /\ \E sig : sig = alert'[b] /\ EvaluateRule(R, sig, c)
                 \/ R \in Standing' => EvaluateRule(R, alert[b], c)'
    PROVE  RunPasses' /\ OrderPasses'
<1>0. Standing' \subseteq Standing
  BY DEF Standing, Onward
<1>1. ASSUME NEW R \in rules \cap Standing, NEW v \in Workers, NEW c \in Accounts,
             Checked(v, c, R)'
      PROVE  EvaluateRule(R, SignalOf(v), c)'
  <2>1. PICK sig : sig = SignalOf(v)' /\ EvaluateRule(R, sig, c)
    BY <1>1
  <2>2. EvaluateRule(R, sig, c)'
    BY <1>1, <2>1, KeptPasses
  <2> QED
    BY <2>1, <2>2
<1>2. ASSUME NEW R \in rules \cap Standing, NEW b \in Alerts, NEW c \in Accounts,
             R \in Standing', order'[b][c].status = "pending"
      PROVE  EvaluateRule(R, alert[b], c)'
  <2>1. CASE Kept(c) /\ \E sig : sig = alert'[b] /\ EvaluateRule(R, sig, c)
    <3>1. PICK sig : sig = alert'[b] /\ EvaluateRule(R, sig, c)
      BY <2>1
    <3>2. EvaluateRule(R, sig, c)'
      BY <1>2, <2>1, <3>1, KeptPasses
    <3> QED
      BY <3>1, <3>2
  <2> QED
    BY <1>2, <2>1
<1> QED
  BY <1>0, <1>1, <1>2 DEF RunPasses, OrderPasses

(* Only the run of w moved. *)
LEMMA RunCalm ==
    ASSUME Steady, Onward, ~Overlap, NEW w \in Workers,
           UNCHANGED <<rules, alert, order, cash, unrecorded>>,
           \A v \in Workers : v # w => run'[v] = run[v],
           run[w].at # "idle",
           run'[w].at # "idle" => run'[w].alert = run[w].alert,
           \A c \in Accounts : Uncopied(w, c)' => Uncopied(w, c),
           \A R \in rules \cap Standing, c \in Accounts :
              Checked(w, c, R)' => EvaluateRule(R, SignalOf(w), c)
    PROVE  Steady'
<1>1. \A v \in Workers : v # w => run'[v].at = "idle"
  BY DEF Overlap
<1>2. \A c \in Accounts : Kept(c)
  BY DEF Kept, KeptOrders
<1>3. ASSUME NEW R \in rules \cap Standing, NEW v \in Workers, NEW c \in Accounts,
             Checked(v, c, R)'
      PROVE  \E sig : sig = SignalOf(v)' /\ EvaluateRule(R, sig, c)
  <2>1. v = w /\ run'[w].at # "idle"
    BY <1>1, <1>3 DEF Checked, Uncopied
  <2>2. SignalOf(w)' = SignalOf(w)
    BY <2>1 DEF SignalOf
  <2>3. EvaluateRule(R, SignalOf(w), c)
    BY <1>3, <2>1
  <2> QED
    BY <2>1, <2>2, <2>3
<1>4. ASSUME NEW R \in rules \cap Standing, NEW b \in Alerts, NEW c \in Accounts,
             order'[b][c].status = "pending"
      PROVE  \E sig : sig = alert'[b] /\ EvaluateRule(R, sig, c)
  BY <1>4 DEF Steady, OrderPasses
<1>5. RunPasses' /\ OrderPasses'
  BY <1>2, <1>3, <1>4, PassesKept
<1>6. OnePending'
  BY DEF Steady, OnePending, Pending
<1>7. Unwritten'
  BY <1>1 DEF Steady, Unwritten, Uncopied
<1> QED
  BY <1>5, <1>6, <1>7 DEF Steady

LEMMA VerdictSafe ==
    ASSUME TypeOK, NEW w \in Workers, NEW ok \in BOOLEAN, Verdict(w, ok)
    PROVE  /\ run'[w].at \in {"create", "account"}
           /\ run'[w].safe = IF ok /\ run[w].account # None
                               THEN run[w].safe \cup {run[w].account}
                               ELSE run[w].safe
<1>1. run \in [Workers -> RunType] /\ run[w] \in RunType
  BY DEF TypeOK
<1>2. PICK safe : safe = IF ok /\ run[w].account # None
                           THEN run[w].safe \cup {run[w].account}
                           ELSE run[w].safe
  OBVIOUS
<1>3. PICK step \in {"create", "account"} :
         step = IF run[w].account = None THEN "create" ELSE "account"
  OBVIOUS
<1>4. run' = [run EXCEPT ![w] =
                [run[w] EXCEPT !.at = step, !.ok = ok, !.safe = safe]]
  BY <1>1, <1>2, <1>3 DEF Verdict
<1>5. run'[w] = [run[w] EXCEPT !.at = step, !.ok = ok, !.safe = safe]
  BY <1>1, <1>4
<1>6. run'[w].at = step /\ run'[w].safe = safe
  BY <1>1, <1>5 DEF RunType
<1> QED
  BY <1>2, <1>3, <1>6

LEMMA VerdictCalm ==
    ASSUME TypeOK, Steady, Onward, ~Overlap, NEW w \in Workers, NEW ok \in BOOLEAN,
           Verdict(w, ok),
           UNCHANGED <<rules, alert, order, cash, unrecorded>>,
           run[w].at \in {"switches", "rule"},
           ok => run[w].at = "rule" /\ run[w].rules = {}
    PROVE  Steady'
<1>1. /\ \A v \in Workers : v # w => run'[v] = run[v]
      /\ run'[w].alert = run[w].alert
      /\ run'[w].at \in {"create", "account"}
      /\ run'[w].safe = IF ok /\ run[w].account # None
                          THEN run[w].safe \cup {run[w].account} ELSE run[w].safe
  BY VerdictType, VerdictSafe
<1>2. \A c \in Accounts : Uncopied(w, c)
  BY DEF Uncopied
<1>3. ASSUME NEW R \in rules \cap Standing, NEW c \in Accounts, Checked(w, c, R)'
      PROVE  EvaluateRule(R, SignalOf(w), c)
  <2>1. c \in run'[w].safe
    BY <1>1, <1>3 DEF Checked
  <2>2. Checked(w, c, R)
    BY <1>1, <1>2, <2>1 DEF Checked
  <2> QED
    BY <2>2 DEF Steady, RunPasses
<1> QED
  BY <1>1, <1>2, <1>3, RunCalm

(* The steps of a run up to the copies. *)
LEMMA CheckCalm ==
    ASSUME TypeOK, Steady, Onward, ~Overlap, NEW w \in Workers,
           \/ LoadRules(w) \/ ApplyRule(w) \/ AllRulesPass(w)
           \/ \E c \in Accounts : CheckAccount(w, c)
    PROVE  Steady'
<1>0. /\ UNCHANGED <<rules, alert, order, cash, unrecorded>>
      /\ run \in [Workers -> RunType] /\ run[w] \in RunType
      /\ run[w].at \in {"switches", "rule", "account"}
  BY DEF LoadRules, ApplyRule, AllRulesPass, CheckAccount, TypeOK
<1>1. \A c \in Accounts : Uncopied(w, c)
  BY <1>0 DEF Uncopied
<1>2. CASE LoadRules(w)
  <2>1. CASE killSwitch
    BY <1>0, <1>2, <2>1, VerdictCalm DEF LoadRules
  <2>2. CASE ~killSwitch
    <3>1. /\ \A v \in Workers : v # w => run'[v] = run[v]
          /\ run'[w].at = "rule" /\ run'[w].rules = rules
          /\ run'[w].alert = run[w].alert /\ run'[w].safe = run[w].safe
      BY <1>0, <1>2, <2>2 DEF LoadRules, RunType
    <3>2. \A R \in rules \cap Standing, c \in Accounts :
             Checked(w, c, R)' => Checked(w, c, R)
      BY <1>1, <3>1 DEF Checked
    <3> QED
      BY <1>0, <1>1, <3>1, <3>2, RunCalm DEF Steady, RunPasses
  <2> QED
    BY <2>1, <2>2
<1>3. CASE ApplyRule(w)
  <2> DEFINE rule == NextRule(run[w].rules)
             k == run[w].account
  <2>1. CASE Verdict(w, FALSE)
    BY <1>0, <1>3, <2>1, VerdictCalm DEF ApplyRule
  <2>2. CASE /\ EvaluateRule(rule, SignalOf(w), k)
             /\ run' = [run EXCEPT ![w].rules = @ \ {rule}]
    <3>1. /\ \A v \in Workers : v # w => run'[v] = run[v]
          /\ run'[w].at = "rule" /\ run'[w].rules = run[w].rules \ {rule}
          /\ run'[w].alert = run[w].alert /\ run'[w].safe = run[w].safe
          /\ run'[w].account = k /\ run[w].at = "rule"
      BY <1>0, <1>3, <2>2 DEF ApplyRule, RunType
    <3>2. \A R \in rules \cap Standing, c \in Accounts :
             Checked(w, c, R)' => Checked(w, c, R) \/ (R = rule /\ c = k)
      BY <1>1, <3>1 DEF Checked
    <3>3. \A R \in rules \cap Standing, c \in Accounts :
             Checked(w, c, R)' => EvaluateRule(R, SignalOf(w), c)
      BY <2>2, <3>2 DEF Steady, RunPasses
    <3> QED
      BY <1>0, <1>1, <3>1, <3>3, RunCalm
  <2> QED
    BY <1>3, <2>1, <2>2 DEF ApplyRule
<1>4. CASE AllRulesPass(w)
  BY <1>0, <1>4, VerdictCalm DEF AllRulesPass
<1>5. ASSUME NEW k \in Accounts, CheckAccount(w, k)
      PROVE  Steady'
  <2>1. /\ \A v \in Workers : v # w => run'[v] = run[v]
        /\ run'[w].at = "switches"
        /\ run'[w].alert = run[w].alert /\ run'[w].safe = run[w].safe
    BY <1>0, <1>5 DEF CheckAccount, RunType
  <2>2. \A R \in rules \cap Standing, c \in Accounts :
           Checked(w, c, R)' => Checked(w, c, R)
    BY <1>1, <2>1 DEF Checked
  <2> QED
    BY <1>0, <1>1, <2>1, <2>2, RunCalm DEF Steady, RunPasses
<1> QED
  BY <1>2, <1>3, <1>4, <1>5

(* The steps by which a run goes from one stage to the next, or ends. *)
LEMMA StageCalm ==
    ASSUME TypeOK, Steady, Onward, ~Overlap, NEW w \in Workers,
           CreateTradeRequest(w) \/ AccountsChecked(w) \/ CopyDone(w)
    PROVE  Steady'
<1>0. /\ UNCHANGED <<rules, alert, order, cash, unrecorded>>
      /\ run \in [Workers -> RunType] /\ run[w] \in RunType
      /\ run[w].at \in {"create", "account", "copy"}
  BY DEF CreateTradeRequest, AccountsChecked, CopyDone, TypeOK
<1>1. run' = [run EXCEPT ![w] = Idle] => Steady'
  <2> SUFFICES ASSUME run' = [run EXCEPT ![w] = Idle] PROVE Steady'
    OBVIOUS
  <2>1. /\ \A v \in Workers : v # w => run'[v] = run[v]
        /\ run'[w].at = "idle"
    BY <1>0 DEF Idle
  <2> QED
    BY <1>0, <2>1, RunCalm DEF Uncopied, Checked
<1>2. CASE CreateTradeRequest(w)
  <2>1. CASE run[w].ok
    <3>1. /\ \A v \in Workers : v # w => run'[v] = run[v]
          /\ run'[w] = [Idle EXCEPT !.at = "account", !.alert = run[w].alert,
                                    !.left = Accounts]
          /\ run[w].at = "create"
      BY <1>0, <1>2, <2>1 DEF CreateTradeRequest
    <3>2. /\ run'[w].at = "account" /\ run'[w].alert = run[w].alert
          /\ run'[w].safe = {}
      BY <3>1 DEF Idle
    <3> QED
      BY <1>0, <3>1, <3>2, RunCalm DEF Uncopied, Checked
  <2>2. CASE ~run[w].ok
    BY <1>1, <1>2, <2>2 DEF CreateTradeRequest
  <2> QED
    BY <2>1, <2>2
<1>3. CASE AccountsChecked(w)
  <2>1. CASE run' = [run EXCEPT ![w].at = "copy", ![w].left = Accounts]
    <3>1. run'[w] = [run[w] EXCEPT !.at = "copy", !.left = Accounts]
      BY <1>0, <2>1
    <3>2. \A v \in Workers : v # w => run'[v] = run[v]
      BY <1>0, <2>1
    <3>3. /\ run'[w].at = "copy" /\ run'[w].alert = run[w].alert
          /\ run'[w].safe = run[w].safe /\ run[w].at = "account"
      BY <1>0, <1>3, <3>1 DEF RunType, AccountsChecked
    <3>4. \A c \in Accounts : Uncopied(w, c)
      BY <3>3 DEF Uncopied
    <3>5. \A R \in rules \cap Standing, c \in Accounts :
             Checked(w, c, R)' => Checked(w, c, R)
      BY <3>3, <3>4 DEF Checked
    <3> QED
      BY <1>0, <3>2, <3>3, <3>4, <3>5, RunCalm DEF Steady, RunPasses
  <2> QED
    BY <1>1, <1>3, <2>1 DEF AccountsChecked
<1>4. CASE CopyDone(w)
  BY <1>1, <1>4 DEF CopyDone
<1> QED
  BY <1>2, <1>3, <1>4

(* A run begins: its alert has no orders, and it has checked nothing. *)
LEMMA TakeCalm ==
    ASSUME IInv, Steady, Onward, ~Overlap', NEW w \in Workers, NEW a \in Alerts,
           NEW sig \in Signals, Take(w, a, sig)
    PROVE  Steady'
<1>1. /\ UNCHANGED <<rules, order, cash, unrecorded>>
      /\ alert[a] = None /\ alert' = [alert EXCEPT ![a] = sig]
      /\ alert \in [Alerts -> Signals \cup {None}]
      /\ run \in [Workers -> RunType]
      /\ run' = [run EXCEPT ![w] = [Idle EXCEPT !.at = "switches", !.alert = a]]
  BY DEF Take, IInv, TypeOK
<1>2. run'[w].at = "switches" /\ run'[w].alert = a /\ run'[w].safe = {}
  BY <1>1 DEF Idle
<1>3. \A v \in Workers : v # w => run'[v].at = "idle"
  BY <1>2 DEF Overlap
<1>4. \A c \in Accounts : order[a][c] = NoOrder
  BY <1>1 DEF IInv, OrderHasSignal
<1>5. \A c \in Accounts : Kept(c)
  BY <1>1 DEF Kept, KeptOrders
<1>6. \A R \in rules \cap Standing, v \in Workers, c \in Accounts : ~Checked(v, c, R)'
  BY <1>2, <1>3 DEF Checked, Uncopied
<1>7. ASSUME NEW R \in rules \cap Standing, NEW b \in Alerts, NEW c \in Accounts,
             order'[b][c].status = "pending"
      PROVE  \E s : s = alert'[b] /\ EvaluateRule(R, s, c)
  <2>1. order[b][c].status = "pending" /\ b # a
    BY <1>1, <1>4, <1>7 DEF NoOrder
  <2>2. EvaluateRule(R, alert[b], c) /\ alert'[b] = alert[b]
    BY <1>1, <2>1 DEF Steady, OrderPasses
  <2> QED
    BY <2>2
<1>8. RunPasses' /\ OrderPasses'
  BY <1>1, <1>5, <1>6, <1>7, PassesKept
<1>9. OnePending' /\ Unwritten'
  BY <1>1, <1>2, <1>3, <1>4 DEF Steady, OnePending, Pending, Unwritten, Uncopied
<1> QED
  BY <1>8, <1>9 DEF Steady

(* What copyToAccount writes is one order, pending, where there was none. *)
LEMMA CopyWrites ==
    ASSUME IInv, NEW w \in Workers, NEW c \in Accounts, CopyToAccount(w, c)
    PROVE  /\ run[w].alert \in Alerts
           /\ run[w].at = "copy" /\ c \in run[w].left
           /\ \A v \in Workers : v # w => run'[v] = run[v]
           /\ run'[w].at = "copy" /\ run'[w].left = run[w].left \ {c}
           /\ run'[w].alert = run[w].alert /\ run'[w].safe = run[w].safe
           /\ UNCHANGED <<rules, alert, cash, unrecorded>>
           /\ \A b \in Alerts, d \in Accounts :
                 b # run[w].alert \/ d # c => order'[b][d] = order[b][d]
           /\ \/ order'[run[w].alert][c] = order[run[w].alert][c]
              \/ order'[run[w].alert][c].status = "pending"
<1>1. /\ run[w].alert \in Alerts
      /\ run \in [Workers -> RunType] /\ run[w] \in RunType
      /\ order \in [Alerts -> [Accounts -> OrderType \cup {NoOrder}]]
  BY DEF IInv, CarriesSignal, CopyToAccount, TypeOK
<1>2. PICK o : o = [symbol   |-> SignalOf(w).symbol,
                    side     |-> GetOrderSide(SignalOf(w).action),
                    quantity |-> CalculateSize(SignalOf(w), mapping[c]),
                    status   |-> "pending"]
  OBVIOUS
<1>3. o.status = "pending"
  BY <1>2
<1>4. order' = order \/ order' = [order EXCEPT ![run[w].alert][c] = o]
  BY <1>2 DEF CopyToAccount
<1>5. /\ \A b \in Alerts, d \in Accounts :
            b # run[w].alert \/ d # c => order'[b][d] = order[b][d]
      /\ \/ order'[run[w].alert][c] = order[run[w].alert][c]
         \/ order'[run[w].alert][c].status = "pending"
  BY <1>1, <1>3, <1>4
<1>6. run' = [run EXCEPT ![w].left = @ \ {c}]
  BY DEF CopyToAccount
<1>7. /\ \A v \in Workers : v # w => run'[v] = run[v]
      /\ run'[w] = [run[w] EXCEPT !.left = run[w].left \ {c}]
  BY <1>1, <1>6
<1>8. /\ run'[w].at = run[w].at /\ run'[w].left = run[w].left \ {c}
      /\ run'[w].alert = run[w].alert /\ run'[w].safe = run[w].safe
  BY <1>1, <1>7 DEF RunType
<1>9. /\ run[w].at = "copy" /\ c \in run[w].left
      /\ UNCHANGED <<rules, alert, cash, unrecorded>>
  BY DEF CopyToAccount
<1> QED
  BY <1>1, <1>5, <1>7, <1>8, <1>9

LEMMA CopyKept ==
    ASSUME IInv, Steady, NEW w \in Workers, NEW c \in Accounts,
           CopyToAccount(w, c)
    PROVE  \A d \in Accounts : Kept(d)
<1>1. PICK a \in Alerts : a = run[w].alert
  BY CopyWrites
<1>2. order[a][c] = NoOrder
  BY <1>1, CopyWrites DEF Steady, Unwritten, Uncopied
<1>3. /\ \A b \in Alerts, d \in Accounts :
            b # a \/ d # c => order'[b][d] = order[b][d]
      /\ \/ order'[a][c] = order[a][c]
         \/ order'[a][c].status = "pending"
      /\ UNCHANGED cash
  BY <1>1, CopyWrites
<1> QED
  BY <1>2, <1>3 DEF Kept, KeptOrders

LEMMA CopyCalm ==
    ASSUME IInv, Steady, Onward, ~Overlap, ~Unchecked,
           NEW w \in Workers, NEW c \in Accounts, CopyToAccount(w, c)
    PROVE  Steady'
<1>1. PICK a \in Alerts : a = run[w].alert
  BY CopyWrites
<1>2. /\ run[w].at = "copy" /\ c \in run[w].left
      /\ \A v \in Workers : v # w => run'[v] = run[v]
      /\ run'[w].at = "copy" /\ run'[w].left = run[w].left \ {c}
      /\ run'[w].alert = a /\ run'[w].safe = run[w].safe
      /\ UNCHANGED <<rules, alert, cash, unrecorded>>
  BY <1>1, CopyWrites
<1>3. /\ \A b \in Alerts, d \in Accounts :
            b # a \/ d # c => order'[b][d] = order[b][d]
      /\ \/ order'[a][c] = order[a][c]
         \/ order'[a][c].status = "pending"
  BY <1>1, CopyWrites
<1>4. /\ run[w].safe = Accounts
      /\ \A v \in Workers : v # w => run'[v].at = "idle"
      /\ \A b \in Alerts : b # a => ~Pending(b)
  BY <1>1, <1>2 DEF Overlap, Unchecked
<1>5. order[a][c] = NoOrder
  BY <1>1, <1>2 DEF Steady, Unwritten, Uncopied
<1>6. \A d \in Accounts : Kept(d)
  BY <1>2, <1>3, <1>5 DEF Kept, KeptOrders
<1>7. \A R \in rules \cap Standing : EvaluateRule(R, SignalOf(w), c)
  BY <1>2, <1>4 DEF Steady, RunPasses, Checked, Uncopied
<1>8. ASSUME NEW R \in rules \cap Standing, NEW v \in Workers, NEW d \in Accounts,
             Checked(v, d, R)'
      PROVE  \E sig : sig = SignalOf(v)' /\ EvaluateRule(R, sig, d)
  <2>1. v = w /\ d \in run[w].left
    BY <1>2, <1>4, <1>8 DEF Checked, Uncopied
  <2>2. EvaluateRule(R, SignalOf(w), d)
    BY <1>2, <1>4, <2>1 DEF Steady, RunPasses, Checked, Uncopied
  <2>3. SignalOf(w)' = SignalOf(w)
    BY <1>1, <1>2 DEF SignalOf
  <2> QED
    BY <2>1, <2>2, <2>3
<1>9. ASSUME NEW R \in rules \cap Standing, NEW b \in Alerts, NEW d \in Accounts,
             order'[b][d].status = "pending"
      PROVE  \E sig : sig = alert'[b] /\ EvaluateRule(R, sig, d)
  <2>1. CASE b = a /\ d = c
    BY <1>1, <1>2, <1>7, <2>1 DEF SignalOf
  <2>2. CASE b # a \/ d # c
    BY <1>2, <1>3, <1>9, <2>2 DEF Steady, OrderPasses
  <2> QED
    BY <2>1, <2>2
<1>10. RunPasses' /\ OrderPasses'
  BY <1>2, <1>6, <1>8, <1>9, PassesKept
<1>11. OnePending'
  <2>1. \A b \in Alerts : Pending(b)' => b = a
    BY <1>2, <1>3, <1>4 DEF Pending
  <2> QED
    BY <2>1 DEF OnePending
<1>12. Unwritten'
  BY <1>1, <1>2, <1>3, <1>4 DEF Steady, Unwritten, Uncopied
<1> QED
  BY <1>10, <1>11, <1>12 DEF Steady

(* A step of the order processor: nothing but one order of a and the books  *)
(* of its account is touched.                                               *)
Touches(a, c) ==
    /\ Pending(a) /\ order[a][c] # NoOrder
    /\ \A b \in Alerts, d \in Accounts :
          b # a \/ d # c =>
             /\ order'[b][d] = order[b][d]
             /\ <<b, d>> \in unrecorded' <=> <<b, d>> \in unrecorded
    /\ \A d \in Accounts : d # c => cash'[d] = cash[d]
    /\ UNCHANGED <<rules, run, alert>>
    /\ order'[a][c].status = "pending" =>
          \A R \in rules \cap Standing' : EvaluateRule(R, alert[a], c)'

LEMMA TouchCalm ==
    ASSUME Steady, Onward, ~Overlap, NEW a \in Alerts, NEW c \in Accounts,
           Touches(a, c)
    PROVE  Steady'
<1>1. /\ UNCHANGED <<rules, run, alert>> /\ Pending(a) /\ order[a][c] # NoOrder
      /\ \A b \in Alerts, d \in Accounts :
            b # a \/ d # c =>
               /\ order'[b][d] = order[b][d]
               /\ <<b, d>> \in unrecorded' <=> <<b, d>> \in unrecorded
      /\ \A d \in Accounts : d # c => cash'[d] = cash[d]
  BY DEF Touches
<1>2. \A b \in Alerts : Pending(b)' => b = a
  BY <1>1 DEF Steady, OnePending, Pending
<1>3. \A d \in Accounts : d # c => Kept(d)
  BY <1>1 DEF Kept, KeptOrders
<1>4. \A v \in Workers : ~Uncopied(v, c)
  BY <1>1 DEF Overlap, Steady, Unwritten, Uncopied
<1>5. ASSUME NEW R \in rules \cap Standing, NEW v \in Workers, NEW d \in Accounts,
             Checked(v, d, R)'
      PROVE  Kept(d) /\ \E sig : sig = SignalOf(v)' /\ EvaluateRule(R, sig, d)
  <2>1. Checked(v, d, R) /\ d # c
    BY <1>1, <1>4, <1>5 DEF Checked, Uncopied
  <2>2. EvaluateRule(R, SignalOf(v), d) /\ SignalOf(v)' = SignalOf(v)
    BY <1>1, <2>1 DEF Steady, RunPasses, SignalOf
  <2> QED
    BY <1>3, <2>1, <2>2
<1>6. ASSUME NEW R \in rules \cap Standing, NEW b \in Alerts, NEW d \in Accounts,
             order'[b][d].status = "pending"
      PROVE  \/ Kept(d) /\ \E sig : sig = alert'[b] /\ EvaluateRule(R, sig, d)
             \/ R \in Standing' => EvaluateRule(R, alert[b], d)'
  <2>1. b = a
    BY <1>2, <1>6 DEF Pending
  <2>2. CASE d = c
    <3>1. R \in Standing' => EvaluateRule(R, alert[a], c)'
      BY <1>6, <2>1, <2>2 DEF Touches
    <3> QED
      BY <2>1, <2>2, <3>1
  <2>3. CASE d # c
    <3>1. EvaluateRule(R, alert[b], d) /\ alert'[b] = alert[b]
      BY <1>1, <1>6, <2>1, <2>3 DEF Steady, OrderPasses
    <3> QED
      BY <1>3, <2>3, <3>1
  <2> QED
    BY <2>2, <2>3
<1>7. RunPasses' /\ OrderPasses'
  BY <1>1, <1>5, <1>6, PassesKept
<1>8. OnePending'
  BY <1>2 DEF OnePending
<1>9. Unwritten'
  <2> SUFFICES ASSUME NEW v \in Workers, NEW d \in Accounts, Uncopied(v, d)'
               PROVE  order'[run'[v].alert][d] = NoOrder
    BY DEF Unwritten
  <2>1. Uncopied(v, d) /\ d # c
    BY <1>1, <1>4 DEF Uncopied
  <2>2. run'[v].alert = a /\ run[v].alert = a
    BY <1>1, <2>1 DEF Overlap, Uncopied
  <2>3. order[a][d] = NoOrder
    BY <2>1, <2>2 DEF Steady, Unwritten
  <2> QED
    BY <1>1, <2>1, <2>2, <2>3
<1> QED
  BY <1>7, <1>8, <1>9 DEF Steady

(* The broker settles one order. *)
Settled(a, c, status) ==
    /\ order[a][c].status = "pending" /\ order[a][c] \in OrderType
    /\ order'[a][c].status = status
    /\ order'[a][c].symbol = order[a][c].symbol
    /\ order'[a][c].side = order[a][c].side
    /\ order'[a][c].quantity = order[a][c].quantity
    /\ \A b \in Alerts, d \in Accounts :
          b # a \/ d # c => order'[b][d] = order[b][d]
    /\ unrecorded' = IF status = "rejected" THEN unrecorded
                                            ELSE unrecorded \cup {<<a, c>>}
    /\ UNCHANGED <<rules, run, alert, cash>>

LEMMA UpdateSettles ==
    ASSUME TypeOK, NEW a \in Alerts, NEW c \in Accounts, NEW status \in Answers,
           UpdateOrder(a, c, status)
    PROVE  Settled(a, c, status) /\ order'[a][c] \in OrderType
<1>1. /\ Restating(a, c, status) /\ order[a][c].status = "pending"
      /\ unrecorded' = IF status = "rejected" THEN unrecorded
                                              ELSE unrecorded \cup {<<a, c>>}
      /\ UNCHANGED <<rules, run, alert, cash>>
  BY DEF UpdateOrder, Restating, NoOrder
<1>2. /\ order[a][c] \in OrderType
      /\ order'[a][c] = [order[a][c] EXCEPT !.status = status]
      /\ order'[a][c].status = status
      /\ order'[a][c].symbol = order[a][c].symbol
      /\ order'[a][c].side = order[a][c].side
      /\ order'[a][c].quantity = order[a][c].quantity
      /\ \A b \in Alerts, d \in Accounts :
            b # a \/ d # c => order'[b][d] = order[b][d]
  BY <1>1, Restated DEF OnlyStatus
<1>3. order'[a][c] \in OrderType
  BY <1>2 DEF OrderType, OrderStatuses, Answers
<1> QED
  BY <1>1, <1>2, <1>3 DEF Settled

LEMMA SettleCalm ==
    ASSUME Steady, Onward, ~Overlap, NEW a \in Alerts, NEW c \in Accounts,
           NEW status \in Answers, Settled(a, c, status)
    PROVE  Steady'
<1>1. Touches(a, c)
  BY DEF Settled, Touches, Pending, NoOrder, Answers
<1> QED
  BY <1>1, TouchCalm

LEMMA RecordCalm ==
    ASSUME IInv, Steady, Covered, Onward, ~Overlap, NEW a \in Alerts,
           NEW c \in Accounts, RecordExecution(a, c)
    PROVE  Steady'
<1>1. /\ <<a, c>> \in unrecorded /\ order[a][c] # NoOrder
      /\ order[a][c].status # "pending"
      /\ unrecorded' = unrecorded \ {<<a, c>>}
      /\ UNCHANGED <<rules, run, alert, order>>
      /\ \A d \in Accounts : d # c => cash'[d] = cash[d]
  BY DEF RecordExecution, IInv, UnrecordedOrdered, Covered, TypeOK
<1>2. Touches(a, c)
  BY <1>1 DEF Touches, Pending
<1> QED
  BY <1>2, TouchCalm

LEMMA LoseCalm ==
    ASSUME IInv, Steady, Covered, Onward, Misfiles => misfiled', ~Overlap,
           NEW a \in Alerts, NEW c \in Accounts, NEW status,
           LoseExecution(a, c, status)
    PROVE  Steady'
<1>0. TypeOK /\ Restating(a, c, status)
  BY Restates DEF IInv
<1>1. /\ Restating(a, c, status) /\ TypeOK
      /\ UNCHANGED <<rules, run, alert, cash>>
      /\ <<a, c>> \in unrecorded /\ unrecorded' = unrecorded \ {<<a, c>>}
  BY <1>0 DEF LoseExecution
<1>2. /\ order'[a][c].status = status
      /\ \A b \in Alerts, d \in Accounts :
            b # a \/ d # c => order'[b][d] = order[b][d]
  <2>1. OnlyStatus(a, c, status)
    BY <1>1, Restated
  <2> QED
    BY <2>1 DEF OnlyStatus
<1>3. /\ order[a][c].status \in {"filled", "partially_filled"}
      /\ "daily_loss_limit" \in rules => CheckDailyLossLimit(c)
  BY <1>1 DEF Covered
<1>4. ASSUME order'[a][c].status = "pending", NEW R \in rules \cap Standing'
      PROVE  EvaluateRule(R, alert[a], c)'
  <2>1. misfiled'
    BY <1>2, <1>3, <1>4 DEF Misfiles
  <2>2. R = "daily_loss_limit"
    BY <1>4, <2>1 DEF Standing
  <2>3. CheckDailyLossLimit(c)'
    BY <1>1, <1>3, <1>4, <2>2 DEF CheckDailyLossLimit
  <2> QED
    BY <2>2, <2>3, StandingRulesNext
<1>5. Touches(a, c)
  BY <1>1, <1>2, <1>4 DEF Touches, Pending, Restating
<1> QED
  BY <1>5, TouchCalm

(* Time passes, or the operator flips the switch. *)
LEMMA OutsideCalm ==
    ASSUME TypeOK, Steady, Onward, Tick \/ CooldownEnds \/ FlipKillSwitch \/ UNCHANGED vars
    PROVE  Steady'
<1>1. UNCHANGED <<rules, run, alert, order, unrecorded>>
  BY DEF Tick, CooldownEnds, FlipKillSwitch, vars
<1>2. \A c \in Accounts : cash'[c] = cash[c] \/ cash'[c] = 0
  BY DEF Tick, CooldownEnds, FlipKillSwitch, vars
<1>3. \A c \in Accounts : Kept(c)
  BY <1>1, <1>2 DEF Kept, KeptOrders
<1>4. ASSUME NEW R \in rules \cap Standing, NEW v \in Workers, NEW c \in Accounts,
             Checked(v, c, R)'
      PROVE  \E sig : sig = SignalOf(v)' /\ EvaluateRule(R, sig, c)
  <2>1. Checked(v, c, R) /\ SignalOf(v)' = SignalOf(v)
    BY <1>1, <1>4 DEF Checked, Uncopied, SignalOf
  <2> QED
    BY <2>1 DEF Steady, RunPasses
<1>5. ASSUME NEW R \in rules \cap Standing, NEW b \in Alerts, NEW c \in Accounts,
             order'[b][c].status = "pending"
      PROVE  \E sig : sig = alert'[b] /\ EvaluateRule(R, sig, c)
  BY <1>1, <1>5 DEF Steady, OrderPasses
<1>6. RunPasses' /\ OrderPasses'
  BY <1>1, <1>3, <1>4, <1>5, PassesKept
<1>7. OnePending' /\ Unwritten'
  BY <1>1 DEF Steady, OnePending, Pending, Unwritten, Uncopied
<1> QED
  BY <1>6, <1>7 DEF Steady

(* What was executed is stored before anything else of its account is       *)
(* counted.                                                                 *)
LEMMA KeptCovered ==
    ASSUME Covered, UNCHANGED <<rules, unrecorded>>, \A c \in Accounts : Kept(c)
    PROVE  Covered'
<1>1. MaxLoss \in Nat
  BY TradeRulesAssumption DEF TradeRulesAssumption
<1>2. ASSUME NEW a \in Alerts, NEW c \in Accounts, <<a, c>> \in unrecorded
      PROVE  /\ order'[a][c].status \in {"filled", "partially_filled"}
             /\ "daily_loss_limit" \in rules => CheckDailyLossLimit(c)'
  <2>1. order'[a][c] = order[a][c] /\ (cash'[c] = cash[c] \/ cash'[c] = 0)
    BY <1>2 DEF Covered, Kept, KeptOrders, NoOrder
  <2> QED
    BY <1>1, <1>2, <2>1 DEF Covered, CheckDailyLossLimit
<1> QED
  BY <1>2 DEF Covered

LEMMA SettleCovered ==
    ASSUME Steady, Covered, NEW a \in Alerts, NEW c \in Accounts,
           NEW status \in Answers, Settled(a, c, status)
    PROVE  Covered'
<1>1. "daily_loss_limit" \in rules => CheckDailyLossLimit(c)
  <2> SUFFICES ASSUME "daily_loss_limit" \in rules PROVE CheckDailyLossLimit(c)
    OBVIOUS
  <2>1. "daily_loss_limit" \in rules \cap Standing
    BY DEF Standing
  <2>2. EvaluateRule("daily_loss_limit", alert[a], c)
    BY <2>1 DEF Steady, OrderPasses, Settled
  <2> QED
    BY <2>2, StandingRules
<1>2. ASSUME NEW b \in Alerts, NEW d \in Accounts, <<b, d>> \in unrecorded'
      PROVE  /\ order'[b][d].status \in {"filled", "partially_filled"}
             /\ "daily_loss_limit" \in rules => CheckDailyLossLimit(d)
  <2>1. CASE <<b, d>> \in unrecorded
    BY <2>1 DEF Covered, Settled
  <2>2. CASE <<b, d>> \notin unrecorded
    BY <1>1, <1>2, <2>2 DEF Settled, Answers
  <2> QED
    BY <2>1, <2>2
<1> QED
  BY <1>2 DEF Covered, Settled, CheckDailyLossLimit

LEMMA ReleaseCovered ==
    ASSUME IInv, Steady, Covered, NEW a \in Alerts, NEW c \in Accounts,
           \/ RecordExecution(a, c)
           \/ \E status : LoseExecution(a, c, status)
    PROVE  Covered'
<1>1. /\ <<a, c>> \in unrecorded /\ unrecorded' = unrecorded \ {<<a, c>>}
      /\ UNCHANGED rules
      /\ \A d \in Accounts : d # c => cash'[d] = cash[d]
      /\ \A b \in Alerts, d \in Accounts :
            b # a \/ d # c => order'[b][d] = order[b][d]
  <2>1. CASE RecordExecution(a, c)
    BY <2>1 DEF RecordExecution, IInv, TypeOK
  <2>2. ASSUME NEW status, LoseExecution(a, c, status)
        PROVE  \A b \in Alerts, d \in Accounts :
                  b # a \/ d # c => order'[b][d] = order[b][d]
    <3>1. TypeOK /\ Restating(a, c, status)
      BY <2>2, Restates DEF IInv
    <3> QED
      BY <3>1, Restated DEF OnlyStatus
  <2> QED
    BY <2>1, <2>2 DEF LoseExecution
<1>2. ASSUME NEW b \in Alerts, NEW d \in Accounts, <<b, d>> \in unrecorded'
      PROVE  <<b, d>> \in unrecorded /\ d # c
  BY <1>1, <1>2 DEF Steady, OnePending, Pending
<1> QED
  BY <1>1, <1>2 DEF Covered, CheckDailyLossLimit

LEMMA CalmStep ==
    ASSUME IInv, Calm, [HistoryNext]_<<vars, history>>
    PROVE  Calm'
<1> SUFFICES ASSUME ~disturbed'
             PROVE  ~Overlap' /\ ~Unchecked' /\ Steady' /\ Covered'
  BY DEF Calm
<1>1. TypeOK
  BY DEF IInv
<1>2. CASE UNCHANGED <<vars, history>>
  <2>1. /\ Steady /\ ~Overlap /\ ~Unchecked /\ Covered
        /\ UNCHANGED vars /\ Onward
    BY <1>2 DEF Calm, history, Onward
  <2>2. ~Overlap' /\ ~Unchecked' /\ Covered'
    BY <2>1 DEF vars, Overlap, Unchecked, Pending, Covered, CheckDailyLossLimit
  <2> QED
    BY <1>1, <2>1, <2>2, OutsideCalm
<1>3. CASE HistoryNext
  <2>1. /\ Next /\ ~disturbed /\ ~Overlap' /\ ~Unchecked'
        /\ Steady /\ ~Overlap /\ ~Unchecked /\ Covered
        /\ Onward /\ (Misfiles => misfiled')
    BY <1>3 DEF HistoryNext, Calm, Onward
  <2>2. ASSUME NEW w \in Workers, NEW a \in Alerts, NEW sig \in Signals,
               Take(w, a, sig)
        PROVE  Steady' /\ Covered'
    <3>1. UNCHANGED <<rules, unrecorded, order, cash>>
      BY <2>2 DEF Take
    <3> QED
      BY <2>1, <2>2, <3>1, TakeCalm, KeptCovered DEF Kept, KeptOrders
  <2>3. ASSUME NEW w \in Workers,
               \/ LoadRules(w) \/ ApplyRule(w) \/ AllRulesPass(w)
               \/ CreateTradeRequest(w) \/ AccountsChecked(w) \/ CopyDone(w)
               \/ \E c \in Accounts : CheckAccount(w, c)
        PROVE  Steady' /\ Covered'
    <3>1. UNCHANGED <<rules, unrecorded, order, cash>>
      BY <2>3 DEF LoadRules, ApplyRule, AllRulesPass, CreateTradeRequest,
         AccountsChecked, CopyDone, CheckAccount
    <3>2. Covered'
      BY <2>1, <3>1, KeptCovered DEF Kept, KeptOrders
    <3> QED
      BY <1>1, <2>1, <2>3, <3>2, CheckCalm, StageCalm
  <2>4. ASSUME NEW w \in Workers, NEW c \in Accounts, CopyToAccount(w, c)
        PROVE  Steady' /\ Covered'
    <3>1. Steady'
      BY <2>1, <2>4, CopyCalm
    <3>2. /\ UNCHANGED <<rules, unrecorded>>
          /\ \A d \in Accounts : Kept(d)
      BY <2>1, <2>4, CopyKept DEF CopyToAccount
    <3> QED
      BY <2>1, <3>1, <3>2, KeptCovered
  <2>5. ASSUME NEW a \in Alerts, NEW c \in Accounts,
               Fill(a, c) \/ FillPartially(a, c) \/ Reject(a, c)
        PROVE  Steady' /\ Covered'
    <3>1. PICK status \in Answers : Settled(a, c, status)
      BY <1>1, <2>5, Answered, UpdateSettles
    <3> QED
      BY <2>1, <3>1, SettleCalm, SettleCovered
  <2>6. ASSUME NEW a \in Alerts, NEW c \in Accounts, RecordExecution(a, c)
        PROVE  Steady' /\ Covered'
    BY <2>1, <2>6, RecordCalm, ReleaseCovered
  <2>7. ASSUME NEW a \in Alerts, NEW c \in Accounts, NEW status,
               LoseExecution(a, c, status)
        PROVE  Steady' /\ Covered'
    BY <2>1, <2>7, LoseCalm, ReleaseCovered
  <2>8. CASE Tick \/ CooldownEnds \/ FlipKillSwitch \/ UNCHANGED vars
    <3>1. /\ UNCHANGED <<rules, unrecorded, order>>
          /\ \A c \in Accounts : cash'[c] = cash[c] \/ cash'[c] = 0
      BY <2>8 DEF Tick, CooldownEnds, FlipKillSwitch, vars
    <3>2. Covered'
      BY <2>1, <3>1, KeptCovered DEF Kept, KeptOrders
    <3> QED
      BY <1>1, <2>1, <2>8, <3>2, OutsideCalm
  <2> QED
    BY <2>1, <2>2, <2>3, <2>4, <2>5, <2>6, <2>7, <2>8 DEF Next
<1> QED
  BY <1>2, <1>3

LEMMA CalmInit == HistoryInit => Calm
<1> SUFFICES ASSUME HistoryInit PROVE Calm
  OBVIOUS
<1>1. \A w \in Workers : run[w].at = "idle"
  BY DEF HistoryInit, Init, Idle
<1>2. \A a \in Alerts, c \in Accounts : order[a][c].status = "none"
  BY DEF HistoryInit, Init, NoOrder
<1>3. unrecorded = {}
  BY DEF HistoryInit, Init
<1> QED
  BY <1>1, <1>2, <1>3 DEF Calm, Steady, Overlap, Unchecked, OnePending, Pending,
     Unwritten, RunPasses, OrderPasses, Checked, Uncopied, Covered

-----------------------------------------------------------------------------
(* What an order says of its signal. *)
FromSignal ==
    \A a \in Alerts, c \in Accounts :
        order[a][c] # NoOrder =>
            /\ order[a][c].symbol = alert[a].symbol
            /\ order[a][c].side = GetOrderSide(alert[a].action)

LEMMA FromSignalStep ==
    ASSUME IInv, FromSignal, [Next]_vars
    PROVE  FromSignal'
<1>1. ASSUME UNCHANGED order,
             \A a \in Alerts : alert[a] # None => alert'[a] = alert[a]
      PROVE  FromSignal'
  BY <1>1 DEF IInv, OrderHasSignal, FromSignal
<1>2. ASSUME NEW w \in Workers, NEW a \in Alerts, NEW sig \in Signals,
             Take(w, a, sig)
      PROVE  FromSignal'
  <2>1. /\ UNCHANGED order /\ alert' = [alert EXCEPT ![a] = sig]
        /\ alert[a] = None /\ alert \in [Alerts -> Signals \cup {None}]
    BY <1>2 DEF Take, IInv, TypeOK
  <2> QED
    BY <1>1, <2>1
<1>3. ASSUME NEW w \in Workers, NEW c \in Accounts, CopyToAccount(w, c)
      PROVE  FromSignal'
  <2>1. PICK a \in Alerts : a = run[w].alert
    BY <1>3, CopyWrites
  <2>2. /\ UNCHANGED alert
        /\ \/ order' = order
           \/ /\ order'[a][c].symbol = alert[a].symbol
              /\ order'[a][c].side = GetOrderSide(alert[a].action)
              /\ \A b \in Alerts, d \in Accounts :
                    b # a \/ d # c => order'[b][d] = order[b][d]
    <3>1. TypeOK /\ CarriesSignal /\ UNCHANGED alert
      BY <1>3 DEF IInv, CopyToAccount
    <3>2. \/ order' = order
          \/ /\ order'[run[w].alert][c].symbol = SignalOf(w).symbol
             /\ order'[run[w].alert][c].side = GetOrderSide(SignalOf(w).action)
             /\ \A b \in Alerts, d \in Accounts :
                   b # run[w].alert \/ d # c => order'[b][d] = order[b][d]
      BY <1>3, <3>1, CopyOrder
    <3>3. SignalOf(w) = alert[a]
      BY <2>1 DEF SignalOf
    <3> QED
      BY <2>1, <3>1, <3>2, <3>3
  <2> QED
    BY <2>2 DEF FromSignal
<1>4. ASSUME NEW a \in Alerts, NEW c \in Accounts, NEW status,
             UpdateOrder(a, c, status) \/ LoseExecution(a, c, status)
      PROVE  FromSignal'
  <2>1. TypeOK /\ Restating(a, c, status) /\ UNCHANGED alert
    BY <1>4, Restates DEF IInv
  <2>2. /\ order[a][c] # NoOrder /\ UNCHANGED alert
        /\ order'[a][c].symbol = order[a][c].symbol
        /\ order'[a][c].side = order[a][c].side
        /\ \A b \in Alerts, d \in Accounts :
              b # a \/ d # c => order'[b][d] = order[b][d]
    BY <2>1, Restated DEF Restating, OnlyStatus
  <2>3. ASSUME NEW b \in Alerts, NEW d \in Accounts, order'[b][d] # NoOrder
        PROVE  /\ order'[b][d].symbol = alert[b].symbol
               /\ order'[b][d].side = GetOrderSide(alert[b].action)
    <3>1. CASE b = a /\ d = c
      BY <2>2, <3>1 DEF FromSignal
    <3>2. CASE b # a \/ d # c
      <4>1. order'[b][d] = order[b][d]
        BY <2>2, <3>2
      <4> QED
        BY <2>3, <4>1 DEF FromSignal
    <3> QED
      BY <3>1, <3>2
  <2> QED
    BY <2>2, <2>3 DEF FromSignal
<1>5. \/ UNCHANGED <<order, alert>>
      \/ \E w \in Workers, a \in Alerts, sig \in Signals : Take(w, a, sig)
      \/ \E w \in Workers, c \in Accounts : CopyToAccount(w, c)
      \/ \E a \in Alerts, c \in Accounts, status \in Answers : UpdateOrder(a, c, status)
      \/ \E a \in Alerts, c \in Accounts :
            \E status \in {order[a][c].status, "pending", "rejected"} :
               LoseExecution(a, c, status)
  BY Answered DEF Next, LoadRules, ApplyRule, AllRulesPass, CreateTradeRequest,
     AccountsChecked, CopyDone, CheckAccount, RecordExecution, Tick,
     CooldownEnds, FlipKillSwitch, vars
<1> QED
  BY <1>1, <1>2, <1>3, <1>4, <1>5

LEMMA FromSignalInvariance == Spec => []FromSignal
<1>1. Init => FromSignal
  BY DEF Init, FromSignal
<1>2. IInv /\ FromSignal /\ [Next]_vars => FromSignal'
  BY FromSignalStep
<1> QED
  BY <1>1, <1>2, Invariance, PTL DEF Spec

LEMMA HistoryInvariance == HistorySpec => []IInv /\ []Calm /\ []FromSignal
<1>1. HistoryInit => Init
  BY DEF HistoryInit
<1>2. [HistoryNext]_<<vars, history>> => [Next]_vars
  BY DEF HistoryNext
<1>3. HistorySpec => Spec
  BY <1>1, <1>2, PTL DEF HistorySpec, Spec
<1>4. IInv /\ Calm /\ [HistoryNext]_<<vars, history>> => Calm'
  BY CalmStep
<1> QED
  BY <1>3, <1>4, CalmInit, Invariance, FromSignalInvariance, PTL DEF HistorySpec

-----------------------------------------------------------------------------
(* What a step does to the orders: it writes some, or settles one.          *)
Writes ==
    /\ \A c \in Accounts : KeptOrders(c)
    /\ \A b \in Alerts : alert[b] # None => alert'[b] = alert[b]

(* An order that keeps its status when its execution is lost.               *)
LEMMA LoseKeeps ==
    ASSUME IInv, Covered, ~Misfiles, NEW a \in Alerts, NEW c \in Accounts,
           NEW status, LoseExecution(a, c, status)
    PROVE  Writes
<1>1. TypeOK /\ Restating(a, c, status)
  BY Restates DEF IInv
<1>2. /\ order[a][c] \in OrderType
      /\ order'[a][c] = [order[a][c] EXCEPT !.status = status]
      /\ order'[a][c].status = status
      /\ \A b \in Alerts, d \in Accounts :
            b # a \/ d # c => order'[b][d] = order[b][d]
  <2>1. OnlyStatus(a, c, status)
    BY <1>1, Restated
  <2> QED
    BY <2>1 DEF OnlyStatus
<1>3. <<a, c>> \in unrecorded /\ UNCHANGED alert
  BY DEF LoseExecution
<1>4. status = order[a][c].status
  BY <1>2, <1>3 DEF Covered, Misfiles
<1>5. order'[a][c] = order[a][c]
  BY <1>2, <1>4 DEF OrderType
<1> QED
  BY <1>2, <1>3, <1>5 DEF Writes, KeptOrders

LEMMA Effects ==
    ASSUME IInv, Calm, [HistoryNext]_<<vars, history>>, ~disturbed'
    PROVE  /\ UNCHANGED rules /\ ~disturbed /\ Steady /\ Covered
           /\ ~misfiled' =>
                /\ ~misfiled
                /\ \/ Writes
                   \/ \E a \in Alerts, c \in Accounts, status \in Answers :
                         Settled(a, c, status)
<1>1. /\ ~disturbed /\ Steady /\ Covered /\ [Next]_vars
      /\ ~misfiled' => ~misfiled /\ (UNCHANGED vars \/ ~Misfiles)
  <2>1. /\ ~disturbed /\ [Next]_vars
        /\ ~misfiled' => ~misfiled /\ (UNCHANGED vars \/ ~Misfiles)
    <3>1. CASE HistoryNext
      BY <3>1 DEF HistoryNext
    <3>2. CASE UNCHANGED <<vars, history>>
      BY <3>2 DEF history
    <3> QED
      BY <3>1, <3>2
  <2> QED
    BY <2>1 DEF Calm
<1>2. UNCHANGED rules
  BY <1>1 DEF Next, Take, LoadRules, ApplyRule, AllRulesPass, CreateTradeRequest,
         AccountsChecked, CopyDone, CheckAccount, CopyToAccount, Fill,
         FillPartially, Reject, UpdateOrder, RecordExecution, LoseExecution,
         Tick, CooldownEnds, FlipKillSwitch, vars
<1> SUFFICES ASSUME ~misfiled'
             PROVE  \/ Writes
                    \/ \E a \in Alerts, c \in Accounts, status \in Answers :
                          Settled(a, c, status)
  BY <1>1, <1>2
<1>3. ASSUME NEW w \in Workers, NEW a \in Alerts, NEW sig \in Signals,
             Take(w, a, sig)
      PROVE  Writes
  <2>1. /\ UNCHANGED order /\ alert' = [alert EXCEPT ![a] = sig]
        /\ alert[a] = None /\ alert \in [Alerts -> Signals \cup {None}]
    BY <1>3 DEF Take, IInv, TypeOK
  <2> QED
    BY <2>1 DEF Writes, KeptOrders
<1>4. ASSUME NEW w \in Workers, NEW c \in Accounts, CopyToAccount(w, c)
      PROVE  Writes
  <2>1. UNCHANGED alert
    BY <1>4 DEF CopyToAccount
  <2> QED
    BY <1>1, <1>4, <2>1, CopyKept DEF Writes, Kept
<1>5. ASSUME NEW a \in Alerts, NEW c \in Accounts,
             Fill(a, c) \/ FillPartially(a, c) \/ Reject(a, c)
      PROVE  \E status \in Answers : Settled(a, c, status)
  BY <1>5, Answered, UpdateSettles DEF IInv
<1>6. CASE UNCHANGED <<order, alert>>
  BY <1>6 DEF Writes, KeptOrders
<1>7. ASSUME NEW a \in Alerts, NEW c \in Accounts, NEW status,
             LoseExecution(a, c, status)
      PROVE  Writes
  <2>1. CASE UNCHANGED vars
    BY <2>1 DEF Writes, KeptOrders, vars
  <2>2. CASE ~Misfiles
    BY <1>1, <1>7, <2>2, LoseKeeps
  <2> QED
    BY <1>1, <2>1, <2>2
<1>8. \/ UNCHANGED <<order, alert>>
      \/ \E w \in Workers, a \in Alerts, sig \in Signals : Take(w, a, sig)
      \/ \E w \in Workers, c \in Accounts : CopyToAccount(w, c)
      \/ \E a \in Alerts, c \in Accounts :
            Fill(a, c) \/ FillPartially(a, c) \/ Reject(a, c)
      \/ \E a \in Alerts, c \in Accounts : \E status : LoseExecution(a, c, status)
  BY <1>1 DEF Next, LoadRules, ApplyRule, AllRulesPass, CreateTradeRequest,
         AccountsChecked, CopyDone, CheckAccount, RecordExecution, Tick,
         CooldownEnds, FlipKillSwitch, vars
<1> QED
  BY <1>3, <1>4, <1>5, <1>6, <1>7, <1>8

(* An order that is written changes nothing that was executed. *)
LEMMA WritesExecuted ==
    ASSUME IInv, Writes, NEW c \in Accounts
    PROVE  /\ Executed(c)' = Executed(c) /\ TradedSymbols(c)' = TradedSymbols(c)
           /\ \A b \in Executed(c) : /\ order'[b][c] = order[b][c]
                                     /\ alert'[b] = alert[b]
           /\ \A s, side : HasFilled(c, s, side)' <=> HasFilled(c, s, side)
<1>1. KeptOrders(c)
  BY DEF Writes
<1>2. \A b \in Executed(c) : b \in Alerts /\ alert[b] # None
  BY DEF Executed, IInv, OrderHasSignal, NoOrder
<1> QED
  BY <1>1, <1>2, KeptExecuted, KeptSymbols, KeptSides DEF Writes

(* An answer executes the one order, or none if it was rejected. *)
LEMMA SettledExecuted ==
    ASSUME NEW a \in Alerts, NEW c \in Accounts, NEW status \in Answers,
           Settled(a, c, status)
    PROVE  /\ a \notin Executed(c)
           /\ Executed(c)' = IF status = "rejected" THEN Executed(c)
                                                    ELSE Executed(c) \cup {a}
           /\ \A b \in Executed(c) : order'[b][c] = order[b][c]
           /\ \A d \in Accounts : d # c =>
                 /\ Executed(d)' = Executed(d)
                 /\ \A b \in Alerts : order'[b][d] = order[b][d]
BY DEF Settled, Executed, Answers

LEMMA SettledSymbols ==
    ASSUME NEW a \in Alerts, NEW c \in Accounts, NEW status \in Answers,
           Settled(a, c, status)
    PROVE  /\ TradedSymbols(c)' =
                IF status = "rejected" THEN TradedSymbols(c)
                ELSE TradedSymbols(c) \cup {order[a][c].symbol}
           /\ \A d \in Accounts : d # c => TradedSymbols(d)' = TradedSymbols(d)
<1>1. order'[a][c].symbol = order[a][c].symbol
  BY DEF Settled
<1>2. \A d \in Accounts : d # c => TradedSymbols(d)' = TradedSymbols(d)
  BY SettledExecuted DEF TradedSymbols, Executed
<1>3. CASE status = "rejected"
  <2>1. Executed(c)' = Executed(c)
    BY <1>3, SettledExecuted
  <2>2. \A b \in Executed(c) : order'[b][c] = order[b][c]
    BY SettledExecuted
  <2>3. TradedSymbols(c)' = TradedSymbols(c)
    BY <2>1, <2>2 DEF TradedSymbols
  <2> QED
    BY <1>2, <1>3, <2>3
<1>4. CASE status # "rejected"
  <2>1. Executed(c)' = Executed(c) \cup {a}
    BY <1>4, SettledExecuted
  <2>2. \A b \in Executed(c) : order'[b][c] = order[b][c]
    BY SettledExecuted
  <2>3. TradedSymbols(c)' = TradedSymbols(c) \cup {order[a][c].symbol}
    BY <1>1, <2>1, <2>2 DEF TradedSymbols
  <2> QED
    BY <1>2, <1>4, <2>3
<1> QED
  BY <1>3, <1>4

(* The limit on positions, with what a cardinality needs. *)
PositionsInv ==
    ~disturbed /\ ~misfiled /\ "max_positions" \in rules =>
        \A c \in Accounts :
            /\ IsFiniteSet(TradedSymbols(c))
            /\ (\A a \in Executed(c) : alert[a].action # "close")
                  => Cardinality(TradedSymbols(c)) <= MaxPositions

LEMMA PositionsStep ==
    ASSUME IInv, Calm, PositionsInv, [HistoryNext]_<<vars, history>>
    PROVE  PositionsInv'
<1> SUFFICES ASSUME ~disturbed', ~misfiled', "max_positions" \in rules',
                    NEW d \in Accounts
             PROVE  /\ IsFiniteSet(TradedSymbols(d)')
                    /\ (\A a \in Executed(d)' : alert'[a].action # "close")
                          => Cardinality(TradedSymbols(d)') <= MaxPositions
  BY DEF PositionsInv
<1>1. /\ "max_positions" \in rules /\ Steady /\ ~misfiled
      /\ \/ Writes
         \/ \E a \in Alerts, c \in Accounts, status \in Answers :
               Settled(a, c, status)
      /\ IsFiniteSet(TradedSymbols(d))
      /\ (\A a \in Executed(d) : alert[a].action # "close")
            => Cardinality(TradedSymbols(d)) <= MaxPositions
  BY Effects DEF PositionsInv
<1>2. CASE Writes
  BY <1>1, <1>2, WritesExecuted
<1>3. ASSUME NEW a \in Alerts, NEW c \in Accounts, NEW status \in Answers,
             Settled(a, c, status)
      PROVE  /\ IsFiniteSet(TradedSymbols(d)')
             /\ (\A b \in Executed(d)' : alert'[b].action # "close")
                   => Cardinality(TradedSymbols(d)') <= MaxPositions
  <2>1. /\ Settled(a, c, status) /\ alert' = alert
        /\ order[a][c].status = "pending"
    BY <1>3 DEF Settled
  <2>2. CASE d # c \/ status = "rejected"
    <3>1. Executed(d)' = Executed(d) /\ TradedSymbols(d)' = TradedSymbols(d)
      BY <2>1, <2>2, SettledExecuted, SettledSymbols
    <3> QED
      BY <1>1, <2>1, <3>1
  <2>3. CASE d = c /\ status # "rejected"
    <3>1. /\ Executed(d)' = Executed(d) \cup {a}
          /\ TradedSymbols(d)' = TradedSymbols(d) \cup {order[a][c].symbol}
      BY <2>1, <2>3, SettledExecuted, SettledSymbols
    <3>2. IsFiniteSet(TradedSymbols(d)')
      BY <1>1, <3>1, FS_AddElement
    <3>3. ASSUME \A b \in Executed(d)' : alert'[b].action # "close"
          PROVE  Cardinality(TradedSymbols(d)') <= MaxPositions
      <4>1. alert[a].action # "close"
        BY <2>1, <3>1, <3>3
      <4>2. "max_positions" \in rules \cap Standing
        BY <1>1 DEF Standing
      <4>3. EvaluateRule("max_positions", alert[a], c)
        BY <1>1, <2>1, <4>2 DEF Steady, OrderPasses
      <4>4. c # None
        BY TradeRulesAssumption DEF TradeRulesAssumption
      <4>5. Cardinality(TradedSymbols(d)) < MaxPositions
        BY <2>3, <4>1, <4>3, <4>4, StandingRules DEF CheckMaxPositions
      <4>6. /\ Cardinality(TradedSymbols(d)') <= Cardinality(TradedSymbols(d)) + 1
            /\ Cardinality(TradedSymbols(d)) \in Nat
            /\ Cardinality(TradedSymbols(d)') \in Nat
        <5>1. PICK T, U, s : /\ T = TradedSymbols(d) /\ U = TradedSymbols(d)'
                             /\ s = order[a][c].symbol
          OBVIOUS
        <5>2. IsFiniteSet(T) /\ IsFiniteSet(U) /\ U = T \cup {s}
          BY <1>1, <3>1, <3>2, <5>1
        <5>3. Cardinality(T) \in Nat /\ Cardinality(U) \in Nat
          BY <5>2, FS_CardinalityType
        <5>4. Cardinality(U) = Cardinality(T) \/ Cardinality(U) = Cardinality(T) + 1
          BY <5>2, FS_AddElement
        <5> QED
          BY <5>1, <5>3, <5>4
      <4>7. MaxPositions \in Nat
        BY TradeRulesAssumption DEF TradeRulesAssumption
      <4> QED
        BY <4>5, <4>6, <4>7
    <3> QED
      BY <3>2, <3>3
  <2> QED
    BY <2>2, <2>3
<1> QED
  BY <1>1, <1>2, <1>3

(* While trades do not disturb each other, an account that is only ever     *)
(* bought and sold for trades at most MaxPositions symbols                  *)
(* (PositionsWithinLimit).                                                  *)
THEOREM PositionsWithinLimitHolds == HistorySpec => []PositionsWithinLimit
<1>1. HistoryInit => PositionsInv
  <2> SUFFICES ASSUME HistoryInit PROVE PositionsInv
    OBVIOUS
  <2>1. \A c \in Accounts : TradedSymbols(c) = {}
    BY DEF HistoryInit, Init, TradedSymbols, Executed, NoOrder
  <2>2. IsFiniteSet({}) /\ Cardinality({}) = 0
    BY FS_EmptySet
  <2>3. 0 <= MaxPositions
    BY TradeRulesAssumption DEF TradeRulesAssumption
  <2> QED
    BY <2>1, <2>2, <2>3 DEF PositionsInv
<1>2. IInv /\ Calm /\ PositionsInv /\ [HistoryNext]_<<vars, history>>
         => PositionsInv'
  BY PositionsStep
<1>3. PositionsInv => PositionsWithinLimit
  BY DEF PositionsInv, PositionsWithinLimit
<1> QED
  BY <1>1, <1>2, <1>3, HistoryInvariance, PTL DEF HistorySpec

-----------------------------------------------------------------------------
(* What an answer adds to the sides that were filled. *)
LEMMA SettledSides ==
    ASSUME NEW a \in Alerts, NEW c \in Accounts, NEW status \in Answers,
           Settled(a, c, status)
    PROVE  /\ \A d \in Accounts : \A s, side :
                 d # c \/ status # "filled" =>
                    (HasFilled(d, s, side)' <=> HasFilled(d, s, side))
           /\ \A s, side : HasFilled(c, s, side)' =>
                 \/ HasFilled(c, s, side)
                 \/ s = order[a][c].symbol /\ side = order[a][c].side
<1>1. /\ order'[a][c].status = status /\ order[a][c].status = "pending"
      /\ order'[a][c].symbol = order[a][c].symbol
      /\ order'[a][c].side = order[a][c].side
      /\ \A b \in Alerts, d \in Accounts :
            b # a \/ d # c => order'[b][d] = order[b][d]
  BY DEF Settled
<1>2. ASSUME NEW d \in Accounts, NEW s, NEW side, d # c \/ status # "filled"
      PROVE  HasFilled(d, s, side)' <=> HasFilled(d, s, side)
  <2>1. ASSUME NEW b \in Alerts
        PROVE  order'[b][d] = order[b][d]
               \/ (order'[b][d].status # "filled" /\ order[b][d].status # "filled")
    BY <1>1, <1>2
  <2> QED
    BY <2>1 DEF HasFilled
<1>3. ASSUME NEW s, NEW side, HasFilled(c, s, side)'
      PROVE  \/ HasFilled(c, s, side)
             \/ s = order[a][c].symbol /\ side = order[a][c].side
  <2>1. PICK b \in Alerts : /\ order'[b][c].status = "filled"
                            /\ order'[b][c].symbol = s
                            /\ order'[b][c].side = side
    BY <1>3 DEF HasFilled
  <2>2. CASE b = a
    BY <1>1, <2>1, <2>2
  <2>3. CASE b # a
    BY <1>1, <2>1, <2>3 DEF HasFilled
  <2> QED
    BY <2>2, <2>3
<1> QED
  BY <1>2, <1>3

(* The account has filled whole orders only, and closed none. *)
Plain(c) == \A a \in Executed(c) : /\ order[a][c].status = "filled"
                                   /\ alert[a].action # "close"

BothSides(c, s) == HasFilled(c, s, "buy") /\ HasFilled(c, s, "sell")

LEMMA OneSidedStep ==
    ASSUME IInv, Calm, FromSignal, OneSided, [HistoryNext]_<<vars, history>>
    PROVE  OneSided'
<1> SUFFICES ASSUME ~disturbed', ~misfiled', "conflicting_position" \in rules',
                    NEW d \in Accounts, NEW s \in Symbols, Plain(d)'
             PROVE  ~BothSides(d, s)'
  BY DEF OneSided, Plain, BothSides
<1>1. /\ "conflicting_position" \in rules /\ ~disturbed /\ ~misfiled /\ Steady
      /\ \/ Writes
         \/ \E a \in Alerts, c \in Accounts, status \in Answers :
               Settled(a, c, status)
  BY Effects
<1>2. Plain(d) => ~BothSides(d, s)
  BY <1>1 DEF OneSided, Plain, BothSides
<1>3. CASE Writes
  <2>1. /\ Executed(d)' = Executed(d)
        /\ \A b \in Executed(d) : /\ order'[b][d] = order[b][d]
                                  /\ alert'[b] = alert[b]
    BY <1>3, WritesExecuted
  <2>2. \A side : HasFilled(d, s, side)' <=> HasFilled(d, s, side)
    BY <1>3, WritesExecuted
  <2>3. Plain(d)
    BY <2>1 DEF Plain
  <2> QED
    BY <1>2, <2>2, <2>3 DEF BothSides
<1>4. ASSUME NEW a \in Alerts, NEW c \in Accounts, NEW status \in Answers,
             Settled(a, c, status)
      PROVE  ~BothSides(d, s)'
  <2>1. /\ Settled(a, c, status) /\ alert' = alert
        /\ order[a][c].status = "pending" /\ order'[a][c].status = status
    BY <1>4 DEF Settled
  <2>2. Plain(d)
    <3>1. \A b \in Executed(d) : b \in Executed(d)' /\ order'[b][d] = order[b][d]
      BY <2>1, SettledExecuted DEF Executed
    <3> QED
      BY <2>1, <3>1 DEF Plain
  <2>3. CASE d # c \/ status # "filled"
    <3>1. \A side : HasFilled(d, s, side)' <=> HasFilled(d, s, side)
      BY <2>1, <2>3, SettledSides
    <3> QED
      BY <1>2, <2>2, <3>1 DEF BothSides
  <2>4. CASE d = c /\ status = "filled"
    <3>1. a \in Executed(c)'
      BY <2>1, <2>4, SettledExecuted
    <3>2. alert[a].action # "close"
      BY <2>1, <2>4, <3>1 DEF Plain
    <3>3. "conflicting_position" \in rules \cap Standing /\ c # None
      BY <1>1, TradeRulesAssumption DEF Standing, TradeRulesAssumption
    <3>4. EvaluateRule("conflicting_position", alert[a], c)
      BY <1>1, <2>1, <3>3 DEF Steady, OrderPasses
    <3>5. ~HasFilled(c, alert[a].symbol,
                     IF alert[a].action = "buy" THEN "sell" ELSE "buy")
      BY <3>2, <3>3, <3>4, StandingRules DEF CheckConflictingPosition
    <3>6. /\ order[a][c].symbol = alert[a].symbol
          /\ order[a][c].side = IF alert[a].action = "buy" THEN "buy" ELSE "sell"
      BY <2>1 DEF FromSignal, NoOrder, GetOrderSide
    <3>7. ~BothSides(c, s)
      BY <1>2, <2>2, <2>4
    <3>8. SUFFICES ASSUME HasFilled(c, s, "buy")', HasFilled(c, s, "sell")'
                   PROVE  FALSE
      BY <2>4 DEF BothSides
    <3>9. /\ \/ HasFilled(c, s, "buy")
             \/ s = order[a][c].symbol /\ "buy" = order[a][c].side
          /\ \/ HasFilled(c, s, "sell")
             \/ s = order[a][c].symbol /\ "sell" = order[a][c].side
      BY <2>1, <3>8, SettledSides
    <3> QED
      BY <3>5, <3>6, <3>7, <3>9 DEF BothSides
  <2> QED
    BY <2>3, <2>4
<1> QED
  BY <1>1, <1>3, <1>4

(* While trades do not disturb each other, a symbol is bought or sold for   *)
(* an account, not both, unless a close or a partial fill comes between     *)
(* (OneSided).                                                              *)
THEOREM OneSidedHolds == HistorySpec => []OneSided
<1>1. HistoryInit => OneSided
  BY DEF HistoryInit, Init, OneSided, HasFilled, NoOrder
<1>2. IInv /\ Calm /\ FromSignal /\ OneSided /\ [HistoryNext]_<<vars, history>>
         => OneSided'
  BY OneSidedStep
<1> QED
  BY <1>1, <1>2, HistoryInvariance, PTL DEF HistorySpec

(***************************************************************************)
(* The loss limit.  What the books say is stated of cash, what was executed  *)
(* of balance; between them lie what is not stored yet and what went        *)
(* astray, of LargestOrder at most each (SpendInv).                         *)
(***************************************************************************)
LEMMA Times ==
    ASSUME NEW n \in Nat, NEW l \in Nat
    PROVE  /\ n * l \in Nat
           /\ (n + 1) * l = n * l + l
           /\ (1 + n) * l = n * l + l
           /\ 0 * l = 0 /\ 1 * l = l
OBVIOUS

Held(c) == balance[c] + astray[c] * LargestOrder

SpendInv ==
    "daily_loss_limit" \in rules /\ ~disturbed =>
        \A c \in Accounts :
            /\ cash[c] >= -(MaxLoss + LargestOrder)
            /\ balance[c] \in Int /\ astray[c] \in Nat
            /\ (\A a \in Alerts : <<a, c>> \notin unrecorded) => Held(c) >= cash[c]
            /\ \A a \in Alerts : <<a, c>> \in unrecorded =>
                  Held(c) >= cash[c] + Proceeds(order[a][c])

(* What a step does to the books of an account.                             *)
Unmoved(c) ==
    /\ cash'[c] = cash[c] /\ balance'[c] = balance[c] /\ astray'[c] = astray[c]
    /\ \A a \in Alerts : /\ <<a, c>> \in unrecorded' <=> <<a, c>> \in unrecorded
                         /\ <<a, c>> \in unrecorded => order'[a][c] = order[a][c]

Dawns(c) ==
    /\ cash'[c] = 0 /\ balance'[c] = 0
    /\ astray'[c] = IF \E a \in Alerts : <<a, c>> \in unrecorded THEN 1 ELSE 0
    /\ UNCHANGED <<unrecorded, order>>

Fills(a, c) ==
    /\ order[a][c].status = "pending"
    /\ order'[a][c] \in OrderType /\ order'[a][c].quantity = order[a][c].quantity
    /\ unrecorded' = unrecorded \cup {<<a, c>>}
    /\ cash'[c] = cash[c] /\ astray'[c] = astray[c]
    /\ balance'[c] = balance[c] + Proceeds(order'[a][c])

Stores(a, c) ==
    /\ <<a, c>> \in unrecorded /\ unrecorded' = unrecorded \ {<<a, c>>}
    /\ cash'[c] = cash[c] + Proceeds(order[a][c])
    /\ balance'[c] = balance[c] /\ astray'[c] = astray[c]

Drops(a, c) ==
    /\ <<a, c>> \in unrecorded /\ unrecorded' = unrecorded \ {<<a, c>>}
    /\ cash'[c] = cash[c] /\ balance'[c] = balance[c]
    /\ astray'[c] = astray[c] + 1

(* When the history counts nothing.                                         *)
LEMMA ExecutesStatus ==
    ASSUME TypeOK, NEW a \in Alerts, NEW c \in Accounts, Executes(a, c)
    PROVE  /\ order[a][c].status = "pending"
           /\ order'[a][c].status \in {"filled", "partially_filled"}
           /\ UNCHANGED <<moves, faults>>
<1>1. PICK status \in Answers : UpdateOrder(a, c, status) /\ status # "rejected"
  BY DEF Executes, Fill, FillPartially, Answers
<1>2. Restating(a, c, status)
  BY <1>1 DEF UpdateOrder, Restating, NoOrder
<1>3. order'[a][c].status = status
  <2>1. OnlyStatus(a, c, status)
    BY <1>2, Restated
  <2> QED
    BY <2>1 DEF OnlyStatus
<1> QED
  BY <1>1, <1>3 DEF UpdateOrder, Answers

LEMMA NotNewDay ==
    ASSUME TypeOK, moves' = moves
    PROVE  ~NewDay
BY DEF NewDay, Tick, TypeOK

LEMMA NotLost ==
    ASSUME TypeOK, faults' = faults, NEW c \in Accounts
    PROVE  ~Loses(c)
<1>1. faults \in Nat
  BY DEF TypeOK
<1>2. ASSUME NEW a, NEW status, LoseExecution(a, c, status)
      PROVE  FALSE
  <2>1. faults' = faults - 1
    BY <1>2 DEF LoseExecution
  <2> QED
    BY <1>1, <2>1
<1> QED
  BY <1>2 DEF Loses

LEMMA Uncounted ==
    ASSUME TypeOK, Count, "daily_loss_limit" \in rules, ~disturbed',
           ~NewDay, faults' = faults, NEW c \in Accounts,
           \A a \in Alerts : ~Executes(a, c)
    PROVE  balance'[c] = balance[c] /\ astray'[c] = astray[c]
<1>1. ~Loses(c)
  BY NotLost
<1> QED
  BY <1>1 DEF Count

(* A step of a run, an answer that executes nothing, or the operator's.     *)
Idles ==
    \A a \in Alerts, c \in Accounts :
        \/ order'[a][c] = order[a][c]
        \/ order[a][c] = NoOrder /\ order'[a][c].status = "pending"
        \/ order[a][c].status = "pending" /\ order'[a][c].status = "rejected"

LEMMA UnmovedStep ==
    ASSUME IInv, Steady, Covered, Count, "daily_loss_limit" \in rules, ~disturbed',
           ~NewDay, UNCHANGED <<cash, unrecorded, faults>>, Idles,
           NEW d \in Accounts
    PROVE  Unmoved(d)
<1>1. TypeOK
  BY DEF IInv
<1>2. \A a \in Alerts : ~Executes(a, d)
  BY <1>1, ExecutesStatus DEF Idles, NoOrder
<1>3. balance'[d] = balance[d] /\ astray'[d] = astray[d]
  BY <1>1, <1>2, Uncounted
<1>4. \A a \in Alerts : <<a, d>> \in unrecorded => order'[a][d] = order[a][d]
  BY DEF Covered, Idles, NoOrder
<1> QED
  BY <1>3, <1>4 DEF Unmoved

LEMMA FillsStep ==
    ASSUME IInv, Covered, Count, "daily_loss_limit" \in rules, ~disturbed',
           NEW a \in Alerts, NEW c \in Accounts, Executes(a, c), NEW d \in Accounts
    PROVE  Unmoved(d) \/ (d = c /\ Fills(a, c))
<1>1. TypeOK
  BY DEF IInv
<1>2. PICK status \in Answers : UpdateOrder(a, c, status) /\ status # "rejected"
  BY DEF Executes, Fill, FillPartially, Answers
<1>3. Settled(a, c, status) /\ order'[a][c] \in OrderType
  BY <1>1, <1>2, UpdateSettles
<1>4. UNCHANGED <<moves, faults, cash>> /\ ~NewDay
  BY <1>1, <1>2, NotNewDay DEF UpdateOrder
<1>5. ASSUME NEW b \in Alerts, NEW e \in Accounts, Executes(b, e)
      PROVE  b = a /\ e = c
  <2>1. /\ order[b][e].status = "pending"
        /\ order'[b][e].status \in {"filled", "partially_filled"}
    BY <1>1, <1>5, ExecutesStatus
  <2> QED
    BY <1>3, <2>1 DEF Settled
<1>6. CASE d # c
  <2>1. balance'[d] = balance[d] /\ astray'[d] = astray[d]
    BY <1>1, <1>4, <1>5, <1>6, Uncounted
  <2>2. \A b \in Alerts : /\ <<b, d>> \in unrecorded' <=> <<b, d>> \in unrecorded
                          /\ order'[b][d] = order[b][d]
    BY <1>3, <1>6 DEF Settled
  <2> QED
    BY <1>4, <2>1, <2>2 DEF Unmoved
<1>7. CASE d = c
  <2>1. (CHOOSE b \in Alerts : Executes(b, c)) = a
    BY <1>5
  <2>2. \E b \in Alerts : Executes(b, c)
    OBVIOUS
  <2>3. balance'[c] = balance[c] + Proceeds(order'[a][c])
    BY <1>4, <2>1, <2>2 DEF Count
  <2>4. ~Loses(c)
    BY <1>1, <1>4, NotLost
  <2>5. astray'[c] = astray[c]
    BY <1>4, <2>4 DEF Count
  <2> QED
    BY <1>2, <1>3, <1>4, <1>7, <2>3, <2>5 DEF Fills, Settled
<1> QED
  BY <1>6, <1>7

LEMMA StoresStep ==
    ASSUME IInv, Covered, Count, "daily_loss_limit" \in rules, ~disturbed',
           NEW a \in Alerts, NEW c \in Accounts, RecordExecution(a, c),
           NEW d \in Accounts
    PROVE  Unmoved(d) \/ (d = c /\ Stores(a, c))
<1>1. TypeOK
  BY DEF IInv
<1>2. /\ <<a, c>> \in unrecorded /\ unrecorded' = unrecorded \ {<<a, c>>}
      /\ UNCHANGED <<order, moves, faults>>
      /\ cash'[c] = cash[c] + Proceeds(order[a][c])
      /\ \A e \in Accounts : e # c => cash'[e] = cash[e]
  BY <1>1 DEF RecordExecution, TypeOK
<1>3. ~NewDay
  BY <1>1, <1>2, NotNewDay
<1>4. \A b \in Alerts, e \in Accounts : ~Executes(b, e)
  BY <1>1, <1>2, ExecutesStatus
<1>5. balance'[d] = balance[d] /\ astray'[d] = astray[d]
  BY <1>1, <1>2, <1>3, <1>4, Uncounted
<1> QED
  BY <1>2, <1>5 DEF Unmoved, Stores

LEMMA DropsStep ==
    ASSUME IInv, Covered, Count, "daily_loss_limit" \in rules, ~disturbed',
           NEW a \in Alerts, NEW c \in Accounts,
           NEW status \in {order[a][c].status, "pending", "rejected"},
           LoseExecution(a, c, status), NEW d \in Accounts
    PROVE  Unmoved(d) \/ (d = c /\ Drops(a, c))
<1>1. TypeOK /\ UnrecordedOrdered /\ Restating(a, c, status)
  BY Restates DEF IInv
<1>2. /\ <<a, c>> \in unrecorded /\ unrecorded' = unrecorded \ {<<a, c>>}
      /\ UNCHANGED <<cash, moves>> /\ faults' = faults - 1
  BY DEF LoseExecution
<1>3. ~NewDay /\ faults' # faults
  BY <1>1, <1>2, NotNewDay DEF TypeOK
<1>4. \A b \in Alerts, e \in Accounts : ~Executes(b, e)
  BY <1>1, <1>3, ExecutesStatus
<1>5. /\ balance'[d] = balance[d]
      /\ astray'[d] = IF Loses(d) THEN astray[d] + 1 ELSE astray[d]
  BY <1>3, <1>4 DEF Count
<1>6. CASE d = c
  <2>1. status \in OrderStatuses
    BY <1>1, LostStatus
  <2>2. Loses(c)
    BY <2>1 DEF Loses
  <2> QED
    BY <1>2, <1>5, <1>6, <2>2 DEF Drops
<1>7. CASE d # c
  <2>1. ~Loses(d)
    BY <1>2, <1>7 DEF Loses, LoseExecution
  <2>2. \A b \in Alerts : order'[b][d] = order[b][d]
    <3>1. OnlyStatus(a, c, status)
      BY <1>1, Restated
    <3> QED
      BY <1>7, <3>1 DEF OnlyStatus
  <2> QED
    BY <1>2, <1>5, <1>7, <2>1, <2>2 DEF Unmoved
<1> QED
  BY <1>6, <1>7

LEMMA BooksStep ==
    ASSUME IInv, Calm, HistoryNext, ~disturbed', "daily_loss_limit" \in rules,
           NEW d \in Accounts
    PROVE  \/ Unmoved(d) \/ Dawns(d)
           \/ \E a \in Alerts : Fills(a, d) \/ Stores(a, d) \/ Drops(a, d)
<1>1. /\ Next /\ Count /\ TypeOK
      /\ ~disturbed /\ Steady /\ Covered
  BY DEF HistoryNext, IInv, Calm
<1>2. CASE Tick
  <2>1. UNCHANGED <<unrecorded, order, faults>>
    BY <1>2 DEF Tick
  <2>2. CASE clock' = 0
    <3>1. NewDay /\ cash'[d] = 0
      BY <1>2, <2>2 DEF NewDay, Tick
    <3> QED
      BY <1>1, <2>1, <3>1 DEF Count, Dawns
  <2>3. CASE clock' # 0
    <3>1. ~NewDay /\ cash' = cash
      BY <1>2, <2>3 DEF NewDay, Tick
    <3> QED
      BY <1>1, <2>1, <3>1, UnmovedStep DEF Idles
  <2> QED
    BY <2>2, <2>3
<1>3. CASE FlipKillSwitch
  <2>1. /\ UNCHANGED <<cash, unrecorded, order, faults>>
        /\ killSwitch' = ~killSwitch /\ killSwitch \in BOOLEAN
    BY <1>1, <1>3 DEF FlipKillSwitch, TypeOK
  <2>2. ~NewDay
    BY <2>1 DEF NewDay, Tick
  <2> QED
    BY <1>1, <2>1, <2>2, UnmovedStep DEF Idles
<1>4. ASSUME UNCHANGED <<cash, unrecorded, order, faults, moves>>
      PROVE  Unmoved(d)
  <2>1. ~NewDay
    BY <1>1, <1>4, NotNewDay
  <2> QED
    BY <1>1, <1>4, <2>1, UnmovedStep DEF Idles
<1>5. ASSUME NEW w \in Workers, NEW c \in Accounts, CopyToAccount(w, c)
      PROVE  Unmoved(d)
  <2>1. UNCHANGED <<cash, unrecorded, faults, moves>>
    BY <1>5 DEF CopyToAccount
  <2>2. \A e \in Accounts : KeptOrders(e)
    BY <1>1, <1>5, CopyKept DEF Kept
  <2>3. ~NewDay
    BY <1>1, <2>1, NotNewDay
  <2>4. Idles
    BY <2>2 DEF Idles, KeptOrders
  <2> QED
    BY <1>1, <2>1, <2>3, <2>4, UnmovedStep
<1>6. ASSUME NEW a \in Alerts, NEW c \in Accounts, Reject(a, c)
      PROVE  Unmoved(d)
  <2>1. UpdateOrder(a, c, "rejected") /\ "rejected" \in Answers
    BY <1>6 DEF Reject, Answers
  <2>2. Settled(a, c, "rejected")
    BY <1>1, <2>1, UpdateSettles
  <2>3. UNCHANGED <<cash, unrecorded, faults, moves>>
    BY <2>1, <2>2 DEF UpdateOrder
  <2>4. ~NewDay
    BY <1>1, <2>3, NotNewDay
  <2>5. Idles
    BY <2>2 DEF Idles, Settled
  <2> QED
    BY <1>1, <2>3, <2>4, <2>5, UnmovedStep
<1>7. ASSUME NEW a \in Alerts, NEW c \in Accounts, Fill(a, c) \/ FillPartially(a, c)
      PROVE  Unmoved(d) \/ Fills(a, d)
  BY <1>1, <1>7, FillsStep DEF Executes
<1>8. ASSUME NEW a \in Alerts, NEW c \in Accounts, RecordExecution(a, c)
      PROVE  Unmoved(d) \/ Stores(a, d)
  BY <1>1, <1>8, StoresStep
<1>9. ASSUME NEW a \in Alerts, NEW c \in Accounts,
             NEW status \in {order[a][c].status, "pending", "rejected"},
             LoseExecution(a, c, status)
      PROVE  Unmoved(d) \/ Drops(a, d)
  BY <1>1, <1>9, DropsStep
<1>10. \/ UNCHANGED <<cash, unrecorded, order, faults, moves>>
       \/ Tick \/ FlipKillSwitch
       \/ \E w \in Workers, c \in Accounts : CopyToAccount(w, c)
       \/ \E a \in Alerts, c \in Accounts :
             \/ Fill(a, c) \/ FillPartially(a, c) \/ Reject(a, c)
             \/ RecordExecution(a, c)
             \/ \E status \in {order[a][c].status, "pending", "rejected"} :
                   LoseExecution(a, c, status)
  BY <1>1 DEF Next, Take, LoadRules, ApplyRule, AllRulesPass,
     CreateTradeRequest, AccountsChecked, CopyDone, CheckAccount, CooldownEnds, vars
<1> QED
  BY <1>2, <1>3, <1>4, <1>5, <1>6, <1>7, <1>8, <1>9, <1>10

LEMMA OrderSize ==
    ASSUME IInv, NEW a \in Alerts, NEW c \in Accounts, order[a][c] # NoOrder
    PROVE  /\ order[a][c] \in OrderType
           /\ Proceeds(order[a][c]) \in Int
           /\ order[a][c].quantity <= LargestOrder
           /\ -LargestOrder <= Proceeds(order[a][c])
           /\ Proceeds(order[a][c]) <= LargestOrder
<1>1. order[a][c] \in OrderType /\ order[a][c].quantity \in 1..AccountLimit
  BY DEF IInv, TypeOK, OrdersWithinLimits
<1>2. /\ LargestOrder \in Nat /\ AccountLimit \in Int /\ AccountLimit <= LargestOrder
  BY TradeRulesAssumption DEF TradeRulesAssumption, LargestOrder
<1>3. PICK p \in Int, q \in Nat : p = Proceeds(order[a][c]) /\ q = order[a][c].quantity
  BY <1>1, ProceedsBound DEF OrderType
<1>4. -q <= p /\ p <= q /\ q <= LargestOrder
  BY <1>1, <1>2, <1>3, ProceedsBound
<1> QED
  BY <1>1, <1>2, <1>3, <1>4

LEMMA SpendStep ==
    ASSUME IInv, Calm, SpendInv, [HistoryNext]_<<vars, history>>
    PROVE  SpendInv'
<1> DEFINE L == LargestOrder
<1> SUFFICES ASSUME ~disturbed', "daily_loss_limit" \in rules', NEW d \in Accounts
             PROVE  /\ cash'[d] >= -(MaxLoss + L)
                    /\ balance'[d] \in Int /\ astray'[d] \in Nat
                    /\ (\A a \in Alerts : <<a, d>> \notin unrecorded')
                          => balance'[d] + astray'[d] * L >= cash'[d]
                    /\ \A a \in Alerts : <<a, d>> \in unrecorded' =>
                          balance'[d] + astray'[d] * L
                             >= cash'[d] + Proceeds(order'[a][d])
  BY DEF SpendInv, Held, LargestOrder
<1>1. /\ "daily_loss_limit" \in rules /\ ~disturbed /\ Steady /\ Covered
      /\ TypeOK /\ UnrecordedOrdered
  BY Effects DEF IInv
<1>2. MaxLoss \in Nat /\ L \in Nat
  BY TradeRulesAssumption DEF TradeRulesAssumption, LargestOrder
<1>3. /\ cash[d] \in Int /\ cash[d] >= -(MaxLoss + L)
      /\ balance[d] \in Int /\ astray[d] \in Nat
      /\ (\A a \in Alerts : <<a, d>> \notin unrecorded)
            => balance[d] + astray[d] * L >= cash[d]
      /\ \A a \in Alerts : <<a, d>> \in unrecorded =>
            balance[d] + astray[d] * L >= cash[d] + Proceeds(order[a][d])
  BY <1>1 DEF SpendInv, Held, TypeOK
<1>4. /\ astray[d] * L \in Nat /\ (astray[d] + 1) * L = astray[d] * L + L
      /\ 0 * L = 0 /\ 1 * L = L
  BY <1>2, <1>3, Times
<1>5. \A a, b \in Alerts : <<a, d>> \in unrecorded /\ Pending(b) => a = b
  BY <1>1 DEF Steady, OnePending, Pending
<1>6. \A a \in Alerts : <<a, d>> \in unrecorded =>
         /\ order[a][d] # NoOrder /\ cash[d] >= -MaxLoss
         /\ Proceeds(order[a][d]) \in Int
         /\ -L <= Proceeds(order[a][d]) /\ Proceeds(order[a][d]) <= L
  <2> SUFFICES ASSUME NEW a \in Alerts, <<a, d>> \in unrecorded
               PROVE  /\ order[a][d] # NoOrder /\ cash[d] >= -MaxLoss
                      /\ Proceeds(order[a][d]) \in Int
                      /\ -L <= Proceeds(order[a][d]) /\ Proceeds(order[a][d]) <= L
    OBVIOUS
  <2>1. order[a][d] # NoOrder /\ CheckDailyLossLimit(d) /\ d # None
    BY <1>1, TradeRulesAssumption
       DEF UnrecordedOrdered, Covered, TradeRulesAssumption
  <2> QED
    BY <2>1, OrderSize DEF CheckDailyLossLimit
<1>7. CASE Unmoved(d)
  BY <1>3, <1>7 DEF Unmoved
<1>8. CASE Dawns(d)
  <2>1. /\ cash'[d] = 0 /\ balance'[d] = 0
        /\ astray'[d] = IF \E a \in Alerts : <<a, d>> \in unrecorded THEN 1 ELSE 0
        /\ UNCHANGED <<unrecorded, order>>
    BY <1>8 DEF Dawns
  <2>2. CASE \E a \in Alerts : <<a, d>> \in unrecorded
    <3>1. balance'[d] + astray'[d] * L = L
      BY <1>2, <1>4, <2>1, <2>2
    <3>2. ASSUME NEW a \in Alerts, <<a, d>> \in unrecorded
          PROVE  L >= 0 + Proceeds(order[a][d])
      BY <1>2, <1>6, <3>2
    <3>3. astray'[d] = 1 /\ 0 >= -(MaxLoss + L)
      BY <1>2, <2>1, <2>2
    <3> QED
      BY <2>1, <2>2, <3>1, <3>2, <3>3
  <2>3. CASE ~\E a \in Alerts : <<a, d>> \in unrecorded
    <3>1. balance'[d] + astray'[d] * L = 0
      BY <1>2, <1>4, <2>1, <2>3
    <3> QED
      BY <1>2, <2>1, <2>3, <3>1
  <2> QED
    BY <2>2, <2>3
<1>9. ASSUME NEW a \in Alerts, Fills(a, d)
      PROVE  /\ cash'[d] >= -(MaxLoss + L)
             /\ balance'[d] \in Int /\ astray'[d] \in Nat
             /\ (\A b \in Alerts : <<b, d>> \notin unrecorded')
                   => balance'[d] + astray'[d] * L >= cash'[d]
             /\ \A b \in Alerts : <<b, d>> \in unrecorded' =>
                   balance'[d] + astray'[d] * L >= cash'[d] + Proceeds(order'[b][d])
  <2>1. /\ order[a][d].status = "pending" /\ order'[a][d] \in OrderType
        /\ unrecorded' = unrecorded \cup {<<a, d>>}
        /\ cash'[d] = cash[d] /\ astray'[d] = astray[d]
        /\ balance'[d] = balance[d] + Proceeds(order'[a][d])
    BY <1>9 DEF Fills
  <2>2. Pending(a) /\ order[a][d].status \notin {"filled", "partially_filled"}
    BY <2>1 DEF Pending
  <2>3. \A b \in Alerts : <<b, d>> \notin unrecorded
    BY <1>1, <1>5, <2>2 DEF Covered
  <2>4. \A b \in Alerts : <<b, d>> \in unrecorded' => b = a
    BY <2>1, <2>3
  <2>5. Proceeds(order'[a][d]) \in Int
    BY <2>1, ProceedsBound
  <2>6. balance[d] + astray[d] * L >= cash[d]
    BY <1>3, <2>3
  <2>7. PICK h \in Nat : h = astray[d] * L
    BY <1>4
  <2>8. PICK p \in Int : p = Proceeds(order'[a][d])
    BY <2>5
  <2>9. balance'[d] + astray'[d] * L >= cash'[d] + Proceeds(order'[a][d])
    <3>1. astray'[d] * L = h
      BY <2>1, <2>7
    <3>2. balance[d] + h >= cash[d]
      BY <2>6, <2>7
    <3>3. balance'[d] = balance[d] + p /\ cash'[d] = cash[d]
      BY <2>1, <2>8
    <3>4. (balance[d] + p) + h >= cash[d] + p
      BY <1>3, <2>7, <2>8, <3>2
    <3> QED
      BY <2>8, <3>1, <3>3, <3>4
  <2>10. <<a, d>> \in unrecorded'
    BY <2>1
  <2>11. cash'[d] >= -(MaxLoss + L) /\ balance'[d] \in Int /\ astray'[d] \in Nat
    BY <1>3, <2>1, <2>5
  <2>12. \A b \in Alerts : <<b, d>> \in unrecorded' =>
            balance'[d] + astray'[d] * L >= cash'[d] + Proceeds(order'[b][d])
    <3> SUFFICES ASSUME NEW b \in Alerts, <<b, d>> \in unrecorded'
                 PROVE  balance'[d] + astray'[d] * L
                          >= cash'[d] + Proceeds(order'[b][d])
      OBVIOUS
    <3>1. b = a
      BY <2>4
    <3> QED
      BY <2>9, <3>1
  <2> HIDE DEF L
  <2> QED
    BY <2>10, <2>11, <2>12
<1>10. ASSUME NEW a \in Alerts, Stores(a, d)
       PROVE  /\ cash'[d] >= -(MaxLoss + L)
              /\ balance'[d] \in Int /\ astray'[d] \in Nat
              /\ (\A b \in Alerts : <<b, d>> \notin unrecorded')
                    => balance'[d] + astray'[d] * L >= cash'[d]
              /\ \A b \in Alerts : <<b, d>> \in unrecorded' =>
                    balance'[d] + astray'[d] * L >= cash'[d] + Proceeds(order'[b][d])
  <2>1. /\ <<a, d>> \in unrecorded /\ unrecorded' = unrecorded \ {<<a, d>>}
        /\ cash'[d] = cash[d] + Proceeds(order[a][d])
        /\ balance'[d] = balance[d] /\ astray'[d] = astray[d]
    BY <1>10 DEF Stores
  <2>2. Pending(a)
    BY <2>1 DEF Pending
  <2>3. \A b \in Alerts : <<b, d>> \notin unrecorded'
    BY <1>5, <2>1, <2>2
  <2> QED
    BY <1>2, <1>3, <1>4, <1>6, <2>1, <2>3
<1>11. ASSUME NEW a \in Alerts, Drops(a, d)
       PROVE  /\ cash'[d] >= -(MaxLoss + L)
              /\ balance'[d] \in Int /\ astray'[d] \in Nat
              /\ (\A b \in Alerts : <<b, d>> \notin unrecorded')
                    => balance'[d] + astray'[d] * L >= cash'[d]
              /\ \A b \in Alerts : <<b, d>> \in unrecorded' =>
                    balance'[d] + astray'[d] * L >= cash'[d] + Proceeds(order'[b][d])
  <2>1. /\ <<a, d>> \in unrecorded /\ unrecorded' = unrecorded \ {<<a, d>>}
        /\ cash'[d] = cash[d] /\ balance'[d] = balance[d]
        /\ astray'[d] = astray[d] + 1
    BY <1>11 DEF Drops
  <2>2. Pending(a)
    BY <2>1 DEF Pending
  <2>3. \A b \in Alerts : <<b, d>> \notin unrecorded'
    BY <1>5, <2>1, <2>2
  <2>4. astray'[d] * L = astray[d] * L + L
    BY <1>4, <2>1
  <2> QED
    BY <1>2, <1>3, <1>4, <1>6, <2>1, <2>3, <2>4
<1>12. CASE UNCHANGED <<vars, history>>
  <2>1. Unmoved(d)
    BY <1>12 DEF vars, history, Unmoved
  <2> QED
    BY <1>7, <2>1
<1>13. CASE HistoryNext
  BY <1>1, <1>7, <1>8, <1>9, <1>10, <1>11, <1>13, BooksStep
<1> QED
  BY <1>12, <1>13

(* While trades do not disturb each other, the purchases of a day exceed    *)
(* its sales by no more than MaxLoss, one order, and one more for every     *)
(* execution that went astray, however statements fail between the order's  *)
(* status and its execution (SpendBounded).                                 *)
THEOREM SpendBoundedHolds == HistorySpec => []SpendBounded
<1>1. HistoryInit => SpendInv
  <2> SUFFICES ASSUME HistoryInit PROVE SpendInv
    OBVIOUS
  <2>1. MaxLoss \in Nat /\ LargestOrder \in Nat
    BY TradeRulesAssumption DEF TradeRulesAssumption, LargestOrder
  <2>2. /\ unrecorded = {} /\ cash = [c \in Accounts |-> 0]
        /\ balance = [c \in Accounts |-> 0] /\ astray = [c \in Accounts |-> 0]
    BY DEF HistoryInit, Init
  <2>3. 0 * LargestOrder = 0
    BY <2>1, Times
  <2> QED
    BY <2>1, <2>2, <2>3 DEF SpendInv, Held
<1>2. IInv /\ Calm /\ SpendInv /\ [HistoryNext]_<<vars, history>> => SpendInv'
  BY SpendStep
<1>3. IInv /\ Calm /\ SpendInv => SpendBounded
  <2> SUFFICES ASSUME IInv, Calm, SpendInv, "daily_loss_limit" \in rules,
                      ~disturbed, NEW c \in Accounts
               PROVE  balance[c] >= -(MaxLoss + (1 + astray[c]) * LargestOrder)
    BY DEF SpendBounded
  <2>1. MaxLoss \in Nat /\ LargestOrder \in Nat
    BY TradeRulesAssumption DEF TradeRulesAssumption, LargestOrder
  <2>2. /\ cash[c] \in Int /\ cash[c] >= -(MaxLoss + LargestOrder)
        /\ balance[c] \in Int /\ astray[c] \in Nat
    BY DEF SpendInv, IInv, TypeOK
  <2>3. PICK h \in Nat : /\ h = astray[c] * LargestOrder
                         /\ (1 + astray[c]) * LargestOrder = h + LargestOrder
    BY <2>1, <2>2, Times
  <2>4. CASE \A a \in Alerts : <<a, c>> \notin unrecorded
    <3>1. balance[c] + h >= cash[c]
      BY <2>3, <2>4 DEF SpendInv, Held
    <3> QED
      BY <2>1, <2>2, <2>3, <3>1
  <2>5. ASSUME NEW a \in Alerts, <<a, c>> \in unrecorded
        PROVE  balance[c] >= -(MaxLoss + (1 + astray[c]) * LargestOrder)
    <3>1. /\ order[a][c] # NoOrder /\ CheckDailyLossLimit(c) /\ c # None
      BY <2>5, TradeRulesAssumption
         DEF Calm, Covered, IInv, UnrecordedOrdered, TradeRulesAssumption
    <3>2. cash[c] >= -MaxLoss
      BY <3>1 DEF CheckDailyLossLimit
    <3>3. PICK p \in Int : p = Proceeds(order[a][c]) /\ -LargestOrder <= p
      BY <3>1, OrderSize
    <3>4. balance[c] + h >= cash[c] + p
      BY <2>3, <2>5, <3>3 DEF SpendInv, Held
    <3> QED
      BY <2>1, <2>2, <2>3, <3>2, <3>3, <3>4
  <2> QED
    BY <2>4, <2>5
<1> QED
  BY <1>1, <1>2, <1>3, HistoryInvariance, PTL DEF HistorySpec

-----------------------------------------------------------------------------
(***************************************************************************)
(* The cooldown.  It is evaluated once, before the request exists, and      *)
(* rejects whatever comes with an account.  RequestsSpaced needs that the   *)
(* requests a run compared its signal with are still the only ones when it  *)
(* adds its own (Fresh), that its own is not among them (EarlyNew), and     *)
(* that a request is never taken back from rejected (LateAccepted).         *)
(***************************************************************************)

(* The run is at the check at strategy level. *)
Early(w) == run[w].at \in {"switches", "rule", "create"} /\ run[w].account = None

Requested == \A a \in Alerts : request[a] # "none" => alert[a] # None

NotedRequested == \A i \in 1..Len(recent) : request[recent[i]] # "none"

EarlyNew == \A w \in Workers : Early(w) => request[run[w].alert] = "none"

LateAccepted ==
    \A w \in Workers : run[w].at # "idle" /\ ~Early(w)
                          => request[run[w].alert] = "copying"

CreateEarly == \A w \in Workers : run[w].at = "create" => run[w].account = None

Compared(w) ==
    /\ Early(w)
    /\ \/ run[w].at = "rule" /\ "cooldown" \notin run[w].rules
       \/ run[w].at = "create" /\ run[w].ok

Fresh == \A w \in Workers : Compared(w) => CheckCooldown(SignalOf(w))

Spaced ==
    \A i, j \in 1..Len(recent) :
        (/\ i # j
         /\ request[recent[i]] # "risk_rejected"
         /\ request[recent[j]] # "risk_rejected")
          => alert[recent[i]].symbol # alert[recent[j]].symbol

Cool == /\ Requested /\ NotedRequested /\ EarlyNew /\ LateAccepted
        /\ CreateEarly /\ Fresh /\ Spaced

CoolInv == ~disturbed /\ "cooldown" \in rules => Cool

(* The run of w moved, the requests are what they were. *)
LEMMA RunCool ==
    ASSUME Cool, NEW w \in Workers,
           UNCHANGED <<request, recent, alert>>,
           \A v \in Workers : v # w => run'[v] = run[v],
           run[w].at # "idle", run'[w].at # "idle",
           run'[w].alert = run[w].alert,
           Early(w)' <=> Early(w),
           run'[w].at = "create" => run'[w].account = None,
           Compared(w)' => CheckCooldown(SignalOf(w))
    PROVE  Cool'
<1>1. Requested' /\ NotedRequested' /\ Spaced'
  BY DEF Cool, Requested, NotedRequested, Spaced
<1>2. EarlyNew' /\ LateAccepted'
  <2>1. ASSUME NEW v \in Workers, v # w
        PROVE  Early(v)' <=> Early(v)
    BY <2>1 DEF Early
  <2> QED
    BY <2>1 DEF Cool, EarlyNew, LateAccepted
<1>3. CreateEarly'
  BY DEF Cool, CreateEarly
<1>4. ASSUME NEW v \in Workers, Compared(v)'
      PROVE  CheckCooldown(SignalOf(v))'
  <2>1. CASE v = w
    <3>1. CheckCooldown(SignalOf(w))
      BY <1>4, <2>1
    <3>2. SignalOf(w)' = SignalOf(w)
      BY DEF SignalOf
    <3> QED
      BY <2>1, <3>1, <3>2 DEF CheckCooldown
  <2>2. CASE v # w
    <3>1. Compared(v)
      BY <1>4, <2>2 DEF Compared, Early
    <3>2. CheckCooldown(SignalOf(v))
      BY <3>1 DEF Cool, Fresh
    <3>3. SignalOf(v)' = SignalOf(v)
      BY <2>2 DEF SignalOf
    <3> QED
      BY <3>2, <3>3 DEF CheckCooldown
  <2> QED
    BY <2>1, <2>2
<1>5. Fresh'
  BY <1>4 DEF Fresh
<1> QED
  BY <1>1, <1>2, <1>3, <1>5 DEF Cool

LEMMA VerdictCool ==
    ASSUME TypeOK, Cool, NEW w \in Workers, NEW ok \in BOOLEAN, Verdict(w, ok),
           UNCHANGED <<request, recent, alert>>,
           run[w].at \in {"switches", "rule"},
           ok => run[w].at = "rule" /\ run[w].rules = {}
    PROVE  Cool'
<1>1. /\ \A v \in Workers : v # w => run'[v] = run[v]
      /\ run'[w].at = IF run[w].account = None THEN "create" ELSE "account"
      /\ run'[w].ok = ok
      /\ run'[w].alert = run[w].alert
      /\ run'[w].account = run[w].account
  BY VerdictType
<1>2. Early(w)' <=> Early(w)
  BY <1>1 DEF Early
<1>3. Compared(w)' => Compared(w)
  BY <1>1, <1>2 DEF Compared
<1> QED
  BY <1>1, <1>2, <1>3, RunCool DEF Cool, Fresh

LEMMA CheckCool ==
    ASSUME TypeOK, Cool, "cooldown" \in rules, NEW w \in Workers,
           \/ LoadRules(w) \/ ApplyRule(w) \/ AllRulesPass(w)
           \/ \E c \in Accounts : CheckAccount(w, c) \/ CopyToAccount(w, c)
    PROVE  Cool'
<1>0. /\ UNCHANGED <<rules, request, recent, alert>>
      /\ run \in [Workers -> RunType] /\ run[w] \in RunType
  BY DEF LoadRules, ApplyRule, AllRulesPass, CheckAccount, CopyToAccount, TypeOK
<1>1. CASE LoadRules(w)
  <2>1. CASE killSwitch
    BY <1>0, <1>1, <2>1, VerdictCool DEF LoadRules
  <2>2. CASE ~killSwitch
    <3>1. /\ \A v \in Workers : v # w => run'[v] = run[v]
          /\ run'[w].at = "rule" /\ run'[w].rules = rules
          /\ run'[w].alert = run[w].alert /\ run'[w].account = run[w].account
          /\ run[w].at = "switches"
      BY <1>0, <1>1, <2>2 DEF LoadRules, RunType
    <3>2. (Early(w)' <=> Early(w)) /\ ~Compared(w)'
      BY <3>1 DEF Early, Compared
    <3> QED
      BY <1>0, <3>1, <3>2, RunCool
  <2> QED
    BY <2>1, <2>2
<1>2. CASE ApplyRule(w)
  <2> DEFINE rule == NextRule(run[w].rules)
             k == run[w].account
  <2>1. CASE Verdict(w, FALSE)
    BY <1>0, <1>2, <2>1, VerdictCool DEF ApplyRule
  <2>2. CASE /\ ~Throws(rule, k) /\ EvaluateRule(rule, SignalOf(w), k)
             /\ run' = [run EXCEPT ![w].rules = @ \ {rule}]
    <3>1. /\ \A v \in Workers : v # w => run'[v] = run[v]
          /\ run'[w].at = "rule" /\ run'[w].rules = run[w].rules \ {rule}
          /\ run'[w].alert = run[w].alert /\ run'[w].account = k
          /\ run[w].at = "rule"
      BY <1>0, <1>2, <2>2 DEF ApplyRule, RunType
    <3>2. Early(w)' <=> Early(w)
      BY <3>1 DEF Early
    <3>3. rule = "cooldown" => CheckCooldown(SignalOf(w))
      BY <2>2 DEF EvaluateRule
    <3>4. Compared(w)' => CheckCooldown(SignalOf(w))
      BY <3>1, <3>2, <3>3 DEF Compared, Cool, Fresh
    <3> QED
      BY <1>0, <3>1, <3>2, <3>4, RunCool
  <2> QED
    BY <1>2, <2>1, <2>2 DEF ApplyRule
<1>3. CASE AllRulesPass(w)
  BY <1>0, <1>3, VerdictCool DEF AllRulesPass
<1>4. ASSUME NEW c \in Accounts, CheckAccount(w, c)
      PROVE  Cool'
  <2>1. /\ \A v \in Workers : v # w => run'[v] = run[v]
        /\ run'[w].at = "switches" /\ run'[w].account = c
        /\ run'[w].alert = run[w].alert /\ run[w].at = "account"
    BY <1>0, <1>4 DEF CheckAccount, RunType
  <2>2. c # None
    BY TradeRulesAssumption DEF TradeRulesAssumption
  <2>3. (Early(w)' <=> Early(w)) /\ ~Compared(w)'
    BY <2>1, <2>2 DEF Early, Compared
  <2> QED
    BY <1>0, <2>1, <2>3, RunCool
<1>5. ASSUME NEW c \in Accounts, CopyToAccount(w, c)
      PROVE  Cool'
  <2>1. /\ \A v \in Workers : v # w => run'[v] = run[v]
        /\ run'[w].at = "copy" /\ run[w].at = "copy"
        /\ run'[w].alert = run[w].alert
    BY <1>0, <1>5 DEF CopyToAccount, RunType
  <2>2. (Early(w)' <=> Early(w)) /\ ~Compared(w)'
    BY <2>1 DEF Early, Compared
  <2> QED
    BY <1>0, <2>1, <2>2, RunCool
<1> QED
  BY <1>1, <1>2, <1>3, <1>4, <1>5

LEMMA CreateCool ==
    ASSUME IInv, Cool, ~Overlap, NEW w \in Workers, CreateTradeRequest(w)
    PROVE  Cool'
<1>1. PICK a \in Alerts : a = run[w].alert
  BY DEF CreateTradeRequest, IInv, CarriesSignal
<1>2. /\ run[w].at = "create" /\ alert[a] # None /\ alert' = alert
      /\ run \in [Workers -> RunType]
      /\ request \in [Alerts -> {"none", "risk_rejected", "copying",
                                 "completed", "failed"}]
      /\ recent \in Seq(Alerts)
  BY <1>1 DEF CreateTradeRequest, IInv, CarriesSignal, TypeOK
<1>3. Early(w) /\ request[a] = "none"
  BY <1>1, <1>2 DEF Cool, CreateEarly, Early, EarlyNew
<1>4. /\ request'[a] = IF run[w].ok THEN "copying" ELSE "risk_rejected"
      /\ \A b \in Alerts : b # a => request'[b] = request[b]
  BY <1>1, <1>2 DEF CreateTradeRequest
<1>5. PICK n \in Nat : n = Len(recent)
  BY <1>2
<1>6. /\ Len(recent') = n + 1 /\ recent'[n + 1] = a
      /\ \A i \in 1..n : recent'[i] = recent[i] /\ recent[i] \in Alerts
  BY <1>1, <1>2, <1>5 DEF CreateTradeRequest
<1>7. \A i \in 1..n : recent[i] # a
  BY <1>3, <1>5 DEF Cool, NotedRequested
<1>8. /\ \A v \in Workers : v # w => run'[v] = run[v] /\ run'[v].at = "idle"
      /\ run'[w] = IF run[w].ok
                     THEN [Idle EXCEPT !.at = "account", !.alert = a,
                                       !.left = Accounts]
                     ELSE Idle
  BY <1>1, <1>2 DEF CreateTradeRequest, Overlap
<1>9. /\ run[w].ok => run'[w].at = "account" /\ run'[w].alert = a
      /\ ~run[w].ok => run'[w].at = "idle"
  BY <1>8 DEF Idle
<1>10. Requested'
  BY <1>2, <1>4 DEF Cool, Requested
<1>11. NotedRequested'
  <2>1. ASSUME NEW i \in 1..(n + 1) PROVE request'[recent'[i]] # "none"
    <3>1. CASE i = n + 1
      BY <1>4, <1>6, <3>1
    <3>2. CASE i \in 1..n
      BY <1>4, <1>5, <1>6, <1>7, <3>2 DEF Cool, NotedRequested
    <3> QED
      BY <3>1, <3>2
  <2> QED
    BY <1>6, <2>1 DEF NotedRequested
<1>12. EarlyNew' /\ CreateEarly' /\ Fresh'
  <2>1. \A v \in Workers : ~Early(v)' /\ run'[v].at # "create"
    BY <1>8, <1>9 DEF Early
  <2> QED
    BY <2>1 DEF EarlyNew, CreateEarly, Fresh, Compared
<1>13. LateAccepted'
  <2>1. run'[w].at # "idle" => request'[run'[w].alert] = "copying"
    BY <1>4, <1>9
  <2>2. \A v \in Workers : v # w => run'[v].at = "idle"
    BY <1>8
  <2> QED
    BY <2>1, <2>2 DEF LateAccepted
<1>14. run[w].ok => \A i \in 1..n : alert[recent[i]].symbol # alert[a].symbol
  BY <1>1, <1>2, <1>3, <1>5 DEF Cool, Fresh, Compared, CheckCooldown, SignalOf
<1>15. ASSUME NEW i \in 1..(n + 1), NEW j \in 1..(n + 1), i # j,
              request'[recent'[i]] # "risk_rejected",
              request'[recent'[j]] # "risk_rejected"
       PROVE  alert[recent'[i]].symbol # alert[recent'[j]].symbol
  <2>1. CASE i \in 1..n /\ j \in 1..n
    BY <1>4, <1>5, <1>6, <1>7, <1>15, <2>1 DEF Cool, Spaced
  <2>2. CASE i = n + 1
    <3>1. run[w].ok /\ j \in 1..n
      BY <1>4, <1>6, <1>15, <2>2
    <3> QED
      BY <1>6, <1>14, <2>2, <3>1
  <2>3. CASE j = n + 1
    <3>1. run[w].ok /\ i \in 1..n
      BY <1>4, <1>6, <1>15, <2>3
    <3> QED
      BY <1>6, <1>14, <2>3, <3>1
  <2> QED
    BY <2>1, <2>2, <2>3
<1>16. Spaced'
  BY <1>2, <1>6, <1>15 DEF Spaced
<1> QED
  BY <1>10, <1>11, <1>12, <1>13, <1>16 DEF Cool

(* A request that ends was not rejected before. *)
LEMMA EndCool ==
    ASSUME IInv, Cool, ~Overlap, NEW w \in Workers,
           AccountsChecked(w) \/ CopyDone(w)
    PROVE  Cool'
<1>1. PICK a \in Alerts : a = run[w].alert
  BY DEF AccountsChecked, CopyDone, IInv, CarriesSignal
<1>2. /\ run[w].at \in {"account", "copy"} /\ alert[a] # None
      /\ UNCHANGED <<alert, recent>>
      /\ run \in [Workers -> RunType] /\ run[w] \in RunType
      /\ request \in [Alerts -> {"none", "risk_rejected", "copying",
                                 "completed", "failed"}]
      /\ recent \in Seq(Alerts)
  BY <1>1 DEF AccountsChecked, CopyDone, IInv, CarriesSignal, TypeOK
<1>3. request[a] = "copying"
  BY <1>1, <1>2 DEF Cool, LateAccepted, Early
<1>4. /\ \A b \in Alerts : b # a => request'[b] = request[b]
      /\ request'[a] \in {"copying", "completed", "failed"}
  BY <1>1, <1>2, <1>3 DEF AccountsChecked, CopyDone
<1>5. \A v \in Workers : v # w => run'[v] = run[v] /\ run'[v].at = "idle"
  BY <1>2 DEF AccountsChecked, CopyDone, Overlap
<1>6. \/ run'[w].at = "idle"
      \/ run'[w].at = "copy" /\ run'[w].alert = a /\ request' = request
  <2>1. CASE run' = [run EXCEPT ![w] = Idle]
    BY <1>2, <2>1 DEF Idle
  <2>2. CASE /\ run' = [run EXCEPT ![w].at = "copy", ![w].left = Accounts]
             /\ UNCHANGED request
    <3>1. run'[w] = [run[w] EXCEPT !.at = "copy", !.left = Accounts]
      BY <1>2, <2>2
    <3> QED
      BY <1>1, <1>2, <2>2, <3>1 DEF RunType
  <2> QED
    BY <2>1, <2>2 DEF AccountsChecked, CopyDone
<1>7. \A i \in 1..Len(recent) : recent[i] \in Alerts
  BY <1>2
<1>8. Requested' /\ NotedRequested' /\ Spaced'
  BY <1>2, <1>3, <1>4, <1>7 DEF Cool, Requested, NotedRequested, Spaced
<1>9. EarlyNew' /\ CreateEarly' /\ Fresh'
  <2>1. \A v \in Workers : ~Early(v)' /\ run'[v].at # "create"
    BY <1>5, <1>6 DEF Early
  <2> QED
    BY <2>1 DEF EarlyNew, CreateEarly, Fresh, Compared
<1>10. LateAccepted'
  BY <1>3, <1>5, <1>6 DEF LateAccepted
<1> QED
  BY <1>8, <1>9, <1>10 DEF Cool

LEMMA TakeCool ==
    ASSUME IInv, Cool, ~Overlap', NEW w \in Workers, NEW a \in Alerts,
           NEW sig \in Signals, Take(w, a, sig)
    PROVE  Cool'
<1>1. /\ UNCHANGED <<request, recent>>
      /\ alert[a] = None /\ sig # None
      /\ alert' = [alert EXCEPT ![a] = sig]
      /\ alert \in [Alerts -> Signals \cup {None}]
      /\ run \in [Workers -> RunType] /\ recent \in Seq(Alerts)
      /\ run' = [run EXCEPT ![w] = [Idle EXCEPT !.at = "switches", !.alert = a]]
  BY TradeRulesAssumption DEF TradeRulesAssumption, Take, IInv, TypeOK
<1>2. run'[w].at = "switches" /\ run'[w].alert = a /\ run'[w].account = None
  BY <1>1 DEF Idle
<1>3. \A v \in Workers : v # w => run'[v].at = "idle"
  BY <1>2 DEF Overlap
<1>4. request[a] = "none"
  BY <1>1 DEF Cool, Requested
<1>5. \A b \in Alerts : alert[b] # None => b # a /\ alert'[b] = alert[b]
  BY <1>1
<1>6. \A i \in 1..Len(recent) : recent[i] \in Alerts /\ alert'[recent[i]] = alert[recent[i]]
  BY <1>1, <1>5 DEF Cool, NotedRequested, Requested
<1>7. Requested' /\ NotedRequested' /\ Spaced'
  BY <1>1, <1>5, <1>6 DEF Cool, Requested, NotedRequested, Spaced
<1>8. /\ Early(w)' /\ ~Compared(w)'
      /\ \A v \in Workers : v # w => ~Early(v)' /\ ~Compared(v)'
  BY <1>2, <1>3 DEF Early, Compared
<1>9. EarlyNew' /\ LateAccepted' /\ CreateEarly' /\ Fresh'
  BY <1>1, <1>2, <1>3, <1>4, <1>8 DEF EarlyNew, LateAccepted, CreateEarly, Fresh
<1> QED
  BY <1>7, <1>9 DEF Cool

(* Steps of the broker, the clock and the operator: requests may leave the  *)
(* window, and that is all.                                                 *)
LEMMA OutsideCool ==
    ASSUME IInv, Cool, UNCHANGED <<run, alert, request>>,
           recent' = recent \/ (recent # <<>> /\ recent' = Tail(recent))
    PROVE  Cool'
<1>1. recent \in Seq(Alerts)
  BY DEF IInv, TypeOK
<1>2. PICK k \in {0, 1} :
         /\ Len(recent') + k = Len(recent)
         /\ \A i \in 1..Len(recent') : recent'[i] = recent[i + k]
                                       /\ i + k \in 1..Len(recent)
  <2>1. CASE recent' = recent
    BY <1>1, <2>1
  <2>2. CASE recent # <<>> /\ recent' = Tail(recent)
    <3>1. /\ Len(recent') + 1 = Len(recent)
          /\ \A i \in 1..Len(recent') : recent'[i] = recent[i + 1]
                                        /\ i + 1 \in 1..Len(recent)
      BY <1>1, <2>2
    <3> QED
      BY <3>1
  <2> QED
    BY <2>1, <2>2
<1>3. NotedRequested'
  BY <1>2 DEF Cool, NotedRequested
<1>4. Spaced'
  <2>1. ASSUME NEW i \in 1..Len(recent'), NEW j \in 1..Len(recent'), i # j,
               request[recent'[i]] # "risk_rejected",
               request[recent'[j]] # "risk_rejected"
        PROVE  alert[recent'[i]].symbol # alert[recent'[j]].symbol
    <3>1. /\ i + k \in 1..Len(recent) /\ j + k \in 1..Len(recent)
          /\ i + k # j + k
          /\ recent'[i] = recent[i + k] /\ recent'[j] = recent[j + k]
      BY <1>2, <2>1
    <3> QED
      BY <2>1, <3>1 DEF Cool, Spaced
  <2> QED
    BY <2>1 DEF Spaced
<1>5. ASSUME NEW v \in Workers, Compared(v)'
      PROVE  CheckCooldown(SignalOf(v))'
  <2>1. Compared(v) /\ SignalOf(v)' = SignalOf(v)
    BY <1>5 DEF Compared, Early, SignalOf
  <2>2. CheckCooldown(SignalOf(v))
    BY <2>1 DEF Cool, Fresh
  <2> QED
    BY <1>2, <2>1, <2>2 DEF CheckCooldown
<1>6. Requested' /\ EarlyNew' /\ LateAccepted' /\ CreateEarly' /\ Fresh'
  BY <1>5 DEF Cool, Requested, EarlyNew, LateAccepted, CreateEarly, Early, Fresh
<1> QED
  BY <1>3, <1>4, <1>6 DEF Cool

LEMMA CoolStep ==
    ASSUME IInv, Calm, CoolInv, [HistoryNext]_<<vars, history>>
    PROVE  CoolInv'
<1> SUFFICES ASSUME ~disturbed', "cooldown" \in rules' PROVE Cool'
  BY DEF CoolInv
<1>1. rules' = rules /\ ~disturbed
  BY Effects
<1>2. Cool /\ ~Overlap /\ TypeOK
  BY <1>1 DEF CoolInv, Calm, IInv
<1>3. CASE UNCHANGED <<vars, history>>
  BY <1>2, <1>3, OutsideCool DEF vars
<1>4. CASE HistoryNext
  <2>1. Next /\ ~Overlap'
    BY <1>4 DEF HistoryNext
  <2>2. ASSUME NEW w \in Workers, NEW a \in Alerts, NEW sig \in Signals,
               Take(w, a, sig)
        PROVE  Cool'
    BY <1>2, <2>1, <2>2, TakeCool
  <2>3. ASSUME NEW w \in Workers,
               \/ LoadRules(w) \/ ApplyRule(w) \/ AllRulesPass(w)
               \/ \E c \in Accounts : CheckAccount(w, c) \/ CopyToAccount(w, c)
        PROVE  Cool'
    BY <1>1, <1>2, <2>3, CheckCool
  <2>4. ASSUME NEW w \in Workers,
               CreateTradeRequest(w) \/ AccountsChecked(w) \/ CopyDone(w)
        PROVE  Cool'
    BY <1>2, <2>4, CreateCool, EndCool
  <2>5. ASSUME NEW a \in Alerts, NEW c \in Accounts,
               \/ Fill(a, c) \/ FillPartially(a, c) \/ Reject(a, c)
               \/ RecordExecution(a, c) \/ \E status : LoseExecution(a, c, status)
        PROVE  Cool'
    <3>1. UNCHANGED <<run, alert, request, recent>>
      BY <2>5 DEF Fill, FillPartially, Reject, UpdateOrder, RecordExecution,
         LoseExecution
    <3> QED
      BY <1>2, <3>1, OutsideCool
  <2>6. CASE Tick \/ CooldownEnds \/ FlipKillSwitch \/ UNCHANGED vars
    <3>1. /\ UNCHANGED <<run, alert, request>>
          /\ recent' = recent \/ (recent # <<>> /\ recent' = Tail(recent))
      BY <2>6 DEF Tick, CooldownEnds, FlipKillSwitch, vars
    <3> QED
      BY <1>2, <3>1, OutsideCool
  <2> QED
    BY <2>1, <2>2, <2>3, <2>4, <2>5, <2>6 DEF Next
<1> QED
  BY <1>3, <1>4

(* While trades do not disturb each other, no two requests for a symbol     *)
(* that were not rejected lie within one cooldown (RequestsSpaced).         *)
THEOREM RequestsSpacedHolds == HistorySpec => []RequestsSpaced
<1>1. HistoryInit => CoolInv
  <2> SUFFICES ASSUME HistoryInit PROVE Cool
    BY DEF CoolInv
  <2>1. /\ \A w \in Workers : run[w].at = "idle"
        /\ \A a \in Alerts : request[a] = "none"
        /\ Len(recent) = 0
    BY DEF HistoryInit, Init, Idle
  <2> QED
    BY <2>1 DEF Cool, Requested, NotedRequested, EarlyNew, LateAccepted,
       CreateEarly, Fresh, Compared, Early, Spaced
<1>2. IInv /\ Calm /\ CoolInv /\ [HistoryNext]_<<vars, history>> => CoolInv'
  BY CoolStep
<1>3. CoolInv => RequestsSpaced
  BY DEF CoolInv, Cool, Spaced, RequestsSpaced
<1> QED
  BY <1>1, <1>2, <1>3, HistoryInvariance, PTL DEF HistorySpec
=============================================================================
