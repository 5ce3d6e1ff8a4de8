----------------------------- MODULE TradeRules -----------------------------
(***************************************************************************)
(* The risk rules (risk/engine.ts) and the sizing of the copier              *)
(* (copier/engine.ts) over the life of an account: which orders a sequence   *)
(* of alerts gives rise to, while earlier orders are filled.  The rules read *)
(* what the orders left behind, one statement at a time, so that the checks  *)
(* of one alert interleave with the fills and the checks of others.  What    *)
(* else the alert processor checks, its failures and its retries are in      *)
(* AlertProcessing.                                                          *)
(***************************************************************************)
EXTENDS Integers, FiniteSets, Sequences

CONSTANTS
    Alerts, Workers, Accounts, Symbols,
    None,
    Signals,        \* what an alert may ask for
    RuleSets,       \* the sets of active rules a strategy may have
    Mappings,       \* the copier mappings an account may have
    MaxContracts, MaxPositions, MaxLoss, Whitelist,  \* risk_rules.config
    SessionStart, SessionEnd,
    AccountLimit,   \* broker_accounts.settings.maxContracts
    Day,            \* length of a day
    \* Bounds of the environment: how often each may happen, and both together.
    MaxMoves,       \* moves of the clock or the kill switch
    MaxFaults,      \* executions that are not recorded
    MaxTogether

Actions == {"buy", "sell", "close", "reverse"}
SignalType == [symbol: Symbols, action: Actions, contracts: Nat \ {0}]

RuleTypes == {"kill_switch", "account_disabled", "symbol_whitelist",
              "session_time", "daily_loss_limit", "max_contracts",
              "max_positions", "conflicting_position", "cooldown"}

(* fixed 0 is a fixed_size of NULL; multiplier counts ten-thousandths, the  *)
(* scale of its column.                                                     *)
Scale == 10000
MappingType == [fixed: Nat, multiplier: Nat, longOnly: BOOLEAN,
                shortOnly: BOOLEAN, symbols: SUBSET Symbols]

ASSUME TradeRulesAssumption ==
    /\ None \notin Alerts \cup Accounts \cup Signals
    /\ Signals \subseteq SignalType
    /\ RuleSets \subseteq SUBSET RuleTypes
    /\ Mappings \subseteq MappingType
    /\ {MaxContracts, MaxPositions, MaxLoss} \subseteq Nat
    /\ {MaxMoves, MaxFaults, MaxTogether} \subseteq Nat
    /\ AccountLimit \in Int
    /\ Day \in Nat \ {0}

VARIABLES
    rules,       \* the rule types active for the strategy
    mapping,     \* copier_mappings of each account
    killSwitch,  \* config.features.globalKillSwitch
    clock,       \* time of the day
    run,         \* the local state of each alert worker
    alert,       \* the signal of each alert, once its job was taken
    request,     \* trade_requests.status of each alert
    recent,      \* alerts with a request younger than the cooldown, in order
    order,       \* orders_submitted of each alert and account
    unrecorded,  \* orders whose status is set and whose execution is not stored
    cash,        \* sum over today's executions: sales less purchases
    moves,       \* what is left of MaxMoves
    faults       \* what is left of MaxFaults

vars == <<rules, mapping, killSwitch, clock, run, alert, request, recent,
          order, unrecorded, cash, moves, faults>>

Steps == {"idle", "switches", "rule", "create", "account", "copy"}

(* account is None during the check at strategy level; rules: those not     *)
(* evaluated yet; left: accounts not checked or copied to yet.              *)
RunType == [at: Steps, alert: Alerts \cup {None}, account: Accounts \cup {None},
            rules: SUBSET RuleTypes, ok: BOOLEAN, left: SUBSET Accounts,
            safe: SUBSET Accounts]

Idle == [at |-> "idle", alert |-> None, account |-> None, rules |-> {},
         ok |-> FALSE, left |-> {}, safe |-> {}]

OrderStatuses == {"pending", "filled", "partially_filled", "rejected"}
OrderType == [symbol: Symbols, side: {"buy", "sell"}, quantity: Nat \ {0},
              status: OrderStatuses]
NoOrder == [status |-> "none"]

TypeOK ==
    /\ rules \in RuleSets
    /\ mapping \in [Accounts -> Mappings]
    /\ killSwitch \in BOOLEAN
    /\ clock \in 0..(Day - 1)
    /\ run \in [Workers -> RunType]
    /\ alert \in [Alerts -> Signals \cup {None}]
    /\ request \in [Alerts -> {"none", "risk_rejected", "copying",
                               "completed", "failed"}]
    /\ recent \in Seq(Alerts)
    /\ order \in [Alerts -> [Accounts -> OrderType \cup {NoOrder}]]
    /\ unrecorded \in SUBSET (Alerts \X Accounts)
    /\ cash \in [Accounts -> Int]
    /\ {moves, faults} \subseteq Nat

Init ==
    /\ rules \in RuleSets
    /\ mapping \in [Accounts -> Mappings]
    /\ killSwitch = FALSE
    /\ clock \in 0..(Day - 1)
    /\ run = [w \in Workers |-> Idle]
    /\ alert = [a \in Alerts |-> None]
    /\ request = [a \in Alerts |-> "none"]
    /\ recent = <<>>
    /\ order = [a \in Alerts |-> [c \in Accounts |-> NoOrder]]
    /\ unrecorded = {}
    /\ cash = [c \in Accounts |-> 0]
    /\ moves = MaxMoves
    /\ faults = MaxFaults

-----------------------------------------------------------------------------
(* What the rules read, and the rules: TRUE is a pass.  c is None where     *)
(* checkTrade is called without an account.                                 *)

Executed(c) == {a \in Alerts :
                  order[a][c].status \in {"filled", "partially_filled"}}
TradedSymbols(c) == {order[a][c].symbol : a \in Executed(c)}
HasFilled(c, symbol, side) ==
    \E a \in Alerts : /\ order[a][c].status = "filled"
                      /\ order[a][c].symbol = symbol
                      /\ order[a][c].side = side

CheckMaxContracts(sig) == sig.contracts <= MaxContracts

(* Plausible bug: the limit is reached one symbol late. *)
CheckMaxPositionsInclusive(sig, c) ==
    \/ c = None
    \/ sig.action = "close"
    \/ Cardinality(TradedSymbols(c)) <= MaxPositions

CheckMaxPositions(sig, c) ==
    \/ c = None
    \/ sig.action = "close"
    \/ Cardinality(TradedSymbols(c)) < MaxPositions

(* Plausible bug: only the latest request is looked at. *)
CheckCooldownLatest(sig) ==
    recent = <<>> \/ alert[recent[Len(recent)]].symbol # sig.symbol

(* Every request counts, the rejected ones included.                        *)
CheckCooldown(sig) ==
    \A i \in 1..Len(recent) : alert[recent[i]].symbol # sig.symbol

CheckSessionTime == clock \in SessionStart..SessionEnd

(* Plausible bug: the sign of the sum is taken for the other one. *)
CheckDailyLossLimitInverted(c) == c = None \/ cash[c] <= MaxLoss

CheckDailyLossLimit(c) == c = None \/ cash[c] >= -MaxLoss

CheckSymbolWhitelist(sig) == Whitelist = {} \/ sig.symbol \in Whitelist

(* Plausible bug: the sides are swapped. *)
CheckConflictingPositionSwapped(sig, c) ==
    \/ c = None
    \/ sig.action = "close"
    \/ ~HasFilled(c, sig.symbol, IF sig.action = "buy" THEN "buy" ELSE "sell")

(* Any filled order counts as a position, however long it has been flat;    *)
(* "reverse" is treated like "sell".                                        *)
CheckConflictingPosition(sig, c) ==
    \/ c = None
    \/ sig.action = "close"
    \/ ~HasFilled(c, sig.symbol, IF sig.action = "buy" THEN "sell" ELSE "buy")

(* The types "kill_switch" and "account_disabled" may be stored as rules    *)
(* but are unknown to the switch, whose default passes.                     *)
EvaluateRule(rule, sig, c) ==
    CASE rule = "max_contracts"        -> CheckMaxContracts(sig)
      [] rule = "max_positions"        -> CheckMaxPositions(sig, c)
      [] rule = "cooldown"             -> CheckCooldown(sig)
      [] rule = "session_time"         -> CheckSessionTime
      [] rule = "daily_loss_limit"     -> CheckDailyLossLimit(c)
      [] rule = "symbol_whitelist"     -> CheckSymbolWhitelist(sig)
      [] rule = "conflicting_position" -> CheckConflictingPosition(sig, c)
      [] OTHER                         -> TRUE

Rank == [kill_switch |-> 1, account_disabled |-> 2, symbol_whitelist |-> 3,
         session_time |-> 4, daily_loss_limit |-> 5, max_contracts |-> 6,
         max_positions |-> 7, conflicting_position |-> 8, cooldown |-> 9]
NextRule(R) == CHOOSE r \in R : \A q \in R : Rank[r] <= Rank[q]

(* With an account, the cooldown reads trade_requests.account_id, a column  *)
(* the table does not have.                                                 *)
Throws(rule, c) == rule = "cooldown" /\ c # None

-----------------------------------------------------------------------------
(* The copier's filters, size and side. *)

ApplyFilters(sig, m) ==
    /\ ~(m.longOnly /\ sig.action = "sell")
    /\ ~(m.shortOnly /\ sig.action = "buy")
    /\ m.symbols = {} \/ sig.symbol \in m.symbols

Lesser(m, n) == IF m <= n THEN m ELSE n

(* Plausible bug: a fixed size is used as it is. *)
CalculateSizeFixed(sig, m) ==
    IF m.fixed # 0 THEN m.fixed
    ELSE Lesser((sig.contracts * m.multiplier) \div Scale, AccountLimit)

CalculateSize(sig, m) ==
    IF m.fixed # 0 THEN Lesser(m.fixed, AccountLimit)
    ELSE Lesser((sig.contracts * m.multiplier) \div Scale, AccountLimit)

(* "close" and "reverse" do not look at the position. *)
GetOrderSide(action) == IF action = "buy" THEN "buy" ELSE "sell"

-----------------------------------------------------------------------------
SignalOf(w) == alert[run[w].alert]

(* checkTrade returns: at strategy level the request is created next, for   *)
(* an account the next account is looked at.                                *)
Verdict(w, passed) ==
    run' = [run EXCEPT
              ![w].at = IF run[w].account = None THEN "create" ELSE "account",
              ![w].ok = passed,
              ![w].safe = IF passed /\ run[w].account # None
                            THEN @ \cup {run[w].account} ELSE @]

Take(w, a, sig) ==
    /\ run[w].at = "idle"
    /\ alert[a] = None
    /\ alert' = [alert EXCEPT ![a] = sig]
    /\ run' = [run EXCEPT ![w] = [Idle EXCEPT !.at = "switches", !.alert = a]]
    /\ UNCHANGED <<rules, mapping, killSwitch, clock, request, recent, order,
                   unrecorded, cash, moves, faults>>

(* checkTrade up to the SELECT of the rules.  Nothing in the repository     *)
(* sets an account's kill switch, and account.isDisabled is undefined on a  *)
(* row whose column is is_disabled: neither ever rejects.                   *)
LoadRules(w) ==
    /\ run[w].at = "switches"
    /\ IF killSwitch THEN Verdict(w, FALSE)
       ELSE run' = [run EXCEPT ![w].at = "rule", ![w].rules = rules]
    /\ UNCHANGED <<rules, mapping, killSwitch, clock, alert, request, recent,
                   order, unrecorded, cash, moves, faults>>

(* One rule of the loop in checkTrade. *)
ApplyRule(w) ==
    LET rule == NextRule(run[w].rules)
        c == run[w].account
    IN
    /\ run[w].at = "rule"
    /\ run[w].rules # {}
    /\ IF ~Throws(rule, c) /\ EvaluateRule(rule, SignalOf(w), c)
         THEN run' = [run EXCEPT ![w].rules = @ \ {rule}]
         ELSE Verdict(w, FALSE)
    /\ UNCHANGED <<rules, mapping, killSwitch, clock, alert, request, recent,
                   order, unrecorded, cash, moves, faults>>

AllRulesPass(w) ==
    /\ run[w].at = "rule"
    /\ run[w].rules = {}
    /\ Verdict(w, TRUE)
    /\ UNCHANGED <<rules, mapping, killSwitch, clock, alert, request, recent,
                   order, unrecorded, cash, moves, faults>>

(* The INSERT; a rejected alert is marked processed and done with. *)
CreateTradeRequest(w) ==
    LET a == run[w].alert IN
    /\ run[w].at = "create"
    /\ request' = [request EXCEPT
                     ![a] = IF run[w].ok THEN "copying" ELSE "risk_rejected"]
    /\ recent' = Append(recent, a)
    /\ run' = [run EXCEPT
                 ![w] = IF run[w].ok
                          THEN [Idle EXCEPT !.at = "account", !.alert = a,
                                            !.left = Accounts]
                          ELSE Idle]
    /\ UNCHANGED <<rules, mapping, killSwitch, clock, alert, order,
                   unrecorded, cash, moves, faults>>

(* processAccountWithSafety, under the lock of the account. *)
CheckAccount(w, c) ==
    /\ run[w].at = "account"
    /\ c \in run[w].left
    /\ \A v \in Workers : run[v].at \in {"switches", "rule"} => run[v].account # c
    /\ run' = [run EXCEPT ![w].at = "switches", ![w].account = c,
                          ![w].left = @ \ {c}]
    /\ UNCHANGED <<rules, mapping, killSwitch, clock, alert, request, recent,
                   order, unrecorded, cash, moves, faults>>

(* One account that passed is enough for copyTrade. *)
AccountsChecked(w) ==
    LET a == run[w].alert IN
    /\ run[w].at = "account"
    /\ run[w].left = {}
    /\ IF run[w].safe = {}
         THEN /\ request' = [request EXCEPT ![a] = "failed"]
              /\ run' = [run EXCEPT ![w] = Idle]
         ELSE /\ run' = [run EXCEPT ![w].at = "copy", ![w].left = Accounts]
              /\ UNCHANGED request
    /\ UNCHANGED <<rules, mapping, killSwitch, clock, alert, recent, order,
                   unrecorded, cash, moves, faults>>

(* copyToAccount. *)
CopyToAccount(w, c) ==
    LET a == run[w].alert
        size == CalculateSize(SignalOf(w), mapping[c])
    IN
    /\ run[w].at = "copy"
    /\ c \in run[w].left
    /\ run' = [run EXCEPT ![w].left = @ \ {c}]
    /\ IF ApplyFilters(SignalOf(w), mapping[c]) /\ size > 0
         THEN order' = [order EXCEPT ![a][c] =
                          [symbol   |-> SignalOf(w).symbol,
                           side     |-> GetOrderSide(SignalOf(w).action),
                           quantity |-> size,
                           status   |-> "pending"]]
         ELSE UNCHANGED order
    /\ UNCHANGED <<rules, mapping, killSwitch, clock, alert, request, recent,
                   unrecorded, cash, moves, faults>>

CopyDone(w) ==
    /\ run[w].at = "copy"
    /\ run[w].left = {}
    /\ request' = [request EXCEPT ![run[w].alert] = "completed"]
    /\ run' = [run EXCEPT ![w] = Idle]
    /\ UNCHANGED <<rules, mapping, killSwitch, clock, alert, recent, order,
                   unrecorded, cash, moves, faults>>

-----------------------------------------------------------------------------
(* The order processor and the broker, the clock and the operator. *)

(* The order processor sets the status the broker answered with; what was   *)
(* executed is stored by a statement of its own.                            *)
UpdateOrder(a, c, status) ==
    /\ order[a][c].status = "pending"
    /\ order' = [order EXCEPT ![a][c].status = status]
    /\ unrecorded' = IF status = "rejected" THEN unrecorded
                                            ELSE unrecorded \cup {<<a, c>>}
    /\ UNCHANGED <<rules, mapping, killSwitch, clock, run, alert, request,
                   recent, cash, moves, faults>>

Fill(a, c) == UpdateOrder(a, c, "filled")
FillPartially(a, c) == UpdateOrder(a, c, "partially_filled")
Reject(a, c) == UpdateOrder(a, c, "rejected")

(* What an executed order brings in, at a price of one.  The simulated      *)
(* broker fills half partially, rounded down: of one contract none.         *)
Proceeds(o) ==
    LET n == IF o.status = "filled" THEN o.quantity ELSE o.quantity \div 2
    IN  IF o.side = "sell" THEN n ELSE -n

RecordExecution(a, c) ==
    /\ <<a, c>> \in unrecorded
    /\ unrecorded' = unrecorded \ {<<a, c>>}
    /\ cash' = [cash EXCEPT ![c] = @ + Proceeds(order[a][c])]
    /\ UNCHANGED <<rules, mapping, killSwitch, clock, run, alert, request,
                   recent, order, moves, faults>>

(* The bound of moves and faults together. *)
Spare == MaxMoves + MaxFaults - moves - faults < MaxTogether

(* The worker dies between the two statements, and the job that is handed   *)
(* out again finds the order settled; or the second statement fails, and    *)
(* the catch block makes the order pending, to be placed again, or rejected.*)
(* Where the UPDATE fails instead, the books end the same.                  *)
LoseExecution(a, c, status) ==
    /\ faults > 0 /\ Spare
    /\ <<a, c>> \in unrecorded
    /\ faults' = faults - 1
    /\ unrecorded' = unrecorded \ {<<a, c>>}
    /\ order' = [order EXCEPT ![a][c].status = status]
    /\ UNCHANGED <<rules, mapping, killSwitch, clock, run, alert, request,
                   recent, cash, moves>>

(* Time passes; a new day has no executions yet. *)
Tick ==
    /\ moves > 0 /\ Spare
    /\ moves' = moves - 1
    /\ clock' = (clock + 1) % Day
    /\ cash' = IF clock' = 0 THEN [c \in Accounts |-> 0] ELSE cash
    /\ UNCHANGED <<rules, mapping, killSwitch, run, alert, request, recent,
                   order, unrecorded, faults>>

(* The oldest request leaves the cooldown window. *)
CooldownEnds ==
    /\ recent # <<>>
    /\ recent' = Tail(recent)
    /\ UNCHANGED <<rules, mapping, killSwitch, clock, run, alert, request,
                   order, unrecorded, cash, moves, faults>>

FlipKillSwitch ==
    /\ moves > 0 /\ Spare
    /\ moves' = moves - 1
    /\ killSwitch' = ~killSwitch
    /\ UNCHANGED <<rules, mapping, clock, run, alert, request, recent, order,
                   unrecorded, cash, faults>>

Quiet ==
    /\ \A w \in Workers : run[w].at = "idle"
    /\ \A a \in Alerts : alert[a] # None
    /\ \A a \in Alerts, c \in Accounts : order[a][c].status # "pending"
    /\ unrecorded = {}

Next ==
    \/ \E w \in Workers, a \in Alerts, sig \in Signals : Take(w, a, sig)
    \/ \E w \in Workers :
          \/ LoadRules(w) \/ ApplyRule(w) \/ AllRulesPass(w)
          \/ CreateTradeRequest(w) \/ AccountsChecked(w) \/ CopyDone(w)
    \/ \E w \in Workers, c \in Accounts : CheckAccount(w, c) \/ CopyToAccount(w, c)
    \/ \E a \in Alerts, c \in Accounts :
          \/ Fill(a, c) \/ FillPartially(a, c) \/ Reject(a, c)
          \/ RecordExecution(a, c)
          \/ \E status \in {order[a][c].status, "pending", "rejected"} :
                LoseExecution(a, c, status)
    \/ Tick
    \/ CooldownEnds
    \/ FlipKillSwitch
    \/ Quiet /\ UNCHANGED vars

Spec == Init /\ [][Next]_vars

-----------------------------------------------------------------------------
(* Every order an alert gives rise to keeps within what does not depend on  *)
(* other trades: 1 to settings.maxContracts contracts whatever the fixed    *)
(* size and the multiplier, and no more than the max_contracts rule where   *)
(* neither raises it; a symbol the strategy's whitelist and the mapping's   *)
(* both admit; on a long-only account a sale only to close or reverse       *)
(* (risk/engine.ts:167 and 322, copier/engine.ts:229 and 261).              *)
OrdersWithinLimits ==
    \A a \in Alerts, c \in Accounts :
        LET o == order[a][c]
            m == mapping[c]
        IN  o # NoOrder =>
              /\ o.quantity \in 1..AccountLimit
              /\ m.symbols = {} \/ o.symbol \in m.symbols
              /\ ("symbol_whitelist" \in rules /\ Whitelist # {})
                    => o.symbol \in Whitelist
              /\ ("max_contracts" \in rules /\ m.fixed = 0 /\ m.multiplier <= Scale)
                    => o.quantity <= MaxContracts
              /\ (m.longOnly /\ o.side = "sell")
                    => alert[a].action \in {"close", "reverse"}
              /\ m.shortOnly => o.side = "sell"
=============================================================================
