---------------------------- MODULE TradeHistory ----------------------------
(* TradeRules with history variables: the limits that depend on earlier     *)
(* trades hold as long as an alert is taken up after the orders of the one  *)
(* before are settled and what they executed is stored, or lost, and every  *)
(* account that is copied to was itself checked.                            *)
EXTENDS TradeRules

VARIABLES
    disturbed,  \* one of the two conditions has been broken
    misfiled,   \* an executed order was made pending or rejected
    balance,    \* sales less purchases of the day, stored or not
    astray      \* executions of the day that are not stored, or the next day

Pending(a) == \E c \in Accounts : \/ order[a][c].status = "pending"
                                  \/ <<a, c>> \in unrecorded

Overlap ==
    \E w \in Workers :
        /\ run[w].at # "idle"
        /\ \/ \E v \in Workers \ {w} : run[v].at # "idle"
           \/ \E a \in Alerts \ {run[w].alert} : Pending(a)

Unchecked == \E w \in Workers : run[w].at = "copy" /\ run[w].safe # Accounts

Misfiles ==
    \E a \in Alerts, c \in Accounts :
        /\ order[a][c].status \in {"filled", "partially_filled"}
        /\ order'[a][c].status # order[a][c].status

NewDay == Tick /\ clock' = 0
Executes(a, c) == Fill(a, c) \/ FillPartially(a, c)
Loses(c) ==
    \E a \in Alerts, status \in OrderStatuses : LoseExecution(a, c, status)

(* The two sums are of interest until trades are disturbed.                 *)
Count ==
    LET followed == "daily_loss_limit" \in rules /\ ~disturbed' IN
    /\ balance' = [c \in Accounts |->
          IF ~followed \/ NewDay THEN 0
          ELSE IF \E a \in Alerts : Executes(a, c)
            THEN balance[c] + Proceeds(order'[CHOOSE a \in Alerts : Executes(a, c)][c])
            ELSE balance[c]]
    /\ astray' = [c \in Accounts |->
          IF ~followed THEN 0
          ELSE IF NewDay
            THEN IF \E a \in Alerts : <<a, c>> \in unrecorded THEN 1 ELSE 0
            ELSE IF Loses(c) THEN astray[c] + 1 ELSE astray[c]]

history == <<disturbed, misfiled, balance, astray>>

HistoryInit ==
    /\ Init
    /\ disturbed = FALSE
    /\ misfiled = FALSE
    /\ balance = [c \in Accounts |-> 0]
    /\ astray = [c \in Accounts |-> 0]

HistoryNext ==
    /\ Next
    /\ disturbed' = (disturbed \/ Overlap' \/ Unchecked')
    /\ misfiled' = (misfiled \/ Misfiles)
    /\ Count

HistorySpec == HistoryInit /\ [][HistoryNext]_<<vars, history>>

(* README.md:216, "Maximum open positions per account": an account that is  *)
(* only ever bought and sold for has traded at most MaxPositions symbols.   *)
PositionsWithinLimit ==
    \A c \in Accounts :
        (/\ "max_positions" \in rules
         /\ ~disturbed /\ ~misfiled
         /\ \A a \in Executed(c) : alert[a].action # "close")
          => Cardinality(TradedSymbols(c)) <= MaxPositions

(* README.md:221, "Prevent conflicting positions": a symbol is bought or    *)
(* sold for an account, not both, unless a partial fill, which the rule     *)
(* does not look at, or a close comes between.                              *)
OneSided ==
    \A c \in Accounts, s \in Symbols :
        (/\ "conflicting_position" \in rules
         /\ ~disturbed /\ ~misfiled
         /\ \A a \in Executed(c) : /\ order[a][c].status = "filled"
                                   /\ alert[a].action # "close")
          => ~(HasFilled(c, s, "buy") /\ HasFilled(c, s, "sell"))

LargestOrder == IF AccountLimit > 0 THEN AccountLimit ELSE 0

(* The daily loss limit is a limit on what is spent: purchases exceed sales *)
(* of a day, those the books know of and those they do not, by no more than *)
(* MaxLoss, one order, and one more for every execution that went astray    *)
(* (engine.ts:297, orderProcessorHardened.ts:158-161).                      *)
SpendBounded ==
    ("daily_loss_limit" \in rules /\ ~disturbed)
      => \A c \in Accounts :
            balance[c] >= -(MaxLoss + (1 + astray[c]) * LargestOrder)

(* README.md:217, "Minimum time between trades on same symbol": no two      *)
(* requests for a symbol that were not rejected lie within one cooldown.    *)
RequestsSpaced ==
    ("cooldown" \in rules /\ ~disturbed) =>
        \A i, j \in 1..Len(recent) :
            (/\ i # j
             /\ request[recent[i]] # "risk_rejected"
             /\ request[recent[j]] # "risk_rejected")
              => alert[recent[i]].symbol # alert[recent[j]].symbol

=============================================================================
