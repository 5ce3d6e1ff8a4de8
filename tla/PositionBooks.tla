---------------------------- MODULE PositionBooks ----------------------------
(***************************************************************************)
(* The positions of one account, kept twice: by the mock broker             *)
(* (brokers/mockBroker.ts) in the memory of the server, and by the rows of  *)
(* orders_submitted, from which the reconciliation at startup               *)
(* (services/reconciliation.ts) computes what they should be.  Orders are   *)
(* placed and recorded while the reconciliation runs, the operator flattens *)
(* the account (routes/accounts.ts), and the server restarts with an empty  *)
(* broker.  The hardened entry point listens when the reconciliation has    *)
(* ended, while the order workers run from the start.                       *)
(***************************************************************************)
EXTENDS Integers, FiniteSets, SequencesExt

CONSTANTS
    Symbols,
    Trades,       \* what an order may be for: symbol, side and quantity
    Refusals,     \* sets of what may be refused, see refused
    MaxOrders,    \* bound: rows of orders_submitted
    MaxFlattens,  \* bound: uses of POST /api/accounts/:id/flatten
    MaxFaults     \* bound: statements that fail and restarts of the server

ASSUME PositionBooksAssumption ==
    /\ Trades \subseteq [symbol: Symbols, side: {"buy", "sell"},
                    quantity: Nat \ {0}]
    /\ Refusals \subseteq SUBSET {"broker_type", "system_sync", "success"}
    /\ {MaxOrders, MaxFlattens, MaxFaults} \subseteq Nat

VARIABLES
    connected,   \* the adapter was connected
    positions,   \* mockPositions of the account, an array
    net,         \* mockOrders: what they add up to for each symbol
    orders,      \* orders_submitted, in the order of their creation
    recon,       \* the local state of the startup: "serving" when it is over
    refused,     \* what this deployment refuses
    budget

vars == <<connected, positions, net, orders, recon, refused, budget>>
adapter == <<connected, positions, net>>

(* open: pending or submitted; placed: the broker has it, the row does not  *)
(* say so yet.                                                              *)
OrderType == [symbol: Symbols, side: {"buy", "sell"}, quantity: Nat \ {0},
              status: {"open", "placed", "filled", "rejected"}]

PositionType == [symbol: Symbols, side: {"long", "short"}, quantity: Nat \ {0}]

Actions == {"sync", "alert", "manual_review"}
Steps == {"accounts", "broker", "system", "compare", "resolve", "record",
          "snapshot", "recordFailed", "serving"}

(* system: the positions read; found: the action for each discrepancy;      *)
(* left: those not dealt with yet.  What is logged about them, and the rows *)
(* of reconciliation_runs and position_snapshots, are read by nothing.      *)
ReconType == [at: Steps, system: [Symbols -> Int],
              found: UNION {[S -> Actions] : S \in SUBSET Symbols},
              left: SUBSET Symbols]

NoPositions == [s \in Symbols |-> 0]
Startup == [at |-> "accounts", system |-> NoPositions, found |-> <<>>,
            left |-> {}]
Serving == [Startup EXCEPT !.at = "serving"]

TypeOK ==
    /\ connected \in BOOLEAN
    /\ positions \in Seq(PositionType)
    /\ net \in [Symbols -> Int]
    /\ orders \in Seq(OrderType)
    /\ recon \in ReconType
    /\ refused \in Refusals
    /\ budget \in [flattens: Nat, faults: Nat]

Init ==
    /\ connected = FALSE
    /\ positions = <<>>
    /\ net = NoPositions
    /\ orders = <<>>
    /\ recon = Startup
    /\ refused \in Refusals
    /\ budget = [flattens |-> MaxFlattens, faults |-> MaxFaults]

-----------------------------------------------------------------------------
(* The mock broker. *)

Signed(o) == IF o.side \in {"buy", "long"} THEN o.quantity ELSE -o.quantity
SideOf(o) == IF o.side = "buy" THEN "long" ELSE "short"
Opening(o, quantity) ==
    [symbol |-> o.symbol, side |-> SideOf(o), quantity |-> quantity]

Holds(ps, s) == \E i \in DOMAIN ps : ps[i].symbol = s
IndexOf(ps, s) == CHOOSE i \in DOMAIN ps : ps[i].symbol = s

(* Plausible bug: the position is looked up by its side too. *)
UpdatePositionBySide(ps, o) ==
    LET same == {i \in DOMAIN ps : /\ ps[i].symbol = o.symbol
                                   /\ ps[i].side = SideOf(o)}
    IN  IF same = {} THEN Append(ps, Opening(o, o.quantity))
        ELSE [ps EXCEPT ![CHOOSE i \in same : TRUE].quantity = @ + o.quantity]

(* Plausible bug: what remains of a reversal is not opened. *)
UpdatePositionNoReversal(ps, o) ==
    LET i    == IndexOf(ps, o.symbol)
        rest == ps[i].quantity - o.quantity
    IN  IF ~Holds(ps, o.symbol) THEN Append(ps, Opening(o, o.quantity))
        ELSE IF ps[i].side = SideOf(o)
               THEN [ps EXCEPT ![i].quantity = @ + o.quantity]
        ELSE IF rest > 0 THEN [ps EXCEPT ![i].quantity = rest]
        ELSE RemoveAt(ps, i)

(* A new position, an addition, a partial close, a close or a reversal,     *)
(* which moves the position to the end of the array.                        *)
UpdatePosition(ps, o) ==
    LET i    == IndexOf(ps, o.symbol)
        rest == ps[i].quantity - o.quantity
    IN  IF ~Holds(ps, o.symbol) THEN Append(ps, Opening(o, o.quantity))
        ELSE IF ps[i].side = SideOf(o)
               THEN [ps EXCEPT ![i].quantity = @ + o.quantity]
        ELSE IF rest > 0 THEN [ps EXCEPT ![i].quantity = rest]
        ELSE IF rest = 0 THEN RemoveAt(ps, i)
        ELSE Append(RemoveAt(ps, i), Opening(o, -rest))

ClosingOrder(p) ==
    [symbol |-> p.symbol, side |-> IF p.side = "long" THEN "sell" ELSE "buy",
     quantity |-> p.quantity, status |-> "filled"]

(* The loop of flattenAll steps through the array from which its closing    *)
(* orders remove the positions: each removal makes it skip one.             *)
ClosingOrders(ps) ==
    LET loop[i \in 0..Len(ps)] ==
            IF i = 0 THEN [array |-> ps, placed |-> <<>>]
            ELSE LET before == loop[i - 1] IN
                 IF i > Len(before.array) THEN before
                 ELSE LET o == ClosingOrder(before.array[i])
                      IN  [array  |-> UpdatePosition(before.array, o),
                           placed |-> Append(before.placed, o)]
    IN  loop[Len(ps)].placed

AddTo(n, o) == [n EXCEPT ![o.symbol] = @ + Signed(o)]

(* What the filled orders of a symbol add up to, the sells negative. *)
FilledNet(os, s) ==
    FoldLeft(LAMBDA n, o : IF o.symbol = s /\ o.status = "filled"
                             THEN n + Signed(o) ELSE n,
             0, os)

-----------------------------------------------------------------------------
(* Orders and the operator. *)

NewOrder(trade) ==
    /\ Len(orders) < MaxOrders
    /\ orders' = Append(orders, [symbol |-> trade.symbol, side |-> trade.side,
                                 quantity |-> trade.quantity, status |-> "open"])
    /\ UNCHANGED <<adapter, recon, refused, budget>>

(* An order worker connects the adapter if need be and places the order,    *)
(* in one turn of the event loop.                                           *)
PlaceOrder(k) ==
    /\ orders[k].status = "open"
    /\ connected' = TRUE
    /\ positions' = UpdatePosition(positions, orders[k])
    /\ net' = AddTo(net, orders[k])
    /\ orders' = [orders EXCEPT ![k].status = "placed"]
    /\ UNCHANGED <<recon, refused, budget>>

RecordFill(k) ==
    /\ orders[k].status = "placed"
    /\ orders' = [orders EXCEPT ![k].status = "filled"]
    /\ UNCHANGED <<adapter, recon, refused, budget>>

Spend(what) ==
    /\ budget[what] > 0
    /\ budget' = [budget EXCEPT ![what] = @ - 1]

(* The fill cannot be recorded: the order is tried again, or rejected. *)
RecordFault(k) ==
    /\ orders[k].status = "placed"
    /\ \E status \in {"open", "rejected"} :
          orders' = [orders EXCEPT ![k].status = status]
    /\ Spend("faults")
    /\ UNCHANGED <<adapter, recon, refused>>

(* POST /api/accounts/:id/flatten, of which orders_submitted learns nothing.*)
Flatten ==
    /\ recon.at = "serving"
    /\ connected
    /\ positions' = <<>>
    /\ net' = [s \in Symbols |->
                 net[s] + FilledNet(ClosingOrders(positions), s)]
    /\ Spend("flattens")
    /\ UNCHANGED <<connected, orders, recon, refused>>

(* The broker is gone with the server; what was not recorded is done again. *)
Reboot ==
    /\ connected' = FALSE
    /\ positions' = <<>>
    /\ net' = NoPositions
    /\ orders' = [k \in DOMAIN orders |->
                    IF orders[k].status = "placed"
                      THEN [orders[k] EXCEPT !.status = "open"] ELSE orders[k]]
    /\ recon' = Startup

Restart ==
    /\ Reboot
    /\ Spend("faults")
    /\ UNCHANGED <<refused>>

-----------------------------------------------------------------------------
(* runStartupReconciliation. *)

GoTo(step) == recon' = [recon EXCEPT !.at = step]

Others == <<adapter, orders, refused>>

(* The account is reconciled if it is active and not disabled. *)
LoadAccounts ==
    /\ recon.at = "accounts"
    /\ recon' \in {[recon EXCEPT !.at = "broker"], Serving}
    /\ UNCHANGED <<Others, budget>>

(* getPositions of an adapter that is not connected throws, and so does     *)
(* getBrokerAdapter, since account.brokerType is undefined on a row whose   *)
(* column is broker_type.  The result is the array itself, not a copy, so   *)
(* that Compare reads the positions of its own time.                        *)
LoadBrokerPositions ==
    /\ recon.at = "broker"
    /\ GoTo(IF connected /\ "broker_type" \notin refused THEN "system"
                                                         ELSE "recordFailed")
    /\ UNCHANGED <<Others, budget>>

SystemPositions(s) == FilledNet(orders, s)

LoadSystemPositions ==
    /\ recon.at = "system"
    /\ recon' = [recon EXCEPT !.at = "compare",
                              !.system = [s \in Symbols |-> SystemPositions(s)]]
    /\ UNCHANGED <<Others, budget>>

BrokerPosition(s) ==
    IF Holds(positions, s) THEN Signed(positions[IndexOf(positions, s)]) ELSE 0

Distance(m, n) == IF m >= n THEN m - n ELSE n - m

DetermineResolutionAction(b, n) ==
    IF b = 0 \/ n = 0 THEN "sync"
    ELSE IF (b > 0) # (n > 0) \/ Distance(b, n) > 5 THEN "manual_review"
    ELSE IF Distance(b, n) <= 1 THEN "sync" ELSE "alert"

(* Plausible bug: the quantities are compared without their sides. *)
FindDiscrepanciesUnsigned ==
    {s \in Symbols :
        recon.system[s] # IF Holds(positions, s)
                            THEN positions[IndexOf(positions, s)].quantity ELSE 0}

FindDiscrepancies == {s \in Symbols : BrokerPosition(s) # recon.system[s]}

Compare ==
    /\ recon.at = "compare"
    /\ recon' = [recon EXCEPT
                   !.at = "resolve",
                   !.left = FindDiscrepancies,
                   !.found = [s \in FindDiscrepancies |->
                                DetermineResolutionAction(BrokerPosition(s),
                                                          recon.system[s])]]
    /\ UNCHANGED <<Others, budget>>

(* Plausible bug: what could not be resolved is tried again. *)
ResolveAgain(s) ==
    /\ recon.at = "resolve"
    /\ s \in recon.left
    /\ recon' = IF recon.found[s] = "sync" /\ "system_sync" \in refused
                  THEN recon
                  ELSE [recon EXCEPT !.left = @ \ {s}]
    /\ UNCHANGED <<Others, budget>>

(* resolveDiscrepancy: the rows that sync, alert and manual_review insert   *)
(* change no position; that of sync is refused, position_snapshots knowing  *)
(* no source 'system_sync', and the error counted.                          *)
Resolve(s) ==
    /\ recon.at = "resolve"
    /\ s \in recon.left
    /\ recon' = [recon EXCEPT !.left = @ \ {s}]
    /\ UNCHANGED <<Others, budget>>

AllResolved ==
    /\ recon.at = "resolve"
    /\ recon.left = {}
    /\ GoTo("record")
    /\ UNCHANGED <<Others, budget>>

(* recordReconciliationRun: its table knows no status 'success'. *)
Record ==
    /\ recon.at = "record"
    /\ IF "success" \in refused
         THEN GoTo("recordFailed")
         ELSE GoTo("snapshot")
    /\ UNCHANGED <<Others, budget>>

StorePositionSnapshot ==
    /\ recon.at = "snapshot"
    /\ recon' = Serving
    /\ UNCHANGED <<Others, budget>>

(* The catch block of reconcileAccount. *)
RecordFailed ==
    /\ recon.at = "recordFailed"
    /\ recon' = Serving
    /\ UNCHANGED <<Others, budget>>

(* A statement fails: of one discrepancy, ... *)
ResolveFault(s) ==
    /\ recon.at = "resolve"
    /\ s \in recon.left
    /\ recon' = [recon EXCEPT !.left = @ \ {s}]
    /\ Spend("faults")
    /\ UNCHANGED <<Others>>

(* ... of the reconciliation, ... *)
ReconcileFault ==
    /\ recon.at \in {"system", "record", "snapshot"}
    /\ GoTo("recordFailed")
    /\ Spend("faults")
    /\ UNCHANGED <<Others>>

(* ... or one that nothing catches but startServer, which exits. *)
StartupFault ==
    /\ recon.at \in {"accounts", "recordFailed"}
    /\ Reboot
    /\ Spend("faults")
    /\ UNCHANGED <<refused>>

StartupStep ==
    \/ LoadAccounts \/ LoadBrokerPositions \/ LoadSystemPositions \/ Compare
    \/ \E s \in Symbols : Resolve(s)
    \/ AllResolved \/ Record \/ StorePositionSnapshot \/ RecordFailed

Quiet ==
    /\ recon.at = "serving"
    /\ Len(orders) = MaxOrders
    /\ \A k \in DOMAIN orders : orders[k].status \in {"filled", "rejected"}

Next ==
    \/ \E trade \in Trades : NewOrder(trade)
    \/ \E k \in DOMAIN orders : PlaceOrder(k) \/ RecordFill(k) \/ RecordFault(k)
    \/ Flatten
    \/ Restart
    \/ StartupStep
    \/ \E s \in Symbols : ResolveFault(s)
    \/ ReconcileFault \/ StartupFault
    \/ Quiet /\ UNCHANGED vars

Spec == Init /\ [][Next]_vars

-----------------------------------------------------------------------------
(* Properties. *)

(* Whatever fails and however the account is handled, the broker keeps at   *)
(* most one position per symbol and never an empty one, so that the first   *)
(* match of findIndex and find is the position.                             *)
OnePositionPerSymbol ==
    /\ \A i, j \in DOMAIN positions :
          i # j => positions[i].symbol # positions[j].symbol
    /\ \A i \in DOMAIN positions : positions[i].quantity > 0

(* The server listens in the end, whatever the reconciliation meets.        *)
StartupEnds == []<>(recon.at = "serving")
=============================================================================
