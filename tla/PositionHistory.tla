--------------------------- MODULE PositionHistory ---------------------------
(* PositionBooks with three history variables: the symbols that a flatten   *)
(* closed without a closing order, those of which an order was on its way   *)
(* to the books while the reconciliation read them, and what the books of   *)
(* this startup have been made to say that the broker does not hold.        *)
EXTENDS PositionBooks

VARIABLES
    skipped,  \* a set of symbols
    moved,    \* a set of symbols
    gap       \* for each symbol, the lost fills less the unrecorded ones

hvars == <<vars, skipped, moved, gap>>

Closed == {o.symbol : o \in {ClosingOrders(positions)[i] :
                               i \in DOMAIN ClosingOrders(positions)}}
Held == {positions[i].symbol : i \in DOMAIN positions}

InFlight ==
    {orders[k].symbol : k \in {i \in DOMAIN orders : orders[i].status = "placed"}}

HistoryInit == Init /\ skipped = {} /\ moved = {} /\ gap = NoPositions

(* Fills that this step leaves unrecorded. *)
Dropped ==
    {k \in DOMAIN orders : /\ orders[k].status = "placed"
                           /\ orders'[k].status \in {"open", "rejected"}}

(* A server that starts has lost what the books say was filled; after that, *)
(* what cannot be recorded is what the books do not know.                   *)
GapStep ==
    IF recon'.at = "serving" THEN gap' = NoPositions
    ELSE IF Restart \/ StartupFault
      THEN gap' = [s \in Symbols |-> FilledNet(orders', s)]
    ELSE IF Dropped = {} THEN UNCHANGED gap
    ELSE \E k \in Dropped :
            gap' = [gap EXCEPT ![orders[k].symbol] = @ - Signed(orders[k])]

HistoryNext ==
    /\ Next
    /\ skipped' = IF budget'.flattens # budget.flattens THEN skipped \cup (Held \ Closed)
                  ELSE IF positions' = <<>> /\ net' = NoPositions THEN {}
                  ELSE skipped
    /\ moved' = InFlight' \cup (IF recon'.at \in {"compare", "resolve", "record"}
                                  THEN moved ELSE {})
    /\ GapStep

HistorySpec == HistoryInit /\ [][HistoryNext]_hvars

FairSpec == HistorySpec /\ WF_hvars(StartupStep /\ HistoryNext)

(* The position of a symbol is what the orders the broker filled for it add *)
(* up to, whatever fails and restarts; except that a flatten of more than   *)
(* one position drops every other position without an order that closes it  *)
(* (mockBroker.ts:131).                                                     *)
PositionsMatchFills ==
    \A s \in Symbols \ skipped : BrokerPosition(s) = net[s]

(* The reconciliation finds a discrepancy of a symbol exactly when a        *)
(* restart lost fills of it that were recorded, or failed statements left   *)
(* fills of it unrecorded, and the two do not cancel out; whatever failed,  *)
(* was flattened and restarted before, except for a symbol of which an      *)
(* order was on its way to the books while it read them                     *)
(* (reconciliation.ts:67, :192).                                            *)
AlarmsExplained ==
    recon.at \in {"resolve", "record"} =>
       \A s \in Symbols \ moved : s \in DOMAIN recon.found <=> gap[s] # 0
=============================================================================
