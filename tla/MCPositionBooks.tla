--------------------------- MODULE MCPositionBooks ---------------------------
(* A small instance of PositionBooks, with its history, for TLC. *)
EXTENDS PositionHistory

CONSTANTS ES, NQ

(* As the program runs, and as it would if two of the three were accepted.  *)
MCRefusals == {{"system_sync"}, {"broker_type", "system_sync", "success"}}

Trade(side, quantity, symbol) ==
    [symbol |-> symbol, side |-> side, quantity |-> quantity]

(* Enough to enlarge, reduce, close and reverse a position, beside another. *)
MCTrades == {Trade("buy", 1, ES), Trade("sell", 1, ES), Trade("sell", 3, ES),
             Trade("buy", 1, NQ)}
=============================================================================
