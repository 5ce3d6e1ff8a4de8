---------------------------- MODULE MCTradeRules ----------------------------
(* A small instance of TradeRules, with its history, for TLC. *)
EXTENDS TradeHistory, TLC

Mapping(fixed, multiplier, longOnly, shortOnly, symbols) ==
    [fixed |-> fixed, multiplier |-> multiplier, longOnly |-> longOnly,
     shortOnly |-> shortOnly, symbols |-> symbols]

CONSTANTS ES, NQ

(* A fixed size above the account's limit, and a long-only account of one   *)
(* symbol whose multiplier rounds one contract down to nothing.             *)
MCMappings ==
    {Mapping(4, Scale, FALSE, FALSE, {}), Mapping(0, 5000, TRUE, FALSE, {ES})}

Signal(action, symbol, contracts) ==
    [action |-> action, symbol |-> symbol, contracts |-> contracts]

MCSignals ==
    {Signal("buy", ES, 1), Signal("sell", ES, 2), Signal("close", ES, 2),
     Signal("reverse", NQ, 3)}

(* Apart, so that one rule does not hide what another lets through.         *)
MCRuleSets ==
    {{"conflicting_position", "max_contracts"}, {"max_positions", "kill_switch"},
     {"daily_loss_limit", "symbol_whitelist"}, {"cooldown", "session_time"}}

Symmetry == Permutations(Alerts)
=============================================================================
