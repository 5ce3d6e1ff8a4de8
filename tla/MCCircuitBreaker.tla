--------------------------- MODULE MCCircuitBreaker ---------------------------
(* A small instance of CircuitBreaker for TLC, with a history variable: as  *)
(* long as runs have not overlapped, the breaker has to follow its diagram. *)
EXTENDS CircuitBreaker

VARIABLE overlapped  \* two runs have been under way at the same time

Overlap == \E v, w \in Workers :
              v # w /\ call[v].at # "idle" /\ call[w].at # "idle"

MCInit == Init /\ overlapped = FALSE

MCNext == Next /\ overlapped' = (overlapped \/ Overlap')

MCSpec ==
    /\ MCInit
    /\ [][MCNext]_<<vars, overlapped>>
    /\ Fairness

(* circuitBreaker.ts:6, "CLOSED -> OPEN -> HALF_OPEN -> CLOSED": while no   *)
(* two runs overlap, the row changes state along the breaker's diagram,     *)
(* whatever fails half-way and whatever the operator does to the account.   *)
LegalTransitions ==
    [][~overlapped' /\ breaker'.state # breaker.state =>
         <<breaker.state, breaker'.state>> \in
            {<<"closed", "open">>, <<"open", "half_open">>,
             <<"half_open", "closed">>, <<"half_open", "open">>}]_vars

=============================================================================
