------------------------------ MODULE OrderDesk ------------------------------
(***************************************************************************)
(* What the hardened order processor promises the broker, without queue,    *)
(* runs, retries or failures: orders come to the desk of their account, one *)
(* at a time.  At the desk an order is claimed, if the version that was     *)
(* loaded for it is still the row's, and after the claim it is placed, once *)
(* and under a version it was never placed under; it may leave at any time. *)
(* OrderExecution implements it.                                            *)
(***************************************************************************)
EXTENDS Naturals

CONSTANTS Orders, Accounts, AccountOf, Nobody

VARIABLES
    desk,      \* who is at the desk of each account, and what comes next
    version,   \* the version of each order's row
    placedAt   \* the versions each order was placed under

vars == <<desk, version, placedAt>>

Visit(o, v, step) == [order |-> o, version |-> v, step |-> step]

Init ==
    /\ desk = [a \in Accounts |-> Nobody]
    /\ version = [o \in Orders |-> 1]
    /\ placedAt = [o \in Orders |-> {}]

MoveOn(o, visit) == desk' = [desk EXCEPT ![AccountOf[o]] = visit]

(* The version was loaded before the order had to wait for the desk. *)
Admit(o, v) ==
    /\ desk[AccountOf[o]] = Nobody
    /\ MoveOn(o, Visit(o, v, "submit"))
    /\ UNCHANGED <<version, placedAt>>

Claim(o) ==
    /\ desk[AccountOf[o]] = Visit(o, version[o], "submit")
    /\ MoveOn(o, Visit(o, version[o], "place"))
    /\ version' = [version EXCEPT ![o] = @ + 1]
    /\ UNCHANGED placedAt

Place(o, v) ==
    /\ desk[AccountOf[o]] = Visit(o, v, "place")
    /\ v \notin placedAt[o]
    /\ MoveOn(o, Visit(o, v, "unlock"))
    /\ placedAt' = [placedAt EXCEPT ![o] = @ \cup {v}]
    /\ UNCHANGED version

(* Served, refused by the claim or the broker, or gone with its process. *)
Leave(a) ==
    /\ desk' = [desk EXCEPT ![a] = Nobody]
    /\ UNCHANGED <<version, placedAt>>

(* Any other UPDATE of the row; it needs no desk. *)
Update(o) ==
    /\ version' = [version EXCEPT ![o] = @ + 1]
    /\ UNCHANGED <<desk, placedAt>>

Next ==
    \/ \E o \in Orders : \/ Claim(o) \/ Update(o)
                         \/ \E v \in 0..version[o] : Admit(o, v) \/ Place(o, v)
    \/ \E a \in Accounts : Leave(a)

Spec == Init /\ [][Next]_vars
=============================================================================
