---------------------------- MODULE MCAdvisoryLock ----------------------------
(* Small instances of AdvisoryLock for TLC: two calls of withMultiLock for  *)
(* the same locks beside a call of withLock that meets neither, or all for  *)
(* lock 1.                                                                  *)
EXTENDS LockHistory, TLC

CONSTANTS c1, c2, c3

MCLocks == 1..3
MCOverlap == c1 :> {1, 2} @@ c2 :> {1, 2} @@ c3 :> {3}

MCOneLock == {1}
MCSame == [c \in Callers |-> {1}]
=============================================================================
