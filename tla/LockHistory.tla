----------------------------- MODULE LockHistory -----------------------------
(* AdvisoryLock with a history variable: the sessions on which a statement  *)
(* has failed, an acquisition, an unlock or a SET LOCAL.                    *)
EXTENDS AdvisoryLock

VARIABLE spoiled

LockHistoryInit == LockInit /\ spoiled = {}

(* A session that is lost takes its locks with it.                          *)
LockHistoryNext ==
    /\ LockNext
    /\ spoiled' = {s \in Sessions : \/ session'[s] = "aborted"
                                    \/ s \in spoiled /\ ~Die(s)}

LockHistorySpec ==
    LockHistoryInit /\ [][LockHistoryNext]_<<lockVars, spoiled>>

(* The event loop resumes each call, and PostgreSQL grants a lock to those  *)
(* that wait for it in the order of their arrival.                          *)
FairLockSpec ==
    /\ LockHistorySpec
    /\ \A c \in Callers : WF_lockVars(Step(c)) /\ SF_lockVars(Acquire(c))

(* What NoLeak denies happens to a session only after a statement failed on *)
(* it: a lock survives neither its call, whether the callback returns or    *)
(* throws, nor its connection (lock.ts:126 and 171).  SET LOCAL is such a   *)
(* statement whenever a timeout is asked for.                               *)
LeakNeedsAFailure ==
    \A s \in Sessions :
        CheckedOut(s) \/ s \in spoiled \/ \A l \in Locks : holds[s][l] = 0

(* Every call ends: overlapping sets of locks do not deadlock (lock.ts:131, *)
(* "in a consistent order to prevent deadlocks"), unless a statement fails  *)
(* and its session may keep a lock.                                         *)
CallsEnd ==
    \A c \in Callers : caller[c].at = "connect"
                           ~> caller[c].at = "idle" \/ spoiled # {}
=============================================================================
