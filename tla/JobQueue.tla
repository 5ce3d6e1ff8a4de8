------------------------------ MODULE JobQueue ------------------------------
(***************************************************************************)
(* A BullMQ queue with its workers, as jobs/queues.ts and jobs/workers.ts   *)
(* use it: at-least-once delivery.  A job is active for the worker that     *)
(* took it; it goes back to waiting when the processor throws, until its    *)
(* attempts are used up, and when BullMQ thinks the worker has stalled.     *)
(* A processor's module EXTENDS this one and adds the steps of its runs.    *)
(***************************************************************************)
EXTENDS Integers

CONSTANTS
    Jobs,        \* the jobs added to the queue
    Workers,     \* concurrent executions of the processor
    None,        \* no worker
    Attempts,    \* the "attempts" option of the jobs
    MaxStalled,  \* maxStalledCount (1 unless configured)
    \* Bounds of what goes wrong in one behaviour:
    MaxFaults,   \* statements and queue calls that fail
    MaxCrashes,  \* processes that die
    MaxSlow      \* runs whose queue lock expires while they execute

ASSUME JobQueueAssumption ==
    /\ None \notin Workers \cup Jobs
    /\ Attempts \in Nat \ {0}
    /\ {MaxStalled, MaxFaults, MaxCrashes, MaxSlow} \subseteq Nat

VARIABLE job     \* state, attempts made, times stalled and owner of each job

JobStates == {"waiting", "active", "completed", "failed"}

JobTypeOK ==
    job \in [Jobs -> [state: JobStates, made: 0..Attempts,
                      stalls: 0..(MaxStalled + 1), owner: Workers \cup {None}]]

JobInit ==
    job = [j \in Jobs |-> [state |-> "waiting", made |-> 0, stalls |-> 0,
                           owner |-> None]]

(* A free worker takes a waiting job. *)
StartJob(w, j) ==
    /\ job[j].state = "waiting"
    /\ job' = [job EXCEPT ![j].state = "active", ![j].owner = w]

LastAttempt(j) == job[j].made + 1 >= Attempts

(* The worker reports that the processor returned (ok) or threw; a worker   *)
(* that no longer owns the job has no say.                                  *)
SettleJob(w, j, ok) ==
    \/ /\ job[j].owner # w
       /\ UNCHANGED job
    \/ /\ job[j].owner = w
       /\ ok
       /\ job' = [job EXCEPT ![j].state = "completed", ![j].owner = None]
    \/ /\ job[j].owner = w
       /\ ~ok
       /\ job' = [job EXCEPT
                    ![j].state = IF LastAttempt(j) THEN "failed" ELSE "waiting",
                    ![j].made  = @ + 1,
                    ![j].owner = None]

(* The lock of an active job expired. *)
StallJob(j) ==
    /\ job[j].state = "active"
    /\ job' = [job EXCEPT
                 ![j].state  = IF job[j].stalls >= MaxStalled THEN "failed"
                                                              ELSE "waiting",
                 ![j].stalls = @ + 1,
                 ![j].owner  = None]

EndedJob(j) == job[j].state \in {"completed", "failed"}

(* How often the queue handed the job out. *)
HandedOut(j) ==
    job[j].made + job[j].stalls
      + IF job[j].state \in {"active", "completed"} THEN 1 ELSE 0
=============================================================================
