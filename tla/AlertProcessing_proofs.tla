------------------------ MODULE AlertProcessing_proofs ------------------------
(***************************************************************************)
(* For any number of alerts, accounts, workers, failures, crashes and       *)
(* stalls: the state is well typed, an alert never gets more trade requests *)
(* than its job was handed out, a completed job is a processed alert, a     *)
(* refused request has no order, an alert whose attempts are used up has    *)
(* its dead letter unless two more failures took it, and the books of a     *)
(* completed alert agree as long as nothing has failed.                     *)
(*                                                                         *)
(* RequestsBounded is not inductive: a run that has not yet made its        *)
(* request may be one whose job has long been given to another worker.  The *)
(* invariant counts those runs (Pending) together with the requests.  That  *)
(* the count is bounded, hence the typing of created, rests on JobInv: a    *)
(* job that has not failed has attempts and stalls left.                    *)
(***************************************************************************)
EXTENDS AlertProcessing, FiniteSetTheorems, TLAPS

USE JobQueueAssumption, AlertProcessingAssumption DEF Alerts

JobInv ==
    \A a \in Jobs :
        /\ job[a].state # "failed" => job[a].made < Attempts
                                      /\ job[a].stalls <= MaxStalled
        /\ job[a].made + job[a].stalls <= Attempts + MaxStalled
        /\ job[a].owner \in Workers => job[a].state = "active"

-----------------------------------------------------------------------------
(* The queue. *)

LEMMA JobRecord ==
    ASSUME JobTypeOK, NEW a \in Jobs
    PROVE  /\ job[a].state \in JobStates /\ job[a].owner \in Workers \cup {None}
           /\ job[a].made \in 0..Attempts
           /\ job[a].stalls \in 0..(MaxStalled + 1)
BY DEF JobTypeOK

LEMMA HandedOutBounded ==
    ASSUME JobTypeOK, JobInv, NEW a \in Jobs
    PROVE  HandedOut(a) \in 0..(Attempts + MaxStalled)
<1>1. /\ job[a].state \in JobStates
      /\ job[a].made \in Nat /\ job[a].stalls \in Nat
  BY JobRecord
<1>2. CASE job[a].state = "failed"
  BY <1>1, <1>2 DEF JobInv, HandedOut
<1>3. CASE job[a].state # "failed"
  BY <1>1, <1>3 DEF JobInv, HandedOut
<1> QED
  BY <1>2, <1>3

(* Only job j changes, in these fields. *)
Becomes(j, state, made, stalls, owner) ==
    /\ job'[j].state = state /\ job'[j].owner = owner
    /\ job'[j].made = made /\ job'[j].stalls = stalls
    /\ \A a \in Jobs : a # j => job'[a] = job[a]

LEMMA StartsJob ==
    ASSUME JobTypeOK, NEW w \in Workers, NEW j \in Jobs, StartJob(w, j)
    PROVE  /\ JobTypeOK'
           /\ Becomes(j, "active", job[j].made, job[j].stalls, w)
<1>1. "active" \in JobStates
  BY DEF JobStates
<1> QED
  BY <1>1 DEF JobTypeOK, StartJob, Becomes

LEMMA StallsJob ==
    ASSUME JobTypeOK, JobInv, NEW j \in Jobs, StallJob(j)
    PROVE  /\ JobTypeOK'
           /\ Becomes(j, IF job[j].stalls >= MaxStalled THEN "failed" ELSE "waiting",
                      job[j].made, job[j].stalls + 1, None)
<1>1. {"failed", "waiting"} \subseteq JobStates
  BY DEF JobStates
<1>2. job[j].stalls + 1 \in 0..(MaxStalled + 1)
  BY JobRecord DEF JobInv, StallJob
<1> QED
  BY <1>1, <1>2 DEF JobTypeOK, StallJob, Becomes

LEMMA SettlesJob ==
    ASSUME JobTypeOK, JobInv, NEW w \in Workers, NEW j \in Jobs,
           NEW ok \in BOOLEAN, SettleJob(w, j, ok)
    PROVE  /\ JobTypeOK'
           /\ \/ job' = job
              \/ /\ job[j].state = "active" /\ ok
                 /\ Becomes(j, "completed", job[j].made, job[j].stalls, None)
              \/ /\ job[j].state = "active" /\ ~ok
                 /\ Becomes(j, IF LastAttempt(j) THEN "failed" ELSE "waiting",
                            job[j].made + 1, job[j].stalls, None)
<1>1. {"completed", "failed", "waiting"} \subseteq JobStates
  BY DEF JobStates
<1>2. CASE job[j].owner # w
  <2>1. job' = job
    BY <1>2 DEF SettleJob
  <2> QED
    BY <2>1 DEF JobTypeOK
<1>3. CASE job[j].owner = w /\ ok
  <2>1. job[j].state = "active"
    BY <1>3 DEF JobInv
  <2>2. job' = [job EXCEPT ![j].state = "completed", ![j].owner = None]
    BY <1>3 DEF SettleJob
  <2>3. JobTypeOK' /\ Becomes(j, "completed", job[j].made, job[j].stalls, None)
    BY <1>1, <2>2 DEF JobTypeOK, Becomes
  <2> QED
    BY <1>3, <2>1, <2>3
<1>4. CASE job[j].owner = w /\ ~ok
  <2>1. job[j].state = "active"
    BY <1>4 DEF JobInv
  <2>2. job' = [job EXCEPT
                  ![j].state = IF LastAttempt(j) THEN "failed" ELSE "waiting",
                  ![j].made  = job[j].made + 1,
                  ![j].owner = None]
    BY <1>4 DEF SettleJob
  <2>3. job[j].made + 1 \in 0..Attempts
    BY <2>1, JobRecord DEF JobInv
  <2>4. (IF LastAttempt(j) THEN "failed" ELSE "waiting") \in JobStates
    BY <1>1
  <2>5. JobTypeOK' /\ Becomes(j, IF LastAttempt(j) THEN "failed" ELSE "waiting",
                              job[j].made + 1, job[j].stalls, None)
    BY <2>2, <2>3, <2>4 DEF JobTypeOK, Becomes
  <2> QED
    BY <1>4, <2>1, <2>5
<1> QED
  BY <1>2, <1>3, <1>4

(* A job that is taken is handed out once more; a job that is settled or    *)
(* stalls is not.                                                           *)
LEMMA TakenOnceMore ==
    ASSUME JobTypeOK, JobInv, NEW w \in Workers, NEW j \in Jobs, StartJob(w, j)
    PROVE  /\ JobTypeOK' /\ JobInv'
           /\ HandedOut(j)' = HandedOut(j) + 1
           /\ \A a \in Jobs : a # j => HandedOut(a)' = HandedOut(a)
<1>1. /\ JobTypeOK'
      /\ Becomes(j, "active", job[j].made, job[j].stalls, w)
  BY StartsJob
<1>2. job[j].state = "waiting" /\ job[j].made \in Nat /\ job[j].stalls \in Nat
  BY JobRecord DEF StartJob
<1>3. JobInv'
  BY <1>1, <1>2 DEF JobInv, Becomes
<1>4. HandedOut(j)' = HandedOut(j) + 1
  BY <1>1, <1>2 DEF Becomes, HandedOut
<1>5. \A a \in Jobs : a # j => HandedOut(a)' = HandedOut(a)
  BY <1>1 DEF Becomes, HandedOut
<1> QED
  BY <1>1, <1>3, <1>4, <1>5

(* What BullMQ may do to the jobs at the end of a run, or beside it. *)
JobsStay ==
    /\ JobTypeOK' /\ JobInv'
    /\ \A a \in Jobs : HandedOut(a)' = HandedOut(a)

LEMMA StalledNoMore ==
    ASSUME JobTypeOK, JobInv, NEW j \in Jobs, StallJob(j)
    PROVE  JobsStay /\ \A a \in Jobs : job'[a].state = "completed"
                                         => job[a].state = "completed"
<1> DEFINE next == IF job[j].stalls >= MaxStalled THEN "failed" ELSE "waiting"
<1>1. JobTypeOK' /\ Becomes(j, next, job[j].made, job[j].stalls + 1, None)
  BY StallsJob
<1>2. /\ job[j].state = "active" /\ job[j].made \in Nat /\ job[j].stalls \in Nat
      /\ job[j].made < Attempts /\ job[j].stalls <= MaxStalled
  BY JobRecord DEF StallJob, JobInv
<1>3. JobInv'
  BY <1>1, <1>2 DEF JobInv, Becomes
<1>4. HandedOut(j)' = HandedOut(j)
  BY <1>1, <1>2 DEF Becomes, HandedOut
<1>5. \A a \in Jobs : a # j => HandedOut(a)' = HandedOut(a)
  BY <1>1 DEF Becomes, HandedOut
<1>6. \A a \in Jobs : job'[a].state = "completed" => job[a].state = "completed"
  BY <1>1 DEF Becomes
<1> QED
  BY <1>1, <1>3, <1>4, <1>5, <1>6 DEF JobsStay

LEMMA SettledNoMore ==
    ASSUME JobTypeOK, JobInv, NEW w \in Workers, NEW j \in Jobs,
           NEW ok \in BOOLEAN, SettleJob(w, j, ok)
    PROVE  JobsStay /\ \A a \in Jobs : job'[a].state = "completed"
                                         => job[a].state = "completed" \/ (a = j /\ ok)
<1>1. /\ JobTypeOK'
      /\ \/ job' = job
         \/ /\ job[j].state = "active" /\ ok
            /\ Becomes(j, "completed", job[j].made, job[j].stalls, None)
         \/ /\ job[j].state = "active" /\ ~ok
            /\ Becomes(j, IF LastAttempt(j) THEN "failed" ELSE "waiting",
                       job[j].made + 1, job[j].stalls, None)
  BY SettlesJob
<1>2. job[j].made \in Nat /\ job[j].stalls \in Nat
  BY JobRecord
<1>3. CASE job' = job
  BY <1>1, <1>3 DEF JobsStay, JobInv, HandedOut
<1>4. CASE /\ job[j].state = "active" /\ ok
           /\ Becomes(j, "completed", job[j].made, job[j].stalls, None)
  <2>1. JobInv'
    BY <1>2, <1>4 DEF JobInv, Becomes
  <2>2. \A a \in Jobs : HandedOut(a)' = HandedOut(a)
    BY <1>2, <1>4 DEF Becomes, HandedOut
  <2> QED
    BY <1>1, <1>4, <2>1, <2>2 DEF JobsStay, Becomes
<1>5. CASE /\ job[j].state = "active" /\ ~ok
           /\ Becomes(j, IF LastAttempt(j) THEN "failed" ELSE "waiting",
                      job[j].made + 1, job[j].stalls, None)
  <2>1. JobInv'
    BY <1>2, <1>5 DEF JobInv, Becomes, LastAttempt
  <2>2. \A a \in Jobs : HandedOut(a)' = HandedOut(a)
    BY <1>2, <1>5 DEF Becomes, HandedOut
  <2> QED
    BY <1>1, <1>5, <2>1, <2>2 DEF JobsStay, Becomes
<1> QED
  BY <1>1, <1>3, <1>4, <1>5

-----------------------------------------------------------------------------
(* The runs. *)

BeforeRequest == {"load", "killSwitch", "mappings", "create"}

Pending(a) ==
    {w \in Workers : run[w].alert = a /\ run[w].at \in BeforeRequest}

HasAlert == \A w \in Workers : run[w].at # "idle" => run[w].alert \in Jobs

RequestsCounted ==
    \A a \in Jobs : created[a] + Cardinality(Pending(a)) <= HandedOut(a)

DoneIsProcessed ==
    \A w \in Workers : run[w].at = "ack" /\ run[w].ok => run[w].alert \in processed

IInv ==
    /\ TypeOK /\ JobInv /\ HasAlert /\ RequestsCounted
    /\ DoneIsProcessed /\ CompletedIsProcessed

LEMMA PendingFinite ==
    ASSUME NEW a \in Jobs
    PROVE  IsFiniteSet(Pending(a)) /\ Cardinality(Pending(a)) \in Nat
<1>1. Pending(a) \subseteq Workers
  BY DEF Pending
<1>2. IsFiniteSet(Pending(a))
  BY <1>1, FS_Subset
<1> QED
  BY <1>2, FS_CardinalityType

(* Run w goes on with its alert, past the request if it was past it, or is  *)
(* over; it is acknowledged as successful for a processed alert only.       *)
Moves(w) ==
    /\ run' \in [Workers -> RunType]
    /\ \A v \in Workers : v # w => run'[v] = run[v]
    /\ run[w].at # "idle"
    /\ \/ run'[w].at = "idle"
       \/ /\ run'[w].alert = run[w].alert
          /\ run'[w].at \in BeforeRequest => run[w].at \in BeforeRequest
    /\ run'[w].at = "ack" /\ run'[w].ok => run[w].alert \in processed'

Others ==
    /\ request' \in [Alerts -> [RequestNumbers ->
                      {"none", "copying", "risk_rejected", "completed", "failed"}]]
    /\ order' \in [Alerts -> [RequestNumbers -> [Accounts ->
                      {"none", "saved", "queued"}]]]
    /\ killSwitch' \in BOOLEAN
    /\ tradable' \subseteq Accounts
    /\ deadLetters' \in [Alerts -> Nat]
    /\ budget' \in [flips: Nat, faults: Nat, crashes: Nat, slow: Nat]
    /\ processed' \subseteq Alerts
    /\ processed \subseteq processed'

LEMMA MovesKeep ==
    ASSUME IInv, NEW w \in Workers, Moves(w), Others, created' = created,
           JobsStay, CompletedIsProcessed'
    PROVE  IInv'
<1>1. TypeOK'
  BY DEF IInv, TypeOK, Moves, Others, JobsStay
<1>2. HasAlert'
  BY DEF IInv, HasAlert, Moves
<1>3. DoneIsProcessed'
  BY DEF IInv, DoneIsProcessed, Moves, Others
<1>4. ASSUME NEW a \in Jobs
      PROVE  created'[a] + Cardinality(Pending(a)') <= HandedOut(a)'
  <2>1. Pending(a)' \subseteq Pending(a)
    BY DEF Pending, Moves, BeforeRequest
  <2>2. Cardinality(Pending(a)') <= Cardinality(Pending(a))
    BY <2>1, PendingFinite, FS_Subset
  <2>3. /\ Cardinality(Pending(a)) \in Nat /\ Cardinality(Pending(a)') \in Nat
    BY <2>1, PendingFinite, FS_Subset, FS_CardinalityType
  <2>4. created[a] \in Nat /\ HandedOut(a) \in Nat
    BY HandedOutBounded DEF IInv, TypeOK
  <2>5. created[a] + Cardinality(Pending(a)) <= HandedOut(a)
    BY DEF IInv, RequestsCounted
  <2>6. HandedOut(a)' = HandedOut(a) /\ created'[a] = created[a]
    BY DEF JobsStay
  <2> QED
    BY <2>2, <2>3, <2>4, <2>5, <2>6
<1> QED
  BY <1>1, <1>2, <1>3, <1>4 DEF IInv, RequestsCounted, JobsStay

(* Steps beside the queue: the jobs do not change. *)
LEMMA JobsUnchanged ==
    ASSUME IInv, job' = job, processed \subseteq processed'
    PROVE  JobsStay /\ CompletedIsProcessed'
<1>1. JobTypeOK' /\ JobInv'
  BY DEF IInv, TypeOK, JobTypeOK, JobInv
<1>2. \A a \in Jobs : HandedOut(a)' = HandedOut(a)
  BY DEF HandedOut
<1>3. CompletedIsProcessed'
  BY DEF IInv, CompletedIsProcessed
<1> QED
  BY <1>1, <1>2, <1>3 DEF JobsStay

LEMMA RunGoesTo ==
    ASSUME TypeOK, HasAlert, NEW w \in Workers, run[w].at # "idle",
           NEW step \in Steps \ {"idle", "ack"}, GoTo(w, step),
           step \in BeforeRequest => run[w].at \in BeforeRequest
    PROVE  Moves(w)
<1>1. run \in [Workers -> RunType]
  BY DEF TypeOK
<1>2. run'[w] = [run[w] EXCEPT !.at = step]
  BY <1>1 DEF GoTo
<1>3. /\ run'[w] \in RunType /\ run'[w].at = step
      /\ run'[w].alert = run[w].alert
  BY <1>1, <1>2 DEF RunType
<1>4. \A v \in Workers : v # w => run'[v] = run[v]
  BY <1>1 DEF GoTo
<1>5. run' \in [Workers -> RunType]
  BY <1>1, <1>3 DEF GoTo
<1> QED
  BY <1>3, <1>4, <1>5 DEF Moves

LEMMA RunGoesToWith ==
    ASSUME TypeOK, HasAlert, NEW w \in Workers, run[w].at # "idle",
           NEW step \in Steps \ {"idle", "ack"},
           NEW left \in SUBSET Accounts, NEW safe \in SUBSET Accounts,
           run' = [run EXCEPT ![w] = [run[w] EXCEPT !.at = step, !.left = left,
                                                    !.safe = safe]],
           step \in BeforeRequest => run[w].at \in BeforeRequest
    PROVE  Moves(w)
<1>1. run \in [Workers -> RunType]
  BY DEF TypeOK
<1>2. run'[w] = [run[w] EXCEPT !.at = step, !.left = left, !.safe = safe]
  BY <1>1
<1>3. /\ run'[w] \in RunType /\ run'[w].at = step
      /\ run'[w].alert = run[w].alert
  BY <1>1, <1>2 DEF RunType
<1>4. \A v \in Workers : v # w => run'[v] = run[v]
  BY <1>1
<1>5. run' \in [Workers -> RunType]
  BY <1>1, <1>3
<1> QED
  BY <1>3, <1>4, <1>5 DEF Moves

LEMMA RunFinishes ==
    ASSUME TypeOK, NEW w \in Workers, run[w].at # "idle", NEW ok \in BOOLEAN,
           Finish(w, ok), ok => run[w].alert \in processed'
    PROVE  Moves(w)
<1>1. run \in [Workers -> RunType] /\ "ack" \in Steps
  BY DEF TypeOK, Steps
<1>2. run'[w] = [run[w] EXCEPT !.at = "ack", !.ok = ok]
  BY <1>1 DEF Finish
<1>3. run[w] \in RunType
  BY <1>1
<1>4. run'[w] \in RunType
  BY <1>1, <1>2, <1>3 DEF RunType
<1>5. run'[w].at = "ack" /\ run'[w].alert = run[w].alert
  BY <1>2, <1>3 DEF RunType
<1>6. run'[w].ok => ok
  BY <1>2, <1>3, Zenon DEF RunType
<1>7. \A v \in Workers : v # w => run'[v] = run[v]
  BY <1>1 DEF Finish
<1>8. run' \in [Workers -> RunType]
  BY <1>1, <1>4 DEF Finish
<1> QED
  BY <1>5, <1>6, <1>7, <1>8 DEF Moves, BeforeRequest

LEMMA RunEnds ==
    ASSUME TypeOK, NEW w \in Workers, run[w].at # "idle",
           run' = [run EXCEPT ![w] = Idle]
    PROVE  Moves(w)
<1>1. Idle \in RunType /\ Idle.at = "idle"
  BY DEF Idle, RunType, Steps
<1>2. run'[w] = Idle /\ \A v \in Workers : v # w => run'[v] = run[v]
  BY DEF TypeOK
<1>3. run' \in [Workers -> RunType]
  BY <1>1 DEF TypeOK
<1> QED
  BY <1>1, <1>2, <1>3 DEF Moves

-----------------------------------------------------------------------------
(* The steps of a run, each one that leaves the jobs and the number of      *)
(* requests alone. *)

Beside == <<job, processed, created, request, order, killSwitch, tradable,
            deadLetters>>

LEMMA MovesAlone ==
    ASSUME IInv, NEW w \in Workers, Moves(w), UNCHANGED Beside,
           budget' \in [flips: Nat, faults: Nat, crashes: Nat, slow: Nat]
    PROVE  IInv'
<1>1. Others
  BY DEF IInv, TypeOK, Beside, Others
<1>2. JobsStay /\ CompletedIsProcessed'
  BY JobsUnchanged DEF Beside
<1> QED
  BY <1>1, <1>2, MovesKeep DEF Beside

LEMMA BudgetStays ==
    ASSUME IInv, UNCHANGED budget
    PROVE  budget' \in [flips: Nat, faults: Nat, crashes: Nat, slow: Nat]
BY DEF IInv, TypeOK

LEMMA Spends ==
    ASSUME IInv, NEW what \in {"flips", "faults", "crashes", "slow"}, Spend(what)
    PROVE  budget' \in [flips: Nat, faults: Nat, crashes: Nat, slow: Nat]
BY DEF IInv, TypeOK, Spend

LEMMA ReadingSteps ==
    ASSUME IInv, NEW w \in Workers,
           \/ LoadAlert(w) \/ CheckKillSwitch(w) \/ LoadMappings(w)
           \/ AllChecked(w) \/ LoadCopierMappings(w) \/ AllCopied(w)
    PROVE  IInv'
<1>1. /\ TypeOK /\ HasAlert /\ run \in [Workers -> RunType]
      /\ tradable \subseteq Accounts /\ run[w] \in RunType
  BY DEF IInv, TypeOK
<1>2. UNCHANGED Beside /\ UNCHANGED budget
  BY DEF LoadAlert, CheckKillSwitch, LoadMappings, AllChecked,
         LoadCopierMappings, AllCopied, Beside
<1>3. run[w].at # "idle"
  BY DEF LoadAlert, CheckKillSwitch, LoadMappings, AllChecked,
         LoadCopierMappings, AllCopied
<1>4. \/ \E step \in Steps \ {"idle", "ack"} :
            /\ GoTo(w, step)
            /\ step \in BeforeRequest => run[w].at \in BeforeRequest
      \/ \E step \in Steps \ {"idle", "ack"} :
            /\ GoToWith(w, step, tradable)
            /\ step \in BeforeRequest => run[w].at \in BeforeRequest
  <2>1. CASE LoadAlert(w)
    BY <2>1 DEF LoadAlert, Steps, BeforeRequest
  <2>2. CASE CheckKillSwitch(w)
    BY <2>2 DEF CheckKillSwitch, Steps, BeforeRequest
  <2>3. CASE LoadMappings(w)
    BY <2>3 DEF LoadMappings, Steps, BeforeRequest
  <2>4. CASE AllChecked(w)
    BY <2>4 DEF AllChecked, Steps, BeforeRequest
  <2>5. CASE LoadCopierMappings(w)
    BY <2>5 DEF LoadCopierMappings, Steps, BeforeRequest
  <2>6. CASE AllCopied(w)
    BY <2>6 DEF AllCopied, Steps, BeforeRequest
  <2> QED
    BY <2>1, <2>2, <2>3, <2>4, <2>5, <2>6
<1>5. Moves(w)
  <2>1. CASE \E step \in Steps \ {"idle", "ack"} :
               /\ GoTo(w, step)
               /\ step \in BeforeRequest => run[w].at \in BeforeRequest
    BY <1>1, <1>3, <2>1, RunGoesTo
  <2>2. ASSUME NEW step \in Steps \ {"idle", "ack"},
               GoToWith(w, step, tradable),
               step \in BeforeRequest => run[w].at \in BeforeRequest
        PROVE  Moves(w)
    <3>1. run' = [run EXCEPT ![w] =
                    [run[w] EXCEPT !.at = step, !.left = tradable,
                                   !.safe = run[w].safe]]
      BY <1>1, <2>2 DEF GoToWith, RunType
    <3>2. run[w].safe \in SUBSET Accounts /\ tradable \in SUBSET Accounts
      BY <1>1 DEF RunType
    <3> QED
      BY <1>1, <1>3, <2>2, <3>1, <3>2, RunGoesToWith
  <2> QED
    BY <1>4, <2>1, <2>2
<1> QED
  BY <1>2, <1>5, MovesAlone, BudgetStays

LEMMA DropsAccount ==
    ASSUME IInv, NEW w \in Workers, NEW c, DropAccount(w, c),
           run[w].at # "idle"
    PROVE  Moves(w)
<1>1. /\ TypeOK /\ HasAlert /\ run \in [Workers -> RunType] /\ run[w] \in RunType
  BY DEF IInv, TypeOK
<1>2. run' = [run EXCEPT ![w] = [run[w] EXCEPT !.at = "copy",
                                   !.left = run[w].left \ {c},
                                   !.safe = run[w].safe]]
  BY <1>1 DEF DropAccount, RunType
<1>3. run[w].left \ {c} \in SUBSET Accounts /\ run[w].safe \in SUBSET Accounts
  BY <1>1 DEF RunType
<1>4. "copy" \in Steps \ {"idle", "ack"} /\ "copy" \notin BeforeRequest
  BY DEF Steps, BeforeRequest
<1> QED
  BY <1>1, <1>2, <1>3, <1>4, RunGoesToWith

LEMMA AccountSteps ==
    ASSUME IInv, NEW w \in Workers, CheckAccount(w) \/ SkipAccount(w)
    PROVE  IInv'
<1>1. UNCHANGED Beside /\ UNCHANGED budget /\ run[w].at # "idle"
  BY DEF CheckAccount, SkipAccount, Beside
<1>2. CASE CheckAccount(w)
  <2>1. /\ TypeOK /\ HasAlert /\ run \in [Workers -> RunType] /\ run[w] \in RunType
        /\ tradable \subseteq Accounts
    BY DEF IInv, TypeOK
  <2>2. PICK c \in run[w].left : \E safe \in SUBSET ({c} \cap tradable) :
          run' = [run EXCEPT ![w].left = @ \ {c}, ![w].safe = @ \cup safe]
    BY <1>2 DEF CheckAccount
  <2>3. PICK safe \in SUBSET ({c} \cap tradable) :
          run' = [run EXCEPT ![w].left = @ \ {c}, ![w].safe = @ \cup safe]
    BY <2>2
  <2>3a. run' = [run EXCEPT ![w] = [run[w] EXCEPT
                    !.left = run[w].left \ {c}, !.safe = run[w].safe \cup safe]]
    BY <2>1, <2>3
  <2>3b. run[w].at = "check"
    BY <1>2 DEF CheckAccount
  <2>3c. [run[w] EXCEPT !.left = run[w].left \ {c},
                        !.safe = run[w].safe \cup safe]
         = [run[w] EXCEPT !.at = "check", !.left = run[w].left \ {c},
                          !.safe = run[w].safe \cup safe]
    BY <2>1, <2>3b DEF RunType
  <2>4. run' = [run EXCEPT ![w] = [run[w] EXCEPT !.at = "check",
                                     !.left = run[w].left \ {c},
                                     !.safe = run[w].safe \cup safe]]
    BY <2>3a, <2>3c
  <2>5. /\ run[w].left \ {c} \in SUBSET Accounts
        /\ run[w].safe \cup safe \in SUBSET Accounts
    BY <2>1 DEF RunType
  <2>6. "check" \in Steps \ {"idle", "ack"} /\ "check" \notin BeforeRequest
    BY DEF Steps, BeforeRequest
  <2>7. Moves(w)
    BY <1>1, <2>1, <2>4, <2>5, <2>6, RunGoesToWith
  <2> QED
    BY <1>1, <2>7, MovesAlone, BudgetStays
<1>3. CASE SkipAccount(w)
  <2>1. Moves(w)
    BY <1>1, <1>3, DropsAccount DEF SkipAccount
  <2> QED
    BY <1>1, <2>1, MovesAlone, BudgetStays
<1> QED
  BY <1>2, <1>3

OrderType == [Alerts -> [RequestNumbers -> [Accounts -> {"none", "saved", "queued"}]]]

LEMMA SetsOrder ==
    ASSUME IInv, NEW w \in Workers, NEW c \in Accounts, run[w].alert \in Jobs,
           NEW state \in {"saved", "queued"}, SetOrder(w, c, state)
    PROVE  order' \in OrderType
<1> DEFINE a == run[w].alert
           k == run[w].n
<1>1. order \in OrderType
  BY DEF IInv, TypeOK, OrderType
<1>2. order' = [order EXCEPT ![a] = [order[a] EXCEPT ![k] =
                                        [order[a][k] EXCEPT ![c] = state]]]
  BY DEF SetOrder, AlertOf
<1>3. order[a] \in [RequestNumbers -> [Accounts -> {"none", "saved", "queued"}]]
  BY <1>1 DEF OrderType
<1>4. ASSUME k \in RequestNumbers
      PROVE  [order[a][k] EXCEPT ![c] = state]
               \in [Accounts -> {"none", "saved", "queued"}]
  BY <1>3, <1>4
<1>5. [order[a] EXCEPT ![k] = [order[a][k] EXCEPT ![c] = state]]
        \in [RequestNumbers -> [Accounts -> {"none", "saved", "queued"}]]
  <2>1. CASE k \in RequestNumbers
    BY <1>3, <1>4, <2>1
  <2>2. CASE k \notin RequestNumbers
    BY <1>3, <2>2
  <2> QED
    BY <2>1, <2>2
<1> HIDE DEF a, k
<1> QED
  BY <1>1, <1>2, <1>5 DEF OrderType

LEMMA OrderSteps ==
    ASSUME IInv, NEW w \in Workers, PersistOrder(w) \/ EnqueueOrder(w)
    PROVE  IInv'
<1>1. /\ UNCHANGED <<job, processed, created, request, killSwitch, tradable,
                     deadLetters, budget>>
      /\ run[w].at \in {"copy", "enqueue"}
  BY DEF PersistOrder, EnqueueOrder
<1>2. /\ TypeOK /\ HasAlert /\ run[w] \in RunType /\ run[w].alert \in Jobs
  BY <1>1 DEF IInv, TypeOK, HasAlert
<1>3. Moves(w) /\ order' \in OrderType
  <2>1. CASE PersistOrder(w)
    <3>1. PICK c \in run[w].left \cap tradable : SetOrder(w, c, "saved")
      BY <2>1 DEF PersistOrder
    <3>2. c \in Accounts
      BY <1>2, <3>1 DEF TypeOK
    <3>3. order' \in OrderType
      BY <1>2, <3>1, <3>2, SetsOrder
    <3>4. "enqueue" \in Steps \ {"idle", "ack"} /\ "enqueue" \notin BeforeRequest
      BY DEF Steps, BeforeRequest
    <3>5. Moves(w)
      BY <1>1, <1>2, <2>1, <3>4, RunGoesTo DEF PersistOrder
    <3> QED
      BY <3>3, <3>5
  <2>2. CASE EnqueueOrder(w)
    <3>1. PICK c \in Accounts : SetOrder(w, c, "queued") /\ DropAccount(w, c)
      BY <2>2 DEF EnqueueOrder
    <3>2. order' \in OrderType
      BY <1>2, <3>1, SetsOrder
    <3>3. Moves(w)
      BY <1>1, <3>1, DropsAccount
    <3> QED
      BY <3>2, <3>3
  <2> QED
    BY <2>1, <2>2
<1>4. Others
  BY <1>1, <1>3 DEF IInv, TypeOK, Others, OrderType
<1>5. JobsStay /\ CompletedIsProcessed'
  BY <1>1, JobsUnchanged
<1> QED
  BY <1>1, <1>3, <1>4, <1>5, MovesKeep

RequestType ==
    [Alerts -> [RequestNumbers ->
       {"none", "copying", "risk_rejected", "completed", "failed"}]]

LEMMA SetsRequest ==
    ASSUME IInv, NEW a \in Jobs, NEW k,
           NEW status \in {"copying", "risk_rejected", "completed", "failed"},
           request' = [request EXCEPT ![a][k] = status]
    PROVE  request' \in RequestType
<1>1. request \in RequestType
  BY DEF IInv, TypeOK, RequestType
<1>2. request' = [request EXCEPT ![a] = [request[a] EXCEPT ![k] = status]]
  OBVIOUS
<1>3. [request[a] EXCEPT ![k] = status]
        \in [RequestNumbers ->
              {"none", "copying", "risk_rejected", "completed", "failed"}]
  BY <1>1 DEF RequestType
<1> QED
  BY <1>1, <1>2, <1>3 DEF RequestType

LEMMA StatusStep ==
    ASSUME IInv, NEW w \in Workers, UpdateTradeRequestStatus(w)
    PROVE  IInv'
<1>1. /\ UNCHANGED <<job, processed, created, order, killSwitch, tradable,
                     deadLetters, budget>>
      /\ run[w].at = "status"
  BY DEF UpdateTradeRequestStatus
<1>2. /\ TypeOK /\ HasAlert /\ run[w].alert \in Jobs
  BY <1>1 DEF IInv, HasAlert
<1>3. PICK status \in {"completed", "failed"} :
        request' = [request EXCEPT ![run[w].alert][run[w].n] = status]
  BY DEF UpdateTradeRequestStatus, AlertOf
<1>4. request' \in RequestType
  BY <1>2, <1>3, SetsRequest
<1>5. "mark" \in Steps \ {"idle", "ack"} /\ "mark" \notin BeforeRequest
  BY DEF Steps, BeforeRequest
<1>6. Moves(w)
  BY <1>1, <1>2, <1>5, RunGoesTo DEF UpdateTradeRequestStatus
<1>7. Others
  BY <1>1, <1>4 DEF IInv, TypeOK, Others, RequestType
<1>8. JobsStay /\ CompletedIsProcessed'
  BY <1>1, JobsUnchanged
<1> QED
  BY <1>1, <1>6, <1>7, <1>8, MovesKeep

LEMMA MarkStep ==
    ASSUME IInv, NEW w \in Workers, MarkAlertProcessed(w)
    PROVE  IInv'
<1>1. /\ UNCHANGED <<job, created, request, order, killSwitch, tradable,
                     deadLetters, budget>>
      /\ run[w].at = "mark" /\ Finish(w, TRUE)
      /\ processed' = processed \cup {run[w].alert}
  BY DEF MarkAlertProcessed, AlertOf
<1>2. TypeOK /\ run[w].alert \in Jobs
  BY <1>1 DEF IInv, HasAlert
<1>3. Moves(w)
  BY <1>1, <1>2, RunFinishes
<1>4. Others
  BY <1>1, <1>2 DEF TypeOK, Others
<1>5. JobsStay /\ CompletedIsProcessed'
  BY <1>1, JobsUnchanged
<1> QED
  BY <1>1, <1>3, <1>4, <1>5, MovesKeep

LEMMA DeadLetterWritten ==
    ASSUME IInv, NEW w \in Workers, Moves(w),
           deadLetters' \in {deadLetters,
                             [deadLetters EXCEPT ![run[w].alert] = @ + 1]},
           UNCHANGED <<job, processed, created, request, order, killSwitch,
                       tradable, budget>>
    PROVE  IInv'
<1>0. deadLetters \in [Alerts -> Nat]
  BY DEF IInv, TypeOK
<1>1. deadLetters' \in [Alerts -> Nat]
  <2>1. PICK a : deadLetters' \in {deadLetters, [deadLetters EXCEPT ![a] = @ + 1]}
    OBVIOUS
  <2>2. CASE a \in Alerts
    <3>1. deadLetters[a] + 1 \in Nat
      BY <1>0, <2>2
    <3> QED
      BY <1>0, <2>1, <3>1
  <2>3. CASE a \notin Alerts
    BY <1>0, <2>1, <2>3
  <2> QED
    BY <2>2, <2>3
<1>2. Others
  BY <1>1 DEF IInv, TypeOK, Others
<1>3. JobsStay /\ CompletedIsProcessed'
  BY JobsUnchanged
<1> QED
  BY <1>2, <1>3, MovesKeep

LEMMA FailingSteps ==
    ASSUME IInv, NEW w \in Workers, CatchError(w) \/ OnFailed(w)
    PROVE  IInv'
<1>1. /\ UNCHANGED <<job, processed, created, request, order, killSwitch,
                     tradable, budget>>
      /\ deadLetters' \in {deadLetters,
                            [deadLetters EXCEPT ![run[w].alert] = @ + 1]}
      /\ run[w].at # "idle"
  BY DEF CatchError, OnFailed, AlertOf
<1>2. TypeOK
  BY DEF IInv
<1>3. CASE CatchError(w)
  BY <1>1, <1>2, <1>3, RunFinishes, DeadLetterWritten DEF CatchError
<1>4. CASE OnFailed(w)
  BY <1>1, <1>2, <1>4, RunEnds, DeadLetterWritten DEF OnFailed
<1> QED
  BY <1>3, <1>4

LEMMA AcknowledgeStep ==
    ASSUME IInv, NEW w \in Workers, Acknowledge(w)
    PROVE  IInv'
<1>1. /\ UNCHANGED <<processed, created, request, order, killSwitch, tradable,
                     deadLetters, budget>>
      /\ run[w].at = "ack"
      /\ SettleJob(w, run[w].alert, run[w].ok)
      /\ GoTo(w, "onFailed") \/ run' = [run EXCEPT ![w] = Idle]
  BY DEF Acknowledge, AlertOf
<1>2. /\ TypeOK /\ HasAlert /\ JobTypeOK /\ JobInv /\ run[w].alert \in Jobs
      /\ run[w] \in RunType
  BY <1>1 DEF IInv, TypeOK, HasAlert
<1>3. run[w].ok \in BOOLEAN
  BY <1>2 DEF RunType
<1>4. JobsStay /\ \A a \in Jobs : job'[a].state = "completed"
                   => job[a].state = "completed" \/ (a = run[w].alert /\ run[w].ok)
  BY <1>1, <1>2, <1>3, SettledNoMore
<1>5. run[w].ok => run[w].alert \in processed
  BY <1>1 DEF IInv, DoneIsProcessed
<1>6. CompletedIsProcessed'
  BY <1>1, <1>4, <1>5 DEF IInv, CompletedIsProcessed
<1>7. Others
  BY <1>1 DEF IInv, TypeOK, Others
<1>8. "onFailed" \in Steps \ {"idle", "ack"} /\ "onFailed" \notin BeforeRequest
  BY DEF Steps, BeforeRequest
<1>9. Moves(w)
  BY <1>1, <1>2, <1>8, RunGoesTo, RunEnds
<1> QED
  BY <1>1, <1>4, <1>6, <1>7, <1>9, MovesKeep

LEMMA FaultSteps ==
    ASSUME IInv, NEW w \in Workers,
           Fault(w) \/ CopierFault(w) \/ DeadLetterFault(w) \/ Crash(w)
    PROVE  IInv'
<1>1. UNCHANGED Beside /\ run[w].at # "idle"
  BY DEF Fault, CopierFault, DeadLetterFault, Crash, Beside
<1>2. budget' \in [flips: Nat, faults: Nat, crashes: Nat, slow: Nat]
  BY Spends DEF Fault, CopierFault, DeadLetterFault, Crash
<1>3. TypeOK /\ HasAlert
  BY DEF IInv
<1>4. {"catch", "status"} \subseteq Steps \ ({"idle", "ack"} \cup BeforeRequest)
  BY DEF Steps, BeforeRequest
<1>5. CASE Fault(w)
  BY <1>1, <1>2, <1>3, <1>4, <1>5, RunGoesTo, MovesAlone DEF Fault
<1>6. CASE CopierFault(w)
  <2>1. CASE GoTo(w, "status")
    BY <1>1, <1>2, <1>3, <1>4, <2>1, RunGoesTo, MovesAlone
  <2>2. CASE \E c \in Accounts : DropAccount(w, c)
    BY <1>1, <1>2, <2>2, DropsAccount, MovesAlone
  <2> QED
    BY <1>6, <2>1, <2>2 DEF CopierFault
<1>7. CASE DeadLetterFault(w)
  <2>1. CASE Finish(w, FALSE)
    BY <1>1, <1>2, <1>3, <2>1, RunFinishes, MovesAlone
  <2>2. CASE run' = [run EXCEPT ![w] = Idle]
    BY <1>1, <1>2, <1>3, <2>2, RunEnds, MovesAlone
  <2> QED
    BY <1>7, <2>1, <2>2 DEF DeadLetterFault
<1>8. CASE Crash(w)
  BY <1>1, <1>2, <1>3, <1>8, RunEnds, MovesAlone DEF Crash
<1> QED
  BY <1>5, <1>6, <1>7, <1>8

-----------------------------------------------------------------------------
(* The two steps that change the count: a run begins, and makes its request.*)

LEMMA TakeStep ==
    ASSUME IInv, NEW w \in Workers, NEW j \in Jobs, Take(w, j)
    PROVE  IInv'
<1>1. /\ UNCHANGED <<processed, created, request, order, killSwitch, tradable,
                     deadLetters, budget>>
      /\ run[w].at = "idle" /\ StartJob(w, j)
      /\ run' = [run EXCEPT ![w] = [Idle EXCEPT !.at = "load", !.alert = j,
                                               !.made = job[j].made]]
  BY DEF Take
<1>2. TypeOK /\ JobTypeOK /\ JobInv /\ run \in [Workers -> RunType]
  BY DEF IInv, TypeOK
<1>3. /\ JobTypeOK' /\ JobInv' /\ HandedOut(j)' = HandedOut(j) + 1
      /\ \A a \in Jobs : a # j => HandedOut(a)' = HandedOut(a)
  BY <1>1, <1>2, TakenOnceMore
<1>4. /\ run'[w].at = "load" /\ run'[w].alert = j
      /\ run'[w] \in RunType
  <2>1. job[j].made \in Nat
    BY <1>2, JobRecord
  <2> QED
    BY <1>1, <1>2, <2>1 DEF Idle, RunType, Steps
<1>5. \A v \in Workers : v # w => run'[v] = run[v]
  BY <1>1, <1>2
<1>6. run' \in [Workers -> RunType]
  BY <1>1, <1>2, <1>4
<1>7. TypeOK'
  BY <1>1, <1>2, <1>3, <1>6 DEF TypeOK
<1>8. HasAlert' /\ DoneIsProcessed'
  BY <1>1, <1>4, <1>5 DEF IInv, HasAlert, DoneIsProcessed
<1>9. CompletedIsProcessed'
  <2>1. Becomes(j, "active", job[j].made, job[j].stalls, w)
    BY <1>1, <1>2, StartsJob
  <2> QED
    BY <1>1, <2>1 DEF IInv, CompletedIsProcessed, Becomes
<1>10. ASSUME NEW a \in Jobs
       PROVE  created'[a] + Cardinality(Pending(a)') <= HandedOut(a)'
  <2>1. created[a] + Cardinality(Pending(a)) <= HandedOut(a)
    BY DEF IInv, RequestsCounted
  <2>2. CASE a # j
    <3>1. Pending(a)' = Pending(a)
      BY <1>1, <1>4, <1>5, <2>2 DEF Pending, BeforeRequest
    <3> QED
      BY <1>1, <1>3, <2>1, <2>2, <3>1
  <2>3. CASE a = j
    <3>1. w \notin Pending(a) /\ Pending(a)' = Pending(a) \cup {w}
      BY <1>1, <1>4, <1>5, <2>3 DEF Pending, BeforeRequest
    <3>2. Cardinality(Pending(a)') = Cardinality(Pending(a)) + 1
      BY <3>1, PendingFinite, FS_AddElement
    <3>3. /\ Cardinality(Pending(a)) \in Nat /\ created[a] \in Nat
          /\ HandedOut(a) \in Nat /\ created'[a] = created[a]
          /\ HandedOut(a)' = HandedOut(a) + 1
      BY <1>1, <1>2, <1>3, <2>3, PendingFinite, HandedOutBounded DEF TypeOK
    <3> QED
      BY <2>1, <3>2, <3>3
  <2> QED
    BY <2>2, <2>3
<1> QED
  BY <1>3, <1>7, <1>8, <1>9, <1>10 DEF IInv, RequestsCounted

LEMMA CreateStep ==
    ASSUME IInv, NEW w \in Workers, CreateTradeRequest(w)
    PROVE  IInv'
<1>0. PICK j \in Jobs : j = run[w].alert
  BY DEF IInv, HasAlert, CreateTradeRequest
<1> DEFINE k == created[j] + 1
<1>1. /\ UNCHANGED <<job, processed, order, killSwitch, tradable, deadLetters,
                     budget>>
      /\ run[w].at = "create"
      /\ created' = [created EXCEPT ![j] = k]
  BY <1>0 DEF CreateTradeRequest, AlertOf
<1>2. PICK step \in {"check", "mark"} :
        run' = [run EXCEPT ![w].at = step, ![w].n = k]
  BY <1>0 DEF CreateTradeRequest, AlertOf
<1>3. PICK status \in {"copying", "risk_rejected"} :
        request' = [request EXCEPT ![j][k] = status]
  BY <1>0 DEF CreateTradeRequest, AlertOf
<1>4. /\ TypeOK /\ JobTypeOK /\ JobInv /\ run \in [Workers -> RunType]
      /\ run[w] \in RunType /\ run[w].alert = j
  BY <1>0 DEF IInv, TypeOK
<1>5. created[j] \in Nat /\ k \in Nat
  BY <1>4 DEF TypeOK
<1> HIDE DEF k
<1>6. request' \in RequestType
  BY <1>3, <1>4, SetsRequest
<1>7. /\ run'[w].at = step /\ run'[w].alert = j /\ run'[w] \in RunType
  <2>1. run'[w] = [run[w] EXCEPT !.at = step, !.n = k]
    BY <1>2, <1>4
  <2>2. step \in Steps
    BY DEF Steps
  <2> QED
    BY <1>4, <1>5, <2>1, <2>2 DEF RunType
<1>8. \A v \in Workers : v # w => run'[v] = run[v]
  BY <1>2, <1>4
<1>9. run' \in [Workers -> RunType]
  BY <1>2, <1>4, <1>7
<1>10. /\ JobsStay /\ CompletedIsProcessed'
  BY <1>1, JobsUnchanged
<1>11. HasAlert' /\ DoneIsProcessed'
  BY <1>1, <1>4, <1>7, <1>8 DEF IInv, HasAlert, DoneIsProcessed
<1>12. ASSUME NEW a \in Jobs
       PROVE  created'[a] + Cardinality(Pending(a)') <= HandedOut(a)'
  <2>1. created[a] + Cardinality(Pending(a)) <= HandedOut(a)
    BY DEF IInv, RequestsCounted
  <2>2. HandedOut(a)' = HandedOut(a)
    BY <1>10 DEF JobsStay
  <2>3. CASE a # j
    <3>1. Pending(a)' = Pending(a)
      BY <1>4, <1>7, <1>8, <2>3 DEF Pending
    <3>2. created'[a] = created[a]
      BY <1>1, <1>4, <2>3 DEF TypeOK
    <3> QED
      BY <2>1, <2>2, <3>1, <3>2
  <2>4. CASE a = j
    <3>1. w \in Pending(a) /\ Pending(a)' = Pending(a) \ {w}
      BY <1>1, <1>4, <1>7, <1>8, <2>4 DEF Pending, BeforeRequest
    <3>2. Cardinality(Pending(a) \ {w}) = Cardinality(Pending(a)) - 1
      BY <3>1, PendingFinite, FS_RemoveElement
    <3>3. /\ Cardinality(Pending(a)) \in Nat /\ HandedOut(a) \in Nat
          /\ created[a] \in Nat /\ created'[a] = created[a] + 1
      BY <1>1, <1>4, <1>5, <2>4, PendingFinite, HandedOutBounded DEF TypeOK, k
    <3> QED
      BY <2>1, <2>2, <3>1, <3>2, <3>3
  <2> QED
    BY <2>3, <2>4
<1>13. k \in 0..(Attempts + MaxStalled)
  <2>1. created'[j] = k
    BY <1>1, <1>4 DEF TypeOK
  <2>2. Pending(j)' \subseteq Workers
    BY DEF Pending
  <2>3. Cardinality(Pending(j)') \in Nat
    BY <2>2, FS_Subset, FS_CardinalityType
  <2>4. HandedOut(j)' \in 0..(Attempts + MaxStalled)
    BY <1>10, <1>4, HandedOutBounded DEF JobsStay
  <2>5. k + Cardinality(Pending(j)') <= HandedOut(j)'
    BY <1>4, <1>12, <2>1
  <2> QED
    BY <1>5, <2>3, <2>4, <2>5
<1>14. created' \in [Alerts -> 0..(Attempts + MaxStalled)]
  BY <1>1, <1>4, <1>13 DEF TypeOK
<1>15. TypeOK'
  BY <1>1, <1>4, <1>6, <1>9, <1>10, <1>14 DEF TypeOK, RequestType, JobsStay
<1> QED
  BY <1>10, <1>11, <1>12, <1>15 DEF IInv, RequestsCounted, JobsStay

-----------------------------------------------------------------------------
(* Stalls and the operator: no run moves. *)

LEMMA RunsStill ==
    ASSUME IInv, run' = run, UNCHANGED <<processed, created, request, order,
                                         deadLetters>>,
           killSwitch' \in BOOLEAN, tradable' \subseteq Accounts,
           budget' \in [flips: Nat, faults: Nat, crashes: Nat, slow: Nat],
           JobsStay, CompletedIsProcessed'
    PROVE  IInv'
<1>1. TypeOK'
  BY DEF IInv, TypeOK, JobsStay
<1>2. HasAlert' /\ DoneIsProcessed'
  BY DEF IInv, HasAlert, DoneIsProcessed
<1>3. \A a \in Jobs : Pending(a)' = Pending(a)
  BY DEF Pending
<1>4. RequestsCounted'
  BY <1>3 DEF IInv, RequestsCounted, JobsStay
<1> QED
  BY <1>1, <1>2, <1>4 DEF IInv, JobsStay

LEMMA StallSteps ==
    ASSUME IInv, NEW a \in Jobs, StallDead(a) \/ StallSlow(a)
    PROVE  IInv'
<1>1. /\ UNCHANGED <<run, processed, created, request, order, killSwitch,
                     tradable, deadLetters>>
      /\ StallJob(a)
  BY DEF StallDead, StallSlow
<1>2. budget' \in [flips: Nat, faults: Nat, crashes: Nat, slow: Nat]
  BY Spends, BudgetStays DEF StallDead, StallSlow
<1>3. /\ JobTypeOK /\ JobInv /\ killSwitch \in BOOLEAN
      /\ tradable \subseteq Accounts
  BY DEF IInv, TypeOK
<1>4. JobsStay /\ \A b \in Jobs : job'[b].state = "completed"
                                  => job[b].state = "completed"
  BY <1>1, <1>3, StalledNoMore
<1>5. CompletedIsProcessed'
  BY <1>1, <1>4 DEF IInv, CompletedIsProcessed
<1> QED
  BY <1>1, <1>2, <1>3, <1>4, <1>5, RunsStill

LEMMA OperatorSteps ==
    ASSUME IInv, \/ FlipKillSwitch
                 \/ \E c \in Accounts : FlipAccount(c)
                 \/ UNCHANGED vars
    PROVE  IInv'
<1>1. UNCHANGED <<job, run, processed, created, request, order, deadLetters>>
  BY DEF FlipKillSwitch, FlipAccount, vars
<1>2. budget' \in [flips: Nat, faults: Nat, crashes: Nat, slow: Nat]
  BY Spends, BudgetStays DEF FlipKillSwitch, FlipAccount, vars
<1>3. killSwitch' \in BOOLEAN /\ tradable' \subseteq Accounts
  BY DEF IInv, TypeOK, FlipKillSwitch, FlipAccount, vars
<1>4. JobsStay /\ CompletedIsProcessed'
  BY <1>1, JobsUnchanged
<1> QED
  BY <1>1, <1>2, <1>3, <1>4, RunsStill

-----------------------------------------------------------------------------

LEMMA InitInv == Init => IInv
<1> SUFFICES ASSUME Init PROVE IInv
  OBVIOUS
<1>1. TypeOK
  <2>1. JobTypeOK
    BY DEF Init, JobInit, JobTypeOK, JobStates
  <2>2. Idle \in RunType
    BY DEF Idle, RunType, Steps
  <2>3. {MaxFlips, MaxFaults, MaxCrashes, MaxSlow} \subseteq Nat
    BY AlertProcessingAssumption
  <2>4. budget \in [flips: Nat, faults: Nat, crashes: Nat, slow: Nat]
    BY <2>3 DEF Init
  <2>5. created \in [Alerts -> 0..(Attempts + MaxStalled)]
    BY DEF Init
  <2> QED
    BY <2>1, <2>2, <2>4, <2>5 DEF Init, TypeOK
<1>2. \A w \in Workers : run[w].at = "idle"
  BY DEF Init, Idle
<1>3. \A a \in Jobs : job[a] = [state |-> "waiting", made |-> 0, stalls |-> 0,
                                owner |-> None]
  BY DEF Init, JobInit
<1>4. JobInv
  <2>1. 0 < Attempts /\ 0 <= MaxStalled /\ 0 + 0 <= Attempts + MaxStalled
    BY JobQueueAssumption
  <2>2. ASSUME NEW a \in Jobs
        PROVE  /\ job[a].state = "waiting" /\ job[a].made = 0
               /\ job[a].stalls = 0 /\ job[a].owner = None
    BY <1>3
  <2>3. None \notin Workers
    BY JobQueueAssumption
  <2> QED
    BY <2>1, <2>2, <2>3 DEF JobInv
<1>5. ASSUME NEW a \in Jobs
      PROVE  created[a] + Cardinality(Pending(a)) <= HandedOut(a)
  <2>1. Pending(a) = {}
    BY <1>2 DEF Pending, BeforeRequest
  <2>2. Cardinality(Pending(a)) = 0
    BY <2>1, FS_EmptySet
  <2>3. created[a] = 0 /\ HandedOut(a) = 0
    BY <1>3 DEF Init, HandedOut
  <2> QED
    BY <2>2, <2>3
<1>6. HasAlert /\ DoneIsProcessed /\ CompletedIsProcessed
  BY <1>2, <1>3 DEF HasAlert, DoneIsProcessed, CompletedIsProcessed
<1> QED
  BY <1>1, <1>4, <1>5, <1>6 DEF IInv, RequestsCounted

LEMMA NextInv == IInv /\ [Next]_vars => IInv'
<1> SUFFICES ASSUME IInv, [Next]_vars PROVE IInv'
  OBVIOUS
<1>1. ASSUME NEW w \in Workers, WorkerStep(w)
      PROVE  IInv'
  <2>1. CASE \E a \in Alerts : Take(w, a)
    BY <2>1, TakeStep
  <2>2. CASE ~(\E a \in Alerts : Take(w, a))
    BY <1>1, <2>2, ReadingSteps, AccountSteps, OrderSteps, CreateStep, StatusStep,
       MarkStep, FailingSteps, AcknowledgeStep DEF WorkerStep
  <2> QED
    BY <2>1, <2>2
<1>2. ASSUME NEW w \in Workers,
             Fault(w) \/ CopierFault(w) \/ DeadLetterFault(w) \/ Crash(w)
      PROVE  IInv'
  BY <1>2, FaultSteps
<1>3. ASSUME NEW a \in Alerts, StallDead(a) \/ StallSlow(a)
      PROVE  IInv'
  BY <1>3, StallSteps
<1>4. CASE \/ FlipKillSwitch
           \/ \E c \in Accounts : FlipAccount(c)
           \/ UNCHANGED vars
  BY <1>4, OperatorSteps
<1> QED
  BY <1>1, <1>2, <1>3, <1>4 DEF Next

(* The invariant holds throughout. *)
THEOREM Inductive == Spec => []IInv
BY InitInv, NextInv, PTL DEF Spec

(* The state stays well typed; in particular no alert exceeds Attempts +    *)
(* MaxStalled trade requests, so that request and order have a row for each.*)
THEOREM TypeCorrect == Spec => []TypeOK
<1>1. IInv => TypeOK
  BY DEF IInv
<1> QED
  BY <1>1, Inductive, PTL

(* However its runs fail, stall or overlap, an alert never has more trade   *)
(* requests than its job was handed out.                                    *)
THEOREM RequestsBoundedHolds == Spec => []RequestsBounded
<1>1. IInv => RequestsBounded
  <2> SUFFICES ASSUME IInv, NEW a \in Alerts
               PROVE  created[a] <= HandedOut(a)
    BY DEF RequestsBounded
  <2>1. created[a] + Cardinality(Pending(a)) <= HandedOut(a)
    BY DEF IInv, RequestsCounted
  <2>2. created[a] \in Nat /\ HandedOut(a) \in Nat
    BY HandedOutBounded DEF IInv, TypeOK
  <2> QED
    BY <2>1, <2>2, PendingFinite
<1> QED
  BY <1>1, Inductive, PTL

(* A job that BullMQ has completed left its alert marked as processed.      *)
THEOREM CompletedIsProcessedHolds == Spec => []CompletedIsProcessed
<1>1. IInv => CompletedIsProcessed
  BY DEF IInv
<1> QED
  BY <1>1, Inductive, PTL

-----------------------------------------------------------------------------
(* Refused requests.  A run past its INSERT has a request that no other run *)
(* has; it says "copying" until that run says otherwise.  Only such a run   *)
(* saves orders, and it says "failed" only if it never came to that.        *)

AfterRequest == {"check", "copyMappings", "copy", "enqueue", "status"}
Copying(w) == run[w].at \in {"copyMappings", "copy", "enqueue"}
Clean(w) == run[w].at = "check" \/ (run[w].at = "status" /\ run[w].safe = {})

RequestsOwned ==
    \A w \in Workers : run[w].at \in AfterRequest =>
        /\ run[w].n \in RequestNumbers
        /\ run[w].n <= created[run[w].alert]
        /\ request[run[w].alert][run[w].n] = "copying"
        /\ \A v \in Workers \ {w} :
              run[v].at \in AfterRequest /\ run[v].alert = run[w].alert
                => run[v].n # run[w].n

CopyingIsSafe == \A w \in Workers : Copying(w) => run[w].safe # {}

CleanHasNoOrder ==
    \A w \in Workers : Clean(w) =>
        \A c \in Accounts : order[run[w].alert][run[w].n][c] = "none"

UnmadeHasNoOrder ==
    \A a \in Jobs : \A n \in RequestNumbers : n > created[a] =>
        \A c \in Accounts : order[a][n][c] = "none"

RInv == /\ RequestsOwned /\ CopyingIsSafe /\ CleanHasNoOrder
        /\ UnmadeHasNoOrder /\ RefusedHasNoOrder

OthersStay(w) == \A v \in Workers : v # w => run'[v] = run[v]

(* Run w goes to this step, with the request and the verdicts it has. *)
Going(w, step) ==
    /\ OthersStay(w)
    /\ run'[w].at = step /\ run'[w].alert = run[w].alert
    /\ run'[w].n = run[w].n /\ run'[w].safe = run[w].safe

Leaving(w) == OthersStay(w) /\ run'[w].at \notin AfterRequest

(* What the steps that write no request and no order have in common. *)
Follows(w) ==
    /\ OthersStay(w)
    /\ run'[w].at \in AfterRequest =>
          /\ run[w].at \in AfterRequest
          /\ run'[w].alert = run[w].alert /\ run'[w].n = run[w].n
    /\ Copying(w)' => run'[w].safe # {}
    /\ Clean(w)' => Clean(w)

LEMMA FollowsKeeps ==
    ASSUME RInv, NEW w \in Workers, Follows(w),
           UNCHANGED <<created, request, order>>
    PROVE  RInv'
<1>1. RequestsOwned'
  <2> SUFFICES ASSUME NEW v \in Workers, run'[v].at \in AfterRequest
               PROVE  /\ run'[v].n \in RequestNumbers
                      /\ run'[v].n <= created[run'[v].alert]
                      /\ request[run'[v].alert][run'[v].n] = "copying"
                      /\ \A u \in Workers \ {v} :
                            run'[u].at \in AfterRequest
                              /\ run'[u].alert = run'[v].alert
                              => run'[u].n # run'[v].n
    BY DEF RequestsOwned
  <2>1. ASSUME NEW u \in Workers, run'[u].at \in AfterRequest
        PROVE  /\ run[u].at \in AfterRequest
               /\ run'[u].alert = run[u].alert /\ run'[u].n = run[u].n
    BY <2>1 DEF Follows, OthersStay
  <2>2. /\ run[v].n \in RequestNumbers
        /\ run[v].n <= created[run[v].alert]
        /\ request[run[v].alert][run[v].n] = "copying"
        /\ \A u \in Workers \ {v} :
              run[u].at \in AfterRequest /\ run[u].alert = run[v].alert
                => run[u].n # run[v].n
    BY <2>1 DEF RInv, RequestsOwned
  <2> QED
    BY <2>1, <2>2
<1>2. CopyingIsSafe'
  BY DEF RInv, CopyingIsSafe, Follows, OthersStay, Copying
<1>3. CleanHasNoOrder'
  <2> SUFFICES ASSUME NEW v \in Workers, Clean(v)'
               PROVE  \A c \in Accounts : order[run'[v].alert][run'[v].n][c] = "none"
    BY DEF CleanHasNoOrder
  <2>1. /\ Clean(v) /\ run'[v].alert = run[v].alert /\ run'[v].n = run[v].n
    <3>1. CASE v = w
      BY <3>1 DEF Follows, Clean, AfterRequest
    <3>2. CASE v # w
      BY <3>2 DEF Follows, OthersStay, Clean
    <3> QED
      BY <3>1, <3>2
  <2> QED
    BY <2>1 DEF RInv, CleanHasNoOrder
<1>4. UnmadeHasNoOrder' /\ RefusedHasNoOrder'
  BY DEF RInv, UnmadeHasNoOrder, RefusedHasNoOrder
<1> QED
  BY <1>1, <1>2, <1>3, <1>4 DEF RInv

LEMMA GoToGoes ==
    ASSUME TypeOK, NEW w \in Workers, NEW step, GoTo(w, step)
    PROVE  Going(w, step)
<1>1. run \in [Workers -> RunType] /\ run[w] \in RunType
  BY DEF TypeOK
<1>2. run'[w] = [run[w] EXCEPT !.at = step] /\ OthersStay(w)
  BY <1>1 DEF GoTo, OthersStay
<1> QED
  BY <1>1, <1>2 DEF Going, RunType

LEMMA GoToWithGoes ==
    ASSUME TypeOK, NEW w \in Workers, NEW step, NEW accounts,
           GoToWith(w, step, accounts)
    PROVE  Going(w, step)
<1>1. run \in [Workers -> RunType] /\ run[w] \in RunType
  BY DEF TypeOK
<1>2. /\ run'[w] = [run[w] EXCEPT !.at = step, !.left = accounts]
      /\ OthersStay(w)
  BY <1>1 DEF GoToWith, OthersStay
<1> QED
  BY <1>1, <1>2 DEF Going, RunType

LEMMA DropAccountGoes ==
    ASSUME TypeOK, NEW w \in Workers, NEW c, DropAccount(w, c)
    PROVE  Going(w, "copy")
<1>1. run \in [Workers -> RunType] /\ run[w] \in RunType
  BY DEF TypeOK
<1>2. /\ run'[w] = [run[w] EXCEPT !.at = "copy", !.left = run[w].left \ {c}]
      /\ OthersStay(w)
  BY <1>1 DEF DropAccount, OthersStay
<1> QED
  BY <1>1, <1>2 DEF Going, RunType

LEMMA FinishLeaves ==
    ASSUME TypeOK, NEW w \in Workers, NEW ok, Finish(w, ok)
    PROVE  Leaving(w)
<1>1. run \in [Workers -> RunType] /\ run[w] \in RunType
  BY DEF TypeOK
<1>2. run'[w] = [run[w] EXCEPT !.at = "ack", !.ok = ok] /\ OthersStay(w)
  BY <1>1 DEF Finish, OthersStay
<1>3. run'[w].at = "ack"
  BY <1>1, <1>2 DEF RunType
<1> QED
  BY <1>2, <1>3 DEF Leaving, AfterRequest

LEMMA IdleLeaves ==
    ASSUME TypeOK, NEW w \in Workers, run' = [run EXCEPT ![w] = Idle]
    PROVE  Leaving(w)
<1>1. run'[w] = Idle /\ OthersStay(w)
  BY DEF TypeOK, OthersStay
<1>2. Idle.at = "idle"
  BY DEF Idle
<1> QED
  BY <1>1, <1>2 DEF Leaving, AfterRequest

LEMMA LeavingFollows ==
    ASSUME NEW w \in Workers, Leaving(w)
    PROVE  Follows(w)
BY DEF Leaving, Follows, AfterRequest, Copying, Clean

LEMMA GoingLeaves ==
    ASSUME NEW w \in Workers, NEW step, Going(w, step), step \notin AfterRequest
    PROVE  Follows(w)
<1>1. Leaving(w)
  BY DEF Going, Leaving
<1> QED
  BY <1>1, LeavingFollows

(* From one step of the copier to another. *)
LEMMA CopyingFollows ==
    ASSUME RInv, NEW w \in Workers, Copying(w),
           NEW step \in {"copy", "enqueue", "status"}, Going(w, step)
    PROVE  Follows(w) /\ ~Clean(w)'
<1>1. run[w].safe # {}
  BY DEF RInv, CopyingIsSafe
<1> QED
  BY <1>1 DEF Follows, Going, Copying, Clean, AfterRequest

QuietStep(w) ==
    \/ \E a \in Alerts : Take(w, a)
    \/ LoadAlert(w) \/ CheckKillSwitch(w) \/ LoadMappings(w)
    \/ CheckAccount(w) \/ AllChecked(w) \/ LoadCopierMappings(w)
    \/ SkipAccount(w) \/ AllCopied(w) \/ MarkAlertProcessed(w)
    \/ CatchError(w) \/ Acknowledge(w) \/ OnFailed(w)
    \/ Fault(w) \/ CopierFault(w) \/ DeadLetterFault(w) \/ Crash(w)

LEMMA QuietFollows ==
    ASSUME TypeOK, RInv, NEW w \in Workers, QuietStep(w)
    PROVE  Follows(w)
<1>0. run \in [Workers -> RunType] /\ run[w] \in RunType
  BY DEF TypeOK
<1>1. ASSUME NEW a \in Alerts, Take(w, a)
      PROVE  Follows(w)
  <2>1. /\ run'[w] = [Idle EXCEPT !.at = "load", !.alert = a,
                                  !.made = job[a].made]
        /\ OthersStay(w)
    BY <1>0, <1>1 DEF Take, OthersStay
  <2>2. run'[w].at = "load"
    BY <2>1 DEF Idle
  <2> QED
    BY <2>1, <2>2, LeavingFollows DEF Leaving, AfterRequest
<1>2. CASE LoadAlert(w) \/ CheckKillSwitch(w) \/ LoadMappings(w) \/ Fault(w)
  <2>1. \/ \E step \in {"killSwitch", "mark", "mappings", "catch"} : GoTo(w, step)
        \/ GoToWith(w, "create", tradable)
    BY <1>2 DEF LoadAlert, CheckKillSwitch, LoadMappings, Fault
  <2>2. \E step \in {"killSwitch", "mark", "mappings", "catch", "create"} :
           Going(w, step)
    BY <2>1, GoToGoes, GoToWithGoes
  <2> QED
    BY <2>2, GoingLeaves DEF AfterRequest
<1>3. CASE CheckAccount(w)
  <2>1. run[w].at = "check"
    BY <1>3 DEF CheckAccount
  <2>2. PICK left, safe : run' = [run EXCEPT ![w].left = left, ![w].safe = safe]
    BY <1>3 DEF CheckAccount
  <2>3. /\ run'[w] = [run[w] EXCEPT !.left = left, !.safe = safe]
        /\ OthersStay(w)
    BY <1>0, <2>2 DEF OthersStay
  <2>4. /\ run'[w].at = "check" /\ run'[w].alert = run[w].alert
        /\ run'[w].n = run[w].n
    BY <1>0, <2>1, <2>3 DEF RunType
  <2> QED
    BY <2>1, <2>3, <2>4 DEF Follows, AfterRequest, Copying, Clean
<1>4. CASE AllChecked(w)
  <2>1. /\ run[w].at = "check"
        /\ \/ run[w].safe # {} /\ Going(w, "copyMappings")
           \/ run[w].safe = {} /\ Going(w, "status")
    BY <1>4, GoToGoes DEF AllChecked
  <2> QED
    BY <2>1 DEF Follows, Going, AfterRequest, Copying, Clean
<1>5. CASE LoadCopierMappings(w) \/ SkipAccount(w) \/ AllCopied(w) \/ CopierFault(w)
  <2>1. /\ Copying(w)
        /\ \/ GoToWith(w, "copy", tradable)
           \/ GoTo(w, "status")
           \/ \E c \in run[w].left : DropAccount(w, c)
    BY <1>5 DEF LoadCopierMappings, SkipAccount, AllCopied, CopierFault, Copying,
                Saved
  <2>2. \E step \in {"copy", "status"} : Going(w, step)
    BY <2>1, GoToGoes, GoToWithGoes, DropAccountGoes
  <2> QED
    BY <2>1, <2>2, CopyingFollows
<1>6. CASE MarkAlertProcessed(w) \/ CatchError(w) \/ OnFailed(w)
           \/ DeadLetterFault(w) \/ Crash(w)
  <2>1. \/ \E ok \in BOOLEAN : Finish(w, ok)
        \/ run' = [run EXCEPT ![w] = Idle]
    BY <1>6 DEF MarkAlertProcessed, CatchError, OnFailed, DeadLetterFault, Crash
  <2> QED
    BY <2>1, FinishLeaves, IdleLeaves, LeavingFollows
<1>7. CASE Acknowledge(w)
  <2>1. GoTo(w, "onFailed") \/ run' = [run EXCEPT ![w] = Idle]
    BY <1>7 DEF Acknowledge
  <2>2. "onFailed" \notin AfterRequest
    BY DEF AfterRequest
  <2> QED
    BY <2>1, <2>2, GoToGoes, GoingLeaves, IdleLeaves, LeavingFollows
<1> QED
  BY <1>1, <1>2, <1>3, <1>4, <1>5, <1>6, <1>7 DEF QuietStep

LEMMA QuietWrites ==
    ASSUME NEW w \in Workers, QuietStep(w)
    PROVE  UNCHANGED <<created, request, order>>
BY DEF QuietStep, Take, LoadAlert, CheckKillSwitch, LoadMappings, CheckAccount,
       AllChecked, LoadCopierMappings, SkipAccount, AllCopied,
       MarkAlertProcessed, CatchError, Acknowledge, OnFailed, Fault,
       CopierFault, DeadLetterFault, Crash

(* An order is saved or queued by the run that has its request. *)
LEMMA OrderWritten ==
    ASSUME TypeOK, HasAlert, RInv, NEW w \in Workers, Copying(w),
           NEW c \in Accounts, NEW state, SetOrder(w, c, state),
           NEW step \in {"copy", "enqueue"}, Going(w, step),
           UNCHANGED <<created, request>>
    PROVE  RInv'
<1>1. PICK a \in Jobs, k \in RequestNumbers :
        /\ a = run[w].alert /\ k = run[w].n
        /\ k <= created[a] /\ request[a][k] = "copying"
  BY DEF HasAlert, Copying, AfterRequest, RInv, RequestsOwned
<1>2. order' = [order EXCEPT ![a][k][c] = state]
  BY <1>1 DEF SetOrder, AlertOf
<1>3. ASSUME NEW b \in Jobs, NEW m \in RequestNumbers, b # a \/ m # k
      PROVE  order'[b][m] = order[b][m]
  BY <1>2, <1>3 DEF TypeOK
<1>4. Follows(w) /\ ~Clean(w)'
  BY CopyingFollows
<1>5. RequestsOwned' /\ CopyingIsSafe'
  <2>1. RequestsOwned'
    <3> SUFFICES ASSUME NEW v \in Workers, run'[v].at \in AfterRequest
                 PROVE  /\ run'[v].n \in RequestNumbers
                        /\ run'[v].n <= created[run'[v].alert]
                        /\ request[run'[v].alert][run'[v].n] = "copying"
                        /\ \A u \in Workers \ {v} :
                              run'[u].at \in AfterRequest
                                /\ run'[u].alert = run'[v].alert
                                => run'[u].n # run'[v].n
      BY DEF RequestsOwned
    <3>1. ASSUME NEW u \in Workers, run'[u].at \in AfterRequest
          PROVE  /\ run[u].at \in AfterRequest
                 /\ run'[u].alert = run[u].alert /\ run'[u].n = run[u].n
      BY <1>4, <3>1 DEF Follows, OthersStay
    <3> QED
      BY <3>1 DEF RInv, RequestsOwned
  <2>2. CopyingIsSafe'
    BY <1>4 DEF RInv, CopyingIsSafe, Follows, OthersStay, Copying
  <2> QED
    BY <2>1, <2>2
<1>6. CleanHasNoOrder'
  <2> SUFFICES ASSUME NEW v \in Workers, Clean(v)', NEW d \in Accounts
               PROVE  order'[run'[v].alert][run'[v].n][d] = "none"
    BY DEF CleanHasNoOrder
  <2>1. v # w
    BY <1>4
  <2>2. run'[v] = run[v] /\ Clean(v)
    BY <1>4, <2>1 DEF Follows, OthersStay, Clean
  <2>3. order[run[v].alert][run[v].n][d] = "none"
    BY <2>2 DEF RInv, CleanHasNoOrder
  <2>4. /\ run[v].at \in AfterRequest /\ run[v].alert \in Jobs
        /\ run[w].at \in AfterRequest
    BY <2>2 DEF HasAlert, Clean, AfterRequest, Copying
  <2>5. /\ run[v].n \in RequestNumbers
        /\ run[v].alert = a => run[v].n # k
    BY <1>1, <2>1, <2>4 DEF RInv, RequestsOwned
  <2> QED
    BY <1>3, <2>2, <2>3, <2>4, <2>5
<1>7. UnmadeHasNoOrder'
  <2> SUFFICES ASSUME NEW b \in Jobs, NEW m \in RequestNumbers, m > created[b],
                      NEW d \in Accounts
               PROVE  order'[b][m][d] = "none"
    BY DEF UnmadeHasNoOrder
  <2>1. k \in Int /\ created[a] \in Int
    BY DEF TypeOK, RequestNumbers
  <2>2. b # a \/ m # k
    BY <1>1, <2>1
  <2> QED
    BY <1>3, <2>2 DEF RInv, UnmadeHasNoOrder
<1>8. RefusedHasNoOrder'
  <2> SUFFICES ASSUME NEW b \in Jobs, NEW m \in RequestNumbers,
                      request[b][m] \in {"risk_rejected", "failed"},
                      NEW d \in Accounts
               PROVE  order'[b][m][d] = "none"
    BY DEF RefusedHasNoOrder
  <2>1. b # a \/ m # k
    BY <1>1
  <2> QED
    BY <1>3, <2>1 DEF RInv, RefusedHasNoOrder
<1> QED
  BY <1>5, <1>6, <1>7, <1>8 DEF RInv

LEMMA OrdersKeepRefused ==
    ASSUME TypeOK, HasAlert, RInv, NEW w \in Workers,
           PersistOrder(w) \/ EnqueueOrder(w)
    PROVE  RInv'
<1>1. Copying(w) /\ UNCHANGED <<created, request>>
  BY DEF PersistOrder, EnqueueOrder, Copying
<1>2. PICK c \in Accounts : \E state : \E step \in {"copy", "enqueue"} :
        SetOrder(w, c, state) /\ Going(w, step)
  <2>1. CASE PersistOrder(w)
    <3>1. PICK c \in Accounts : SetOrder(w, c, "saved")
      BY <2>1 DEF PersistOrder, TypeOK
    <3>2. Going(w, "enqueue")
      BY <2>1, GoToGoes DEF PersistOrder
    <3> QED
      BY <3>1, <3>2
  <2>2. CASE EnqueueOrder(w)
    <3>1. PICK c \in Accounts : SetOrder(w, c, "queued") /\ DropAccount(w, c)
      BY <2>2 DEF EnqueueOrder
    <3>2. Going(w, "copy")
      BY <3>1, DropAccountGoes
    <3> QED
      BY <3>1, <3>2
  <2> QED
    BY <2>1, <2>2
<1>3. PICK state : \E step \in {"copy", "enqueue"} :
        SetOrder(w, c, state) /\ Going(w, step)
  BY <1>2
<1> QED
  BY <1>1, <1>3, OrderWritten

LEMMA StatusKeepsRefused ==
    ASSUME TypeOK, HasAlert, RInv, NEW w \in Workers, UpdateTradeRequestStatus(w)
    PROVE  RInv'
<1>0. /\ run[w].at = "status" /\ UNCHANGED <<created, order>>
      /\ run[w].at \in AfterRequest
  BY DEF UpdateTradeRequestStatus, AfterRequest
<1>1. PICK a \in Jobs, k \in RequestNumbers : a = run[w].alert /\ k = run[w].n
  BY <1>0 DEF HasAlert, RInv, RequestsOwned
<1> DEFINE verdict == IF run[w].safe # {} THEN "completed" ELSE "failed"
<1>2. PICK status :
        /\ request' = [request EXCEPT ![a][k] = status]
        /\ status \in {"completed", "failed"}
        /\ status = "failed" => run[w].safe = {}
  <2>1. request' = [request EXCEPT ![a][k] = verdict]
    BY <1>1 DEF UpdateTradeRequestStatus, AlertOf
  <2>2. verdict \in {"completed", "failed"} /\ (verdict = "failed" => run[w].safe = {})
    OBVIOUS
  <2> HIDE DEF verdict
  <2> QED
    BY <2>1, <2>2
<1>3. ASSUME NEW b \in Jobs, NEW m \in RequestNumbers, b # a \/ m # k
      PROVE  request'[b][m] = request[b][m]
  BY <1>2, <1>3 DEF TypeOK
<1>3a. request'[a][k] = status
  BY <1>2 DEF TypeOK
<1>4. Leaving(w)
  <2>1. Going(w, "mark")
    BY GoToGoes DEF UpdateTradeRequestStatus
  <2> QED
    BY <2>1 DEF Going, Leaving, AfterRequest
<1>5. RequestsOwned'
  <2> SUFFICES ASSUME NEW v \in Workers, run'[v].at \in AfterRequest
               PROVE  /\ run'[v].n \in RequestNumbers
                      /\ run'[v].n <= created[run'[v].alert]
                      /\ request'[run'[v].alert][run'[v].n] = "copying"
                      /\ \A u \in Workers \ {v} :
                            run'[u].at \in AfterRequest
                              /\ run'[u].alert = run'[v].alert
                              => run'[u].n # run'[v].n
    BY <1>0 DEF RequestsOwned
  <2>1. \A u \in Workers : run'[u].at \in AfterRequest => u # w /\ run'[u] = run[u]
    BY <1>4 DEF Leaving, OthersStay
  <2>2. /\ run[v].n \in RequestNumbers
        /\ run[v].n <= created[run[v].alert]
        /\ request[run[v].alert][run[v].n] = "copying"
        /\ \A u \in Workers \ {v} :
              run[u].at \in AfterRequest /\ run[u].alert = run[v].alert
                => run[u].n # run[v].n
    BY <2>1 DEF RInv, RequestsOwned
  <2>3. run[v].alert = a => run[v].n # k
    BY <1>0, <1>1, <2>1, <2>2
  <2>4. run[v].alert \in Jobs
    BY <2>1 DEF HasAlert, AfterRequest
  <2> QED
    BY <1>3, <2>1, <2>2, <2>3, <2>4
<1>6. CopyingIsSafe' /\ CleanHasNoOrder'
  <2>1. \A v \in Workers : Copying(v)' \/ Clean(v)' => run'[v] = run[v]
    BY <1>4 DEF Leaving, OthersStay, Copying, Clean, AfterRequest
  <2> QED
    BY <1>0, <2>1 DEF RInv, CopyingIsSafe, CleanHasNoOrder, Copying, Clean
<1>7. UnmadeHasNoOrder'
  BY <1>0 DEF RInv, UnmadeHasNoOrder
<1>8. RefusedHasNoOrder'
  <2> SUFFICES ASSUME NEW b \in Jobs, NEW m \in RequestNumbers,
                      request'[b][m] \in {"risk_rejected", "failed"},
                      NEW d \in Accounts
               PROVE  order[b][m][d] = "none"
    BY <1>0 DEF RefusedHasNoOrder
  <2>1. CASE b # a \/ m # k
    BY <1>3, <2>1 DEF RInv, RefusedHasNoOrder
  <2>2. CASE b = a /\ m = k
    <3>1. run[w].safe = {}
      BY <1>2, <1>3a, <2>2
    <3>2. Clean(w)
      BY <1>0, <3>1 DEF Clean
    <3> QED
      BY <1>1, <2>2, <3>2 DEF RInv, CleanHasNoOrder
  <2> QED
    BY <2>1, <2>2
<1> QED
  BY <1>5, <1>6, <1>7, <1>8 DEF RInv

LEMMA CreateKeepsRefused ==
    ASSUME TypeOK, TypeOK', HasAlert, RInv, NEW w \in Workers,
           CreateTradeRequest(w)
    PROVE  RInv'
<1>0. run[w].at = "create" /\ UNCHANGED order
  BY DEF CreateTradeRequest
<1>1. PICK a \in Jobs : a = run[w].alert
  BY <1>0 DEF HasAlert
<1>2. PICK k : k = created[a] + 1
  OBVIOUS
<1>3. /\ created' = [created EXCEPT ![a] = k]
      /\ \E passed \in BOOLEAN :
            /\ request' = [request EXCEPT ![a][k] = IF passed THEN "copying"
                                                    ELSE "risk_rejected"]
            /\ run' = [run EXCEPT ![w].at = IF passed THEN "check" ELSE "mark",
                                  ![w].n  = k]
  BY <1>1, <1>2 DEF CreateTradeRequest, AlertOf
<1>4. PICK passed \in BOOLEAN :
         /\ request' = [request EXCEPT ![a][k] = IF passed THEN "copying"
                                                 ELSE "risk_rejected"]
         /\ run' = [run EXCEPT ![w].at = IF passed THEN "check" ELSE "mark",
                               ![w].n  = k]
  BY <1>3
<1>5. /\ created \in [Jobs -> Int] /\ created'[a] = k /\ k \in RequestNumbers
      /\ \A b \in Jobs : b # a => created'[b] = created[b]
      /\ \A b \in Jobs : created'[b] >= created[b]
  <2>1. created \in [Jobs -> 0..(Attempts + MaxStalled)]
    BY DEF TypeOK
  <2>2. created'[a] = k /\ \A b \in Jobs : b # a => created'[b] = created[b]
    BY <1>3, <2>1
  <2>3. k \in 0..(Attempts + MaxStalled)
    BY <2>2 DEF TypeOK
  <2>4. Attempts + MaxStalled \in Int
    BY JobQueueAssumption
  <2>5. created[a] \in Nat
    BY <2>1, <2>4
  <2>6. k \in RequestNumbers /\ k >= created[a]
    BY <1>2, <2>3, <2>4, <2>5 DEF RequestNumbers
  <2>7. \A b \in Jobs : created[b] \in Int
    BY <2>1, <2>4
  <2> QED
    BY <2>1, <2>2, <2>6, <2>7
<1>6. /\ \A b \in Jobs, m \in RequestNumbers :
            b # a \/ m # k => request'[b][m] = request[b][m]
      /\ request'[a][k] \in {"copying", "risk_rejected"}
      /\ (request'[a][k] = "copying") <=> passed
  <2>1. request \in [Jobs -> [RequestNumbers ->
                       {"none", "copying", "risk_rejected", "completed", "failed"}]]
    BY DEF TypeOK
  <2> QED
    BY <1>4, <1>5, <2>1
<1>7. /\ OthersStay(w) /\ run'[w].n = k /\ run'[w].alert = a
      /\ run'[w].at = IF passed THEN "check" ELSE "mark"
  <2>1. run \in [Workers -> RunType] /\ run[w] \in RunType
    BY DEF TypeOK
  <2>2. /\ run'[w] = [run[w] EXCEPT !.at = IF passed THEN "check" ELSE "mark",
                                    !.n = k]
        /\ OthersStay(w)
    BY <1>4, <2>1 DEF OthersStay
  <2> QED
    BY <1>1, <2>1, <2>2 DEF RunType
<1>8. ASSUME NEW v \in Workers, v # w, run'[v].at \in AfterRequest
      PROVE  /\ run'[v] = run[v] /\ run[v].alert \in Jobs
             /\ run[v].n \in RequestNumbers
             /\ run[v].n <= created[run[v].alert]
             /\ request[run[v].alert][run[v].n] = "copying"
             /\ run[v].alert = a => run[v].n < k
  <2>1. run'[v] = run[v] /\ run[v].at \in AfterRequest
    BY <1>7, <1>8 DEF OthersStay
  <2>2. /\ run[v].n \in RequestNumbers
        /\ run[v].n <= created[run[v].alert]
        /\ request[run[v].alert][run[v].n] = "copying"
    BY <2>1 DEF RInv, RequestsOwned
  <2>3. run[v].alert \in Jobs
    BY <2>1 DEF HasAlert, AfterRequest
  <2>4. run[v].n \in Int /\ created[a] \in Int
    BY <1>5, <2>2 DEF RequestNumbers
  <2> QED
    BY <1>2, <2>1, <2>2, <2>3, <2>4
<1>9. RequestsOwned'
  <2> SUFFICES ASSUME NEW v \in Workers, run'[v].at \in AfterRequest
               PROVE  /\ run'[v].n \in RequestNumbers
                      /\ run'[v].n <= created'[run'[v].alert]
                      /\ request'[run'[v].alert][run'[v].n] = "copying"
                      /\ \A u \in Workers \ {v} :
                            run'[u].at \in AfterRequest
                              /\ run'[u].alert = run'[v].alert
                              => run'[u].n # run'[v].n
    BY DEF RequestsOwned
  <2>0. k \in Int
    BY <1>5 DEF RequestNumbers
  <2>1. CASE v = w
    <3>1. passed
      BY <1>7, <2>1 DEF AfterRequest
    <3>2. ASSUME NEW u \in Workers \ {v}, run'[u].at \in AfterRequest,
                 run'[u].alert = run'[v].alert
          PROVE  run'[u].n # run'[v].n
      <4>1. /\ run'[u] = run[u] /\ run[u].n \in RequestNumbers
            /\ run[u].alert = a => run[u].n < k
        BY <1>8, <2>1, <3>2
      <4> QED
        BY <1>7, <2>0, <2>1, <3>2, <4>1 DEF RequestNumbers
    <3>3. run'[v].n = k /\ run'[v].alert = a
      BY <1>7, <2>1
    <3> QED
      BY <1>5, <1>6, <2>0, <3>1, <3>2, <3>3
  <2>2. CASE v # w
    <3>1. /\ run'[v] = run[v] /\ run[v].alert \in Jobs
          /\ run[v].n \in RequestNumbers
          /\ run[v].n <= created[run[v].alert]
          /\ request[run[v].alert][run[v].n] = "copying"
          /\ run[v].alert = a => run[v].n < k
      BY <1>8, <2>2
    <3>2. run[v].n <= created'[run[v].alert]
      <4>1. /\ created[run[v].alert] \in Int /\ run[v].n \in Int
            /\ created'[run[v].alert] >= created[run[v].alert]
            /\ created'[run[v].alert] \in Int
        BY <1>5, <2>0, <3>1 DEF RequestNumbers
      <4> QED
        BY <3>1, <4>1
    <3>3. request'[run[v].alert][run[v].n] = "copying"
      <4>1. run[v].alert # a \/ run[v].n # k
        BY <2>0, <3>1
      <4> QED
        BY <1>6, <3>1, <4>1
    <3>4. ASSUME NEW u \in Workers \ {v}, run'[u].at \in AfterRequest,
                 run'[u].alert = run[v].alert
          PROVE  run'[u].n # run[v].n
      <4>1. CASE u = w
        BY <1>7, <2>0, <3>1, <3>4, <4>1 DEF RequestNumbers
      <4>2. CASE u # w
        <5>1. run'[u] = run[u]
          BY <1>8, <3>4, <4>2
        <5> QED
          BY <2>2, <3>1, <3>4, <5>1 DEF RInv, RequestsOwned
      <4> QED
        BY <4>1, <4>2
    <3> QED
      BY <3>1, <3>2, <3>3, <3>4
  <2> QED
    BY <2>1, <2>2
<1>10. CopyingIsSafe'
  <2>1. ~Copying(w)'
    BY <1>7 DEF Copying
  <2> QED
    BY <1>7, <2>1 DEF RInv, CopyingIsSafe, OthersStay, Copying
<1>11. \A c \in Accounts : order[a][k][c] = "none"
  <2>1. k > created[a]
    BY <1>2, <1>5
  <2> QED
    BY <1>5, <2>1 DEF RInv, UnmadeHasNoOrder
<1>12. CleanHasNoOrder'
  <2> SUFFICES ASSUME NEW v \in Workers, Clean(v)'
               PROVE  \A c \in Accounts : order[run'[v].alert][run'[v].n][c] = "none"
    BY <1>0 DEF CleanHasNoOrder
  <2>1. CASE v = w
    BY <1>7, <1>11, <2>1
  <2>2. CASE v # w
    <3>1. run'[v] = run[v] /\ Clean(v)
      BY <1>7, <2>2 DEF OthersStay, Clean
    <3> QED
      BY <3>1 DEF RInv, CleanHasNoOrder
  <2> QED
    BY <2>1, <2>2
<1>13. UnmadeHasNoOrder'
  <2> SUFFICES ASSUME NEW b \in Jobs, NEW m \in RequestNumbers, m > created'[b]
               PROVE  \A c \in Accounts : order[b][m][c] = "none"
    BY <1>0 DEF UnmadeHasNoOrder
  <2>1. m \in Int /\ created[b] \in Int /\ created'[b] \in Int
        /\ created'[b] >= created[b]
    BY <1>5 DEF RequestNumbers
  <2>2. m > created[b]
    BY <2>1
  <2> QED
    BY <2>2 DEF RInv, UnmadeHasNoOrder
<1>14. RefusedHasNoOrder'
  <2> SUFFICES ASSUME NEW b \in Jobs, NEW m \in RequestNumbers,
                      request'[b][m] \in {"risk_rejected", "failed"}
               PROVE  \A c \in Accounts : order[b][m][c] = "none"
    BY <1>0 DEF RefusedHasNoOrder
  <2>1. CASE b # a \/ m # k
    BY <1>6, <2>1 DEF RInv, RefusedHasNoOrder
  <2>2. CASE b = a /\ m = k
    BY <1>11, <2>2
  <2> QED
    BY <2>1, <2>2
<1> QED
  BY <1>9, <1>10, <1>12, <1>13, <1>14 DEF RInv

LEMMA InitRefused == Init => RInv
<1> SUFFICES ASSUME Init PROVE RInv
  OBVIOUS
<1>1. \A w \in Workers : run[w].at = "idle"
  BY DEF Init, Idle
<1>2. \A a \in Jobs : \A n \in RequestNumbers :
        request[a][n] = "none" /\ \A c \in Accounts : order[a][n][c] = "none"
  BY DEF Init
<1>3. RequestsOwned /\ CopyingIsSafe /\ CleanHasNoOrder
  BY <1>1 DEF RequestsOwned, CopyingIsSafe, CleanHasNoOrder, AfterRequest, Copying,
              Clean
<1>4. UnmadeHasNoOrder /\ RefusedHasNoOrder
  BY <1>2 DEF UnmadeHasNoOrder, RefusedHasNoOrder
<1> QED
  BY <1>3, <1>4 DEF RInv

LEMMA NextRefused == IInv /\ IInv' /\ RInv /\ [Next]_vars => RInv'
<1> SUFFICES ASSUME IInv, IInv', RInv, [Next]_vars PROVE RInv'
  OBVIOUS
<1>1. TypeOK /\ TypeOK' /\ HasAlert
  BY DEF IInv
<1>2. ASSUME NEW w \in Workers,
             WorkerStep(w) \/ Fault(w) \/ CopierFault(w) \/ DeadLetterFault(w)
               \/ Crash(w)
      PROVE  RInv'
  <2>1. CASE QuietStep(w)
    BY <1>1, <2>1, QuietFollows, QuietWrites, FollowsKeeps
  <2>2. CASE PersistOrder(w) \/ EnqueueOrder(w)
    BY <1>1, <2>2, OrdersKeepRefused
  <2>3. CASE UpdateTradeRequestStatus(w)
    BY <1>1, <2>3, StatusKeepsRefused
  <2>4. CASE CreateTradeRequest(w)
    BY <1>1, <2>4, CreateKeepsRefused
  <2>5. QuietStep(w) \/ (PersistOrder(w) \/ EnqueueOrder(w))
          \/ UpdateTradeRequestStatus(w) \/ CreateTradeRequest(w)
    BY <1>2 DEF WorkerStep, QuietStep
  <2> QED
    BY <2>1, <2>2, <2>3, <2>4, <2>5
<1>3. CASE \/ \E a \in Alerts : StallDead(a) \/ StallSlow(a)
           \/ FlipKillSwitch
           \/ \E c \in Accounts : FlipAccount(c)
           \/ UNCHANGED vars
  <2>1. UNCHANGED <<run, created, request, order>>
    BY <1>3 DEF StallDead, StallSlow, FlipKillSwitch, FlipAccount, vars
  <2> QED
    BY <2>1 DEF RInv, RequestsOwned, CopyingIsSafe, CleanHasNoOrder,
                UnmadeHasNoOrder, RefusedHasNoOrder, Copying, Clean
<1> QED
  BY <1>2, <1>3 DEF Next

(* A trade request that the rules of the strategy or all accounts refused   *)
(* never has an order, however the runs of its alert overlap.               *)
THEOREM RefusedHasNoOrderHolds == Spec => []RefusedHasNoOrder
<1>1. IInv /\ RInv /\ [Next]_vars => (IInv /\ RInv)'
  BY NextInv, NextRefused
<1>2. Init => IInv /\ RInv
  BY InitInv, InitRefused
<1>3. RInv => RefusedHasNoOrder
  BY DEF RInv
<1> QED
  BY <1>1, <1>2, <1>3, PTL DEF Spec

-----------------------------------------------------------------------------
(***************************************************************************)
(* Dead letters.  Each attempt that a job has made cost a failure, the one  *)
(* whose run is about to end included (Threw).  The run that makes the last *)
(* attempt knows that it does (AttemptKnown), so it writes a dead letter or *)
(* fails once more; then the worker's handler does, or fails, or dies.      *)
(***************************************************************************)
(* The run of worker w is the one that BullMQ listens to for job a. *)
Owning(w, a) == /\ job[a].owner = w /\ run[w].alert = a
                /\ run[w].at \notin {"idle", "onFailed"}

Rejected(w) == run[w].at = "ack" /\ ~run[w].ok
Threw(w) == run[w].at = "catch" \/ Rejected(w)
Exhausted(a) == job[a].state = "failed" /\ job[a].made = Attempts

AttemptsCost == \A a \in Jobs : Failures >= job[a].made

AttemptKnown ==
    \A w \in Workers : \A a \in Jobs : Owning(w, a) => run[w].made = job[a].made

ThrowCosts ==
    \A w \in Workers : \A a \in Jobs :
        Owning(w, a) /\ Threw(w) => Failures >= job[a].made + 1

SilenceCosts ==
    \A w \in Workers : \A a \in Jobs :
        Owning(w, a) /\ Rejected(w) /\ LastAttempt(a) /\ deadLetters[a] = 0
          => Failures >= job[a].made + 2

ExhaustedCost ==
    \A a \in Jobs : Exhausted(a) /\ deadLetters[a] = 0 => Failures >= Attempts + 1

LInv == /\ AttemptsCost /\ AttemptKnown /\ ThrowCosts /\ SilenceCosts
        /\ ExhaustedCost /\ FailedIsDeadLettered

LEMMA Counts ==
    ASSUME TypeOK
    PROVE  /\ Failures \in Int
           /\ \A a \in Jobs : job[a].made \in Nat /\ deadLetters[a] \in Nat
BY JobRecord DEF TypeOK, Failures

LEMMA FailureCounts ==
    ASSUME TypeOK, NEW what \in {"flips", "faults", "crashes", "slow"}, Spend(what)
    PROVE  Failures' = IF what \in {"faults", "crashes"} THEN Failures + 1
                                                         ELSE Failures
<1>1. budget \in [flips: Nat, faults: Nat, crashes: Nat, slow: Nat]
  BY DEF TypeOK
<1>2. MaxFaults \in Nat /\ MaxCrashes \in Nat
  OBVIOUS
<1>3. budget' = [budget EXCEPT ![what] = @ - 1]
  BY DEF Spend
<1>4. CASE what = "flips"
  BY <1>1, <1>3, <1>4 DEF Failures
<1>5. CASE what = "faults"
  BY <1>1, <1>2, <1>3, <1>5 DEF Failures
<1>6. CASE what = "crashes"
  BY <1>1, <1>2, <1>3, <1>6 DEF Failures
<1>7. CASE what = "slow"
  BY <1>1, <1>3, <1>7 DEF Failures
<1> QED
  BY <1>4, <1>5, <1>6, <1>7

(* Run w goes to this step; it stays the same attempt of the same job. *)
Steers(w, step) ==
    /\ OthersStay(w)
    /\ run'[w].at = step /\ run'[w].alert = run[w].alert
    /\ run'[w].made = run[w].made

LEMMA SimpleSteers ==
    ASSUME TypeOK, NEW w \in Workers, NEW step,
           \/ GoTo(w, step)
           \/ \E accounts : GoToWith(w, step, accounts)
           \/ step = "copy" /\ \E c : DropAccount(w, c)
           \/ \E n : run' = [run EXCEPT ![w].at = step, ![w].n = n]
    PROVE  Steers(w, step)
<1>1. run \in [Workers -> RunType] /\ run[w] \in RunType
  BY DEF TypeOK
<1>2. OthersStay(w)
  BY <1>1 DEF OthersStay, GoTo, GoToWith, DropAccount
<1>3. \/ run'[w] = [run[w] EXCEPT !.at = step]
      \/ \E accounts : run'[w] = [run[w] EXCEPT !.at = step, !.left = accounts]
      \/ \E n : run'[w] = [run[w] EXCEPT !.at = step, !.n = n]
  BY <1>1 DEF GoTo, GoToWith, DropAccount
<1> QED
  BY <1>1, <1>2, <1>3 DEF Steers, RunType

LEMMA FinishSteers ==
    ASSUME TypeOK, NEW w \in Workers, NEW ok \in BOOLEAN, Finish(w, ok)
    PROVE  Steers(w, "ack") /\ (run'[w].ok <=> ok)
<1>1. run \in [Workers -> RunType] /\ run[w] \in RunType
  BY DEF TypeOK
<1>2. run'[w] = [run[w] EXCEPT !.at = "ack", !.ok = ok] /\ OthersStay(w)
  BY <1>1 DEF Finish, OthersStay
<1>3. /\ run'[w].at = "ack" /\ run'[w].alert = run[w].alert
      /\ run'[w].made = run[w].made
  BY <1>1, <1>2 DEF RunType
<1>4. run'[w].ok <=> ok
  BY <1>1, <1>2, Zenon DEF RunType
<1> QED
  BY <1>2, <1>3, <1>4 DEF Steers

LEMMA GoesIdle ==
    ASSUME TypeOK, NEW w \in Workers, run' = [run EXCEPT ![w] = Idle]
    PROVE  OthersStay(w) /\ run'[w].at = "idle"
<1>1. run'[w] = Idle /\ OthersStay(w)
  BY DEF TypeOK, OthersStay
<1> QED
  BY <1>1 DEF Idle

LettersStay == \A a \in Jobs : deadLetters'[a] = 0 => deadLetters[a] = 0

(* The steps beside the queue: one run goes on, or is over. *)
LEMMA RunKeepsLetters ==
    ASSUME IInv, IInv', LInv, NEW w \in Workers, job' = job, OthersStay(w),
           Failures' >= Failures, LettersStay,
           \/ run'[w].at = "idle"
           \/ /\ run[w].at \notin {"idle", "onFailed"}
              /\ \E step : Steers(w, step),
           \A a \in Jobs : Owning(w, a) =>
              /\ Threw(w)' => Failures' >= job[a].made + 1
              /\ Rejected(w)' /\ LastAttempt(a) /\ deadLetters'[a] = 0
                    => Failures' >= job[a].made + 2,
           \A a \in Jobs : Exhausted(a) /\ run[w].alert = a /\ run[w].at = "onFailed"
              => deadLetters'[a] > 0 \/ Failures' >= Attempts + 2
    PROVE  LInv'
<1>1. /\ Failures \in Int /\ Failures' \in Int
      /\ \A a \in Jobs : /\ job[a].made \in Nat /\ deadLetters[a] \in Nat
                         /\ deadLetters'[a] \in Nat
  BY Counts DEF IInv, TypeOK, Failures
<1>2. Attempts \in Nat
  OBVIOUS
<1>3. \A a \in Jobs : (Exhausted(a)' <=> Exhausted(a))
                      /\ (LastAttempt(a)' <=> LastAttempt(a))
  BY DEF Exhausted, LastAttempt
<1>4. ASSUME NEW v \in Workers, NEW a \in Jobs, Owning(v, a)'
      PROVE  /\ Owning(v, a) /\ run'[v].made = run[v].made
             /\ v # w => (Threw(v)' <=> Threw(v)) /\ (Rejected(v)' <=> Rejected(v))
  <2>1. CASE v = w
    BY <1>4, <2>1 DEF Owning, Steers
  <2>2. CASE v # w
    BY <1>4, <2>2 DEF Owning, OthersStay, Threw, Rejected
  <2> QED
    BY <2>1, <2>2
<1>5. AttemptsCost'
  BY <1>1 DEF LInv, AttemptsCost
<1>6. AttemptKnown'
  BY <1>4 DEF LInv, AttemptKnown
<1>7. ThrowCosts'
  BY <1>1, <1>4 DEF LInv, ThrowCosts
<1>8. SilenceCosts'
  BY <1>1, <1>3, <1>4 DEF LInv, SilenceCosts, LettersStay
<1>9. ExhaustedCost'
  BY <1>1, <1>2, <1>3 DEF LInv, ExhaustedCost, LettersStay
<1>10. FailedIsDeadLettered'
  <2> SUFFICES ASSUME NEW a \in Jobs, Exhausted(a), deadLetters'[a] = 0,
                      ~(Failures' >= Attempts + 2)
               PROVE  \E v \in Workers : run'[v].alert = a /\ run'[v].at = "onFailed"
    BY <1>1, <1>3 DEF FailedIsDeadLettered, Exhausted
  <2>1. deadLetters[a] = 0 /\ ~(Failures >= Attempts + 2)
    BY <1>1, <1>2 DEF LettersStay
  <2>2. PICK v \in Workers : run[v].alert = a /\ run[v].at = "onFailed"
    BY <1>1, <2>1 DEF LInv, FailedIsDeadLettered, Exhausted
  <2>3. v # w
    BY <1>1, <2>2
  <2> QED
    BY <2>2, <2>3 DEF OthersStay
<1> QED
  BY <1>5, <1>6, <1>7, <1>8, <1>9, <1>10 DEF LInv

(* The steps of a run that neither throw nor settle nor record anything. *)
LEMMA PlainKeepsLetters ==
    ASSUME IInv, IInv', LInv, NEW w \in Workers,
           UNCHANGED <<job, deadLetters>>, Failures' >= Failures,
           run[w].at \notin {"idle", "onFailed"},
           NEW step, Steers(w, step), step # "catch",
           step = "ack" => run'[w].ok
    PROVE  LInv'
<1>1. ~Threw(w)' /\ ~Rejected(w)'
  BY DEF Threw, Rejected, Steers
<1>2. OthersStay(w) /\ LettersStay
  BY DEF Steers, LettersStay
<1> QED
  BY <1>1, <1>2, RunKeepsLetters

LEMMA WorkKeepsLetters ==
    ASSUME IInv, IInv', LInv, NEW w \in Workers,
           \/ LoadAlert(w) \/ CheckKillSwitch(w) \/ LoadMappings(w)
           \/ CreateTradeRequest(w) \/ CheckAccount(w) \/ AllChecked(w)
           \/ LoadCopierMappings(w) \/ PersistOrder(w) \/ SkipAccount(w)
           \/ EnqueueOrder(w) \/ AllCopied(w) \/ UpdateTradeRequestStatus(w)
           \/ MarkAlertProcessed(w) \/ CopierFault(w)
    PROVE  LInv'
<1>0. TypeOK /\ run \in [Workers -> RunType] /\ run[w] \in RunType
  BY DEF IInv, TypeOK
<1>1. UNCHANGED <<job, deadLetters>> /\ run[w].at \notin {"idle", "onFailed"}
  BY DEF LoadAlert, CheckKillSwitch, LoadMappings, CreateTradeRequest,
         CheckAccount, AllChecked, LoadCopierMappings, PersistOrder,
         SkipAccount, EnqueueOrder, AllCopied, UpdateTradeRequestStatus,
         MarkAlertProcessed, CopierFault
<1>2. Failures' >= Failures
  <2>1. Failures \in Int
    BY <1>0, Counts
  <2>2. CASE CopierFault(w)
    BY <1>0, <2>1, <2>2, FailureCounts DEF CopierFault
  <2>3. CASE budget' = budget
    BY <2>1, <2>3 DEF Failures
  <2> QED
    BY <2>2, <2>3
       DEF LoadAlert, CheckKillSwitch, LoadMappings, CreateTradeRequest,
           CheckAccount, AllChecked, LoadCopierMappings, PersistOrder,
           SkipAccount, EnqueueOrder, AllCopied, UpdateTradeRequestStatus,
           MarkAlertProcessed
<1>3. \E step : Steers(w, step) /\ step # "catch" /\ (step = "ack" => run'[w].ok)
  <2>1. CASE MarkAlertProcessed(w)
    BY <1>0, <2>1, FinishSteers DEF MarkAlertProcessed
  <2>2. CASE CheckAccount(w)
    <3>1. PICK left, safe : run' = [run EXCEPT ![w].left = left, ![w].safe = safe]
      BY <2>2 DEF CheckAccount
    <3>2. /\ run'[w] = [run[w] EXCEPT !.left = left, !.safe = safe]
          /\ OthersStay(w) /\ run[w].at = "check"
      BY <1>0, <2>2, <3>1 DEF OthersStay, CheckAccount
    <3>3. Steers(w, "check")
      BY <1>0, <3>2 DEF RunType, Steers
    <3> QED
      BY <3>3
  <2>3. CASE CreateTradeRequest(w)
    <3>1. PICK step \in {"check", "mark"} :
            \E n : run' = [run EXCEPT ![w].at = step, ![w].n = n]
      BY <2>3 DEF CreateTradeRequest
    <3>2. Steers(w, step)
      BY <1>0, <3>1, SimpleSteers
    <3> QED
      BY <3>2
  <2>4. CASE \/ LoadAlert(w) \/ CheckKillSwitch(w) \/ LoadMappings(w)
             \/ AllChecked(w) \/ LoadCopierMappings(w)
             \/ AllCopied(w) \/ UpdateTradeRequestStatus(w)
    <3>1. \E step \in {"killSwitch", "mark", "mappings", "create", "status",
                       "copyMappings", "copy"} :
             GoTo(w, step) \/ \E accounts : GoToWith(w, step, accounts)
      BY <2>4 DEF LoadAlert, CheckKillSwitch, LoadMappings, AllChecked,
                  LoadCopierMappings, AllCopied, UpdateTradeRequestStatus
    <3>2. \E step \in {"killSwitch", "mark", "mappings", "create", "status",
                       "copyMappings", "copy"} : Steers(w, step)
      BY <1>0, <3>1, SimpleSteers
    <3> QED
      BY <3>2
  <2>5. CASE PersistOrder(w) \/ SkipAccount(w) \/ EnqueueOrder(w) \/ CopierFault(w)
    <3>1. GoTo(w, "enqueue") \/ GoTo(w, "status") \/ \E c : DropAccount(w, c)
      BY <2>5 DEF PersistOrder, SkipAccount, EnqueueOrder, CopierFault
    <3>2. \E step \in {"enqueue", "status", "copy"} : Steers(w, step)
      BY <1>0, <3>1, SimpleSteers
    <3> QED
      BY <3>2
  <2> QED
    BY <2>1, <2>2, <2>3, <2>4, <2>5
<1> QED
  BY <1>1, <1>2, <1>3, PlainKeepsLetters

(* A statement fails: the attempt costs a failure. *)
LEMMA FaultKeepsLetters ==
    ASSUME IInv, IInv', LInv, NEW w \in Workers, Fault(w)
    PROVE  LInv'
<1>1. TypeOK
  BY DEF IInv
<1>2. /\ Failures \in Int /\ Failures' = Failures + 1
      /\ \A a \in Jobs : job[a].made \in Nat
  BY <1>1, Counts, FailureCounts DEF Fault
<1>3. Steers(w, "catch")
  BY <1>1, SimpleSteers DEF Fault
<1>4. /\ job' = job /\ LettersStay /\ OthersStay(w)
      /\ run[w].at \notin {"idle", "onFailed"} /\ ~Rejected(w)'
  BY <1>3 DEF Fault, LettersStay, Steers, Rejected
<1>5. \A a \in Jobs : Failures' >= job[a].made + 1
  BY <1>2 DEF LInv, AttemptsCost
<1> QED
  BY <1>2, <1>3, <1>4, <1>5, RunKeepsLetters

(* The catch block records a last attempt, or cannot: one failure more. *)
LEMMA CatchKeepsLetters ==
    ASSUME IInv, IInv', LInv, NEW w \in Workers, run[w].at = "catch",
           CatchError(w) \/ DeadLetterFault(w)
    PROVE  LInv'
<1>1. TypeOK /\ run[w].alert \in Jobs
  BY DEF IInv, HasAlert
<1>2. /\ Failures \in Int
      /\ \A a \in Jobs : job[a].made \in Nat /\ deadLetters[a] \in Nat
      /\ deadLetters \in [Jobs -> Nat]
  BY <1>1, Counts DEF TypeOK
<1>3. Steers(w, "ack") /\ job' = job /\ OthersStay(w)
  BY <1>1, FinishSteers DEF CatchError, DeadLetterFault, Steers
<1>4. \A a \in Jobs : Owning(w, a)
          => run[w].made = job[a].made /\ Failures >= job[a].made + 1
  BY DEF LInv, AttemptKnown, ThrowCosts, Threw
<1>5. CASE CatchError(w)
  <2>1. Failures' = Failures
    BY <1>5 DEF CatchError, Failures
  <2>2. LettersStay
    BY <1>1, <1>2, <1>5 DEF CatchError, AlertOf, LettersStay
  <2>3. ASSUME NEW a \in Jobs, Owning(w, a), LastAttempt(a)
        PROVE  deadLetters'[a] # 0
    <3>1. run[w].made >= Attempts - 1 /\ run[w].alert = a
      BY <1>2, <1>4, <2>3 DEF LastAttempt, Owning
    <3> QED
      BY <1>2, <1>5, <3>1 DEF CatchError, AlertOf
  <2> QED
    BY <1>2, <1>3, <1>4, <2>1, <2>2, <2>3, RunKeepsLetters
<1>6. CASE DeadLetterFault(w)
  <2>1. Failures' = Failures + 1 /\ LettersStay
    BY <1>1, <1>6, FailureCounts DEF DeadLetterFault, LettersStay
  <2>2. \A a \in Jobs : Owning(w, a) => Failures' >= job[a].made + 2
    BY <1>2, <1>4, <2>1
  <2> QED
    BY <1>2, <1>3, <1>4, <2>1, <2>2, RunKeepsLetters
<1> QED
  BY <1>5, <1>6

(* The handler records the failure, or fails, or its process dies. *)
LEMMA HandlerKeepsLetters ==
    ASSUME IInv, IInv', LInv, NEW w \in Workers,
           \/ OnFailed(w) \/ Crash(w)
           \/ run[w].at = "onFailed" /\ DeadLetterFault(w)
    PROVE  LInv'
<1>1. TypeOK /\ run[w].alert \in Jobs
  BY DEF IInv, HasAlert, OnFailed, Crash
<1>2. /\ Failures \in Int
      /\ \A a \in Jobs : job[a].made \in Nat /\ deadLetters[a] \in Nat
      /\ deadLetters \in [Jobs -> Nat]
  BY <1>1, Counts DEF TypeOK
<1>3. job' = job /\ OthersStay(w) /\ run'[w].at = "idle"
  BY <1>1, GoesIdle DEF OnFailed, Crash, DeadLetterFault
<1>4. ~Threw(w)' /\ ~Rejected(w)'
  BY <1>3 DEF Threw, Rejected
<1>5. CASE OnFailed(w)
  <2>1. Failures' = Failures /\ LettersStay /\ deadLetters'[run[w].alert] > 0
    BY <1>1, <1>2, <1>5 DEF OnFailed, AlertOf, Failures, LettersStay
  <2> QED
    BY <1>2, <1>3, <1>4, <2>1, RunKeepsLetters
<1>6. CASE Crash(w) \/ DeadLetterFault(w)
  <2>1. Failures' = Failures + 1 /\ deadLetters' = deadLetters
    BY <1>1, <1>6, FailureCounts DEF Crash, DeadLetterFault
  <2>2. ASSUME NEW a \in Jobs, Exhausted(a)
        PROVE  deadLetters'[a] > 0 \/ Failures' >= Attempts + 2
    BY <1>2, <2>1, <2>2 DEF LInv, ExhaustedCost
  <2> QED
    BY <1>2, <1>3, <1>4, <2>1, <2>2, RunKeepsLetters DEF LettersStay
<1> QED
  BY <1>5, <1>6

(* The steps of the queue: job j changes, and the run that has part in it. *)
LEMMA QueueKeepsLetters ==
    ASSUME IInv, IInv', LInv, NEW j \in Jobs, NEW state, NEW made \in Nat,
           NEW stalls, NEW owner, Becomes(j, state, made, stalls, owner),
           Failures' = Failures, deadLetters' = deadLetters,
           \A v \in Workers : \A a \in Jobs :
              Owning(v, a)' /\ a # j => Owning(v, a) /\ run'[v] = run[v],
           \A v \in Workers : run[v].at = "onFailed" => run'[v] = run[v],
           \A v \in Workers : Owning(v, j)' => run'[v].made = made /\ ~Threw(v)',
           Failures >= made,
           state = "failed" /\ made = Attempts =>
              /\ deadLetters[j] = 0 => Failures >= Attempts + 1
              /\ \E v \in Workers : run'[v].alert = j /\ run'[v].at = "onFailed"
    PROVE  LInv'
<1>1. /\ job'[j].made = made /\ job'[j].state = state
      /\ \A a \in Jobs : a # j => job'[a] = job[a]
  BY DEF Becomes
<1>2. \A a \in Jobs : a # j => (Exhausted(a)' <=> Exhausted(a))
                               /\ (LastAttempt(a)' <=> LastAttempt(a))
  BY <1>1 DEF Exhausted, LastAttempt
<1>3. ASSUME NEW v \in Workers, NEW a \in Jobs, a # j, Owning(v, a)'
      PROVE  /\ Owning(v, a) /\ run'[v].made = run[v].made
             /\ (Threw(v)' <=> Threw(v)) /\ (Rejected(v)' <=> Rejected(v))
  BY <1>3 DEF Threw, Rejected
<1>4. AttemptsCost'
  BY <1>1 DEF LInv, AttemptsCost
<1>5. AttemptKnown'
  BY <1>1, <1>3 DEF LInv, AttemptKnown
<1>6. ThrowCosts'
  BY <1>1, <1>3 DEF LInv, ThrowCosts
<1>7. SilenceCosts'
  <2> SUFFICES ASSUME NEW v \in Workers, NEW a \in Jobs, Owning(v, a)',
                      Rejected(v)', LastAttempt(a)', deadLetters[a] = 0
               PROVE  Failures >= job'[a].made + 2
    BY DEF SilenceCosts
  <2>1. a # j
    BY DEF Threw, Rejected
  <2> QED
    BY <1>1, <1>2, <1>3, <2>1 DEF LInv, SilenceCosts
<1>8. ExhaustedCost'
  <2> SUFFICES ASSUME NEW a \in Jobs, Exhausted(a)', deadLetters[a] = 0
               PROVE  Failures >= Attempts + 1
    BY DEF ExhaustedCost
  <2> QED
    BY <1>1, <1>2 DEF LInv, ExhaustedCost, Exhausted
<1>9. FailedIsDeadLettered'
  <2> SUFFICES ASSUME NEW a \in Jobs, Exhausted(a)'
               PROVE  \/ deadLetters[a] > 0
                      \/ \E v \in Workers : run'[v].alert = a /\ run'[v].at = "onFailed"
                      \/ Failures >= Attempts + 2
    BY DEF FailedIsDeadLettered, Exhausted
  <2>1. CASE a = j
    BY <1>1, <2>1 DEF Exhausted
  <2>2. CASE a # j
    <3>1. \/ deadLetters[a] > 0
          \/ \E v \in Workers : run[v].alert = a /\ run[v].at = "onFailed"
          \/ Failures >= Attempts + 2
      BY <1>2, <2>2 DEF LInv, FailedIsDeadLettered, Exhausted
    <3> QED
      BY <3>1
  <2> QED
    BY <2>1, <2>2
<1> QED
  BY <1>4, <1>5, <1>6, <1>7, <1>8, <1>9 DEF LInv

LEMMA TakeKeepsLetters ==
    ASSUME IInv, IInv', LInv, NEW w \in Workers, NEW j \in Jobs, Take(w, j)
    PROVE  LInv'
<1>1. /\ run[w].at = "idle" /\ StartJob(w, j)
      /\ Failures' = Failures /\ deadLetters' = deadLetters
      /\ run' = [run EXCEPT ![w] = [Idle EXCEPT !.at = "load", !.alert = j,
                                               !.made = job[j].made]]
  BY DEF Take, Failures
<1>2. TypeOK /\ JobTypeOK /\ run \in [Workers -> RunType]
  BY DEF IInv, TypeOK
<1>3. Becomes(j, "active", job[j].made, job[j].stalls, w)
  BY <1>1, <1>2, StartsJob
<1>4. /\ run'[w].at = "load" /\ run'[w].alert = j /\ run'[w].made = job[j].made
      /\ \A v \in Workers : v # w => run'[v] = run[v]
  BY <1>1, <1>2 DEF Idle
<1>5. job[j].made \in Nat /\ Failures >= job[j].made
  BY <1>2, Counts DEF LInv, AttemptsCost
<1>6. ASSUME NEW v \in Workers, NEW a \in Jobs, Owning(v, a)', a # j
      PROVE  Owning(v, a) /\ run'[v] = run[v]
  BY <1>3, <1>4, <1>6 DEF Owning, Becomes
<1>7. \A v \in Workers : run[v].at = "onFailed" => run'[v] = run[v]
  BY <1>1, <1>4
<1>8. \A v \in Workers : Owning(v, j)' => run'[v].made = job[j].made /\ ~Threw(v)'
  BY <1>3, <1>4 DEF Owning, Becomes, Threw, Rejected
<1> QED
  BY <1>1, <1>3, <1>5, <1>6, <1>7, <1>8, QueueKeepsLetters

LEMMA StallKeepsLetters ==
    ASSUME IInv, IInv', LInv, NEW j \in Jobs, StallDead(j) \/ StallSlow(j)
    PROVE  LInv'
<1>1. StallJob(j) /\ run' = run /\ deadLetters' = deadLetters
  BY DEF StallDead, StallSlow
<1>2. TypeOK /\ JobTypeOK /\ JobInv
  BY DEF IInv, TypeOK
<1>3. Failures' = Failures
  <2>1. CASE budget' = budget
    BY <2>1 DEF Failures
  <2>2. CASE Spend("slow")
    BY <1>2, <2>2, FailureCounts
  <2> QED
    BY <2>1, <2>2 DEF StallDead, StallSlow
<1>4. PICK state : Becomes(j, state, job[j].made, job[j].stalls + 1, None)
  BY <1>1, <1>2, StallsJob
<1>5. /\ job[j].made \in Nat /\ Failures >= job[j].made /\ job[j].made # Attempts
  BY <1>1, <1>2, Counts DEF LInv, AttemptsCost, StallJob, JobInv
<1>6. /\ \A v \in Workers : \A a \in Jobs :
            Owning(v, a)' /\ a # j => Owning(v, a) /\ run'[v] = run[v]
      /\ \A v \in Workers : ~Owning(v, j)'
  BY <1>1, <1>4 DEF Owning, Becomes
<1> QED
  BY <1>1, <1>3, <1>4, <1>5, <1>6, QueueKeepsLetters

LEMMA AcknowledgeKeepsLetters ==
    ASSUME IInv, IInv', LInv, NEW w \in Workers, Acknowledge(w)
    PROVE  LInv'
<1>0. PICK j \in Jobs : j = run[w].alert
  BY DEF IInv, HasAlert, Acknowledge
<1>1. /\ run[w].at = "ack" /\ Failures' = Failures /\ deadLetters' = deadLetters
      /\ SettleJob(w, j, run[w].ok)
      /\ IF job[j].owner = w /\ ~run[w].ok /\ LastAttempt(j)
           THEN GoTo(w, "onFailed") ELSE run' = [run EXCEPT ![w] = Idle]
  BY <1>0 DEF Acknowledge, Failures, AlertOf
<1>2. TypeOK /\ JobTypeOK /\ JobInv /\ run[w].ok \in BOOLEAN
  <2>1. run[w] \in RunType
    BY DEF IInv, TypeOK
  <2> QED
    BY <2>1 DEF IInv, TypeOK, RunType
<1>3. /\ Failures \in Int /\ job[j].made \in Nat /\ Failures >= job[j].made
      /\ deadLetters[j] \in Nat
  BY <1>2, Counts DEF LInv, AttemptsCost
<1>4. OthersStay(w) /\ run'[w].at \in {"idle", "onFailed"}
  BY <1>1, <1>2, SimpleSteers, GoesIdle DEF Steers
<1>5. \A v \in Workers : run[v].at = "onFailed" => run'[v] = run[v]
  BY <1>1, <1>4 DEF OthersStay
<1>6. CASE job[j].owner # w
  <2>1. job' = job
    BY <1>1, <1>6 DEF SettleJob
  <2>2. run'[w].at = "idle"
    BY <1>1, <1>2, <1>6, GoesIdle
  <2>3. ~Threw(w)' /\ ~Rejected(w)' /\ LettersStay
    BY <1>1, <2>2 DEF Threw, Rejected, LettersStay
  <2> QED
    BY <1>1, <1>3, <1>4, <2>1, <2>2, <2>3, RunKeepsLetters
<1>7. ASSUME job[j].owner = w, NEW state, NEW made, NEW stalls,
             Becomes(j, state, made, stalls, None)
      PROVE  /\ \A v \in Workers : \A a \in Jobs :
                   Owning(v, a)' /\ a # j => Owning(v, a) /\ run'[v] = run[v]
             /\ \A v \in Workers : ~Owning(v, j)'
  BY <1>4, <1>7 DEF Owning, Becomes, OthersStay
<1>8. CASE job[j].owner = w /\ run[w].ok
  <2>1. Becomes(j, "completed", job[j].made, job[j].stalls, None)
    BY <1>1, <1>2, <1>8 DEF SettleJob, JobTypeOK, Becomes
  <2> QED
    BY <1>1, <1>3, <1>5, <1>7, <1>8, <2>1, QueueKeepsLetters
<1>9. CASE job[j].owner = w /\ ~run[w].ok
  <2>1. PICK state : state = IF LastAttempt(j) THEN "failed" ELSE "waiting"
    OBVIOUS
  <2>2. Becomes(j, state, job[j].made + 1, job[j].stalls, None)
    BY <1>1, <1>2, <1>9, <2>1 DEF SettleJob, JobTypeOK, Becomes
  <2>3. Owning(w, j) /\ Rejected(w) /\ Threw(w)
    BY <1>0, <1>1, <1>9 DEF Owning, Rejected, Threw
  <2>4. Failures >= job[j].made + 1
    BY <2>3 DEF LInv, ThrowCosts
  <2>5. ASSUME state = "failed", job[j].made + 1 = Attempts
        PROVE  /\ deadLetters[j] = 0 => Failures >= Attempts + 1
               /\ \E v \in Workers : run'[v].alert = j /\ run'[v].at = "onFailed"
    <3>1. LastAttempt(j)
      BY <2>1, <2>5
    <3>2. deadLetters[j] = 0 => Failures >= job[j].made + 2
      BY <2>3, <3>1 DEF LInv, SilenceCosts
    <3>3. Steers(w, "onFailed")
      BY <1>1, <1>2, <1>9, <3>1, SimpleSteers
    <3> QED
      BY <1>0, <1>3, <2>5, <3>2, <3>3 DEF Steers
  <2>6. job[j].made + 1 \in Nat
    BY <1>3
  <2> QED
    BY <1>1, <1>5, <1>7, <1>9, <2>2, <2>4, <2>5, <2>6, QueueKeepsLetters
<1> QED
  BY <1>6, <1>8, <1>9

LEMMA OperatorKeepsLetters ==
    ASSUME IInv, LInv, \/ FlipKillSwitch
                       \/ \E c \in Accounts : FlipAccount(c)
                       \/ UNCHANGED vars
    PROVE  LInv'
<1>1. UNCHANGED <<job, run, deadLetters>>
  BY DEF FlipKillSwitch, FlipAccount, vars
<1>2. Failures' = Failures
  <2>1. CASE budget' = budget
    BY <2>1 DEF Failures
  <2>2. CASE Spend("flips")
    BY <2>2, FailureCounts DEF IInv
  <2> QED
    BY <2>1, <2>2 DEF FlipKillSwitch, FlipAccount, vars
<1> QED
  BY <1>1, <1>2 DEF LInv, AttemptsCost, AttemptKnown, ThrowCosts, SilenceCosts,
                    ExhaustedCost, FailedIsDeadLettered, Owning, Threw, Rejected,
                    LastAttempt, Exhausted

LEMMA InitLetters == Init => LInv
<1> SUFFICES ASSUME Init PROVE LInv
  OBVIOUS
<1>1. /\ \A w \in Workers : run[w].at = "idle"
      /\ \A a \in Jobs : job[a].made = 0 /\ job[a].state = "waiting"
  BY DEF Init, JobInit, Idle
<1>2. Failures = 0
  BY DEF Init, Failures
<1> QED
  BY <1>1, <1>2 DEF LInv, AttemptsCost, AttemptKnown, ThrowCosts, SilenceCosts,
                    ExhaustedCost, FailedIsDeadLettered, Owning, Exhausted

LEMMA NextLetters == IInv /\ IInv' /\ LInv /\ [Next]_vars => LInv'
<1> SUFFICES ASSUME IInv, IInv', LInv, [Next]_vars PROVE LInv'
  OBVIOUS
<1>1. ASSUME NEW w \in Workers,
             WorkerStep(w) \/ Fault(w) \/ CopierFault(w) \/ DeadLetterFault(w)
               \/ Crash(w)
      PROVE  LInv'
  <2>1. CASE DeadLetterFault(w)
    BY <2>1, CatchKeepsLetters, HandlerKeepsLetters DEF DeadLetterFault
  <2>2. CASE CatchError(w)
    BY <2>2, CatchKeepsLetters DEF CatchError
  <2>3. CASE OnFailed(w) \/ Crash(w) \/ Fault(w) \/ Acknowledge(w)
    BY <2>3, HandlerKeepsLetters, FaultKeepsLetters, AcknowledgeKeepsLetters
  <2>4. CASE \E a \in Alerts : Take(w, a)
    BY <2>4, TakeKeepsLetters
  <2> QED
    BY <1>1, <2>1, <2>2, <2>3, <2>4, WorkKeepsLetters DEF WorkerStep
<1>2. ASSUME NEW a \in Alerts, StallDead(a) \/ StallSlow(a)
      PROVE  LInv'
  BY <1>2, StallKeepsLetters
<1> QED
  BY <1>1, <1>2, OperatorKeepsLetters DEF Next

(* An alert whose attempts are used up has a dead letter, or is about to    *)
(* get one, unless each attempt cost a failure and both places that write   *)
(* it failed too, for any number of failures, deaths and overlapping runs.  *)
THEOREM FailedIsDeadLetteredHolds == Spec => []FailedIsDeadLettered
<1>1. IInv /\ LInv /\ [Next]_vars => (IInv /\ LInv)'
  BY NextInv, NextLetters
<1>2. Init => IInv /\ LInv
  BY InitInv, InitLetters
<1>3. LInv => FailedIsDeadLettered
  BY DEF LInv
<1> QED
  BY <1>1, <1>2, <1>3, PTL DEF Spec
-----------------------------------------------------------------------------
(***************************************************************************)
(* The books of a completed alert.  BooksBalance is not inductive: what a   *)
(* run has written so far (RunBalances) decides what it leaves behind, and  *)
(* that nobody else writes for its alert rests on the ownership of jobs,    *)
(* which a failure, a death or a stall ends (RunsOwn, JobBalances).  All of *)
(* it is stated for the time before the first of these (Undisturbed).       *)
(***************************************************************************)
Fresh(a) ==
    /\ created[a] = 0
    /\ \A n \in RequestNumbers :
          /\ request[a][n] = "none"
          /\ \A c \in Accounts : order[a][n][c] = "none"

Balanced(a) ==
    /\ created[a] <= 1
    /\ \A n \in RequestNumbers :
          /\ request[a][n] # "copying"
          /\ \A c \in Accounts : order[a][n][c] # "saved"

(* One request is open, and one order at most is saved without its job. *)
Open(w, a) ==
    /\ created[a] <= 1
    /\ \A n \in RequestNumbers : n # run[w].n => request[a][n] # "copying"
    /\ \A n \in RequestNumbers, c \in Accounts :
          order[a][n][c] = "saved" =>
             /\ run[w].at = "enqueue" /\ n = run[w].n
             /\ \A d \in Accounts : order[a][n][d] = "saved" => d = c

RunBalances(w) ==
    /\ run[w].at \notin {"catch", "onFailed"}
    /\ run[w].at \in BeforeRequest => Fresh(run[w].alert)
    /\ run[w].at \in AfterRequest => Open(w, run[w].alert)
    /\ run[w].at \in {"mark", "ack"} => Balanced(run[w].alert)
    /\ run[w].at = "ack" => run[w].ok

RunsOwn == \A w \in Workers : run[w].at # "idle" => job[run[w].alert].owner = w

JobBalances(a) ==
    /\ job[a].state = "waiting" => Fresh(a)
    /\ job[a].state = "active" =>
          \E w \in Workers : /\ job[a].owner = w /\ run[w].alert = a
                             /\ run[w].at # "idle"
    /\ job[a].state = "completed" => Balanced(a)
    /\ job[a].state # "failed"

BudgetsShrink == /\ budget.faults <= MaxFaults /\ budget.crashes <= MaxCrashes
                 /\ budget.slow <= MaxSlow

BInv == /\ BudgetsShrink
        /\ Undisturbed => /\ RunsOwn
                          /\ \A w \in Workers : RunBalances(w)
                          /\ \A a \in Jobs : JobBalances(a)

LEMMA BudgetDrops ==
    ASSUME TypeOK, BudgetsShrink, [Next]_vars
    PROVE  BudgetsShrink' /\ (Undisturbed' => Undisturbed)
<1>1. budget \in [flips: Nat, faults: Nat, crashes: Nat, slow: Nat]
  BY DEF TypeOK
<1>2. \/ budget' = budget
      \/ \E what \in {"flips", "faults", "crashes", "slow"} : Spend(what)
  BY DEF Next, vars, WorkerStep, Take, LoadAlert, CheckKillSwitch, LoadMappings,
         CreateTradeRequest, CheckAccount, AllChecked, LoadCopierMappings,
         PersistOrder, SkipAccount, EnqueueOrder, AllCopied,
         UpdateTradeRequestStatus, MarkAlertProcessed, CatchError, Acknowledge,
         OnFailed, Fault, CopierFault, DeadLetterFault, Crash, StallDead,
         StallSlow, FlipKillSwitch, FlipAccount
<1>3. CASE budget' = budget
  BY <1>3 DEF BudgetsShrink, Undisturbed
<1>4. ASSUME NEW what \in {"flips", "faults", "crashes", "slow"}, Spend(what)
      PROVE  BudgetsShrink' /\ (Undisturbed' => Undisturbed)
  <2>1. budget' = [budget EXCEPT ![what] = budget[what] - 1]
    BY <1>4 DEF Spend
  <2>2. /\ budget'.faults \in {budget.faults, budget.faults - 1}
        /\ budget'.crashes \in {budget.crashes, budget.crashes - 1}
        /\ budget'.slow \in {budget.slow, budget.slow - 1}
    BY <1>1, <2>1
  <2> QED
    BY <1>1, <2>2 DEF BudgetsShrink, Undisturbed
<1> QED
  BY <1>2, <1>3, <1>4

LEMMA FailuresShow ==
    ASSUME TypeOK, BudgetsShrink, NEW what \in {"faults", "crashes", "slow"},
           Spend(what)
    PROVE  ~Undisturbed'
<1>1. budget \in [flips: Nat, faults: Nat, crashes: Nat, slow: Nat]
  BY DEF TypeOK
<1>2. budget' = [budget EXCEPT ![what] = budget[what] - 1]
  BY DEF Spend
<1>3. budget'[what] = budget[what] - 1
  BY <1>1, <1>2
<1> QED
  BY <1>1, <1>3 DEF BudgetsShrink, Undisturbed

(* A run goes on with its alert and its request. *)
Continues(w, step) ==
    /\ OthersStay(w)
    /\ run'[w].at = step /\ run'[w].alert = run[w].alert /\ run'[w].n = run[w].n

(* A run goes on, writes for its own alert only, and its books are right.   *)
Steady(w) ==
    /\ OthersStay(w) /\ job' = job
    /\ run[w].at # "idle" /\ run'[w].at # "idle" /\ run'[w].alert = run[w].alert
    /\ \A b \in Jobs : b # run[w].alert =>
          created'[b] = created[b] /\ request'[b] = request[b] /\ order'[b] = order[b]
    /\ RunBalances(w)'

LEMMA SteadyBalances ==
    ASSUME JobInv, HasAlert, RunsOwn, \A v \in Workers : RunBalances(v),
           \A a \in Jobs : JobBalances(a), NEW w \in Workers, Steady(w)
    PROVE  RunsOwn' /\ (\A v \in Workers : RunBalances(v)')
                    /\ (\A a \in Jobs : JobBalances(a)')
<1>1. /\ run[w].alert \in Jobs /\ job[run[w].alert].owner = w
      /\ job[run[w].alert].state = "active"
  BY DEF Steady, HasAlert, RunsOwn, JobInv
<1>2. RunsOwn'
  BY DEF RunsOwn, Steady, OthersStay
<1>3. ASSUME NEW v \in Workers, v # w
      PROVE  RunBalances(v)'
  <2>1. run'[v] = run[v] /\ RunBalances(v)
    BY <1>3 DEF Steady, OthersStay
  <2>2. CASE run[v].at = "idle"
    BY <2>1, <2>2 DEF RunBalances, BeforeRequest, AfterRequest
  <2>3. CASE run[v].at # "idle"
    <3>1. run[v].alert \in Jobs /\ run[v].alert # run[w].alert
      BY <1>1, <1>3, <2>3 DEF HasAlert, RunsOwn
    <3>2. /\ created'[run[v].alert] = created[run[v].alert]
          /\ request'[run[v].alert] = request[run[v].alert]
          /\ order'[run[v].alert] = order[run[v].alert]
      BY <3>1 DEF Steady
    <3> QED
      BY <2>1, <3>2 DEF RunBalances, Fresh, Open, Balanced
  <2> QED
    BY <2>2, <2>3
<1>4. RunBalances(w)'
  BY DEF Steady
<1>5. ASSUME NEW a \in Jobs
      PROVE  JobBalances(a)'
  <2>1. CASE a = run[w].alert
    BY <1>1, <2>1 DEF JobBalances, Steady
  <2>2. CASE a # run[w].alert
    <3>1. /\ created'[a] = created[a] /\ request'[a] = request[a]
          /\ order'[a] = order[a] /\ job' = job /\ JobBalances(a)
      BY <2>2 DEF Steady
    <3>2. ASSUME NEW u \in Workers, job[a].owner = u, run[u].alert = a,
                 run[u].at # "idle"
          PROVE  run'[u].alert = a /\ run'[u].at # "idle"
      BY <2>2, <3>2 DEF Steady, OthersStay
    <3> QED
      BY <3>1, <3>2 DEF JobBalances, Fresh, Balanced
  <2> QED
    BY <2>1, <2>2
<1> QED
  BY <1>2, <1>3, <1>4, <1>5

LEMMA ReadingBalances ==
    ASSUME NEW w \in Workers, RunBalances(w), NEW step, Continues(w, step),
           \/ run[w].at \in BeforeRequest /\ step \in BeforeRequest \cup {"mark"}
           \/ run[w].at \in AfterRequest \ {"enqueue"} /\ step \in AfterRequest,
           UNCHANGED <<job, created, request, order>>
    PROVE  Steady(w)
<1>1. /\ run[w].at # "idle" /\ step # "idle" /\ step \notin {"catch", "onFailed", "ack"}
  BY DEF BeforeRequest, AfterRequest
<1>2. CASE run[w].at \in BeforeRequest /\ step \in BeforeRequest \cup {"mark"}
  <2>1. Fresh(run[w].alert)' /\ step \notin AfterRequest
    BY <1>2 DEF RunBalances, Continues, Fresh, AfterRequest, BeforeRequest
  <2>2. Balanced(run[w].alert)'
    BY <2>1 DEF Fresh, Balanced
  <2>3. RunBalances(w)'
    BY <1>1, <2>1, <2>2 DEF RunBalances, Continues
  <2> QED
    BY <1>1, <2>3 DEF Steady, Continues
<1>3. CASE run[w].at \in AfterRequest \ {"enqueue"} /\ step \in AfterRequest
  <2>1. Open(w, run[w].alert) /\ step \notin BeforeRequest \cup {"mark", "ack"}
    BY <1>3 DEF RunBalances, BeforeRequest, AfterRequest
  <2>2. Open(w, run[w].alert)'
    BY <1>3, <2>1 DEF Open, Continues
  <2>3. RunBalances(w)'
    BY <1>1, <2>1, <2>2 DEF RunBalances, Continues
  <2> QED
    BY <1>1, <2>3 DEF Steady, Continues
<1> QED
  BY <1>2, <1>3

LEMMA ReadersBalance ==
    ASSUME TypeOK, NEW w \in Workers, RunBalances(w),
           \/ LoadAlert(w) \/ CheckKillSwitch(w) \/ LoadMappings(w)
           \/ CheckAccount(w) \/ AllChecked(w) \/ LoadCopierMappings(w)
           \/ SkipAccount(w) \/ AllCopied(w)
    PROVE  Steady(w)
<1>0. run \in [Workers -> RunType] /\ run[w] \in RunType
  BY DEF TypeOK
<1>1. UNCHANGED <<job, created, request, order>>
  BY DEF LoadAlert, CheckKillSwitch, LoadMappings, CheckAccount, AllChecked,
         LoadCopierMappings, SkipAccount, AllCopied
<1>2. \A step : Going(w, step) => Continues(w, step)
  BY DEF Going, Continues
<1>3. CASE LoadAlert(w) \/ CheckKillSwitch(w) \/ LoadMappings(w)
  <2>1. /\ run[w].at \in BeforeRequest
        /\ \E step \in BeforeRequest \cup {"mark"} :
              GoTo(w, step) \/ GoToWith(w, step, tradable)
    BY <1>3 DEF LoadAlert, CheckKillSwitch, LoadMappings, BeforeRequest
  <2>2. PICK step \in BeforeRequest \cup {"mark"} : Going(w, step)
    BY <2>1, GoToGoes, GoToWithGoes
  <2> QED
    BY <1>1, <1>2, <2>1, <2>2, ReadingBalances
<1>4. CASE CheckAccount(w)
  <2>1. run[w].at = "check"
    BY <1>4 DEF CheckAccount
  <2>2. PICK left, safe : run' = [run EXCEPT ![w].left = left, ![w].safe = safe]
    BY <1>4 DEF CheckAccount
  <2>3. /\ run'[w] = [run[w] EXCEPT !.left = left, !.safe = safe]
        /\ OthersStay(w)
    BY <1>0, <2>2 DEF OthersStay
  <2>4. Continues(w, "check")
    BY <1>0, <2>1, <2>3 DEF RunType, Continues
  <2> QED
    BY <1>1, <2>1, <2>4, ReadingBalances DEF AfterRequest
<1>5. CASE AllChecked(w) \/ LoadCopierMappings(w) \/ SkipAccount(w) \/ AllCopied(w)
  <2>1. /\ run[w].at \in AfterRequest \ {"enqueue"}
        /\ \/ \E step \in AfterRequest : GoTo(w, step) \/ GoToWith(w, step, tradable)
           \/ \E c : DropAccount(w, c)
    BY <1>5 DEF AllChecked, LoadCopierMappings, SkipAccount, AllCopied, AfterRequest
  <2>2. PICK step \in AfterRequest : Going(w, step)
    BY <2>1, GoToGoes, GoToWithGoes, DropAccountGoes DEF AfterRequest
  <2> QED
    BY <1>1, <1>2, <2>1, <2>2, ReadingBalances
<1> QED
  BY <1>3, <1>4, <1>5

LEMMA OrdersBalance ==
    ASSUME TypeOK, HasAlert, RInv, NEW w \in Workers, RunBalances(w),
           PersistOrder(w) \/ EnqueueOrder(w)
    PROVE  Steady(w)
<1>1. UNCHANGED <<job, created, request>> /\ run[w].at \in {"copy", "enqueue"}
  BY DEF PersistOrder, EnqueueOrder
<1>2. PICK a \in Jobs, k \in RequestNumbers : a = run[w].alert /\ k = run[w].n
  BY <1>1 DEF HasAlert, AfterRequest, RInv, RequestsOwned
<1>3. Open(w, a)
  BY <1>1, <1>2 DEF RunBalances, AfterRequest
<1>4. ASSUME NEW c \in Accounts, NEW state, SetOrder(w, c, state)
      PROVE  /\ \A b \in Jobs : b # a => order'[b] = order[b]
             /\ \A m \in RequestNumbers : m # k => order'[a][m] = order[a][m]
             /\ order'[a][k][c] = state
             /\ \A d \in Accounts : d # c => order'[a][k][d] = order[a][k][d]
  <2>1. order' = [order EXCEPT ![a][k][c] = state]
    BY <1>2, <1>4 DEF SetOrder, AlertOf
  <2> QED
    BY <2>1 DEF TypeOK
<1>5. CASE PersistOrder(w)
  <2>1. PICK c \in Accounts : SetOrder(w, c, "saved")
    BY <1>5 DEF PersistOrder, TypeOK
  <2>2. Going(w, "enqueue") /\ run[w].at = "copy"
    BY <1>5, GoToGoes DEF PersistOrder
  <2>3. \A m \in RequestNumbers, d \in Accounts : order[a][m][d] # "saved"
    BY <1>3, <2>2 DEF Open
  <2>4. Open(w, a)'
    BY <1>1, <1>2, <1>3, <1>4, <2>1, <2>2, <2>3 DEF Open, Going
  <2>5. RunBalances(w)'
    BY <1>2, <2>2, <2>4 DEF RunBalances, Going, BeforeRequest
  <2> QED
    BY <1>1, <1>2, <1>4, <2>1, <2>2, <2>5 DEF Steady, Going
<1>6. CASE EnqueueOrder(w)
  <2>1. PICK c \in Accounts : /\ Saved(w, c) /\ SetOrder(w, c, "queued")
                              /\ DropAccount(w, c)
    BY <1>6 DEF EnqueueOrder
  <2>2. Going(w, "copy") /\ run[w].at = "enqueue"
    BY <1>6, <2>1, DropAccountGoes DEF EnqueueOrder
  <2>3. order[a][k][c] = "saved"
    BY <1>2, <2>1 DEF Saved, AlertOf
  <2>4. \A m \in RequestNumbers, d \in Accounts : order'[a][m][d] # "saved"
    BY <1>2, <1>3, <1>4, <2>1, <2>3 DEF Open
  <2>5. Open(w, a)'
    BY <1>1, <1>2, <1>3, <2>2, <2>4 DEF Open, Going
  <2>6. RunBalances(w)'
    BY <1>2, <2>2, <2>5 DEF RunBalances, Going, BeforeRequest
  <2> QED
    BY <1>1, <1>2, <1>4, <2>1, <2>2, <2>6 DEF Steady, Going
<1> QED
  BY <1>5, <1>6

LEMMA CreateBalances ==
    ASSUME TypeOK, TypeOK', HasAlert, NEW w \in Workers, RunBalances(w),
           CreateTradeRequest(w)
    PROVE  Steady(w)
<1>1. run[w].at = "create" /\ UNCHANGED <<job, order>>
  BY DEF CreateTradeRequest
<1>2. PICK a \in Jobs : a = run[w].alert
  BY <1>1 DEF HasAlert
<1>3. Fresh(a)
  BY <1>1, <1>2 DEF RunBalances, BeforeRequest
<1>4. /\ created' = [created EXCEPT ![a] = 1]
      /\ \E passed \in BOOLEAN :
            /\ request' = [request EXCEPT ![a][1] = IF passed THEN "copying"
                                                    ELSE "risk_rejected"]
            /\ run' = [run EXCEPT ![w].at = IF passed THEN "check" ELSE "mark",
                                  ![w].n  = 1]
  <2>1. created[a] + 1 = 1
    BY <1>3 DEF Fresh
  <2> QED
    BY <1>2, <2>1 DEF CreateTradeRequest, AlertOf
<1>5. PICK status \in {"copying", "risk_rejected"}, step \in {"check", "mark"} :
        /\ request' = [request EXCEPT ![a][1] = status]
        /\ run' = [run EXCEPT ![w].at = step, ![w].n = 1]
        /\ step = "mark" => status = "risk_rejected"
  BY <1>4
<1>6. /\ created'[a] = 1 /\ \A b \in Jobs : b # a => created'[b] = created[b]
      /\ \A b \in Jobs : b # a => request'[b] = request[b]
      /\ 1 \in RequestNumbers => request'[a][1] = status
      /\ \A m \in RequestNumbers : m # 1 => request'[a][m] = request[a][m]
  BY <1>4, <1>5 DEF TypeOK
<1>7. /\ OthersStay(w) /\ run'[w].at = step /\ run'[w].n = 1 /\ run'[w].alert = a
  <2>1. run \in [Workers -> RunType] /\ run[w] \in RunType
    BY DEF TypeOK
  <2>2. run'[w] = [run[w] EXCEPT !.at = step, !.n = 1] /\ OthersStay(w)
    BY <1>5, <2>1 DEF OthersStay
  <2> QED
    BY <1>2, <2>1, <2>2 DEF RunType
<1>8. Open(w, a)'
  BY <1>1, <1>3, <1>6, <1>7 DEF Open, Fresh
<1>9. step = "mark" => Balanced(a)'
  BY <1>1, <1>3, <1>5, <1>6 DEF Balanced, Fresh
<1>10. RunBalances(w)'
  BY <1>7, <1>8, <1>9 DEF RunBalances, BeforeRequest
<1> QED
  BY <1>1, <1>2, <1>6, <1>7, <1>10 DEF Steady

LEMMA StatusBalances ==
    ASSUME TypeOK, HasAlert, RInv, NEW w \in Workers, RunBalances(w),
           UpdateTradeRequestStatus(w)
    PROVE  Steady(w)
<1>1. UNCHANGED <<job, created, order>> /\ run[w].at = "status"
  BY DEF UpdateTradeRequestStatus
<1>2. PICK a \in Jobs, k \in RequestNumbers : a = run[w].alert /\ k = run[w].n
  BY <1>1 DEF HasAlert, AfterRequest, RInv, RequestsOwned
<1>3. Open(w, a)
  BY <1>1, <1>2 DEF RunBalances, AfterRequest
<1>4. PICK status \in {"completed", "failed"} :
        request' = [request EXCEPT ![a][k] = status]
  BY <1>2 DEF UpdateTradeRequestStatus, AlertOf
<1>5. /\ \A b \in Jobs : b # a => request'[b] = request[b]
      /\ request'[a][k] = status
      /\ \A m \in RequestNumbers : m # k => request'[a][m] = request[a][m]
  BY <1>4 DEF TypeOK
<1>6. Going(w, "mark")
  BY GoToGoes DEF UpdateTradeRequestStatus
<1>7. Balanced(a)'
  BY <1>1, <1>2, <1>3, <1>5 DEF Balanced, Open
<1>8. RunBalances(w)'
  BY <1>2, <1>6, <1>7 DEF RunBalances, Going, BeforeRequest, AfterRequest
<1> QED
  BY <1>1, <1>2, <1>5, <1>6, <1>8 DEF Steady, Going

LEMMA MarkBalances ==
    ASSUME TypeOK, NEW w \in Workers, RunBalances(w), MarkAlertProcessed(w)
    PROVE  Steady(w)
<1>1. run[w].at = "mark" /\ UNCHANGED <<job, created, request, order>>
  BY DEF MarkAlertProcessed
<1>2. Steers(w, "ack") /\ run'[w].ok
  BY FinishSteers DEF MarkAlertProcessed
<1>3. RunBalances(w)'
  BY <1>1, <1>2 DEF RunBalances, Balanced, Steers, BeforeRequest, AfterRequest
<1> QED
  BY <1>1, <1>2, <1>3 DEF Steady, Steers

LEMMA NextBalances ==
    ASSUME IInv, IInv', RInv, BInv, [Next]_vars
    PROVE  BInv'
<1>1. TypeOK /\ TypeOK' /\ JobTypeOK /\ JobInv /\ HasAlert /\ BudgetsShrink
  BY DEF IInv, TypeOK, BInv
<1>2. BudgetsShrink' /\ (Undisturbed' => Undisturbed)
  BY <1>1, BudgetDrops
<1> SUFFICES ASSUME Undisturbed'
             PROVE  RunsOwn' /\ (\A w \in Workers : RunBalances(w)')
                             /\ (\A a \in Jobs : JobBalances(a)')
  BY <1>2 DEF BInv
<1>3. /\ RunsOwn /\ \A w \in Workers : RunBalances(w)
      /\ \A a \in Jobs : JobBalances(a)
  BY <1>2 DEF BInv
<1> DEFINE Books == RunsOwn' /\ (\A w \in Workers : RunBalances(w)')
                             /\ (\A a \in Jobs : JobBalances(a)')
<1>4. ASSUME NEW w \in Workers,
             \/ LoadAlert(w) \/ CheckKillSwitch(w) \/ LoadMappings(w)
             \/ CreateTradeRequest(w) \/ CheckAccount(w) \/ AllChecked(w)
             \/ LoadCopierMappings(w) \/ PersistOrder(w) \/ SkipAccount(w)
             \/ EnqueueOrder(w) \/ AllCopied(w) \/ UpdateTradeRequestStatus(w)
             \/ MarkAlertProcessed(w)
      PROVE  Books
  <2>1. RunBalances(w)
    BY <1>3
  <2>2. Steady(w)
    BY <1>1, <1>4, <2>1, ReadersBalance, OrdersBalance, CreateBalances,
       StatusBalances, MarkBalances
  <2> QED
    BY <1>1, <1>3, <2>2, SteadyBalances
<1>5. ASSUME NEW w \in Workers, NEW j \in Jobs, Take(w, j)
      PROVE  Books
  <2>1. /\ run[w].at = "idle" /\ StartJob(w, j) /\ job[j].state = "waiting"
        /\ UNCHANGED <<created, request, order>>
    BY <1>5 DEF Take, StartJob
  <2>2. Becomes(j, "active", job[j].made, job[j].stalls, w)
    BY <1>1, <2>1, StartsJob
  <2>3. /\ run'[w].at = "load" /\ run'[w].alert = j
        /\ \A v \in Workers : v # w => run'[v] = run[v]
    BY <1>1, <1>5 DEF Take, Idle, TypeOK
  <2>4. Fresh(j) /\ job[j].owner \notin Workers
    BY <1>1, <1>3, <2>1 DEF JobBalances, JobInv
  <2>5. RunsOwn'
    <3>1. ASSUME NEW v \in Workers, v # w, run[v].at # "idle"
          PROVE  job'[run[v].alert].owner = v
      BY <1>1, <1>3, <2>2, <2>4, <3>1 DEF RunsOwn, HasAlert, Becomes
    <3> QED
      BY <2>2, <2>3, <3>1 DEF RunsOwn, Becomes
  <2>6. ASSUME NEW v \in Workers PROVE RunBalances(v)'
    <3>1. CASE v = w
      BY <2>1, <2>3, <2>4, <3>1 DEF RunBalances, Fresh, BeforeRequest, AfterRequest
    <3>2. CASE v # w
      BY <1>3, <2>1, <2>3, <3>2 DEF RunBalances, Fresh, Open, Balanced
    <3> QED
      BY <3>1, <3>2
  <2>7. ASSUME NEW a \in Jobs PROVE JobBalances(a)'
    <3>1. CASE a = j
      BY <2>2, <2>3, <3>1 DEF JobBalances, Becomes
    <3>2. CASE a # j
      <4>1. job'[a] = job[a] /\ JobBalances(a)
        BY <1>3, <2>2, <3>2 DEF Becomes
      <4>2. \A u \in Workers : run[u].at # "idle" => run'[u] = run[u]
        BY <2>1, <2>3
      <4> QED
        BY <2>1, <4>1, <4>2 DEF JobBalances, Fresh, Balanced
    <3> QED
      BY <3>1, <3>2
  <2> QED
    BY <2>5, <2>6, <2>7
<1>6. ASSUME NEW w \in Workers, Acknowledge(w)
      PROVE  Books
  <2>1. PICK j \in Jobs : j = run[w].alert
    BY <1>1, <1>6 DEF HasAlert, Acknowledge
  <2>2. /\ run[w].at = "ack" /\ UNCHANGED <<created, request, order>>
        /\ run[w].ok /\ job[j].owner = w /\ Balanced(j)
    BY <1>3, <1>6, <2>1 DEF Acknowledge, RunBalances, RunsOwn
  <2>3. Becomes(j, "completed", job[j].made, job[j].stalls, None)
    BY <1>1, <1>6, <2>1, <2>2 DEF Acknowledge, AlertOf, SettleJob, JobTypeOK, Becomes
  <2>4. OthersStay(w) /\ run'[w].at = "idle"
    <3>1. run' = [run EXCEPT ![w] = Idle]
      BY <1>6, <2>1, <2>2 DEF Acknowledge
    <3> QED
      BY <1>1, <3>1, GoesIdle
  <2>5. \A v \in Workers : v # w /\ run[v].at # "idle" => run[v].alert # j
    BY <1>3, <2>2 DEF RunsOwn
  <2>6. RunsOwn'
    BY <1>1, <1>3, <2>3, <2>4, <2>5 DEF RunsOwn, OthersStay, HasAlert, Becomes
  <2>7. ASSUME NEW v \in Workers PROVE RunBalances(v)'
    <3>1. CASE v = w
      BY <2>4, <3>1 DEF RunBalances, BeforeRequest, AfterRequest
    <3>2. CASE v # w
      BY <1>3, <2>2, <2>4, <3>2 DEF OthersStay, RunBalances, Fresh, Open, Balanced
    <3> QED
      BY <3>1, <3>2
  <2>8. ASSUME NEW a \in Jobs PROVE JobBalances(a)'
    <3>1. CASE a = j
      BY <2>2, <2>3, <3>1 DEF JobBalances, Becomes, Balanced
    <3>2. CASE a # j
      <4>1. job'[a] = job[a] /\ JobBalances(a)
        BY <1>3, <2>3, <3>2 DEF Becomes
      <4>2. \A u \in Workers : run[u].alert = a => run'[u] = run[u]
        BY <2>1, <2>4, <3>2 DEF OthersStay
      <4> QED
        BY <2>2, <4>1, <4>2 DEF JobBalances, Fresh, Balanced
    <3> QED
      BY <3>1, <3>2
  <2> QED
    BY <2>6, <2>7, <2>8
<1>7. ASSUME UNCHANGED <<job, run, created, request, order>>
      PROVE  Books
  BY <1>3, <1>7 DEF RunsOwn, RunBalances, JobBalances, Fresh, Open, Balanced
<1>8. CASE UNCHANGED vars \/ FlipKillSwitch \/ \E c \in Accounts : FlipAccount(c)
  BY <1>7, <1>8 DEF vars, FlipKillSwitch, FlipAccount
<1>9. ~ \E w \in Workers : Fault(w) \/ CopierFault(w) \/ DeadLetterFault(w)
                             \/ Crash(w) \/ CatchError(w) \/ OnFailed(w)
  <2>1. ~Spend("faults") /\ ~Spend("crashes")
    BY <1>1, FailuresShow
  <2> QED
    BY <1>3, <2>1 DEF Fault, CopierFault, DeadLetterFault, Crash, CatchError,
                      OnFailed, RunBalances
<1>10. ~ \E a \in Jobs : StallDead(a) \/ StallSlow(a)
  <2>1. ~Spend("slow")
    BY <1>1, FailuresShow
  <2>2. ASSUME NEW a \in Jobs, job[a].state = "active"
        PROVE  Working(job[a].owner, a)
    BY <1>3, <2>2 DEF JobBalances, RunBalances, Working
  <2> QED
    BY <2>1, <2>2 DEF StallDead, StallSlow, StallJob
<1> QED
  BY <1>4, <1>5, <1>6, <1>8, <1>9, <1>10 DEF Next, WorkerStep

LEMMA InitBalances == Init => BInv
<1> SUFFICES ASSUME Init PROVE BInv
  OBVIOUS
<1>1. /\ \A w \in Workers : run[w].at = "idle"
      /\ \A a \in Jobs : job[a].state = "waiting" /\ Fresh(a)
  BY DEF Init, JobInit, Idle, Fresh
<1>2. BudgetsShrink
  BY DEF Init, BudgetsShrink
<1> QED
  BY <1>1, <1>2 DEF BInv, RunsOwn, RunBalances, JobBalances, BeforeRequest, AfterRequest

(* As long as nothing has failed, died or been handed out twice, a          *)
(* completed alert has at most one trade request, which has left 'copying', *)
(* and every order saved for it has its job (BooksBalance).                 *)
THEOREM BooksBalanceHolds == Spec => []BooksBalance
<1>1. IInv /\ RInv /\ BInv /\ [Next]_vars => (IInv /\ RInv /\ BInv)'
  BY NextInv, NextRefused, NextBalances
<1>2. Init => IInv /\ RInv /\ BInv
  BY InitInv, InitRefused, InitBalances
<1>3. BInv => BooksBalance
  BY DEF BInv, BooksBalance, JobBalances, Balanced
<1> QED
  BY <1>1, <1>2, <1>3, PTL DEF Spec
=============================================================================
