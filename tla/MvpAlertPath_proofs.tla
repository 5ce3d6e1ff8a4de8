------------------------- MODULE MvpAlertPath_proofs -------------------------
(***************************************************************************)
(* For any number of deliveries, accounts, workers, failures, crashes and   *)
(* stalls: the state is well typed, the rows of an alert have no more trade *)
(* requests than one job was handed out, the webhook and the processor      *)
(* together implement AlertLedger, and the books of a completed job agree   *)
(* as long as nothing has failed.  The last sections are about the other    *)
(* half of the path, the order processor (MvpOrderExecution).               *)
(*                                                                         *)
(* One row of an alert at most is stored (StoredOnce), its delivery has not *)
(* queued it as long as it is about to (EnqueueIsStored), and only queued   *)
(* rows get runs and requests: so that what is true of one row's requests,  *)
(* by the count of AlertProcessing_proofs, is true of the alert's.          *)
(***************************************************************************)
EXTENDS MvpAlertPath, MvpOrderExecution, FiniteSetTheorems, SequenceTheorems, TLAPS

USE JobQueueAssumption, MvpAlertPathAssumption DEF Deliveries

(* The queue is that of AlertProcessing_proofs, and so are the lemmas on it.*)
JobInv ==
    \A a \in Jobs :
        /\ job[a].state # "failed" => job[a].made < Attempts
                                      /\ job[a].stalls <= MaxStalled
        /\ job[a].made + job[a].stalls <= Attempts + MaxStalled
        /\ job[a].owner \in Workers => job[a].state = "active"

-----------------------------------------------------------------------------
(* The queue. *)

LEMMA JobRecord ==
    ASSUME JobTypeOK, NEW a \in Jobs
    PROVE  /\ job[a].state \in JobStates /\ job[a].owner \in Workers \cup {None}
           /\ job[a].made \in 0..Attempts
           /\ job[a].stalls \in 0..(MaxStalled + 1)
BY DEF JobTypeOK

LEMMA HandedOutBounded ==
    ASSUME JobTypeOK, JobInv, NEW a \in Jobs
    PROVE  HandedOut(a) \in 0..(Attempts + MaxStalled)
<1>1. /\ job[a].state \in JobStates
      /\ job[a].made \in Nat /\ job[a].stalls \in Nat
  BY JobRecord
<1>2. CASE job[a].state = "failed"
  BY <1>1, <1>2 DEF JobInv, HandedOut
<1>3. CASE job[a].state # "failed"
  BY <1>1, <1>3 DEF JobInv, HandedOut
<1> QED
  BY <1>2, <1>3

(* Only job j changes, in these fields. *)
Becomes(j, state, made, stalls, owner) ==
    /\ job'[j].state = state /\ job'[j].owner = owner
    /\ job'[j].made = made /\ job'[j].stalls = stalls
    /\ \A a \in Jobs : a # j => job'[a] = job[a]

LEMMA StartsJob ==
    ASSUME JobTypeOK, NEW w \in Workers, NEW j \in Jobs, StartJob(w, j)
    PROVE  /\ JobTypeOK'
           /\ Becomes(j, "active", job[j].made, job[j].stalls, w)
<1>1. "active" \in JobStates
  BY DEF JobStates
<1> QED
  BY <1>1 DEF JobTypeOK, StartJob, Becomes

LEMMA StallsJob ==
    ASSUME JobTypeOK, JobInv, NEW j \in Jobs, StallJob(j)
    PROVE  /\ JobTypeOK'
           /\ Becomes(j, IF job[j].stalls >= MaxStalled THEN "failed" ELSE "waiting",
                      job[j].made, job[j].stalls + 1, None)
<1>1. {"failed", "waiting"} \subseteq JobStates
  BY DEF JobStates
<1>2. job[j].stalls + 1 \in 0..(MaxStalled + 1)
  BY JobRecord DEF JobInv, StallJob
<1> QED
  BY <1>1, <1>2 DEF JobTypeOK, StallJob, Becomes

LEMMA SettlesJob ==
    ASSUME JobTypeOK, JobInv, NEW w \in Workers, NEW j \in Jobs,
           NEW ok \in BOOLEAN, SettleJob(w, j, ok)
    PROVE  /\ JobTypeOK'
           /\ \/ job' = job
              \/ /\ job[j].state = "active" /\ ok
                 /\ Becomes(j, "completed", job[j].made, job[j].stalls, None)
              \/ /\ job[j].state = "active" /\ ~ok
                 /\ Becomes(j, IF LastAttempt(j) THEN "failed" ELSE "waiting",
                            job[j].made + 1, job[j].stalls, None)
<1>1. {"completed", "failed", "waiting"} \subseteq JobStates
  BY DEF JobStates
<1>2. CASE job[j].owner # w
  <2>1. job' = job
    BY <1>2 DEF SettleJob
  <2> QED
    BY <2>1 DEF JobTypeOK
<1>3. CASE job[j].owner = w /\ ok
  <2>1. job[j].state = "active"
    BY <1>3 DEF JobInv
  <2>2. job' = [job EXCEPT ![j].state = "completed", ![j].owner = None]
    BY <1>3 DEF SettleJob
  <2>3. JobTypeOK' /\ Becomes(j, "completed", job[j].made, job[j].stalls, None)
    BY <1>1, <2>2 DEF JobTypeOK, Becomes
  <2> QED
    BY <1>3, <2>1, <2>3
<1>4. CASE job[j].owner = w /\ ~ok
  <2>1. job[j].state = "active"
    BY <1>4 DEF JobInv
  <2>2. job' = [job EXCEPT
                  ![j].state = IF LastAttempt(j) THEN "failed" ELSE "waiting",
                  ![j].made  = job[j].made + 1,
                  ![j].owner = None]
    BY <1>4 DEF SettleJob
  <2>3. job[j].made + 1 \in 0..Attempts
    BY <2>1, JobRecord DEF JobInv
  <2>4. (IF LastAttempt(j) THEN "failed" ELSE "waiting") \in JobStates
    BY <1>1
  <2>5. JobTypeOK' /\ Becomes(j, IF LastAttempt(j) THEN "failed" ELSE "waiting",
                              job[j].made + 1, job[j].stalls, None)
    BY <2>2, <2>3, <2>4 DEF JobTypeOK, Becomes
  <2> QED
    BY <1>4, <2>1, <2>5
<1> QED
  BY <1>2, <1>3, <1>4

(* A job that is taken is handed out once more; a job that is settled or    *)
(* stalls is not.                                                           *)
LEMMA TakenOnceMore ==
    ASSUME JobTypeOK, JobInv, NEW w \in Workers, NEW j \in Jobs, StartJob(w, j)
    PROVE  /\ JobTypeOK' /\ JobInv'
           /\ HandedOut(j)' = HandedOut(j) + 1
           /\ \A a \in Jobs : a # j => HandedOut(a)' = HandedOut(a)
<1>1. /\ JobTypeOK'
      /\ Becomes(j, "active", job[j].made, job[j].stalls, w)
  BY StartsJob
<1>2. job[j].state = "waiting" /\ job[j].made \in Nat /\ job[j].stalls \in Nat
  BY JobRecord DEF StartJob
<1>3. JobInv'
  BY <1>1, <1>2 DEF JobInv, Becomes
<1>4. HandedOut(j)' = HandedOut(j) + 1
  BY <1>1, <1>2 DEF Becomes, HandedOut
<1>5. \A a \in Jobs : a # j => HandedOut(a)' = HandedOut(a)
  BY <1>1 DEF Becomes, HandedOut
<1> QED
  BY <1>1, <1>3, <1>4, <1>5

(* What BullMQ may do to the jobs at the end of a run, or beside it. *)
JobsStay ==
    /\ JobTypeOK' /\ JobInv'
    /\ \A a \in Jobs : HandedOut(a)' = HandedOut(a)

LEMMA StalledNoMore ==
    ASSUME JobTypeOK, JobInv, NEW j \in Jobs, StallJob(j)
    PROVE  JobsStay
<1> DEFINE next == IF job[j].stalls >= MaxStalled THEN "failed" ELSE "waiting"
<1>1. JobTypeOK' /\ Becomes(j, next, job[j].made, job[j].stalls + 1, None)
  BY StallsJob
<1>2. /\ job[j].state = "active" /\ job[j].made \in Nat /\ job[j].stalls \in Nat
      /\ job[j].made < Attempts /\ job[j].stalls <= MaxStalled
  BY JobRecord DEF StallJob, JobInv
<1>3. JobInv'
  BY <1>1, <1>2 DEF JobInv, Becomes
<1>4. HandedOut(j)' = HandedOut(j)
  BY <1>1, <1>2 DEF Becomes, HandedOut
<1>5. \A a \in Jobs : a # j => HandedOut(a)' = HandedOut(a)
  BY <1>1 DEF Becomes, HandedOut
<1> QED
  BY <1>1, <1>3, <1>4, <1>5 DEF JobsStay

LEMMA SettledNoMore ==
    ASSUME JobTypeOK, JobInv, NEW w \in Workers, NEW j \in Jobs,
           NEW ok \in BOOLEAN, SettleJob(w, j, ok)
    PROVE  JobsStay
<1>1. /\ JobTypeOK'
      /\ \/ job' = job
         \/ /\ job[j].state = "active" /\ ok
            /\ Becomes(j, "completed", job[j].made, job[j].stalls, None)
         \/ /\ job[j].state = "active" /\ ~ok
            /\ Becomes(j, IF LastAttempt(j) THEN "failed" ELSE "waiting",
                       job[j].made + 1, job[j].stalls, None)
  BY SettlesJob
<1>2. job[j].made \in Nat /\ job[j].stalls \in Nat
  BY JobRecord
<1>3. CASE job' = job
  BY <1>1, <1>3 DEF JobsStay, JobInv, HandedOut
<1>4. CASE /\ job[j].state = "active" /\ ok
           /\ Becomes(j, "completed", job[j].made, job[j].stalls, None)
  <2>1. JobInv'
    BY <1>2, <1>4 DEF JobInv, Becomes
  <2>2. \A a \in Jobs : HandedOut(a)' = HandedOut(a)
    BY <1>2, <1>4 DEF Becomes, HandedOut
  <2> QED
    BY <1>1, <1>4, <2>1, <2>2 DEF JobsStay, Becomes
<1>5. CASE /\ job[j].state = "active" /\ ~ok
           /\ Becomes(j, IF LastAttempt(j) THEN "failed" ELSE "waiting",
                      job[j].made + 1, job[j].stalls, None)
  <2>1. JobInv'
    BY <1>2, <1>5 DEF JobInv, Becomes, LastAttempt
  <2>2. \A a \in Jobs : HandedOut(a)' = HandedOut(a)
    BY <1>2, <1>5 DEF Becomes, HandedOut
  <2> QED
    BY <1>1, <1>5, <2>1, <2>2 DEF JobsStay, Becomes
<1> QED
  BY <1>1, <1>3, <1>4, <1>5

-----------------------------------------------------------------------------
(* The invariant. *)

DeliveryType == [at: WebhookSteps, duplicate: BOOLEAN, answer: Answers]
BudgetType == [faults: Nat, crashes: Nat, slow: Nat]

StoredOnce == \A d, e \in stored : AlertOf[d] = AlertOf[e] => d = e

EnqueueIsStored ==
    \A d \in Deliveries : delivery[d].at = "enqueue" => d \in stored \ added

DuplicateIsStored ==
    \A d \in Deliveries : delivery[d].at = "persist" /\ delivery[d].duplicate
                              => SameAlert(d) \cap stored # {}

WebhookInv == StoredOnce /\ EnqueueIsStored /\ DuplicateIsStored

HasJob == \A w \in Workers : run[w].at # "idle" => run[w].job \in added

RequestedIsAdded == \A d \in Deliveries : Len(requests[d]) > 0 => d \in added

(* Runs that have still to make their request. *)
Pending(d) == {w \in Workers : run[w].job = d /\ run[w].at = "create"}

RequestsCounted ==
    \A d \in Deliveries :
        Len(requests[d]) + Cardinality(Pending(d)) <= HandedOut(d)

IInv == /\ TypeOK /\ JobInv /\ WebhookInv
        /\ HasJob /\ RequestedIsAdded /\ RequestsCounted

LEMMA TypeParts ==
    ASSUME TypeOK
    PROVE  /\ JobTypeOK /\ delivery \in [Deliveries -> DeliveryType]
           /\ added \subseteq stored /\ stored \subseteq Deliveries
           /\ run \in [Workers -> RunType] /\ processed \subseteq stored
           /\ requests \in [Deliveries -> Seq(RequestType)]
           /\ budget \in BudgetType
BY DEF TypeOK, DeliveryType, BudgetType

LEMMA Spends ==
    ASSUME TypeOK, NEW what \in {"faults", "crashes", "slow"}, Spend(what)
    PROVE  budget' \in BudgetType
BY DEF TypeOK, Spend, BudgetType

LEMMA PendingFinite ==
    ASSUME NEW d \in Deliveries
    PROVE  IsFiniteSet(Pending(d)) /\ Cardinality(Pending(d)) \in Nat
<1>1. Pending(d) \subseteq Workers
  BY DEF Pending
<1>2. IsFiniteSet(Pending(d))
  BY <1>1, FS_Subset
<1> QED
  BY <1>2, FS_CardinalityType

LEMMA LengthType ==
    ASSUME TypeOK, NEW d \in Deliveries
    PROVE  Len(requests[d]) \in Nat
BY LenProperties DEF TypeOK

-----------------------------------------------------------------------------
(* The webhook. *)

(* Only delivery d changed, and it is now at step. *)
Moved(d, step) ==
    /\ delivery' \in [Deliveries -> DeliveryType]
    /\ delivery'[d].at = step
    /\ \A e \in Deliveries : e # d => delivery'[e] = delivery[e]

LEMMA DeliveryChanges ==
    ASSUME TypeOK, NEW d \in Deliveries, NEW r \in DeliveryType,
           delivery' = [delivery EXCEPT ![d] = r]
    PROVE  Moved(d, r.at) /\ delivery'[d] = r
<1>1. delivery \in [Deliveries -> DeliveryType]
  BY TypeParts
<1> QED
  BY <1>1 DEF Moved

LEMMA GoToStepMoves ==
    ASSUME TypeOK, NEW d \in Deliveries, NEW step \in WebhookSteps, GoToStep(d, step)
    PROVE  Moved(d, step)
<1>1. PICK r : r = [delivery[d] EXCEPT !.at = step]
  OBVIOUS
<1>2. delivery' = [delivery EXCEPT ![d] = r]
  BY <1>1 DEF GoToStep
<1>3. delivery[d] \in DeliveryType
  BY TypeParts
<1>4. r \in DeliveryType /\ r.at = step
  BY <1>1, <1>3 DEF DeliveryType
<1> QED
  BY <1>2, <1>4, DeliveryChanges

LEMMA AnswerMoves ==
    ASSUME TypeOK, NEW d \in Deliveries, NEW answer \in Answers, Answer(d, answer)
    PROVE  Moved(d, "answered")
<1>1. PICK r : r = [delivery[d] EXCEPT !.at = "answered", !.answer = answer]
  OBVIOUS
<1>2. delivery' = [delivery EXCEPT ![d] = r]
  BY <1>1 DEF Answer
<1>3. delivery[d] \in DeliveryType /\ "answered" \in WebhookSteps
  BY TypeParts DEF WebhookSteps
<1>4. r \in DeliveryType /\ r.at = "answered"
  BY <1>1, <1>3 DEF DeliveryType
<1> QED
  BY <1>2, <1>4, DeliveryChanges

(* The processor does not see what a delivery does, but for the jobs added. *)
LEMMA WebhookStep ==
    ASSUME IInv, UNCHANGED ProcessorVars, WebhookInv',
           delivery' \in [Deliveries -> DeliveryType],
           added \subseteq added', added' \subseteq stored',
           stored \subseteq stored', stored' \subseteq Deliveries,
           budget' \in BudgetType
    PROVE  IInv'
<1>1. /\ job' = job /\ run' = run /\ processed' = processed
      /\ requests' = requests
  BY DEF ProcessorVars
<1>2. TypeOK'
  BY <1>1 DEF IInv, TypeOK, JobTypeOK, DeliveryType, BudgetType
<1>3. JobInv'
  BY <1>1 DEF IInv, JobInv
<1>4. HasJob' /\ RequestedIsAdded'
  BY <1>1 DEF IInv, HasJob, RequestedIsAdded
<1>5. RequestsCounted'
  <2>1. \A d \in Deliveries : Pending(d)' = Pending(d) /\ HandedOut(d)' = HandedOut(d)
    BY <1>1 DEF Pending, HandedOut
  <2> QED
    BY <1>1, <2>1 DEF IInv, RequestsCounted
<1> QED
  BY <1>2, <1>3, <1>4, <1>5 DEF IInv

LEMMA WebhookInvKept ==
    ASSUME IInv, NEW d \in Deliveries, NEW step, Moved(d, step),
           step # "enqueue",
           step = "persist" /\ delivery'[d].duplicate
             => SameAlert(d) \cap stored # {},
           stored' = stored, added' \subseteq added \cup {d}
    PROVE  WebhookInv'
<1>1. StoredOnce'
  BY DEF IInv, WebhookInv, StoredOnce
<1>2. EnqueueIsStored'
  BY DEF IInv, WebhookInv, EnqueueIsStored, Moved
<1>3. DuplicateIsStored'
  BY DEF IInv, WebhookInv, DuplicateIsStored, Moved, SameAlert
<1> QED
  BY <1>1, <1>2, <1>3 DEF WebhookInv

LEMMA PersistKeeps ==
    ASSUME IInv, NEW d \in Deliveries, NEW step \in {"enqueue", "answered"},
           Moved(d, step), SameAlert(d) \cap stored = {},
           stored' = stored \cup {d}, added' = added
    PROVE  WebhookInv'
<1>1. added \subseteq stored /\ d \notin stored /\ stored \subseteq Deliveries
  BY TypeParts DEF IInv, SameAlert
<1>2. StoredOnce'
  <2> SUFFICES ASSUME NEW e \in stored', NEW f \in stored', AlertOf[e] = AlertOf[f]
               PROVE  e = f
    BY DEF StoredOnce
  <2> QED
    BY <1>1 DEF IInv, WebhookInv, StoredOnce, SameAlert
<1>3. EnqueueIsStored'
  BY <1>1 DEF IInv, WebhookInv, EnqueueIsStored, Moved
<1>4. DuplicateIsStored'
  BY DEF IInv, WebhookInv, DuplicateIsStored, Moved, SameAlert
<1> QED
  BY <1>2, <1>3, <1>4 DEF WebhookInv

LEMMA HandleKeeps ==
    ASSUME IInv, NEW d \in Deliveries,
           Receive(d) \/ Refuse(d) \/ Handle(d) \/ WebhookFault(d)
    PROVE  IInv'
<1>0. TypeOK
  BY DEF IInv
<1>1. /\ added \subseteq stored /\ stored \subseteq Deliveries
      /\ budget \in BudgetType
  BY <1>0, TypeParts
<1>2. /\ {"lookup", "persist", "enqueue", "answered"} \subseteq WebhookSteps
      /\ {"accepted", "duplicate", "refused", "error"} \subseteq Answers
  BY DEF WebhookSteps, Answers
<1>3. CASE Receive(d)
  <2>1. /\ GoToStep(d, "lookup")
        /\ UNCHANGED <<stored, added, budget, ProcessorVars>>
    BY <1>3 DEF Receive
  <2>2. Moved(d, "lookup")
    BY <1>0, <1>2, <2>1, GoToStepMoves
  <2>3. WebhookInv'
    BY <2>1, <2>2, WebhookInvKept
  <2> QED
    BY <1>1, <2>1, <2>2, <2>3, WebhookStep DEF Moved
<1>4. CASE Refuse(d)
  <2>1. PICK answer \in {"refused", "error"} : Answer(d, answer)
    BY <1>4 DEF Refuse
  <2>2. Moved(d, "answered")
    BY <1>0, <1>2, <2>1, AnswerMoves
  <2>3. UNCHANGED <<stored, added, budget, ProcessorVars>>
    BY <1>4 DEF Refuse
  <2>4. WebhookInv'
    BY <2>2, <2>3, WebhookInvKept
  <2> QED
    BY <1>1, <2>2, <2>3, <2>4, WebhookStep DEF Moved
<1>5. CASE LookUp(d)
  <2>1. /\ UNCHANGED <<stored, added, budget, ProcessorVars>>
        /\ delivery' = [delivery EXCEPT
                          ![d].at = "persist",
                          ![d].duplicate = SameAlert(d) \cap stored # {}]
    BY <1>5 DEF LookUp
  <2>2. PICK found \in BOOLEAN : found = (SameAlert(d) \cap stored # {})
    OBVIOUS
  <2>3. PICK r : r = [delivery[d] EXCEPT !.at = "persist", !.duplicate = found]
    OBVIOUS
  <2>4. delivery' = [delivery EXCEPT ![d] = r]
    BY <2>1, <2>2, <2>3
  <2>5. delivery[d] \in DeliveryType
    BY <1>0, TypeParts
  <2>6. r \in DeliveryType /\ r.at = "persist"
    BY <1>2, <2>3, <2>5 DEF DeliveryType
  <2>7. Moved(d, "persist") /\ (delivery'[d].duplicate => found)
    <3>1. r.duplicate => found
      BY <2>3, <2>5, Zenon DEF DeliveryType
    <3> QED
      BY <1>0, <2>4, <2>6, <3>1, DeliveryChanges
  <2>8. WebhookInv'
    BY <2>1, <2>2, <2>7, WebhookInvKept
  <2> QED
    BY <1>1, <2>1, <2>7, <2>8, WebhookStep DEF Moved
<1>6. CASE PersistAlert(d)
  <2>1. UNCHANGED <<added, budget, ProcessorVars>>
    BY <1>6 DEF PersistAlert
  <2>2. CASE SameAlert(d) \cap stored # {}
    <3>1. Answer(d, "error") /\ stored' = stored
      BY <1>6, <2>2 DEF PersistAlert
    <3>2. Moved(d, "answered")
      BY <1>0, <1>2, <3>1, AnswerMoves
    <3>3. WebhookInv'
      BY <2>1, <3>1, <3>2, WebhookInvKept
    <3> QED
      BY <1>1, <2>1, <3>1, <3>2, <3>3, WebhookStep DEF Moved
  <2>3. CASE SameAlert(d) \cap stored = {}
    <3>1. /\ stored' = stored \cup {d}
          /\ Answer(d, "duplicate") \/ GoToStep(d, "enqueue")
      BY <1>6, <2>3 DEF PersistAlert
    <3>2. PICK step \in {"enqueue", "answered"} : Moved(d, step)
      BY <1>0, <1>2, <3>1, AnswerMoves, GoToStepMoves
    <3>3. WebhookInv'
      BY <2>1, <2>3, <3>1, <3>2, PersistKeeps
    <3> QED
      BY <1>1, <2>1, <3>1, <3>2, <3>3, WebhookStep DEF Moved
  <2> QED
    BY <2>2, <2>3
<1>7. CASE Enqueue(d) \/ WebhookFault(d)
  <2>1. /\ \E answer \in {"accepted", "error"} : Answer(d, answer)
        /\ added' \in {added, added \cup {d}} /\ stored' = stored
        /\ UNCHANGED ProcessorVars
        /\ UNCHANGED budget \/ Spend("faults")
        /\ added' # added => delivery[d].at = "enqueue"
    BY <1>7 DEF Enqueue, WebhookFault
  <2>2. Moved(d, "answered")
    BY <1>0, <1>2, <2>1, AnswerMoves
  <2>3. added' \subseteq stored
    BY <1>1, <2>1 DEF IInv, WebhookInv, EnqueueIsStored
  <2>4. budget' \in BudgetType
    BY <1>0, <1>1, <2>1, Spends
  <2>5. WebhookInv'
    BY <2>1, <2>2, WebhookInvKept
  <2> QED
    BY <1>1, <2>1, <2>2, <2>3, <2>4, <2>5, WebhookStep DEF Moved
<1> QED
  BY <1>3, <1>4, <1>5, <1>6, <1>7 DEF Handle

-----------------------------------------------------------------------------
(* The processor. *)

(* Run w goes on with its job, past the request if it was past it, or ends. *)
RunMoves(w) ==
    /\ run' \in [Workers -> RunType]
    /\ \A v \in Workers : v # w => run'[v] = run[v]
    /\ run[w].at # "idle"
    /\ \/ run'[w].at = "idle"
       \/ run'[w].job = run[w].job /\ run'[w].at # "create"

SameLengths ==
    /\ requests' \in [Deliveries -> Seq(RequestType)]
    /\ \A d \in Deliveries : Len(requests'[d]) = Len(requests[d])

LEMMA MovesKeep ==
    ASSUME IInv, NEW w \in Workers, RunMoves(w), SameLengths, JobsStay,
           UNCHANGED WebhookVars, processed' \subseteq stored,
           budget' \in BudgetType
    PROVE  IInv'
<1>0. delivery' = delivery /\ stored' = stored /\ added' = added
  BY DEF WebhookVars
<1>1. TypeOK'
  BY <1>0 DEF IInv, TypeOK, RunMoves, SameLengths, JobsStay, BudgetType
<1>2. WebhookInv'
  BY <1>0 DEF IInv, WebhookInv, StoredOnce, EnqueueIsStored, DuplicateIsStored,
              SameAlert
<1>3. HasJob' /\ RequestedIsAdded'
  BY <1>0 DEF IInv, HasJob, RequestedIsAdded, RunMoves, SameLengths
<1>4. ASSUME NEW d \in Deliveries
      PROVE  Len(requests'[d]) + Cardinality(Pending(d)') <= HandedOut(d)'
  <2>1. Pending(d)' \subseteq Pending(d)
    BY DEF Pending, RunMoves
  <2>2. Cardinality(Pending(d)') <= Cardinality(Pending(d))
    BY <2>1, PendingFinite, FS_Subset
  <2>3. Cardinality(Pending(d)) \in Nat /\ Cardinality(Pending(d)') \in Nat
    BY <2>1, PendingFinite, FS_Subset, FS_CardinalityType
  <2>4. Len(requests[d]) \in Nat /\ HandedOut(d) \in Nat
    BY HandedOutBounded, LengthType DEF IInv, TypeOK
  <2>5. Len(requests[d]) + Cardinality(Pending(d)) <= HandedOut(d)
    BY DEF IInv, RequestsCounted
  <2>6. HandedOut(d)' = HandedOut(d) /\ Len(requests'[d]) = Len(requests[d])
    BY DEF JobsStay, SameLengths
  <2> QED
    BY <2>2, <2>3, <2>4, <2>5, <2>6
<1> QED
  BY <1>1, <1>2, <1>3, <1>4 DEF IInv, RequestsCounted, JobsStay

LEMMA JobsUnchanged ==
    ASSUME IInv, job' = job
    PROVE  JobsStay
<1>1. JobTypeOK' /\ JobInv'
  BY DEF IInv, TypeOK, JobTypeOK, JobInv
<1> QED
  BY <1>1 DEF JobsStay, HandedOut

LEMMA RequestsUnchanged ==
    ASSUME IInv, requests' = requests
    PROVE  SameLengths
BY DEF IInv, TypeOK, SameLengths

LEMMA RunChanges ==
    ASSUME TypeOK, NEW w \in Workers, NEW r \in RunType, run[w].at # "idle",
           r.at = "idle" \/ (r.job = run[w].job /\ r.at # "create"),
           run' = [run EXCEPT ![w] = r]
    PROVE  RunMoves(w)
<1>1. run \in [Workers -> RunType]
  BY TypeParts
<1> QED
  BY <1>1 DEF RunMoves

LEMMA RunGoesTo ==
    ASSUME TypeOK, NEW w \in Workers, run[w].at # "idle",
           NEW step \in Steps \ {"create"}, GoTo(w, step)
    PROVE  RunMoves(w)
<1>1. PICK r : r = [run[w] EXCEPT !.at = step]
  OBVIOUS
<1>2. run' = [run EXCEPT ![w] = r]
  BY <1>1 DEF GoTo
<1>3. run[w] \in RunType
  BY TypeParts
<1>4. r \in RunType /\ r.at = step /\ r.job = run[w].job
  BY <1>1, <1>3 DEF RunType
<1> QED
  BY <1>2, <1>4, RunChanges

LEMMA RunGoesToWith ==
    ASSUME TypeOK, NEW w \in Workers, run[w].at # "idle",
           NEW step \in Steps \ {"create"}, NEW left \in SUBSET Accounts,
           NEW copied \in BOOLEAN,
           run' = [run EXCEPT ![w] = [run[w] EXCEPT !.at = step, !.left = left,
                                                    !.copied = copied]]
    PROVE  RunMoves(w)
<1>1. PICK r : r = [run[w] EXCEPT !.at = step, !.left = left, !.copied = copied]
  OBVIOUS
<1>2. run' = [run EXCEPT ![w] = r]
  BY <1>1
<1>3. run[w] \in RunType
  BY TypeParts
<1>4. r \in RunType /\ r.at = step /\ r.job = run[w].job
  BY <1>1, <1>3 DEF RunType
<1> QED
  BY <1>2, <1>4, RunChanges

LEMMA RunFinishes ==
    ASSUME TypeOK, NEW w \in Workers, run[w].at # "idle", NEW ok \in BOOLEAN,
           Finish(w, ok)
    PROVE  RunMoves(w)
<1>1. PICK r : r = [run[w] EXCEPT !.at = "ack", !.ok = ok]
  OBVIOUS
<1>2. run' = [run EXCEPT ![w] = r]
  BY <1>1 DEF Finish
<1>3. run[w] \in RunType /\ "ack" \in Steps
  BY TypeParts DEF Steps
<1>4. r \in RunType /\ r.at = "ack" /\ r.job = run[w].job
  BY <1>1, <1>3 DEF RunType
<1> QED
  BY <1>2, <1>4, RunChanges

LEMMA IdleType == Idle \in RunType /\ Idle.at = "idle"
BY DEF Idle, RunType, Steps

LEMMA RunEnds ==
    ASSUME TypeOK, NEW w \in Workers, run[w].at # "idle",
           run' = [run EXCEPT ![w] = Idle]
    PROVE  RunMoves(w)
BY IdleType, RunChanges

(* The steps that write nothing but the run, or fail. *)
LEMMA ReadingSteps ==
    ASSUME IInv, NEW w \in Workers,
           \/ LoadCopierMappings(w) \/ AllCopied(w) \/ CatchError(w) \/ Fault(w)
           \/ \E c \in Accounts : SkipAccount(w, c) \/ CopierFault(w, c)
    PROVE  IInv'
<1>1. /\ UNCHANGED <<job, processed, requests>> /\ UNCHANGED WebhookVars
      /\ UNCHANGED budget \/ Spend("faults")
      /\ run[w].at # "idle"
  BY DEF LoadCopierMappings, AllCopied, CatchError, Fault, SkipAccount, CopierFault
<1>2. TypeOK /\ run[w] \in RunType /\ budget \in BudgetType /\ processed \subseteq stored
  BY TypeParts DEF IInv
<1>3. budget' \in BudgetType
  BY <1>1, <1>2, Spends
<1>4. {"copy", "status", "catch"} \subseteq Steps \ {"create"}
  BY DEF Steps
<1>5. RunMoves(w)
  <2>1. CASE LoadCopierMappings(w)
    <3>1. PICK tradable \in SUBSET Accounts :
            run' = [run EXCEPT ![w].at = "copy", ![w].left = tradable]
      BY <2>1 DEF LoadCopierMappings
    <3>2. PICK copied \in BOOLEAN : copied = run[w].copied
      BY <1>2 DEF RunType
    <3>3. run' = [run EXCEPT ![w] = [run[w] EXCEPT !.at = "copy", !.left = tradable]]
      BY <3>1
    <3>4. [run[w] EXCEPT !.at = "copy", !.left = tradable]
            = [run[w] EXCEPT !.at = "copy", !.left = tradable, !.copied = copied]
      BY <1>2, <3>2 DEF RunType
    <3> QED
      BY <1>1, <1>2, <1>4, <3>3, <3>4, RunGoesToWith
  <2>2. CASE AllCopied(w)
    BY <1>1, <1>2, <1>4, <2>2, RunGoesTo DEF AllCopied
  <2>3. CASE CatchError(w)
    BY <1>1, <1>2, <2>3, RunFinishes DEF CatchError
  <2>4. CASE Fault(w)
    BY <1>1, <1>2, <1>4, <2>4, RunGoesTo DEF Fault
  <2>5. ASSUME NEW c \in Accounts, SkipAccount(w, c) \/ CopierFault(w, c)
        PROVE  RunMoves(w)
    <3>1. PICK left : left = run[w].left \ {c}
      OBVIOUS
    <3>2. left \in SUBSET Accounts
      BY <1>2, <3>1 DEF RunType
    <3>3. PICK copied \in BOOLEAN : copied = run[w].copied
      BY <1>2 DEF RunType
    <3>4. PICK r : r = [run[w] EXCEPT !.at = "copy", !.left = left,
                                      !.copied = copied]
      OBVIOUS
    <3>5. r = [run[w] EXCEPT !.at = "copy", !.left = left]
      BY <1>2, <3>3, <3>4 DEF RunType
    <3>6. run[w].at = "copy" => r = [run[w] EXCEPT !.left = left]
      BY <1>2, <3>3, <3>4 DEF RunType
    <3>7. run' = [run EXCEPT ![w] = r]
      BY <2>5, <3>1, <3>5, <3>6 DEF SkipAccount, CopierFault
    <3> QED
      BY <1>1, <1>2, <1>4, <3>2, <3>4, <3>7, RunGoesToWith
  <2> QED
    BY <2>1, <2>2, <2>3, <2>4, <2>5
<1>6. JobsStay /\ SameLengths
  BY <1>1, JobsUnchanged, RequestsUnchanged
<1> QED
  BY <1>1, <1>2, <1>3, <1>5, <1>6, MovesKeep

LEMMA MarkStep ==
    ASSUME IInv, NEW w \in Workers, MarkAlertProcessed(w)
    PROVE  IInv'
<1>1. /\ UNCHANGED <<job, requests, budget>> /\ UNCHANGED WebhookVars
      /\ run[w].at = "mark" /\ Finish(w, TRUE)
      /\ processed' = processed \cup {run[w].job}
  BY DEF MarkAlertProcessed, JobOf
<1>2. /\ TypeOK /\ budget \in BudgetType /\ processed \subseteq stored
      /\ run[w].job \in stored
  BY <1>1, TypeParts DEF IInv, HasJob
<1>3. RunMoves(w) /\ JobsStay /\ SameLengths
  BY <1>1, <1>2, RunFinishes, JobsUnchanged, RequestsUnchanged
<1> QED
  BY <1>1, <1>2, <1>3, MovesKeep

LEMMA AcknowledgeStep ==
    ASSUME IInv, NEW w \in Workers, Acknowledge(w)
    PROVE  IInv'
<1>1. /\ UNCHANGED <<processed, requests, budget>> /\ UNCHANGED WebhookVars
      /\ run[w].at = "ack" /\ run' = [run EXCEPT ![w] = Idle]
      /\ SettleJob(w, run[w].job, run[w].ok)
  BY DEF Acknowledge, JobOf
<1>2. /\ TypeOK /\ JobTypeOK /\ JobInv /\ budget \in BudgetType
      /\ processed \subseteq stored /\ run[w].job \in Jobs /\ run[w] \in RunType
  BY <1>1, TypeParts DEF IInv, HasJob
<1>3. run[w].ok \in BOOLEAN
  BY <1>2 DEF RunType
<1>4. JobsStay
  BY <1>1, <1>2, <1>3, SettledNoMore
<1>5. RunMoves(w) /\ SameLengths
  BY <1>1, <1>2, RunEnds, RequestsUnchanged
<1> QED
  BY <1>1, <1>2, <1>4, <1>5, MovesKeep

(* A request is changed in its place. *)
LEMMA RewritesRequest ==
    ASSUME IInv, NEW d \in Deliveries, NEW n, NEW r,
           n \in 1..Len(requests[d]) => r \in RequestType,
           requests' = [requests EXCEPT ![d] = [requests[d] EXCEPT ![n] = r]]
    PROVE  SameLengths
<1>1. requests \in [Deliveries -> Seq(RequestType)]
  BY TypeParts DEF IInv
<1>2. PICK s : s = [requests[d] EXCEPT ![n] = r]
  OBVIOUS
<1>3. s \in Seq(RequestType) /\ Len(s) = Len(requests[d])
  <2>1. requests[d] \in Seq(RequestType)
    BY <1>1
  <2>2. CASE n \in 1..Len(requests[d])
    BY <1>2, <2>1, <2>2, ExceptSeq
  <2>3. CASE n \notin 1..Len(requests[d])
    <3>1. DOMAIN requests[d] = 1..Len(requests[d])
      BY <2>1, LenProperties
    <3>2. s = requests[d]
      BY <1>2, <2>1, <2>3, <3>1
    <3> QED
      BY <2>1, <3>2
  <2> QED
    BY <2>2, <2>3
<1>4. requests' = [requests EXCEPT ![d] = s]
  BY <1>2
<1> QED
  BY <1>1, <1>3, <1>4 DEF SameLengths

LEMMA SetsOrder ==
    ASSUME IInv, NEW d \in Deliveries, NEW n, NEW c \in Accounts,
           NEW state \in {"saved", "queued"},
           requests' = [requests EXCEPT ![d][n].order[c] = state]
    PROVE  SameLengths
<1> DEFINE old == requests[d][n]
<1>1. PICK r : r = [old EXCEPT !.order[c] = state]
  OBVIOUS
<1>2. requests' = [requests EXCEPT ![d] = [requests[d] EXCEPT ![n] = r]]
  BY <1>1
<1>3. ASSUME n \in 1..Len(requests[d])
      PROVE  r \in RequestType
  <2>1. requests[d] \in Seq(RequestType)
    BY TypeParts DEF IInv
  <2>2. old \in RequestType
    BY <1>3, <2>1, ElementOfSeq
  <2>3. [old.order EXCEPT ![c] = state] \in [Accounts -> {"none", "saved", "queued"}]
    BY <2>2 DEF RequestType
  <2>4. r = [old EXCEPT !.order = [old.order EXCEPT ![c] = state]]
    BY <1>1
  <2> HIDE DEF old
  <2> QED
    BY <2>2, <2>3, <2>4 DEF RequestType
<1> HIDE DEF old
<1> QED
  BY <1>2, <1>3, RewritesRequest

LEMMA OrderSteps ==
    ASSUME IInv, NEW w \in Workers, NEW c \in Accounts,
           PersistOrder(w, c) \/ EnqueueOrder(w, c)
    PROVE  IInv'
<1>1. /\ UNCHANGED <<job, processed, budget>> /\ UNCHANGED WebhookVars
      /\ run[w].at # "idle"
      /\ \E state \in {"saved", "queued"} :
           requests' = [requests EXCEPT ![run[w].job][run[w].n].order[c] = state]
  BY DEF PersistOrder, EnqueueOrder, JobOf
<1>2. /\ TypeOK /\ budget \in BudgetType /\ processed \subseteq stored
      /\ run[w].job \in Deliveries /\ run[w] \in RunType
  BY <1>1, TypeParts DEF IInv, HasJob
<1>3. SameLengths
  BY <1>1, <1>2, SetsOrder
<1>4. {"copy", "enqueue"} \subseteq Steps \ {"create"}
  BY DEF Steps
<1>5. RunMoves(w)
  <2>1. CASE PersistOrder(w, c)
    BY <1>1, <1>2, <1>4, <2>1, RunGoesTo DEF PersistOrder
  <2>2. CASE EnqueueOrder(w, c)
    <3>1. PICK left : left = run[w].left \ {c}
      OBVIOUS
    <3>2. left \in SUBSET Accounts
      BY <1>2, <3>1 DEF RunType
    <3>3. run' = [run EXCEPT ![w] = [run[w] EXCEPT !.at = "copy", !.left = left,
                                                   !.copied = TRUE]]
      BY <2>2, <3>1 DEF EnqueueOrder
    <3> QED
      BY <1>1, <1>2, <1>4, <3>2, <3>3, RunGoesToWith
  <2> QED
    BY <2>1, <2>2
<1>6. JobsStay
  BY <1>1, JobsUnchanged
<1> QED
  BY <1>1, <1>2, <1>3, <1>5, <1>6, MovesKeep

LEMMA StatusStep ==
    ASSUME IInv, NEW w \in Workers, UpdateTradeRequestStatus(w)
    PROVE  IInv'
<1>1. /\ UNCHANGED <<job, processed, budget>> /\ UNCHANGED WebhookVars
      /\ run[w].at = "status" /\ GoTo(w, "mark")
  BY DEF UpdateTradeRequestStatus
<1>2. /\ TypeOK /\ budget \in BudgetType /\ processed \subseteq stored
      /\ run[w].job \in Deliveries /\ run[w] \in RunType
  BY <1>1, TypeParts DEF IInv, HasJob
<1>3. PICK d \in Deliveries, n \in Nat : d = run[w].job /\ n = run[w].n
  BY <1>2 DEF RunType
<1>4. PICK verdict \in {"completed", "failed"} :
        requests' = [requests EXCEPT ![d][n].status = verdict]
  <2>1. CASE run[w].copied
    BY <1>3, <2>1 DEF UpdateTradeRequestStatus, JobOf
  <2>2. CASE ~run[w].copied
    BY <1>3, <2>2 DEF UpdateTradeRequestStatus, JobOf
  <2> QED
    BY <2>1, <2>2
<1>5. PICK r : r = [requests[d][n] EXCEPT !.status = verdict]
  OBVIOUS
<1>6. requests' = [requests EXCEPT ![d] = [requests[d] EXCEPT ![n] = r]]
  BY <1>4, <1>5
<1>7. ASSUME n \in 1..Len(requests[d])
      PROVE  r \in RequestType
  <2>1. requests[d] \in Seq(RequestType)
    BY <1>2, TypeParts
  <2>2. requests[d][n] \in RequestType
    BY <1>7, <2>1, ElementOfSeq
  <2> QED
    BY <1>5, <2>2 DEF RequestType
<1>8. SameLengths
  BY <1>6, <1>7, RewritesRequest
<1>9. RunMoves(w)
  <2>1. "mark" \in Steps \ {"create"}
    BY DEF Steps
  <2> QED
    BY <1>1, <1>2, <2>1, RunGoesTo
<1>10. JobsStay
  BY <1>1, JobsUnchanged
<1> QED
  BY <1>1, <1>2, <1>8, <1>9, <1>10, MovesKeep

-----------------------------------------------------------------------------
(* The two steps that change the count: a run begins, and makes its request.*)

LEMMA TakeStep ==
    ASSUME IInv, NEW w \in Workers, NEW j \in Jobs, Take(w, j)
    PROVE  IInv'
<1>1. /\ UNCHANGED <<processed, requests, budget>>
      /\ delivery' = delivery /\ stored' = stored /\ added' = added
      /\ run[w].at = "idle" /\ StartJob(w, j) /\ j \in added
      /\ run' = [run EXCEPT ![w] = [Idle EXCEPT !.at = "create", !.job = j]]
  BY DEF Take, WebhookVars
<1>2. TypeOK /\ JobTypeOK /\ JobInv /\ run \in [Workers -> RunType]
  BY TypeParts DEF IInv
<1>3. /\ JobTypeOK' /\ JobInv' /\ HandedOut(j)' = HandedOut(j) + 1
      /\ \A a \in Jobs : a # j => HandedOut(a)' = HandedOut(a)
  BY <1>1, <1>2, TakenOnceMore
<1>4. /\ run'[w].at = "create" /\ run'[w].job = j /\ run'[w] \in RunType
  BY <1>1, <1>2 DEF Idle, RunType, Steps
<1>5. \A v \in Workers : v # w => run'[v] = run[v]
  BY <1>1, <1>2
<1>6. run' \in [Workers -> RunType]
  BY <1>1, <1>2, <1>4
<1>7. TypeOK'
  BY <1>1, <1>2, <1>3, <1>6 DEF TypeOK
<1>8. HasJob' /\ RequestedIsAdded'
  BY <1>1, <1>4, <1>5 DEF IInv, HasJob, RequestedIsAdded
<1>9. WebhookInv'
  BY <1>1 DEF IInv, WebhookInv, StoredOnce, EnqueueIsStored, DuplicateIsStored,
              SameAlert
<1>10. ASSUME NEW d \in Deliveries
       PROVE  Len(requests'[d]) + Cardinality(Pending(d)') <= HandedOut(d)'
  <2>1. Len(requests[d]) + Cardinality(Pending(d)) <= HandedOut(d)
    BY DEF IInv, RequestsCounted
  <2>2. CASE d # j
    <3>1. Pending(d)' = Pending(d)
      BY <1>1, <1>4, <1>5, <2>2 DEF Pending
    <3> QED
      BY <1>1, <1>3, <2>1, <2>2, <3>1
  <2>3. CASE d = j
    <3>1. w \notin Pending(d) /\ Pending(d)' = Pending(d) \cup {w}
      BY <1>1, <1>4, <1>5, <2>3 DEF Pending
    <3>2. Cardinality(Pending(d)') = Cardinality(Pending(d)) + 1
      BY <3>1, PendingFinite, FS_AddElement
    <3>3. /\ Cardinality(Pending(d)) \in Nat /\ Len(requests[d]) \in Nat
          /\ HandedOut(d) \in Nat
      BY <1>2, PendingFinite, LengthType, HandedOutBounded
    <3> QED
      BY <1>1, <1>3, <2>1, <2>3, <3>2, <3>3
  <2> QED
    BY <2>2, <2>3
<1> QED
  BY <1>3, <1>7, <1>8, <1>9, <1>10 DEF IInv, RequestsCounted

LEMMA CreateStep ==
    ASSUME IInv, NEW w \in Workers, CreateTradeRequest(w)
    PROVE  IInv'
<1>0. PICK j \in added : j = run[w].job
  BY DEF IInv, HasJob, CreateTradeRequest
<1>1. /\ UNCHANGED <<job, processed, budget>>
      /\ delivery' = delivery /\ stored' = stored /\ added' = added
      /\ run[w].at = "create"
  BY DEF CreateTradeRequest, WebhookVars
<1>2. /\ TypeOK /\ JobTypeOK /\ JobInv /\ run \in [Workers -> RunType]
      /\ run[w] \in RunType /\ run[w].job = j /\ j \in Deliveries
      /\ requests \in [Deliveries -> Seq(RequestType)]
      /\ requests[j] \in Seq(RequestType)
  BY <1>0, TypeParts DEF IInv
<1>3. PICK passed \in BOOLEAN :
        /\ requests' = [requests EXCEPT
             ![j] = Append(@, NewRequest(IF passed THEN "copying"
                                                   ELSE "risk_rejected"))]
        /\ run' = [run EXCEPT ![w].at = IF passed THEN "copyMappings" ELSE "ack",
                              ![w].ok = ~passed,
                              ![w].n  = Len(requests[j]) + 1]
  BY <1>0 DEF CreateTradeRequest, JobOf
<1>4. PICK s \in Seq(RequestType) :
        /\ requests' = [requests EXCEPT ![j] = s]
        /\ Len(s) = Len(requests[j]) + 1
  <2>1. PICK r : r = NewRequest(IF passed THEN "copying" ELSE "risk_rejected")
    OBVIOUS
  <2>2. r \in RequestType
    BY <2>1 DEF NewRequest, RequestType
  <2>3. requests' = [requests EXCEPT ![j] = Append(requests[j], r)]
    BY <1>3, <2>1
  <2>4. requests[j] \in Seq(RequestType)
    BY <1>2
  <2>5. /\ Append(requests[j], r) \in Seq(RequestType)
        /\ Len(Append(requests[j], r)) = Len(requests[j]) + 1
    BY <2>2, <2>4, AppendProperties
  <2> QED
    BY <2>3, <2>5
<1>5. /\ requests'[j] = s
      /\ \A d \in Deliveries : d # j => requests'[d] = requests[d]
      /\ requests' \in [Deliveries -> Seq(RequestType)]
  BY <1>2, <1>4
<1>6. PICK r \in RunType : /\ run' = [run EXCEPT ![w] = r]
                           /\ r.at \in {"copyMappings", "ack"} /\ r.job = j
  <2>1. PICK step \in {"copyMappings", "ack"}, ok \in BOOLEAN, k \in Nat :
          run' = [run EXCEPT ![w].at = step, ![w].ok = ok, ![w].n = k]
    <3>1. Len(requests[j]) + 1 \in Nat
      BY <1>2, LengthType
    <3>2. CASE passed
      BY <1>3, <3>1, <3>2
    <3>3. CASE ~passed
      BY <1>3, <3>1, <3>3
    <3> QED
      BY <3>2, <3>3
  <2>2. PICK r : r = [run[w] EXCEPT !.at = step, !.ok = ok, !.n = k]
    OBVIOUS
  <2>3. run' = [run EXCEPT ![w] = r]
    BY <2>1, <2>2
  <2>4. step \in Steps
    BY DEF Steps
  <2>5. r \in RunType /\ r.at = step /\ r.job = j
    BY <1>2, <2>2, <2>4 DEF RunType
  <2> QED
    BY <2>3, <2>5
<1>7. /\ run' \in [Workers -> RunType] /\ run'[w] = r
      /\ \A v \in Workers : v # w => run'[v] = run[v]
  BY <1>2, <1>6
<1>8. JobsStay
  BY <1>1, JobsUnchanged
<1>9. TypeOK'
  BY <1>1, <1>2, <1>5, <1>7, <1>8 DEF TypeOK, JobsStay
<1>10. HasJob' /\ RequestedIsAdded'
  BY <1>0, <1>1, <1>5, <1>6, <1>7 DEF IInv, HasJob, RequestedIsAdded
<1>11. WebhookInv'
  BY <1>1 DEF IInv, WebhookInv, StoredOnce, EnqueueIsStored, DuplicateIsStored,
              SameAlert
<1>12. ASSUME NEW d \in Deliveries
       PROVE  Len(requests'[d]) + Cardinality(Pending(d)') <= HandedOut(d)'
  <2>1. Len(requests[d]) + Cardinality(Pending(d)) <= HandedOut(d)
    BY DEF IInv, RequestsCounted
  <2>2. HandedOut(d)' = HandedOut(d)
    BY <1>8 DEF JobsStay
  <2>3. CASE d # j
    <3>1. Pending(d)' = Pending(d)
      BY <1>2, <1>6, <1>7, <2>3 DEF Pending
    <3> QED
      BY <1>5, <2>1, <2>2, <2>3, <3>1
  <2>4. CASE d = j
    <3>1. w \in Pending(d) /\ Pending(d)' = Pending(d) \ {w}
      BY <1>1, <1>2, <1>6, <1>7, <2>4 DEF Pending
    <3>2. Cardinality(Pending(d) \ {w}) = Cardinality(Pending(d)) - 1
      BY <3>1, PendingFinite, FS_RemoveElement
    <3>3. /\ Cardinality(Pending(d)) \in Nat /\ HandedOut(d) \in Nat
          /\ Len(requests[d]) \in Nat /\ Len(requests'[d]) = Len(requests[d]) + 1
      BY <1>2, <1>4, <1>5, <2>4, PendingFinite, HandedOutBounded, LengthType
    <3> QED
      BY <2>1, <2>2, <3>1, <3>2, <3>3
  <2> QED
    BY <2>3, <2>4
<1> QED
  BY <1>8, <1>9, <1>10, <1>11, <1>12 DEF IInv, RequestsCounted, JobsStay

-----------------------------------------------------------------------------
(* Stalls and the death of the process. *)

LEMMA StallSteps ==
    ASSUME IInv, NEW j \in Jobs, StallDead(j) \/ StallSlow(j)
    PROVE  IInv'
<1>1. /\ UNCHANGED <<run, processed, requests>> /\ StallJob(j)
      /\ delivery' = delivery /\ stored' = stored /\ added' = added
      /\ UNCHANGED budget \/ Spend("slow")
  BY DEF StallDead, StallSlow, WebhookVars
<1>2. TypeOK /\ JobTypeOK /\ JobInv /\ budget \in BudgetType
  BY TypeParts DEF IInv
<1>3. budget' \in BudgetType
  BY <1>1, <1>2, Spends
<1>4. JobsStay
  BY <1>1, <1>2, StalledNoMore
<1>5. TypeOK'
  BY <1>1, <1>2, <1>3, <1>4 DEF TypeOK, JobsStay, BudgetType
<1>6. WebhookInv' /\ HasJob' /\ RequestedIsAdded'
  BY <1>1 DEF IInv, WebhookInv, StoredOnce, EnqueueIsStored, DuplicateIsStored,
              SameAlert, HasJob, RequestedIsAdded
<1>7. \A d \in Deliveries : Pending(d)' = Pending(d)
  BY <1>1 DEF Pending
<1>8. RequestsCounted'
  BY <1>1, <1>4, <1>7 DEF IInv, RequestsCounted, JobsStay
<1> QED
  BY <1>4, <1>5, <1>6, <1>8 DEF IInv, JobsStay

LEMMA CrashedDeliveries ==
    ASSUME TypeOK, Crash
    PROVE  /\ delivery' \in [Deliveries -> DeliveryType]
           /\ \A d \in Deliveries : delivery'[d].at \in {"new", "answered"}
<1>1. delivery \in [Deliveries -> DeliveryType]
  BY TypeParts
<1>2. "answered" \in WebhookSteps /\ "lost" \in Answers
  BY DEF WebhookSteps, Answers
<1>3. ASSUME NEW d \in Deliveries
      PROVE  delivery'[d] \in DeliveryType /\ delivery'[d].at \in {"new", "answered"}
  <2>1. CASE delivery[d].at \in {"new", "answered"}
    <3>1. delivery'[d] = delivery[d]
      BY <2>1 DEF Crash
    <3> QED
      BY <1>1, <2>1, <3>1
  <2>2. CASE delivery[d].at \notin {"new", "answered"}
    <3>1. PICK r : r = [delivery[d] EXCEPT !.at = "answered", !.answer = "lost"]
      OBVIOUS
    <3>2. delivery'[d] = r
      BY <2>2, <3>1 DEF Crash
    <3>3. delivery[d] \in DeliveryType
      BY <1>1
    <3>4. r \in DeliveryType /\ r.at = "answered"
      BY <1>2, <3>1, <3>3 DEF DeliveryType
    <3> QED
      BY <3>2, <3>4
  <2> QED
    BY <2>1, <2>2
<1>4. delivery' = [d \in Deliveries |-> delivery'[d]]
  BY DEF Crash
<1> QED
  BY <1>3, <1>4

LEMMA CrashStep ==
    ASSUME IInv, Crash
    PROVE  IInv'
<1>1. /\ UNCHANGED <<job, stored, added, processed, requests>>
      /\ run' = [w \in Workers |-> Idle]
  BY DEF Crash
<1>2. TypeOK /\ budget' \in BudgetType
  BY Spends DEF IInv, Crash
<1>3. /\ delivery' \in [Deliveries -> DeliveryType]
      /\ \A d \in Deliveries : delivery'[d].at \in {"new", "answered"}
  BY <1>2, CrashedDeliveries
<1>4. run' \in [Workers -> RunType] /\ \A w \in Workers : run'[w].at = "idle"
  BY <1>1, IdleType
<1>5. JobsStay
  BY <1>1, JobsUnchanged
<1>6. TypeOK'
  BY <1>1, <1>2, <1>3, <1>4, <1>5 DEF TypeOK, JobsStay, DeliveryType, BudgetType
<1>7. WebhookInv' /\ HasJob' /\ RequestedIsAdded'
  BY <1>1, <1>3, <1>4 DEF IInv, WebhookInv, StoredOnce, EnqueueIsStored,
                          DuplicateIsStored, HasJob, RequestedIsAdded
<1>8. ASSUME NEW d \in Deliveries
      PROVE  Len(requests'[d]) + Cardinality(Pending(d)') <= HandedOut(d)'
  <2>1. Pending(d)' = {}
    BY <1>4 DEF Pending
  <2>2. Cardinality(Pending(d)') = 0
    BY <2>1, FS_EmptySet
  <2>3. Len(requests[d]) + Cardinality(Pending(d)) <= HandedOut(d)
    BY DEF IInv, RequestsCounted
  <2>4. /\ Len(requests[d]) \in Nat /\ HandedOut(d) \in Nat
        /\ Cardinality(Pending(d)) \in Nat
    BY <1>2, LengthType, HandedOutBounded, PendingFinite DEF IInv, TypeOK
  <2>5. HandedOut(d)' = HandedOut(d)
    BY <1>5 DEF JobsStay
  <2> QED
    BY <1>1, <2>2, <2>3, <2>4, <2>5
<1> QED
  BY <1>5, <1>6, <1>7, <1>8 DEF IInv, RequestsCounted, JobsStay

LEMMA StutterStep ==
    ASSUME IInv, UNCHANGED vars
    PROVE  IInv'
<1>1. UNCHANGED ProcessorVars /\ UNCHANGED <<delivery, stored, added, budget>>
  BY DEF vars, ProcessorVars
<1>2. WebhookInv'
  BY <1>1 DEF IInv, WebhookInv, StoredOnce, EnqueueIsStored, DuplicateIsStored,
              SameAlert
<1>3. /\ delivery \in [Deliveries -> DeliveryType] /\ added \subseteq stored
      /\ stored \subseteq Deliveries /\ budget \in BudgetType
  BY TypeParts DEF IInv
<1> QED
  BY <1>1, <1>2, <1>3, WebhookStep

-----------------------------------------------------------------------------

LEMMA InitInv == Init => IInv
<1> SUFFICES ASSUME Init PROVE IInv
  OBVIOUS
<1>1. /\ \A w \in Workers : run[w] = Idle
      /\ \A d \in Deliveries : requests[d] = <<>> /\ delivery[d].at = "new"
      /\ stored = {} /\ added = {} /\ processed = {}
  BY DEF Init
<1>2. TypeOK
  <2>1. JobTypeOK
    BY DEF Init, JobInit, JobTypeOK, JobStates
  <2>2. delivery \in [Deliveries -> DeliveryType]
    <3>1. PICK r : r = [at |-> "new", duplicate |-> FALSE, answer |-> "none"]
      OBVIOUS
    <3>2. r \in DeliveryType
      BY <3>1 DEF DeliveryType, WebhookSteps, Answers
    <3>3. delivery = [d \in Deliveries |-> r]
      BY <3>1 DEF Init
    <3> QED
      BY <3>2, <3>3
  <2>3. run \in [Workers -> RunType]
    BY IdleType DEF Init
  <2>4. requests \in [Deliveries -> Seq(RequestType)]
    <3>1. <<>> \in Seq(RequestType)
      BY EmptySeq
    <3> QED
      BY <3>1 DEF Init
  <2>5. budget \in BudgetType
    BY DEF Init, BudgetType
  <2> QED
    BY <1>1, <2>1, <2>2, <2>3, <2>4, <2>5 DEF TypeOK, DeliveryType, BudgetType
<1>3. \A d \in Jobs : job[d] = [state |-> "waiting", made |-> 0, stalls |-> 0,
                                owner |-> None]
  BY DEF Init, JobInit
<1>4. JobInv
  <2>1. 0 < Attempts /\ 0 <= MaxStalled /\ 0 + 0 <= Attempts + MaxStalled
    BY JobQueueAssumption
  <2>2. ASSUME NEW a \in Jobs
        PROVE  /\ job[a].state = "waiting" /\ job[a].made = 0
               /\ job[a].stalls = 0 /\ job[a].owner = None
    BY <1>3
  <2>3. None \notin Workers
    BY JobQueueAssumption
  <2> QED
    BY <2>1, <2>2, <2>3 DEF JobInv
<1>5. WebhookInv /\ HasJob
  BY <1>1, IdleType DEF WebhookInv, StoredOnce, EnqueueIsStored, DuplicateIsStored,
                        HasJob
<1>6. \A d \in Deliveries : Len(requests[d]) = 0
  BY <1>1, EmptySeq
<1>7. ASSUME NEW d \in Deliveries
      PROVE  Len(requests[d]) + Cardinality(Pending(d)) <= HandedOut(d)
  <2>1. Pending(d) = {}
    BY <1>1, IdleType DEF Pending
  <2>2. Cardinality(Pending(d)) = 0
    BY <2>1, FS_EmptySet
  <2>3. HandedOut(d) = 0
    BY <1>3 DEF HandedOut
  <2> QED
    BY <1>6, <2>2, <2>3
<1> QED
  BY <1>2, <1>4, <1>5, <1>6, <1>7 DEF IInv, RequestedIsAdded, RequestsCounted

LEMMA NextInv == IInv /\ [Next]_vars => IInv'
<1> SUFFICES ASSUME IInv, [Next]_vars PROVE IInv'
  OBVIOUS
<1>1. ASSUME NEW w \in Workers, WorkerStep(w) \/ Fault(w)
      PROVE  IInv'
  <2>1. CASE \E d \in Jobs : Take(w, d)
    BY <2>1, TakeStep
  <2>2. CASE \E c \in Accounts : PersistOrder(w, c) \/ EnqueueOrder(w, c)
    BY <2>2, OrderSteps
  <2>3. CASE \/ LoadCopierMappings(w) \/ AllCopied(w) \/ CatchError(w) \/ Fault(w)
             \/ \E c \in Accounts : SkipAccount(w, c)
    BY <2>3, ReadingSteps
  <2>4. CASE \/ CreateTradeRequest(w) \/ UpdateTradeRequestStatus(w)
             \/ MarkAlertProcessed(w) \/ Acknowledge(w)
    BY <2>4, CreateStep, StatusStep, MarkStep, AcknowledgeStep
  <2> QED
    BY <1>1, <2>1, <2>2, <2>3, <2>4 DEF WorkerStep
<1>2. ASSUME NEW w \in Workers, NEW c \in Accounts, CopierFault(w, c)
      PROVE  IInv'
  BY <1>2, ReadingSteps
<1> QED
  BY <1>1, <1>2, HandleKeeps, CrashStep, StallSteps, StutterStep DEF Next

(* The invariant holds throughout. *)
THEOREM Inductive == Spec => []IInv
BY InitInv, NextInv, PTL DEF Spec

(* The state stays well typed; in particular only stored rows have jobs and *)
(* are processed.                                                           *)
THEOREM TypeCorrect == Spec => []TypeOK
<1>1. IInv => TypeOK
  BY DEF IInv
<1> QED
  BY <1>1, Inductive, PTL

(* However deliveries race and runs fail, stall or overlap, all rows of an  *)
(* alert together have no more trade requests than one job was handed out.  *)
THEOREM RequestsBoundedHolds == Spec => []RequestsBounded
<1>1. IInv => RequestsBounded
  <2> SUFFICES ASSUME IInv, NEW d \in Deliveries, requests[d] # <<>>
               PROVE  /\ Len(requests[d]) <= HandedOut(d)
                      /\ \A e \in SameAlert(d) \ {d} : requests[e] = <<>>
    BY DEF RequestsBounded
  <2>1. Len(requests[d]) + Cardinality(Pending(d)) <= HandedOut(d)
    BY DEF IInv, RequestsCounted
  <2>2. /\ Len(requests[d]) \in Nat /\ HandedOut(d) \in Nat
        /\ Cardinality(Pending(d)) \in Nat
    BY LengthType, HandedOutBounded, PendingFinite DEF IInv, TypeOK
  <2>3. \A e \in Deliveries : requests[e] # <<>> => e \in stored
    <3> SUFFICES ASSUME NEW e \in Deliveries, requests[e] # <<>>
                 PROVE  e \in stored
      OBVIOUS
    <3>1. requests[e] \in Seq(RequestType) /\ added \subseteq stored
      BY TypeParts DEF IInv
    <3>2. Len(requests[e]) > 0
      BY <3>1, EmptySeq
    <3> QED
      BY <3>1, <3>2 DEF IInv, RequestedIsAdded
  <2>4. ASSUME NEW e \in SameAlert(d) \ {d}
        PROVE  requests[e] = <<>>
    BY <2>3 DEF SameAlert, IInv, WebhookInv, StoredOnce
  <2> QED
    BY <2>1, <2>2, <2>4
<1> QED
  BY <1>1, Inductive, PTL

-----------------------------------------------------------------------------
(***************************************************************************)
(* The path implements AlertLedger.  What the ledger shows of an alert      *)
(* depends on whether a row of it is stored, whether one is queued and      *)
(* whether a delivery is between the two.  The processor changes none of    *)
(* these.                                                                   *)
(***************************************************************************)
WithinBudget == budget.faults <= MaxFaults /\ budget.crashes <= MaxCrashes

Known(a) == \E d \in stored : AlertOf[d] = a
Queued(a) == \E d \in added : AlertOf[d] = a
Held(a) == \E d \in Deliveries : AlertOf[d] = a /\ delivery[d].at = "enqueue"
Queue(a) == {d \in added : AlertOf[d] = a}

LEMMA BudgetInit == Init => WithinBudget
BY DEF Init, WithinBudget

(* A step spends nothing, or a failure, or the slowness of a run. *)
LEMMA Spending ==
    ASSUME [Next]_vars
    PROVE  \/ UNCHANGED budget
           \/ \E what \in {"faults", "crashes", "slow"} : Spend(what)
<1>1. ASSUME NEW w \in Workers, WorkerStep(w)
      PROVE  UNCHANGED budget
  BY <1>1 DEF WorkerStep, Take, CreateTradeRequest, LoadCopierMappings,
              PersistOrder, SkipAccount, EnqueueOrder, AllCopied,
              UpdateTradeRequestStatus, MarkAlertProcessed, CatchError, Acknowledge
<1> QED
  BY <1>1 DEF Next, Receive, Refuse, Handle, LookUp, PersistAlert, Enqueue,
              WebhookFault, Fault, CopierFault, Crash, StallDead, StallSlow, vars

LEMMA BudgetStep ==
    ASSUME IInv, WithinBudget, [Next]_vars
    PROVE  WithinBudget'
<1> budget \in BudgetType
  BY TypeParts DEF IInv
<1>1. CASE UNCHANGED budget
  BY <1>1 DEF WithinBudget
<1>2. ASSUME NEW what \in {"faults", "crashes", "slow"}, Spend(what)
      PROVE  WithinBudget'
  BY <1>2 DEF WithinBudget, Spend, BudgetType
<1> QED
  BY <1>1, <1>2, Spending

(* A failure shows in the budget. *)
LEMMA FailureShows ==
    ASSUME IInv, WithinBudget, NEW what \in {"faults", "crashes", "slow"}, Spend(what)
    PROVE  IF what = "slow" THEN Faultless' = Faultless ELSE Faultless' = FALSE
<1>1. budget \in BudgetType
  BY TypeParts DEF IInv
<1>2. CASE what = "slow"
  BY <1>1, <1>2 DEF Spend, Faultless, BudgetType
<1>3. CASE what = "faults"
  <2>1. budget'.faults < MaxFaults /\ budget'.faults \in Nat
    BY <1>1, <1>3 DEF Spend, WithinBudget, BudgetType
  <2> QED
    BY <1>3, <2>1 DEF Faultless
<1>4. CASE what = "crashes"
  <2>1. budget'.crashes < MaxCrashes /\ budget'.crashes \in Nat
    BY <1>1, <1>4 DEF Spend, WithinBudget, BudgetType
  <2> QED
    BY <1>4, <2>1 DEF Faultless
<1> QED
  BY <1>2, <1>3, <1>4

(* The entry of an alert, by what it depends on. *)
LEMMA EntryCases ==
    ASSUME IInv, NEW a \in Alerts
    PROVE  /\ Queued(a) => Entry(a) = "queued"
           /\ ~Queued(a) /\ ~Known(a) => Entry(a) = "unknown"
           /\ ~Queued(a) /\ Known(a) /\ Held(a) => Entry(a) = "stored"
           /\ ~Queued(a) /\ Known(a) /\ ~Held(a) => Entry(a) = "lost"
<1>1. added \subseteq stored /\ stored \subseteq Deliveries
  BY TypeParts DEF IInv
<1> QED
  BY <1>1 DEF Entry, Queued, Known, Held

LEMMA EntryCasesNext ==
    ASSUME IInv', NEW a \in Alerts
    PROVE  /\ Queued(a)' => Entry(a)' = "queued"
           /\ ~Queued(a)' /\ ~Known(a)' => Entry(a)' = "unknown"
           /\ ~Queued(a)' /\ Known(a)' /\ Held(a)' => Entry(a)' = "stored"
           /\ ~Queued(a)' /\ Known(a)' /\ ~Held(a)' => Entry(a)' = "lost"
<1>1. added' \subseteq stored' /\ stored' \subseteq Deliveries
  BY DEF IInv, TypeOK
<1> QED
  BY <1>1 DEF Entry, Queued, Known, Held

LEMMA EntryKept ==
    ASSUME IInv, IInv', NEW a \in Alerts, Queued(a)' <=> Queued(a),
           Known(a)' <=> Known(a), Held(a)' <=> Held(a)
    PROVE  Entry(a)' = Entry(a)
BY EntryCases, EntryCasesNext

(* A delivery that is about to queue its alert is the only one to hold it. *)
LEMMA HolderStored ==
    ASSUME IInv, NEW d \in Deliveries, delivery[d].at = "enqueue"
    PROVE  Known(AlertOf[d]) /\ ~Queued(AlertOf[d])
<1>1. d \in stored \ added /\ added \subseteq stored
  BY TypeParts DEF IInv, WebhookInv, EnqueueIsStored
<1> QED
  BY <1>1 DEF IInv, WebhookInv, StoredOnce, Known, Queued

(* Some alerts, or none, lost the delivery that held them: a failure does   *)
(* that, and without one nothing is lost.                                   *)
LEMMA LedgerLoses ==
    ASSUME IInv, IInv', UNCHANGED <<stored, added>>,
           \A a \in Alerts : Held(a)' => Held(a),
           \/ Faultless' = FALSE
           \/ Faultless' = Faultless /\ \A a \in Alerts : Held(a) => Held(a)'
    PROVE  [Ledger!Next]_(Ledger!vars)
<1> DEFINE gone == {a \in Alerts : Held(a) /\ ~Held(a)'}
           jobs == [a \in Alerts |-> Cardinality(Queue(a))]
<1>1. \A a \in Alerts : (Queued(a)' <=> Queued(a)) /\ (Known(a)' <=> Known(a))
  BY DEF Queued, Known
<1>2. \A a \in Alerts : a \notin gone => Entry(a)' = Entry(a)
  BY <1>1, EntryKept
<1>3. jobs' = jobs
  BY DEF Queue
<1>4. CASE Faultless' = FALSE
  <2>1. ASSUME NEW a \in Alerts, a \in gone
        PROVE  Entry(a) = "stored" /\ Entry(a)' = "lost"
    <3>1. Known(a) /\ ~Queued(a)
      BY <2>1, HolderStored DEF Held
    <3> QED
      BY <1>1, <2>1, <3>1, EntryCases, EntryCasesNext
  <2>2. gone \in SUBSET {a \in Alerts : [b \in Alerts |-> Entry(b)][a] = "stored"}
    BY <2>1
  <2>3. [a \in Alerts |-> Entry(a)]' =
           [a \in Alerts |-> IF a \in gone THEN "lost"
                             ELSE [b \in Alerts |-> Entry(b)][a]]
    BY <1>2, <2>1
  <2>4. Ledger!Fail
    BY <1>3, <1>4, <2>2, <2>3 DEF Ledger!Fail, Queue
  <2> QED
    BY <2>4 DEF Ledger!Next
<1>5. CASE Faultless' = Faultless /\ \A a \in Alerts : Held(a) => Held(a)'
  <2>1. [a \in Alerts |-> Entry(a)]' = [a \in Alerts |-> Entry(a)]
    BY <1>2, <1>5
  <2> QED
    BY <1>3, <1>5, <2>1 DEF Ledger!vars, Queue
<1> QED
  BY <1>4, <1>5

(* The row of an alert that was not known is stored by a delivery that goes *)
(* on to queue it.                                                          *)
LEMMA LedgerRecords ==
    ASSUME IInv, IInv', Faultless' = Faultless, added' = added,
           NEW d \in Deliveries, Moved(d, "enqueue"), delivery[d].at # "enqueue",
           SameAlert(d) \cap stored = {}, stored' = stored \cup {d}
    PROVE  [Ledger!Next]_(Ledger!vars)
<1>1. PICK b \in Alerts : b = AlertOf[d]
  BY DEF Alerts
<1>2. added \subseteq stored /\ stored \subseteq Deliveries
  BY TypeParts DEF IInv
<1>3. ~Known(b) /\ ~Queued(b) /\ ~Queued(b)'
  BY <1>1, <1>2 DEF Known, Queued, SameAlert
<1>4. Known(b)' /\ Held(b)'
  BY <1>1 DEF Known, Held, Moved
<1>5. Entry(b) = "unknown" /\ Entry(b)' = "stored"
  BY <1>3, <1>4, EntryCases, EntryCasesNext
<1>6. ASSUME NEW a \in Alerts, a # b
      PROVE  Entry(a)' = Entry(a)
  <2>1. /\ Queued(a)' <=> Queued(a)
        /\ Known(a)' <=> Known(a)
        /\ Held(a)' <=> Held(a)
    BY <1>1, <1>6 DEF Queued, Known, Held, Moved
  <2> QED
    BY <2>1, EntryKept
<1>7. [a \in Alerts |-> Entry(a)]' =
         [[a \in Alerts |-> Entry(a)] EXCEPT ![b] = "stored"]
  BY <1>5, <1>6
<1>8. Ledger!Record(b, "stored")
  BY <1>5, <1>7 DEF Ledger!Record
<1> QED
  BY <1>8 DEF Ledger!Next

(* The job of a stored row is added; the queue's answer may not arrive. *)
LEMMA LedgerQueues ==
    ASSUME IInv, IInv', Faultless' = Faultless \/ Faultless' = FALSE,
           NEW d \in Deliveries, Moved(d, "answered"), delivery[d].at = "enqueue",
           stored' = stored, added' = added \cup {d}
    PROVE  [Ledger!Next]_(Ledger!vars)
<1> DEFINE jobs == [a \in Alerts |-> Cardinality(Queue(a))]
<1>1. PICK b \in Alerts : b = AlertOf[d]
  BY DEF Alerts
<1>2. Known(b) /\ ~Queued(b) /\ Held(b)
  BY <1>1, HolderStored DEF Held
<1>3. Queued(b)'
  BY <1>1 DEF Queued
<1>4. Entry(b) = "stored" /\ Entry(b)' = "queued"
  BY <1>2, <1>3, EntryCases, EntryCasesNext
<1>5. ASSUME NEW a \in Alerts, a # b
      PROVE  Entry(a)' = Entry(a)
  <2>1. /\ Queued(a)' <=> Queued(a)
        /\ Known(a)' <=> Known(a)
        /\ Held(a)' <=> Held(a)
    BY <1>1, <1>5 DEF Queued, Known, Held, Moved
  <2> QED
    BY <2>1, EntryKept
<1>6. [a \in Alerts |-> Entry(a)]' =
         [[a \in Alerts |-> Entry(a)] EXCEPT ![b] = "queued"]
  BY <1>4, <1>5
<1>7. Cardinality(Queue(b)) = 0 /\ Cardinality(Queue(b)') = 1
  <2>1. Queue(b) = {} /\ Queue(b)' = {d}
    BY <1>1, <1>2 DEF Queue, Queued
  <2> QED
    BY <2>1, FS_EmptySet, FS_Singleton
<1>8. \A a \in Alerts : a # b => Queue(a)' = Queue(a)
  BY <1>1 DEF Queue
<1>9. jobs' = [jobs EXCEPT ![b] = @ + 1]
  <2>1. jobs'[b] = jobs[b] + 1
    BY <1>7
  <2>2. \A a \in Alerts : a # b => jobs'[a] = jobs[a]
    BY <1>8
  <2> QED
    BY <2>1, <2>2
<1>10. Ledger!Queue(b)
  <2>1. (~Faultless)' \in {~Faultless, TRUE}
    BY DEF Faultless
  <2> QED
    BY <1>4, <1>6, <1>9, <2>1 DEF Ledger!Queue, Queue
<1> QED
  BY <1>10 DEF Ledger!Next

LEMMA HandleLedgerStep ==
    ASSUME IInv, IInv', NEW d \in Deliveries, Handle(d)
    PROVE  [Ledger!Next]_(Ledger!vars)
<1>0. TypeOK
  BY DEF IInv
<1>1. /\ {"persist", "enqueue"} \subseteq WebhookSteps
      /\ {"accepted", "duplicate", "error"} \subseteq Answers
  BY DEF WebhookSteps, Answers
<1>2. Faultless' = Faultless
  BY DEF Handle, LookUp, PersistAlert, Enqueue, Faultless
<1>3. ASSUME NEW step \in {"persist", "answered"}, Moved(d, step),
             delivery[d].at # "enqueue", UNCHANGED <<stored, added>>
      PROVE  [Ledger!Next]_(Ledger!vars)
  <2>1. \A a \in Alerts : Held(a)' <=> Held(a)
    BY <1>3 DEF Held, Moved
  <2> QED
    BY <1>2, <1>3, <2>1, LedgerLoses
<1>4. CASE LookUp(d)
  <2>1. /\ delivery' = [delivery EXCEPT
                          ![d].at = "persist",
                          ![d].duplicate = SameAlert(d) \cap stored # {}]
        /\ delivery[d].at = "lookup" /\ UNCHANGED <<stored, added>>
    BY <1>4 DEF LookUp
  <2>2. delivery \in [Deliveries -> DeliveryType]
    BY <1>0, TypeParts
  <2>3. \A e \in Deliveries : delivery'[e].at = "enqueue" <=> delivery[e].at = "enqueue"
    BY <2>1, <2>2 DEF DeliveryType
  <2>4. \A a \in Alerts : Held(a)' <=> Held(a)
    BY <2>3 DEF Held
  <2> QED
    BY <1>2, <2>1, <2>4, LedgerLoses
<1>5. CASE PersistAlert(d)
  <2>1. added' = added /\ delivery[d].at = "persist"
    BY <1>5 DEF PersistAlert
  <2>2. CASE SameAlert(d) \cap stored # {}
    <3>1. Moved(d, "answered") /\ stored' = stored
      BY <1>0, <1>1, <1>5, <2>2, AnswerMoves DEF PersistAlert
    <3> QED
      BY <1>3, <2>1, <3>1
  <2>3. CASE SameAlert(d) \cap stored = {}
    <3>1. ~delivery[d].duplicate
      BY <2>1, <2>3 DEF IInv, WebhookInv, DuplicateIsStored
    <3>2. GoToStep(d, "enqueue") /\ stored' = stored \cup {d}
      BY <1>5, <2>3, <3>1 DEF PersistAlert
    <3>3. Moved(d, "enqueue")
      BY <1>0, <1>1, <3>2, GoToStepMoves
    <3> QED
      BY <1>2, <2>1, <2>3, <3>2, <3>3, LedgerRecords
  <2> QED
    BY <2>2, <2>3
<1>6. CASE Enqueue(d)
  <2>1. delivery[d].at = "enqueue" /\ stored' = stored /\ Answer(d, "accepted")
    BY <1>6 DEF Enqueue
  <2>2. Moved(d, "answered")
    BY <1>0, <1>1, <2>1, AnswerMoves
  <2>3. SameAlert(d) \cap added = {}
    BY <2>1, HolderStored DEF Queued, SameAlert
  <2>4. added' = added \cup {d}
    BY <1>6, <2>3 DEF Enqueue
  <2> QED
    BY <1>2, <2>1, <2>2, <2>4, LedgerQueues
<1> QED
  BY <1>4, <1>5, <1>6 DEF Handle

LEMMA FaultLedgerStep ==
    ASSUME IInv, IInv', WithinBudget, NEW d \in Deliveries, WebhookFault(d)
    PROVE  [Ledger!Next]_(Ledger!vars)
<1>1. Moved(d, "answered")
  BY AnswerMoves DEF IInv, WebhookFault, Answers
<1>2. Faultless' = FALSE
  BY FailureShows DEF WebhookFault
<1>3. stored' = stored
  BY DEF WebhookFault
<1>4. CASE added' = added
  <2>1. \A a \in Alerts : Held(a)' => Held(a)
    BY <1>1 DEF Held, Moved
  <2> QED
    BY <1>2, <1>3, <1>4, <2>1, LedgerLoses
<1>5. CASE added' # added
  <2>1. delivery[d].at = "enqueue" /\ added' = added \cup {d}
    BY <1>5 DEF WebhookFault
  <2> QED
    BY <1>1, <1>2, <1>3, <2>1, LedgerQueues
<1> QED
  BY <1>4, <1>5

(* What arrives and what the processor does leave the ledger alone, but for *)
(* a failure.                                                               *)
LEMMA OtherLedgerStep ==
    ASSUME IInv, IInv', WithinBudget,
           UNCHANGED <<stored, added>>,
           \A d \in Deliveries : delivery'[d].at = "enqueue"
                                    <=> delivery[d].at = "enqueue",
           \/ UNCHANGED budget
           \/ \E what \in {"faults", "crashes", "slow"} : Spend(what)
    PROVE  [Ledger!Next]_(Ledger!vars)
<1>1. \A a \in Alerts : Held(a)' <=> Held(a)
  BY DEF Held
<1>2. Faultless' = FALSE \/ Faultless' = Faultless
  BY FailureShows DEF Faultless
<1> QED
  BY <1>1, <1>2, LedgerLoses

LEMMA ArrivalLedgerStep ==
    ASSUME IInv, IInv', WithinBudget, NEW d \in Deliveries, Receive(d) \/ Refuse(d)
    PROVE  [Ledger!Next]_(Ledger!vars)
<1>1. /\ UNCHANGED <<stored, added, budget>> /\ delivery[d].at = "new"
      /\ \/ GoToStep(d, "lookup")
         \/ \E answer \in {"refused", "error"} : Answer(d, answer)
  BY DEF Receive, Refuse
<1>2. \E step \in {"lookup", "answered"} : Moved(d, step)
  BY <1>1, GoToStepMoves, AnswerMoves DEF IInv, WebhookSteps, Answers
<1>3. \A e \in Deliveries : delivery'[e].at = "enqueue" <=> delivery[e].at = "enqueue"
  BY <1>1, <1>2 DEF Moved
<1> QED
  BY <1>1, <1>3, OtherLedgerStep

LEMMA CrashLedgerStep ==
    ASSUME IInv, IInv', WithinBudget, Crash
    PROVE  [Ledger!Next]_(Ledger!vars)
<1>1. \A d \in Deliveries : delivery'[d].at # "enqueue"
  BY CrashedDeliveries DEF IInv
<1>2. \A a \in Alerts : Held(a)' => Held(a)
  BY <1>1 DEF Held
<1>3. Faultless' = FALSE /\ UNCHANGED <<stored, added>>
  BY FailureShows DEF Crash
<1> QED
  BY <1>2, <1>3, LedgerLoses

LEMMA LedgerInit == Init => Ledger!Init
<1> SUFFICES ASSUME Init PROVE Ledger!Init
  OBVIOUS
<1>1. \A a \in Alerts : Entry(a) = "unknown" /\ Queue(a) = {}
  BY DEF Init, Entry, Queue
<1>2. \A a \in Alerts : Cardinality(Queue(a)) = 0
  BY <1>1, FS_EmptySet
<1>3. Faultless
  BY DEF Init, Faultless
<1> QED
  BY <1>1, <1>2, <1>3 DEF Ledger!Init, Queue

LEMMA LedgerStep ==
    ASSUME IInv, IInv', WithinBudget, [Next]_vars
    PROVE  [Ledger!Next]_(Ledger!vars)
<1>1. CASE \E w \in Workers : \/ WorkerStep(w) \/ Fault(w)
                              \/ \E c \in Accounts : CopierFault(w, c)
  <2>1. UNCHANGED WebhookVars
    BY <1>1, ZenonT(60) DEF WorkerStep, Take, CreateTradeRequest, LoadCopierMappings,
                PersistOrder, SkipAccount, EnqueueOrder, AllCopied,
                UpdateTradeRequestStatus, MarkAlertProcessed, CatchError,
                Acknowledge, Fault, CopierFault
  <2> QED
    BY <2>1, Spending, OtherLedgerStep DEF WebhookVars
<1>2. CASE (\E d \in Jobs : StallDead(d) \/ StallSlow(d)) \/ UNCHANGED vars
  <2>1. UNCHANGED WebhookVars
    BY <1>2 DEF StallDead, StallSlow, vars, WebhookVars
  <2> QED
    BY <2>1, Spending, OtherLedgerStep DEF WebhookVars
<1> QED
  BY <1>1, <1>2, HandleLedgerStep, FaultLedgerStep, ArrivalLedgerStep,
     CrashLedgerStep DEF Next

(* The MVP path implements AlertLedger, for any number of deliveries and    *)
(* failures: each of its steps is a step of the ledger or leaves it alone   *)
(* (ImplementsLedger).                                                      *)
THEOREM MvpImplementsLedger == Spec => ImplementsLedger
<1>1. IInv /\ WithinBudget /\ [Next]_vars => WithinBudget'
  BY BudgetStep
<1>2. IInv /\ IInv' /\ WithinBudget /\ [Next]_vars => [Ledger!Next]_(Ledger!vars)
  BY LedgerStep
<1> QED
  BY <1>1, <1>2, Inductive, BudgetInit, LedgerInit, PTL
     DEF Spec, ImplementsLedger, Ledger!Spec
-----------------------------------------------------------------------------
(***************************************************************************)
(* The books of a completed job.  BooksBalance is not inductive: the        *)
(* invariant says what a run has written at each of its steps (RunBalances) *)
(* and what is written of a job without a run (JobBalances); a run is the   *)
(* only one to write for its job because it owns it (RunsOwn), until the    *)
(* first failure, death or stall (Undisturbed).                             *)
(***************************************************************************)
First(d) == requests[d][1]
Saving(d) == {c \in Accounts : First(d).order[c] = "saved"}
Queuing(d) == {c \in Accounts : First(d).order[c] = "queued"}

Pristine(d) == Len(requests[d]) = 0 /\ d \notin processed

Underway(w, d) ==
    /\ Len(requests[d]) = 1 /\ run[w].n = 1 /\ d \notin processed
    /\ First(d).status = "copying"
    /\ run[w].copied <=> Queuing(d) # {}
    /\ run[w].left \cap Queuing(d) = {}
    /\ run[w].at = "copyMappings" => ~run[w].copied
    /\ Saving(d) # {} => run[w].at = "enqueue" /\ \E c \in Accounts : Saving(d) = {c}

Closed(d) ==
    /\ Len(requests[d]) = 1 /\ d \notin processed /\ Saving(d) = {}
    /\ First(d).status \in {"completed", "failed"}
    /\ (First(d).status = "completed") <=> (Queuing(d) # {})

Balanced(d) ==
    /\ Len(requests[d]) = 1 /\ Saving(d) = {} /\ First(d).status # "copying"
    /\ (First(d).status = "completed") <=> (Queuing(d) # {})
    /\ (d \in processed) <=> (First(d).status # "risk_rejected")

RunBalances(w) ==
    /\ run[w].at # "catch"
    /\ run[w].at = "create" => Pristine(run[w].job) /\ ~run[w].copied
    /\ run[w].at \in {"copyMappings", "copy", "enqueue", "status"}
          => Underway(w, run[w].job)
    /\ run[w].at = "mark" => Closed(run[w].job)
    /\ run[w].at = "ack" => run[w].ok /\ Balanced(run[w].job)

RunsOwn == \A w \in Workers : run[w].at # "idle" => job[run[w].job].owner = w

JobBalances(d) ==
    /\ job[d].state = "waiting" => Pristine(d)
    /\ job[d].state = "active" =>
          \E w \in Workers : /\ job[d].owner = w /\ run[w].job = d
                             /\ run[w].at # "idle"
    /\ job[d].state = "completed" => Balanced(d)
    /\ job[d].state # "failed"

BInv == /\ WithinBudget /\ budget.slow <= MaxSlow
        /\ Undisturbed => /\ RunsOwn
                          /\ \A w \in Workers : RunBalances(w)
                          /\ \A d \in Jobs : JobBalances(d)

LEMMA BudgetDrops ==
    ASSUME IInv, WithinBudget, budget.slow <= MaxSlow, [Next]_vars
    PROVE  /\ WithinBudget' /\ budget'.slow <= MaxSlow
           /\ Undisturbed' => Undisturbed
<1>1. budget \in BudgetType
  BY TypeParts DEF IInv
<1>2. CASE UNCHANGED budget
  BY <1>2 DEF WithinBudget, Undisturbed
<1>3. ASSUME NEW what \in {"faults", "crashes", "slow"}, Spend(what)
      PROVE  /\ WithinBudget' /\ budget'.slow <= MaxSlow
             /\ Undisturbed' => Undisturbed
  <2>1. budget' = [budget EXCEPT ![what] = budget[what] - 1]
    BY <1>3 DEF Spend
  <2>2. /\ budget'.faults \in {budget.faults, budget.faults - 1}
        /\ budget'.crashes \in {budget.crashes, budget.crashes - 1}
        /\ budget'.slow \in {budget.slow, budget.slow - 1}
    BY <1>1, <2>1 DEF BudgetType
  <2> QED
    BY <1>1, <2>2 DEF BudgetType, WithinBudget, Undisturbed
<1> QED
  BY <1>2, <1>3, Spending

LEMMA DisturbanceShows ==
    ASSUME IInv, WithinBudget, budget.slow <= MaxSlow,
           NEW what \in {"faults", "crashes", "slow"}, Spend(what)
    PROVE  ~Undisturbed'
<1>1. budget \in BudgetType
  BY TypeParts DEF IInv
<1>2. budget' = [budget EXCEPT ![what] = budget[what] - 1]
  BY DEF Spend
<1>3. budget'[what] = budget[what] - 1
  BY <1>1, <1>2 DEF BudgetType
<1> QED
  BY <1>1, <1>3 DEF BudgetType, WithinBudget, Undisturbed

OthersStay(w) == \A v \in Workers : v # w => run'[v] = run[v]

(* Run w goes on to a step with its job and its request. *)
GoesOn(w, step) ==
    /\ OthersStay(w)
    /\ run'[w].at = step /\ run'[w].job = run[w].job /\ run'[w].n = run[w].n

LEMMA RunGoesOn ==
    ASSUME TypeOK, NEW w \in Workers, NEW step, NEW left, NEW copied \in BOOLEAN,
           run' = [run EXCEPT ![w] = [run[w] EXCEPT !.at = step, !.left = left,
                                                    !.copied = copied]]
    PROVE  GoesOn(w, step) /\ run'[w].left = left /\ (run'[w].copied <=> copied)
<1>1. run \in [Workers -> RunType] /\ run[w] \in RunType
  BY TypeParts
<1>2. run'[w] = [run[w] EXCEPT !.at = step, !.left = left, !.copied = copied]
  BY <1>1
<1>3. OthersStay(w)
  BY <1>1 DEF OthersStay
<1>4. GoesOn(w, step) /\ run'[w].left = left
  BY <1>1, <1>2, <1>3 DEF GoesOn, RunType
<1>5. run'[w].copied <=> copied
  BY <1>1, <1>2, Zenon DEF RunType
<1> QED
  BY <1>4, <1>5

LEMMA GoToGoesOn ==
    ASSUME TypeOK, NEW w \in Workers, NEW step, GoTo(w, step)
    PROVE  /\ GoesOn(w, step) /\ run'[w].left = run[w].left
           /\ run'[w].copied <=> run[w].copied
<1>1. run \in [Workers -> RunType] /\ run[w] \in RunType
  BY TypeParts
<1>2. run'[w] = [run[w] EXCEPT !.at = step] /\ OthersStay(w)
  BY <1>1 DEF GoTo, OthersStay
<1>3. GoesOn(w, step) /\ run'[w].left = run[w].left
  BY <1>1, <1>2 DEF GoesOn, RunType
<1>4. run'[w].copied <=> run[w].copied
  BY <1>1, <1>2, Zenon DEF RunType
<1> QED
  BY <1>3, <1>4

(* A run goes on, writes for its own job only, and its books are right. *)
Steady(w) ==
    /\ OthersStay(w) /\ job' = job
    /\ run[w].at # "idle" /\ run'[w].at # "idle" /\ run'[w].job = run[w].job
    /\ \A d \in Jobs : d # run[w].job =>
          requests'[d] = requests[d] /\ (d \in processed' <=> d \in processed)
    /\ RunBalances(w)'

(* Of a job whose request and row are left alone. *)
LEMMA BooksKept ==
    ASSUME NEW d, NEW v \in Workers, requests'[d] = requests[d],
           d \in processed' <=> d \in processed
    PROVE  /\ Pristine(d)' <=> Pristine(d)
           /\ Closed(d)' <=> Closed(d)
           /\ Balanced(d)' <=> Balanced(d)
           /\ run'[v] = run[v] => (Underway(v, d)' <=> Underway(v, d))
<1>1. First(d)' = First(d) /\ Saving(d)' = Saving(d) /\ Queuing(d)' = Queuing(d)
  BY DEF First, Saving, Queuing
<1>2. (Pristine(d)' <=> Pristine(d)) /\ (Closed(d)' <=> Closed(d))
  BY <1>1 DEF Pristine, Closed
<1>3. Balanced(d)' <=> Balanced(d)
  BY <1>1 DEF Balanced
<1>4. run'[v] = run[v] => (Underway(v, d)' <=> Underway(v, d))
  BY <1>1 DEF Underway
<1> QED
  BY <1>2, <1>3, <1>4

LEMMA RunKept ==
    ASSUME NEW v \in Workers, run'[v] = run[v], UNCHANGED <<processed, requests>>,
           RunBalances(v)
    PROVE  RunBalances(v)'
<1>1. PICK d : d = run[v].job
  OBVIOUS
<1>2. /\ Pristine(d)' <=> Pristine(d)
      /\ Closed(d)' <=> Closed(d)
      /\ Balanced(d)' <=> Balanced(d)
      /\ Underway(v, d)' <=> Underway(v, d)
  BY BooksKept
<1> QED
  BY <1>1, <1>2 DEF RunBalances

LEMMA SteadyBalances ==
    ASSUME IInv, RunsOwn, \A v \in Workers : RunBalances(v),
           \A d \in Jobs : JobBalances(d), NEW w \in Workers, Steady(w)
    PROVE  RunsOwn' /\ (\A v \in Workers : RunBalances(v)')
                    /\ (\A d \in Jobs : JobBalances(d)')
<1>1. /\ run[w].job \in Jobs /\ job[run[w].job].owner = w
      /\ job[run[w].job].state = "active"
      /\ \A v \in Workers : run[v].at # "idle" => run[v].job \in Jobs
  BY TypeParts DEF IInv, Steady, HasJob, RunsOwn, JobInv
<1>2. RunsOwn'
  BY DEF RunsOwn, Steady, OthersStay
<1>3. ASSUME NEW v \in Workers, v # w
      PROVE  RunBalances(v)'
  <2>1. run'[v] = run[v] /\ RunBalances(v)
    BY <1>3 DEF Steady, OthersStay
  <2>2. CASE run[v].at = "idle"
    BY <2>1, <2>2 DEF RunBalances
  <2>3. CASE run[v].at # "idle"
    <3>1. PICK d \in Jobs : d = run[v].job /\ d # run[w].job
      BY <1>1, <1>3, <2>3 DEF RunsOwn
    <3>2. requests'[d] = requests[d] /\ (d \in processed' <=> d \in processed)
      BY <3>1 DEF Steady
    <3> QED
      BY <2>1, <3>1, <3>2, BooksKept DEF RunBalances
  <2> QED
    BY <2>2, <2>3
<1>4. RunBalances(w)'
  BY DEF Steady
<1>5. ASSUME NEW d \in Jobs
      PROVE  JobBalances(d)'
  <2>1. CASE d = run[w].job
    BY <1>1, <2>1 DEF JobBalances, Steady
  <2>2. CASE d # run[w].job
    <3>1. /\ requests'[d] = requests[d] /\ (d \in processed' <=> d \in processed)
          /\ job' = job /\ JobBalances(d)
      BY <2>2 DEF Steady
    <3>2. ASSUME NEW u \in Workers, job[d].owner = u, run[u].job = d,
                 run[u].at # "idle"
          PROVE  run'[u].job = d /\ run'[u].at # "idle"
      BY <2>2, <3>2 DEF Steady, OthersStay
    <3> QED
      BY <3>1, <3>2 DEF JobBalances, Pristine, Balanced, First, Saving, Queuing
  <2> QED
    BY <2>1, <2>2
<1> QED
  BY <1>2, <1>3, <1>4, <1>5

(* The only request of a job is changed in its place. *)
LEMMA FirstChanges ==
    ASSUME TypeOK, NEW d \in Deliveries, Len(requests[d]) = 1, NEW r \in RequestType,
           requests' = [requests EXCEPT ![d] = [requests[d] EXCEPT ![1] = r]]
    PROVE  /\ Len(requests'[d]) = 1 /\ First(d)' = r
           /\ \A e \in Deliveries : e # d => requests'[e] = requests[e]
<1>1. requests \in [Deliveries -> Seq(RequestType)]
  BY TypeParts
<1>2. PICK s : s = [requests[d] EXCEPT ![1] = r]
  OBVIOUS
<1>3. Len(s) = 1 /\ s[1] = r
  <2>1. requests[d] \in Seq(RequestType) /\ 1 \in 1..Len(requests[d])
    BY <1>1
  <2> QED
    BY <1>2, <2>1, ExceptSeq
<1>4. requests' = [requests EXCEPT ![d] = s]
  BY <1>2
<1> QED
  BY <1>1, <1>3, <1>4 DEF First

LEMMA FirstTyped ==
    ASSUME TypeOK, NEW d \in Deliveries, Len(requests[d]) = 1
    PROVE  First(d) \in RequestType
<1>1. requests[d] \in Seq(RequestType) /\ 1 \in 1..Len(requests[d])
  BY TypeParts
<1> QED
  BY <1>1, ElementOfSeq DEF First

LEMMA OrderChanges ==
    ASSUME TypeOK, NEW d \in Deliveries, Len(requests[d]) = 1, NEW c \in Accounts,
           NEW state \in {"saved", "queued"},
           requests' = [requests EXCEPT ![d][1].order[c] = state]
    PROVE  /\ Len(requests'[d]) = 1 /\ First(d)'.status = First(d).status
           /\ Saving(d)' = IF state = "saved" THEN Saving(d) \cup {c}
                                              ELSE Saving(d) \ {c}
           /\ Queuing(d)' = IF state = "queued" THEN Queuing(d) \cup {c}
                                                ELSE Queuing(d) \ {c}
           /\ \A e \in Deliveries : e # d => requests'[e] = requests[e]
<1>1. First(d) \in RequestType
  BY FirstTyped
<1>2. PICK orders : orders = [First(d).order EXCEPT ![c] = state]
  OBVIOUS
<1>3. orders \in [Accounts -> {"none", "saved", "queued"}]
  BY <1>1, <1>2 DEF RequestType
<1>4. PICK r : r = [First(d) EXCEPT !.order = orders]
  OBVIOUS
<1>5. r \in RequestType /\ r.order = orders /\ r.status = First(d).status
  BY <1>1, <1>3, <1>4 DEF RequestType
<1>6. requests' = [requests EXCEPT ![d] = [requests[d] EXCEPT ![1] = r]]
  BY <1>2, <1>4 DEF First
<1>7. /\ Len(requests'[d]) = 1 /\ First(d)' = r
      /\ \A e \in Deliveries : e # d => requests'[e] = requests[e]
  BY <1>5, <1>6, FirstChanges
<1>8. \A a \in Accounts : orders[a] = IF a = c THEN state ELSE First(d).order[a]
  BY <1>1, <1>2 DEF RequestType
<1> QED
  BY <1>5, <1>7, <1>8 DEF Saving, Queuing

LEMMA StatusChanges ==
    ASSUME TypeOK, NEW d \in Deliveries, Len(requests[d]) = 1,
           NEW verdict \in {"completed", "failed"},
           requests' = [requests EXCEPT ![d][1].status = verdict]
    PROVE  /\ Len(requests'[d]) = 1 /\ First(d)'.status = verdict
           /\ Saving(d)' = Saving(d) /\ Queuing(d)' = Queuing(d)
           /\ \A e \in Deliveries : e # d => requests'[e] = requests[e]
<1>1. First(d) \in RequestType
  BY FirstTyped
<1>2. PICK r : r = [First(d) EXCEPT !.status = verdict]
  OBVIOUS
<1>3. r \in RequestType /\ r.order = First(d).order /\ r.status = verdict
  BY <1>1, <1>2 DEF RequestType
<1>4. requests' = [requests EXCEPT ![d] = [requests[d] EXCEPT ![1] = r]]
  BY <1>2 DEF First
<1>5. /\ Len(requests'[d]) = 1 /\ First(d)' = r
      /\ \A e \in Deliveries : e # d => requests'[e] = requests[e]
  BY <1>3, <1>4, FirstChanges
<1> QED
  BY <1>3, <1>5 DEF Saving, Queuing

LEMMA CreateBalances ==
    ASSUME TypeOK, NEW w \in Workers, run[w].job \in Jobs, RunBalances(w),
           CreateTradeRequest(w)
    PROVE  Steady(w)
<1>0. PICK d \in Jobs : d = run[w].job
  OBVIOUS
<1>1. run[w].at = "create" /\ UNCHANGED <<job, processed>> /\ Pristine(d)
  BY <1>0 DEF CreateTradeRequest, RunBalances
<1>2. /\ run \in [Workers -> RunType] /\ run[w] \in RunType
      /\ requests \in [Deliveries -> Seq(RequestType)]
      /\ Len(requests[d]) = 0
  BY <1>1, TypeParts DEF Pristine
<1>2a. PICK k : k = Len(requests[d]) + 1
  OBVIOUS
<1>2b. k = 1
  BY <1>2, <1>2a
<1>3. PICK passed \in BOOLEAN :
        /\ requests' = [requests EXCEPT
             ![d] = Append(@, NewRequest(IF passed THEN "copying"
                                                   ELSE "risk_rejected"))]
        /\ run' = [run EXCEPT ![w].at = IF passed THEN "copyMappings" ELSE "ack",
                              ![w].ok = ~passed,
                              ![w].n  = k]
  BY <1>0, <1>2a DEF CreateTradeRequest, JobOf
<1>4. PICK r : r = NewRequest(IF passed THEN "copying" ELSE "risk_rejected")
  OBVIOUS
<1>5. /\ r.status = IF passed THEN "copying" ELSE "risk_rejected"
      /\ \A c \in Accounts : r.order[c] = "none"
      /\ r \in RequestType
  BY <1>4 DEF NewRequest, RequestType
<1>6. PICK s : s = Append(requests[d], r)
  OBVIOUS
<1>7. Len(s) = 1 /\ s[1] = r
  <2>1. requests[d] \in Seq(RequestType)
    BY <1>2
  <2> QED
    BY <1>2, <1>5, <1>6, <2>1, AppendProperties
<1>8. requests' = [requests EXCEPT ![d] = s]
  BY <1>3, <1>4, <1>6
<1>9. /\ Len(requests'[d]) = 1 /\ First(d)' = r
      /\ Saving(d)' = {} /\ Queuing(d)' = {}
      /\ \A e \in Deliveries : e # d => requests'[e] = requests[e]
  <2>1. /\ requests'[d] = s
        /\ \A e \in Deliveries : e # d => requests'[e] = requests[e]
    BY <1>2, <1>8
  <2> QED
    BY <1>5, <1>7, <2>1 DEF First, Saving, Queuing
<1>10. /\ OthersStay(w) /\ run'[w].job = d /\ run'[w].n = 1
       /\ run'[w].at = IF passed THEN "copyMappings" ELSE "ack"
       /\ run'[w].left = run[w].left
  <2>1. /\ run'[w] = [run[w] EXCEPT !.at = IF passed THEN "copyMappings" ELSE "ack",
                                    !.ok = ~passed, !.n = k]
        /\ OthersStay(w)
    BY <1>2, <1>3 DEF OthersStay
  <2> QED
    BY <1>0, <1>2, <1>2b, <2>1 DEF RunType
<1>10a. (run'[w].ok <=> ~passed) /\ (run'[w].copied <=> run[w].copied)
  <2>1. run'[w] = [run[w] EXCEPT !.at = IF passed THEN "copyMappings" ELSE "ack",
                                 !.ok = ~passed, !.n = k]
    BY <1>2, <1>3
  <2> QED
    BY <1>2, <2>1, Zenon DEF RunType
<1>11. RunBalances(w)'
  <2>1. CASE passed
    <3>1. First(d)'.status = "copying" /\ run'[w].at = "copyMappings"
      BY <1>5, <1>9, <1>10, <2>1
    <3>2. ~run'[w].copied
      BY <1>1, <1>10a DEF RunBalances
    <3> QED
      BY <1>1, <1>9, <1>10, <3>1, <3>2 DEF RunBalances, Underway, Pristine
  <2>2. CASE ~passed
    <3>1. First(d)'.status = "risk_rejected" /\ run'[w].at = "ack"
      BY <1>5, <1>9, <1>10, <2>2
    <3>2. run'[w].ok
      BY <1>10a, <2>2
    <3> QED
      BY <1>1, <1>9, <1>10, <3>1, <3>2 DEF RunBalances, Balanced, Pristine
  <2> QED
    BY <2>1, <2>2
<1> QED
  BY <1>0, <1>1, <1>9, <1>10, <1>11 DEF Steady

LEMMA LoadBalances ==
    ASSUME TypeOK, NEW w \in Workers, RunBalances(w), LoadCopierMappings(w)
    PROVE  Steady(w)
<1>1. run[w].at = "copyMappings" /\ UNCHANGED <<job, processed, requests>>
  BY DEF LoadCopierMappings
<1>2. PICK left : run' = [run EXCEPT ![w] = [run[w] EXCEPT !.at = "copy",
                                    !.left = left, !.copied = run[w].copied]]
  <2>1. run \in [Workers -> RunType] /\ run[w] \in RunType
    BY TypeParts
  <2>2. PICK left : run' = [run EXCEPT ![w].at = "copy", ![w].left = left]
    BY DEF LoadCopierMappings
  <2>3. [run[w] EXCEPT !.at = "copy", !.left = left]
          = [run[w] EXCEPT !.at = "copy", !.left = left, !.copied = run[w].copied]
    BY <2>1 DEF RunType
  <2> QED
    BY <2>2, <2>3
<1>3. GoesOn(w, "copy") /\ run'[w].left = left /\ (run'[w].copied <=> run[w].copied)
  <2>1. run[w].copied \in BOOLEAN
    BY TypeParts DEF RunType
  <2> QED
    BY <1>2, <2>1, RunGoesOn, Zenon
<1>4. Underway(w, run[w].job) /\ Queuing(run[w].job) = {}
  BY <1>1 DEF RunBalances, Underway
<1>5. Underway(w, run[w].job)'
  BY <1>1, <1>3, <1>4 DEF Underway, GoesOn, Saving, Queuing, First
<1> QED
  BY <1>1, <1>3, <1>5 DEF Steady, GoesOn, RunBalances

LEMMA CopyBalances ==
    ASSUME TypeOK, NEW w \in Workers, run[w].job \in Jobs, RunBalances(w),
           NEW c \in Accounts,
           PersistOrder(w, c) \/ SkipAccount(w, c) \/ EnqueueOrder(w, c)
    PROVE  Steady(w)
<1>0. PICK d \in Jobs : d = run[w].job
  OBVIOUS
<1>1. UNCHANGED <<job, processed>> /\ run[w].at \in {"copy", "enqueue"}
  BY DEF PersistOrder, SkipAccount, EnqueueOrder
<1>2. Underway(w, d)
  BY <1>0, <1>1 DEF RunBalances
<1>3. Len(requests[d]) = 1 /\ run[w].n = 1
  BY <1>2 DEF Underway
<1>4. CASE PersistOrder(w, c)
  <2>1. /\ requests' = [requests EXCEPT ![d][1].order[c] = "saved"]
        /\ GoTo(w, "enqueue") /\ run[w].at = "copy" /\ c \in run[w].left
    BY <1>0, <1>3, <1>4 DEF PersistOrder, JobOf
  <2>2. /\ GoesOn(w, "enqueue") /\ run'[w].left = run[w].left
        /\ (run'[w].copied <=> run[w].copied)
    BY <2>1, GoToGoesOn
  <2>3. /\ Len(requests'[d]) = 1 /\ First(d)'.status = First(d).status
        /\ Saving(d)' = Saving(d) \cup {c} /\ Queuing(d)' = Queuing(d) \ {c}
        /\ \A e \in Deliveries : e # d => requests'[e] = requests[e]
    BY <1>3, <2>1, OrderChanges
  <2>4. Saving(d)' = {c} /\ Queuing(d)' = Queuing(d)
    BY <1>2, <2>1, <2>3 DEF Underway
  <2>5. Underway(w, d)'
    BY <1>1, <1>2, <2>2, <2>3, <2>4 DEF Underway, GoesOn
  <2> QED
    BY <1>0, <1>1, <2>2, <2>3, <2>5 DEF Steady, GoesOn, RunBalances
<1>5. CASE SkipAccount(w, c)
  <2>1. /\ requests' = requests /\ run[w].at = "copy"
        /\ run' = [run EXCEPT ![w] = [run[w] EXCEPT !.at = "copy",
                     !.left = run[w].left \ {c}, !.copied = run[w].copied]]
    <3>1. run \in [Workers -> RunType] /\ run[w] \in RunType /\ run[w].at = "copy"
      BY <1>5, TypeParts DEF SkipAccount
    <3>2. [run[w] EXCEPT !.left = run[w].left \ {c}]
            = [run[w] EXCEPT !.at = "copy", !.left = run[w].left \ {c},
                             !.copied = run[w].copied]
      BY <3>1 DEF RunType
    <3>3. run' = [run EXCEPT ![w] = [run[w] EXCEPT !.left = run[w].left \ {c}]]
      BY <1>5 DEF SkipAccount
    <3> QED
      BY <1>5, <3>1, <3>2, <3>3 DEF SkipAccount
  <2>2. /\ GoesOn(w, "copy") /\ run'[w].left = run[w].left \ {c}
        /\ (run'[w].copied <=> run[w].copied)
    <3>1. run[w].copied \in BOOLEAN
      BY TypeParts DEF RunType
    <3>2. PICK left : left = run[w].left \ {c}
      OBVIOUS
    <3>3. run' = [run EXCEPT ![w] = [run[w] EXCEPT !.at = "copy", !.left = left,
                                                  !.copied = run[w].copied]]
      BY <2>1, <3>2
    <3>4. /\ GoesOn(w, "copy") /\ run'[w].left = left
          /\ run'[w].copied <=> run[w].copied
      BY <3>1, <3>3, RunGoesOn, Zenon
    <3> QED
      BY <3>2, <3>4
  <2>3. Underway(w, d)'
    BY <1>1, <1>2, <2>1, <2>2 DEF Underway, GoesOn, Saving, Queuing, First
  <2> QED
    BY <1>0, <1>1, <2>1, <2>2, <2>3 DEF Steady, GoesOn, RunBalances
<1>6. CASE EnqueueOrder(w, c)
  <2>1. /\ requests' = [requests EXCEPT ![d][1].order[c] = "queued"]
        /\ run[w].at = "enqueue" /\ c \in Saving(d)
        /\ run' = [run EXCEPT ![w] = [run[w] EXCEPT !.at = "copy",
                     !.left = run[w].left \ {c}, !.copied = TRUE]]
    BY <1>0, <1>3, <1>6 DEF EnqueueOrder, Saved, JobOf, Saving, First
  <2>2. /\ GoesOn(w, "copy") /\ run'[w].left = run[w].left \ {c}
        /\ run'[w].copied
    BY <2>1, RunGoesOn
  <2>3. /\ Len(requests'[d]) = 1 /\ First(d)'.status = First(d).status
        /\ Saving(d)' = Saving(d) \ {c} /\ Queuing(d)' = Queuing(d) \cup {c}
        /\ \A e \in Deliveries : e # d => requests'[e] = requests[e]
    BY <1>3, <2>1, OrderChanges
  <2>4. Saving(d)' = {}
    BY <1>2, <2>1, <2>3 DEF Underway
  <2>5. Underway(w, d)'
    BY <1>1, <1>2, <2>2, <2>3, <2>4 DEF Underway, GoesOn
  <2> QED
    BY <1>0, <1>1, <2>2, <2>3, <2>5 DEF Steady, GoesOn, RunBalances
<1> QED
  BY <1>4, <1>5, <1>6

LEMMA EndBalances ==
    ASSUME TypeOK, NEW w \in Workers, run[w].job \in Jobs, RunBalances(w),
           AllCopied(w) \/ UpdateTradeRequestStatus(w) \/ MarkAlertProcessed(w)
    PROVE  Steady(w)
<1>0. PICK d \in Jobs : d = run[w].job
  OBVIOUS
<1>1. CASE AllCopied(w)
  <2>1. /\ UNCHANGED <<job, processed, requests>> /\ run[w].at = "copy"
        /\ GoTo(w, "status")
    BY <1>1 DEF AllCopied
  <2>2. /\ GoesOn(w, "status") /\ run'[w].left = run[w].left
        /\ (run'[w].copied <=> run[w].copied)
    BY <2>1, GoToGoesOn
  <2>3. Underway(w, d)
    BY <1>0, <2>1 DEF RunBalances
  <2>4. Underway(w, d)'
    BY <2>1, <2>2, <2>3 DEF Underway, GoesOn, Saving, Queuing, First
  <2> QED
    BY <1>0, <2>1, <2>2, <2>4 DEF Steady, GoesOn, RunBalances
<1>2. CASE UpdateTradeRequestStatus(w)
  <2>1. /\ UNCHANGED <<job, processed>> /\ run[w].at = "status"
        /\ GoTo(w, "mark")
    BY <1>2 DEF UpdateTradeRequestStatus
  <2>2. Underway(w, d) /\ Saving(d) = {}
    BY <1>0, <2>1 DEF RunBalances, Underway
  <2>3. PICK verdict \in {"completed", "failed"} :
           /\ requests' = [requests EXCEPT ![d][1].status = verdict]
           /\ verdict = "completed" <=> run[w].copied
    <3>1. run[w].n = 1
      BY <2>2 DEF Underway
    <3>2. CASE run[w].copied
      BY <1>0, <1>2, <3>1, <3>2 DEF UpdateTradeRequestStatus, JobOf
    <3>3. CASE ~run[w].copied
      BY <1>0, <1>2, <3>1, <3>3 DEF UpdateTradeRequestStatus, JobOf
    <3> QED
      BY <3>2, <3>3
  <2>4. GoesOn(w, "mark")
    BY <2>1, GoToGoesOn
  <2>5. /\ Len(requests'[d]) = 1 /\ First(d)'.status = verdict
        /\ Saving(d)' = Saving(d) /\ Queuing(d)' = Queuing(d)
        /\ \A e \in Deliveries : e # d => requests'[e] = requests[e]
    BY <2>2, <2>3, StatusChanges DEF Underway
  <2>6. Closed(d)'
    BY <2>1, <2>2, <2>3, <2>5 DEF Closed, Underway
  <2> QED
    BY <1>0, <2>1, <2>4, <2>5, <2>6 DEF Steady, GoesOn, RunBalances
<1>3. CASE MarkAlertProcessed(w)
  <2>1. /\ UNCHANGED <<job, requests>> /\ run[w].at = "mark"
        /\ processed' = processed \cup {d} /\ Finish(w, TRUE)
    BY <1>0, <1>3 DEF MarkAlertProcessed, JobOf
  <2>2. run \in [Workers -> RunType] /\ run[w] \in RunType
    BY TypeParts
  <2>3. run'[w] = [run[w] EXCEPT !.at = "ack", !.ok = TRUE] /\ OthersStay(w)
    BY <2>1, <2>2 DEF Finish, OthersStay
  <2>4. run'[w].at = "ack" /\ run'[w].job = d
    BY <1>0, <2>2, <2>3 DEF RunType
  <2>5. run'[w].ok
    BY <2>2, <2>3, Zenon DEF RunType
  <2>6. Closed(d)
    BY <1>0, <2>1 DEF RunBalances
  <2>7. Balanced(d)'
    BY <2>1, <2>6 DEF Balanced, Closed, Saving, Queuing, First
  <2> QED
    BY <1>0, <2>1, <2>3, <2>4, <2>5, <2>7 DEF Steady, RunBalances
<1> QED
  BY <1>1, <1>2, <1>3

LEMMA NextBalances ==
    ASSUME IInv, IInv', BInv, [Next]_vars
    PROVE  BInv'
<1>1. /\ TypeOK /\ TypeOK' /\ JobTypeOK /\ JobInv /\ run \in [Workers -> RunType]
      /\ WithinBudget /\ budget.slow <= MaxSlow
      /\ \A w \in Workers : run[w].at # "idle" => run[w].job \in Jobs
  BY TypeParts DEF IInv, BInv, HasJob
<1>2. /\ WithinBudget' /\ budget'.slow <= MaxSlow
      /\ Undisturbed' => Undisturbed
  BY <1>1, BudgetDrops
<1> SUFFICES ASSUME Undisturbed'
             PROVE  RunsOwn' /\ (\A w \in Workers : RunBalances(w)')
                             /\ (\A d \in Jobs : JobBalances(d)')
  BY <1>2 DEF BInv
<1>3. /\ RunsOwn /\ \A w \in Workers : RunBalances(w)
      /\ \A d \in Jobs : JobBalances(d)
  BY <1>2 DEF BInv
<1> DEFINE Books == RunsOwn' /\ (\A w \in Workers : RunBalances(w)')
                             /\ (\A d \in Jobs : JobBalances(d)')
<1>4. ASSUME NEW w \in Workers,
             \/ CreateTradeRequest(w) \/ LoadCopierMappings(w)
             \/ \E c \in Accounts :
                   PersistOrder(w, c) \/ SkipAccount(w, c) \/ EnqueueOrder(w, c)
             \/ AllCopied(w) \/ UpdateTradeRequestStatus(w) \/ MarkAlertProcessed(w)
      PROVE  Books
  <2>1. RunBalances(w) /\ run[w].job \in Jobs
    BY <1>1, <1>3, <1>4 DEF CreateTradeRequest, LoadCopierMappings, PersistOrder,
         SkipAccount, EnqueueOrder, AllCopied, UpdateTradeRequestStatus,
         MarkAlertProcessed
  <2>2. Steady(w)
    BY <1>1, <1>4, <2>1, CreateBalances, LoadBalances, CopyBalances, EndBalances
  <2> QED
    BY <1>3, <2>2, SteadyBalances
<1>5. ASSUME NEW w \in Workers, NEW j \in Jobs, Take(w, j)
      PROVE  Books
  <2>1. /\ run[w].at = "idle" /\ StartJob(w, j) /\ job[j].state = "waiting"
        /\ UNCHANGED <<processed, requests>>
    BY <1>5 DEF Take, StartJob
  <2>2. Becomes(j, "active", job[j].made, job[j].stalls, w)
    BY <1>1, <2>1, StartsJob
  <2>3. /\ run'[w].at = "create" /\ run'[w].job = j
        /\ \A v \in Workers : v # w => run'[v] = run[v]
    BY <1>1, <1>5 DEF Take, Idle
  <2>3a. ~run'[w].copied
    BY <1>1, <1>5, Zenon DEF Take, Idle
  <2>4. Pristine(j) /\ job[j].owner \notin Workers
    BY <1>1, <1>3, <2>1 DEF JobBalances, JobInv
  <2>5. RunsOwn'
    <3>1. ASSUME NEW v \in Workers, v # w, run[v].at # "idle"
          PROVE  job'[run[v].job].owner = v
      BY <1>1, <1>3, <2>2, <2>4, <3>1 DEF RunsOwn, Becomes
    <3> QED
      BY <2>2, <2>3, <3>1 DEF RunsOwn, Becomes
  <2>6. ASSUME NEW v \in Workers PROVE RunBalances(v)'
    <3>1. CASE v = w
      BY <2>1, <2>3, <2>3a, <2>4, <3>1 DEF RunBalances, Pristine
    <3>2. CASE v # w
      <4>1. run'[v] = run[v]
        BY <2>3, <3>2
      <4>2. RunBalances(v)
        BY <1>3
      <4>3. /\ Pristine(run[v].job)' <=> Pristine(run[v].job)
            /\ Balanced(run[v].job)' <=> Balanced(run[v].job)
        BY <2>1, <4>1 DEF Pristine, Balanced, First, Saving, Queuing
      <4>4. /\ Underway(v, run[v].job)' <=> Underway(v, run[v].job)
            /\ Closed(run[v].job)' <=> Closed(run[v].job)
        BY <2>1, <4>1 DEF Underway, Closed, First, Saving, Queuing
      <4> QED
        BY <4>1, <4>2, <4>3, <4>4 DEF RunBalances
    <3> QED
      BY <3>1, <3>2
  <2>7. ASSUME NEW d \in Jobs PROVE JobBalances(d)'
    <3>1. CASE d = j
      BY <2>2, <2>3, <3>1 DEF JobBalances, Becomes
    <3>2. CASE d # j
      <4>1. job'[d] = job[d] /\ JobBalances(d)
        BY <1>3, <2>2, <3>2 DEF Becomes
      <4>2. \A u \in Workers : run[u].at # "idle" => run'[u] = run[u]
        BY <2>1, <2>3
      <4> QED
        BY <2>1, <4>1, <4>2 DEF JobBalances, Pristine, Balanced, First, Saving, Queuing
    <3> QED
      BY <3>1, <3>2
  <2> QED
    BY <2>5, <2>6, <2>7
<1>6. ASSUME NEW w \in Workers, Acknowledge(w)
      PROVE  Books
  <2>1. PICK j \in Jobs : j = run[w].job
    BY <1>1, <1>6 DEF Acknowledge
  <2>2. /\ run[w].at = "ack" /\ UNCHANGED <<processed, requests>>
        /\ run[w].ok /\ job[j].owner = w /\ Balanced(j)
        /\ run' = [run EXCEPT ![w] = Idle]
    BY <1>3, <1>6, <2>1 DEF Acknowledge, RunBalances, RunsOwn
  <2>3. Becomes(j, "completed", job[j].made, job[j].stalls, None)
    BY <1>1, <1>6, <2>1, <2>2 DEF Acknowledge, JobOf, SettleJob, JobTypeOK, Becomes
  <2>4. OthersStay(w) /\ run'[w].at = "idle"
    BY <1>1, <2>2, IdleType DEF OthersStay
  <2>5. \A v \in Workers : v # w /\ run[v].at # "idle" => run[v].job # j
    BY <1>3, <2>2 DEF RunsOwn
  <2>6. RunsOwn'
    BY <1>1, <1>3, <2>3, <2>4, <2>5 DEF RunsOwn, OthersStay, Becomes
  <2>7. ASSUME NEW v \in Workers PROVE RunBalances(v)'
    <3>1. CASE v = w
      BY <2>4, <3>1 DEF RunBalances
    <3>2. CASE v # w
      <4>1. run'[v] = run[v] /\ RunBalances(v)
        BY <1>3, <2>4, <3>2 DEF OthersStay
      <4> QED
        BY <2>2, <4>1, RunKept
    <3> QED
      BY <3>1, <3>2
  <2>8. ASSUME NEW d \in Jobs PROVE JobBalances(d)'
    <3>1. CASE d = j
      BY <2>2, <2>3, <3>1 DEF JobBalances, Becomes, Balanced, First, Saving, Queuing
    <3>2. CASE d # j
      <4>1. job'[d] = job[d] /\ JobBalances(d)
        BY <1>3, <2>3, <3>2 DEF Becomes
      <4>2. \A u \in Workers : run[u].job = d => run'[u] = run[u]
        BY <2>1, <2>4, <3>2 DEF OthersStay
      <4> QED
        BY <2>2, <4>1, <4>2 DEF JobBalances, Pristine, Balanced, First, Saving, Queuing
    <3> QED
      BY <3>1, <3>2
  <2> QED
    BY <2>6, <2>7, <2>8
<1>7. ASSUME UNCHANGED <<job, run, processed, requests>>
      PROVE  Books
  <2>1. RunsOwn'
    BY <1>3, <1>7 DEF RunsOwn
  <2>2. ASSUME NEW v \in Workers PROVE RunBalances(v)'
    BY <1>3, <1>7, RunKept
  <2>3. ASSUME NEW d \in Jobs PROVE JobBalances(d)'
    <3>1. (Pristine(d)' <=> Pristine(d)) /\ (Balanced(d)' <=> Balanced(d))
      BY <1>7 DEF Pristine, Balanced, First, Saving, Queuing
    <3> QED
      BY <1>3, <1>7, <3>1 DEF JobBalances
  <2> QED
    BY <2>1, <2>2, <2>3
<1>8. CASE \/ UNCHANGED vars
           \/ \E d \in Deliveries : \/ Receive(d) \/ Refuse(d) \/ Handle(d)
                                    \/ WebhookFault(d)
  BY <1>7, <1>8 DEF vars, Receive, Refuse, Handle, LookUp, PersistAlert, Enqueue,
                    WebhookFault, ProcessorVars
<1>9. ~ \/ \E w \in Workers : \/ Fault(w) \/ CatchError(w)
                              \/ \E c \in Accounts : CopierFault(w, c)
        \/ Crash
  <2>1. ~Spend("faults") /\ ~Spend("crashes")
    BY <1>1, DisturbanceShows
  <2> QED
    BY <1>3, <2>1 DEF Fault, CopierFault, Crash, CatchError, RunBalances
<1>10. ~ \E d \in Jobs : StallDead(d) \/ StallSlow(d)
  <2>1. ~Spend("slow")
    BY <1>1, DisturbanceShows
  <2>2. ASSUME NEW d \in Jobs, job[d].state = "active"
        PROVE  Working(job[d].owner, d)
    BY <1>3, <2>2 DEF JobBalances, Working
  <2> QED
    BY <2>1, <2>2 DEF StallDead, StallSlow, StallJob
<1> QED
  BY <1>4, <1>5, <1>6, <1>8, <1>9, <1>10 DEF Next, WorkerStep

LEMMA InitBalances == Init => BInv
<1> SUFFICES ASSUME Init PROVE BInv
  OBVIOUS
<1>1. /\ \A w \in Workers : run[w].at = "idle"
      /\ \A d \in Jobs : job[d].state = "waiting" /\ requests[d] = <<>>
      /\ processed = {} /\ budget.slow = MaxSlow
  BY DEF Init, JobInit, Idle
<1>2. \A d \in Jobs : Pristine(d)
  BY <1>1, EmptySeq DEF Pristine
<1>3. WithinBudget /\ budget.slow <= MaxSlow
  BY <1>1, BudgetInit
<1> QED
  BY <1>1, <1>2, <1>3 DEF BInv, RunsOwn, RunBalances, JobBalances

(* As long as nothing failed, died or was handed out twice, a completed job *)
(* leaves one request, rejected or completed exactly if an order is queued, *)
(* every saved order queued, and its row marked unless it was rejected      *)
(* (BooksBalance).                                                          *)
THEOREM BooksBalanceHolds == Spec => []BooksBalance
<1>1. IInv /\ BInv /\ [Next]_vars => (IInv /\ BInv)'
  BY NextInv, NextBalances
<1>2. Init => IInv /\ BInv
  BY InitInv, InitBalances
<1>3. BInv => BooksBalance
  BY DEF BInv, BooksBalance, JobBalances, Balanced, First, Saving, Queuing
<1> QED
  BY <1>1, <1>2, <1>3, PTL DEF Spec

-----------------------------------------------------------------------------
(***************************************************************************)
(* The other half of the MVP path: the order processor, over its own queue. *)
(* Here job is the record of the order queue; the lemmas on the queue above *)
(* are about any queue.                                                     *)
(*                                                                         *)
(* PlacementsBounded is not inductive, for the reason RequestsBounded is    *)
(* not: a run that has still to place its order may be one whose job was    *)
(* handed to another.  PlacementsCounted counts these runs.                 *)
(***************************************************************************)
OrderRunType == [at: OrderRunSteps, order: Jobs \cup {None}, ok: BOOLEAN]
StatusType == {"pending", "submitted", "filled", "rejected"}

HasOrder ==
    \A w \in Workers : orderRun[w].at # "idle" => orderRun[w].order \in Jobs

BeforePlacement == {"account", "connect", "submit", "place"}
Unplaced(j) ==
    {w \in Workers : /\ orderRun[w].order = j
                     /\ orderRun[w].at \in BeforePlacement}

PlacementsCounted ==
    \A j \in Jobs : placements[j] + Cardinality(Unplaced(j)) <= HandedOut(j)

PInv == OrderTypeOK /\ JobInv /\ HasOrder /\ PlacementsCounted

LEMMA OrderTypes ==
    ASSUME OrderTypeOK
    PROVE  /\ JobTypeOK /\ status \in [Jobs -> StatusType]
           /\ orderRun \in [Workers -> OrderRunType]
           /\ placements \in [Jobs -> Nat] /\ executions \in [Jobs -> Nat]
           /\ refused \in Refusals /\ orderBudget \in BudgetType
BY DEF OrderTypeOK, JobTypeOK, JobStates,
       OrderRunType, StatusType, BudgetType

LEMMA OrderTyped ==
    ASSUME JobTypeOK', status' \in [Jobs -> StatusType],
           orderRun' \in [Workers -> OrderRunType],
           placements' \in [Jobs -> Nat], executions' \in [Jobs -> Nat],
           refused' \in Refusals, orderBudget' \in BudgetType
    PROVE  OrderTypeOK'
BY DEF OrderTypeOK, JobTypeOK, JobStates,
       OrderRunType, StatusType, BudgetType

LEMMA UnplacedFinite ==
    ASSUME NEW j \in Jobs
    PROVE  IsFiniteSet(Unplaced(j)) /\ Cardinality(Unplaced(j)) \in Nat
<1>1. Unplaced(j) \subseteq Workers
  BY DEF Unplaced
<1> QED
  BY <1>1, FS_Subset, FS_CardinalityType

(* Only run w has changed: it goes on with its order, or is over. *)
OneRun(w) ==
    /\ orderRun' \in [Workers -> OrderRunType]
    /\ \A v \in Workers : v # w => orderRun'[v] = orderRun[v]

Proceeds(w, step) ==
    /\ OneRun(w)
    /\ orderRun'[w].at = step
    /\ orderRun'[w].order = orderRun[w].order

LEMMA OrderRunChanges ==
    ASSUME OrderTypeOK, NEW w \in Workers, NEW r \in OrderRunType,
           orderRun' = [orderRun EXCEPT ![w] = r]
    PROVE  OneRun(w) /\ orderRun'[w] = r
<1>1. orderRun \in [Workers -> OrderRunType]
  BY OrderTypes
<1> QED
  BY <1>1 DEF OneRun

LEMMA OrderGoesTo ==
    ASSUME OrderTypeOK, NEW w \in Workers, NEW step \in OrderRunSteps,
           OrderGoTo(w, step)
    PROVE  Proceeds(w, step)
<1>1. PICK r : r = [orderRun[w] EXCEPT !.at = step]
  OBVIOUS
<1>2. orderRun' = [orderRun EXCEPT ![w] = r]
  BY <1>1 DEF OrderGoTo
<1>3. orderRun[w] \in OrderRunType
  BY OrderTypes
<1>4. r \in OrderRunType /\ r.at = step /\ r.order = orderRun[w].order
  BY <1>1, <1>3 DEF OrderRunType
<1> QED
  BY <1>2, <1>4, OrderRunChanges DEF Proceeds

LEMMA OrderFinishes ==
    ASSUME OrderTypeOK, NEW w \in Workers, NEW ok \in BOOLEAN,
           FinishOrder(w, ok)
    PROVE  Proceeds(w, "ack") /\ (orderRun'[w].ok <=> ok)
<1>1. PICK r : r = [orderRun[w] EXCEPT !.at = "ack", !.ok = ok]
  OBVIOUS
<1>2. orderRun' = [orderRun EXCEPT ![w] = r]
  BY <1>1 DEF FinishOrder
<1>3. orderRun[w] \in OrderRunType /\ "ack" \in OrderRunSteps
  BY OrderTypes DEF OrderRunSteps
<1>4. r \in OrderRunType /\ r.at = "ack" /\ r.order = orderRun[w].order
  BY <1>1, <1>3 DEF OrderRunType
<1>5. r.ok <=> ok
  BY <1>1, <1>3, Zenon DEF OrderRunType
<1> QED
  BY <1>2, <1>4, <1>5, OrderRunChanges DEF Proceeds

LEMMA OrderRunIdle ==
    /\ NoOrder \in OrderRunType /\ NoOrder.at = "idle"
    /\ NoOrder.order = None
BY DEF NoOrder, OrderRunType, OrderRunSteps

LEMMA OrderSpends ==
    ASSUME OrderTypeOK, NEW what \in {"faults", "crashes", "slow"},
           OrderSpend(what)
    PROVE  orderBudget' \in BudgetType
<1>1. orderBudget \in BudgetType
  BY OrderTypes
<1> QED
  BY <1>1 DEF OrderSpend, BudgetType

(* A step that places nothing and brings no run back before the placement.  *)
LEMMA NothingPlaced ==
    ASSUME PInv, JobsStay, orderRun' \in [Workers -> OrderRunType],
           \A w \in Workers : \/ orderRun'[w] = orderRun[w]
                              \/ orderRun'[w].at = "idle"
                              \/ /\ orderRun[w].at # "idle"
                                 /\ orderRun'[w].order = orderRun[w].order
                                 /\ orderRun'[w].at \in BeforePlacement
                                      => orderRun[w].at \in BeforePlacement,
           UNCHANGED <<placements, refused>>, status' \in [Jobs -> StatusType],
           executions' \in [Jobs -> Nat], orderBudget' \in BudgetType
    PROVE  PInv'
<1>1. OrderTypeOK'
  BY OrderTypes, OrderTyped DEF PInv, JobsStay
<1>2. HasOrder'
  BY DEF PInv, HasOrder
<1>3. ASSUME NEW j \in Jobs
      PROVE  placements'[j] + Cardinality(Unplaced(j)') <= HandedOut(j)'
  <2>1. Unplaced(j)' \subseteq Unplaced(j)
    BY DEF Unplaced, BeforePlacement
  <2>2. /\ Cardinality(Unplaced(j)') <= Cardinality(Unplaced(j))
        /\ Cardinality(Unplaced(j)') \in Nat /\ Cardinality(Unplaced(j)) \in Nat
    BY <2>1, UnplacedFinite, FS_Subset, FS_CardinalityType
  <2>3. placements[j] \in Nat /\ HandedOut(j) \in Nat
    BY OrderTypes, HandedOutBounded DEF PInv
  <2>4. /\ placements[j] + Cardinality(Unplaced(j)) <= HandedOut(j)
        /\ HandedOut(j)' = HandedOut(j)
    BY DEF PInv, PlacementsCounted, JobsStay
  <2> QED
    BY <2>2, <2>3, <2>4
<1> QED
  BY <1>1, <1>2, <1>3 DEF PInv, PlacementsCounted, JobsStay

(* The step that places: the run is no longer before its placement. *)
LEMMA Placed ==
    ASSUME PInv, NEW w \in Workers,
           orderRun[w].at = "place", Proceeds(w, "record"),
           placements' = [placements EXCEPT ![orderRun[w].order] = @ + 1],
           UNCHANGED <<job, status, executions, refused, orderBudget>>
    PROVE  PInv'
<1>0. PICK o \in Jobs : o = orderRun[w].order
  BY DEF PInv, HasOrder
<1>1. placements \in [Jobs -> Nat]
  BY OrderTypes DEF PInv
<1>2. /\ placements' \in [Jobs -> Nat] /\ placements'[o] = placements[o] + 1
      /\ \A j \in Jobs : j # o => placements'[j] = placements[j]
  BY <1>0, <1>1
<1>3. JobTypeOK' /\ JobInv' /\ \A j \in Jobs : HandedOut(j)' = HandedOut(j)
  BY OrderTypes DEF PInv, JobTypeOK, JobInv, HandedOut
<1>4. OrderTypeOK'
  BY <1>2, <1>3, OrderTypes, OrderTyped DEF PInv, Proceeds, OneRun
<1>5. HasOrder'
  BY <1>0 DEF PInv, HasOrder, Proceeds, OneRun
<1>6. ASSUME NEW j \in Jobs, j # o
      PROVE  placements'[j] + Cardinality(Unplaced(j)') <= HandedOut(j)'
  <2>1. Unplaced(j)' = Unplaced(j)
    BY <1>0, <1>6 DEF Unplaced, Proceeds, OneRun
  <2> QED
    BY <1>2, <1>3, <1>6, <2>1 DEF PInv, PlacementsCounted
<1>7. placements'[o] + Cardinality(Unplaced(o)') <= HandedOut(o)'
  <2>1. w \in Unplaced(o)
    BY <1>0 DEF Unplaced, BeforePlacement
  <2>2. Unplaced(o)' = Unplaced(o) \ {w}
    BY <1>0 DEF Unplaced, Proceeds, OneRun, BeforePlacement
  <2>3. PICK S : S = Unplaced(o)
    OBVIOUS
  <2>4. /\ IsFiniteSet(S) /\ Cardinality(S) \in Nat /\ w \in S
        /\ Unplaced(o)' = S \ {w}
    BY <2>1, <2>2, <2>3, UnplacedFinite
  <2>5. Cardinality(Unplaced(o)') = Cardinality(Unplaced(o)) - 1
    <3>1. Cardinality(S \ {w}) = Cardinality(S) - 1
      BY <2>4, FS_RemoveElement
    <3> QED
      BY <2>3, <2>4, <3>1, Zenon
  <2>6. placements[o] + Cardinality(Unplaced(o)) <= HandedOut(o)
    BY DEF PInv, PlacementsCounted
  <2>7. placements[o] \in Nat /\ HandedOut(o) \in Nat
    BY <1>1, OrderTypes, HandedOutBounded DEF PInv
  <2> QED
    BY <1>2, <1>3, <2>3, <2>4, <2>5, <2>6, <2>7
<1> QED
  BY <1>3, <1>4, <1>5, <1>6, <1>7 DEF PInv, PlacementsCounted

(* A job that is taken is handed out once more. *)
LEMMA OrderTaken ==
    ASSUME PInv, NEW w \in Workers, NEW o \in Jobs, TakeOrder(w, o)
    PROVE  PInv'
<1>1. /\ orderRun[w].at = "idle" /\ StartJob(w, o)
      /\ UNCHANGED <<status, placements, executions, refused, orderBudget>>
  BY DEF TakeOrder
<1>2. PICK r : r = [NoOrder EXCEPT !.at = "account", !.order = o]
  OBVIOUS
<1>3. r \in OrderRunType /\ r.at = "account" /\ r.order = o
  BY <1>2 DEF NoOrder, OrderRunType, OrderRunSteps
<1>4. orderRun' = [orderRun EXCEPT ![w] = r]
  BY <1>2 DEF TakeOrder
<1>5. OneRun(w) /\ orderRun'[w] = r
  BY <1>3, <1>4, OrderRunChanges DEF PInv
<1>6. /\ JobTypeOK' /\ JobInv' /\ HandedOut(o)' = HandedOut(o) + 1
      /\ \A j \in Jobs : j # o => HandedOut(j)' = HandedOut(j)
  BY <1>1, TakenOnceMore, OrderTypes DEF PInv
<1>7. OrderTypeOK'
  BY <1>1, <1>5, <1>6, OrderTypes, OrderTyped DEF PInv, OneRun
<1>8. HasOrder'
  BY <1>3, <1>5 DEF PInv, HasOrder, OneRun
<1>9. ASSUME NEW j \in Jobs, j # o
      PROVE  placements'[j] + Cardinality(Unplaced(j)') <= HandedOut(j)'
  <2>1. Unplaced(j)' = Unplaced(j)
    BY <1>1, <1>3, <1>5, <1>9 DEF Unplaced, OneRun, BeforePlacement
  <2> QED
    BY <1>1, <1>6, <1>9, <2>1 DEF PInv, PlacementsCounted
<1>10. placements'[o] + Cardinality(Unplaced(o)') <= HandedOut(o)'
  <2>1. w \notin Unplaced(o)
    BY <1>1 DEF Unplaced, BeforePlacement
  <2>2. Unplaced(o)' = Unplaced(o) \cup {w}
    BY <1>3, <1>5 DEF Unplaced, OneRun, BeforePlacement
  <2>3. /\ Cardinality(Unplaced(o)') = Cardinality(Unplaced(o)) + 1
        /\ Cardinality(Unplaced(o)) \in Nat
    BY <2>1, <2>2, UnplacedFinite, FS_AddElement
  <2>4. placements[o] + Cardinality(Unplaced(o)) <= HandedOut(o)
    BY DEF PInv, PlacementsCounted
  <2>5. placements[o] \in Nat /\ HandedOut(o) \in Nat
    BY OrderTypes, HandedOutBounded DEF PInv
  <2> QED
    BY <1>1, <1>6, <2>3, <2>4, <2>5
<1> QED
  BY <1>6, <1>7, <1>8, <1>9, <1>10 DEF PInv, PlacementsCounted

LEMMA OrderJobsUnchanged ==
    ASSUME PInv, job' = job
    PROVE  JobsStay
BY OrderTypes DEF PInv, JobsStay, JobTypeOK, JobInv, HandedOut

LEMMA SetsStatus ==
    ASSUME PInv, NEW w \in Workers, NEW s \in StatusType, SetStatus(w, s)
    PROVE  status' \in [Jobs -> StatusType]
<1>1. status \in [Jobs -> StatusType]
  BY OrderTypes DEF PInv
<1> QED
  BY <1>1 DEF SetStatus

LEMMA ProceedsKeeps ==
    ASSUME PInv, NEW w \in Workers, orderRun[w].at # "idle",
           NEW step, Proceeds(w, step),
           step \in BeforePlacement => orderRun[w].at \in BeforePlacement,
           UNCHANGED <<job, placements, refused>>,
           status' \in [Jobs -> StatusType], executions' \in [Jobs -> Nat],
           orderBudget' \in BudgetType
    PROVE  PInv'
<1>1. JobsStay
  BY OrderJobsUnchanged
<1> QED
  BY <1>1, NothingPlaced DEF Proceeds, OneRun

LEMMA OrderStepKeeps ==
    ASSUME PInv, NEW w \in Workers, OrderWorkerStep(w)
    PROVE  PInv'
<1>0. /\ OrderTypeOK /\ status \in [Jobs -> StatusType]
      /\ executions \in [Jobs -> Nat] /\ orderBudget \in BudgetType
  BY OrderTypes DEF PInv
<1>1. /\ {"connect", "submit", "catch", "place", "record", "execution"}
             \subseteq OrderRunSteps
      /\ {"submitted", "filled", "rejected"} \subseteq StatusType
  BY DEF OrderRunSteps, StatusType
<1>2. ASSUME NEW j \in Jobs, TakeOrder(w, j)
      PROVE  PInv'
  BY <1>2, OrderTaken
<1>3. CASE LoadAccount(w)
  <2>1. /\ orderRun[w].at = "account" /\ OrderGoTo(w, "connect")
        /\ UNCHANGED <<job, status, placements, executions, refused, orderBudget>>
    BY <1>3 DEF LoadAccount
  <2>2. Proceeds(w, "connect")
    BY <1>0, <1>1, <2>1, OrderGoesTo
  <2> QED
    BY <1>0, <2>1, <2>2, ProceedsKeeps DEF BeforePlacement
<1>4. CASE Connect(w)
  <2>1. /\ orderRun[w].at = "connect"
        /\ UNCHANGED <<job, status, placements, executions, refused, orderBudget>>
    BY <1>4 DEF Connect
  <2>2. OrderGoTo(w, "submit") \/ OrderGoTo(w, "catch")
    BY <1>4 DEF Connect
  <2>3. Proceeds(w, "submit") \/ Proceeds(w, "catch")
    BY <1>0, <1>1, <2>2, OrderGoesTo
  <2> QED
    BY <1>0, <2>1, <2>3, ProceedsKeeps DEF BeforePlacement
<1>5. CASE UpdateOrderStatus(w)
  <2>1. /\ orderRun[w].at = "submit" /\ OrderGoTo(w, "place")
        /\ SetStatus(w, "submitted")
        /\ UNCHANGED <<job, placements, executions, refused, orderBudget>>
    BY <1>5 DEF UpdateOrderStatus
  <2>2. Proceeds(w, "place") /\ status' \in [Jobs -> StatusType]
    BY <1>0, <1>1, <2>1, OrderGoesTo, SetsStatus
  <2> QED
    BY <1>0, <2>1, <2>2, ProceedsKeeps DEF BeforePlacement
<1>6. CASE PlaceOrder(w)
  <2>1. /\ orderRun[w].at = "place"
        /\ UNCHANGED <<job, status, executions, refused, orderBudget>>
    BY <1>6 DEF PlaceOrder
  <2>2. CASE /\ placements' = [placements EXCEPT ![OrderOf(w)] = @ + 1]
             /\ OrderGoTo(w, "record")
    <3>1. Proceeds(w, "record")
      BY <1>0, <1>1, <2>2, OrderGoesTo
    <3> QED
      BY <2>1, <2>2, <3>1, Placed DEF OrderOf
  <2>3. CASE OrderGoTo(w, "catch") /\ UNCHANGED placements
    <3>1. Proceeds(w, "catch")
      BY <1>0, <1>1, <2>3, OrderGoesTo
    <3> QED
      BY <1>0, <2>1, <2>3, <3>1, ProceedsKeeps DEF BeforePlacement
  <2> QED
    BY <1>6, <2>2, <2>3 DEF PlaceOrder
<1>7. CASE RecordFill(w)
  <2>1. /\ orderRun[w].at = "record" /\ OrderGoTo(w, "execution")
        /\ SetStatus(w, "filled")
        /\ UNCHANGED <<job, placements, executions, refused, orderBudget>>
    BY <1>7 DEF RecordFill
  <2>2. Proceeds(w, "execution") /\ status' \in [Jobs -> StatusType]
    BY <1>0, <1>1, <2>1, OrderGoesTo, SetsStatus
  <2> QED
    BY <1>0, <2>1, <2>2, ProceedsKeeps DEF BeforePlacement
<1>8. CASE InsertExecution(w)
  <2>1. /\ orderRun[w].at = "execution"
        /\ UNCHANGED <<job, status, placements, refused, orderBudget>>
    BY <1>8 DEF InsertExecution
  <2>2. CASE OrderGoTo(w, "catch") /\ UNCHANGED executions
    <3>1. Proceeds(w, "catch")
      BY <1>0, <1>1, <2>2, OrderGoesTo
    <3> QED
      BY <1>0, <2>1, <2>2, <3>1, ProceedsKeeps DEF BeforePlacement
  <2>3. CASE /\ executions' = [executions EXCEPT ![OrderOf(w)] = @ + 1]
             /\ FinishOrder(w, TRUE)
    <3>1. Proceeds(w, "ack")
      BY <1>0, <2>3, OrderFinishes
    <3>2. orderRun[w].order \in Jobs
      BY <2>1 DEF PInv, HasOrder
    <3>3. executions' \in [Jobs -> Nat]
      BY <1>0, <2>3, <3>2 DEF OrderOf
    <3> QED
      BY <1>0, <2>1, <3>1, <3>3, ProceedsKeeps DEF BeforePlacement
  <2> QED
    BY <1>8, <2>2, <2>3 DEF InsertExecution
<1>9. CASE UpdateOrderError(w)
  <2>1. /\ orderRun[w].at = "catch" /\ FinishOrder(w, FALSE)
        /\ SetStatus(w, "rejected")
        /\ UNCHANGED <<job, placements, executions, refused, orderBudget>>
    BY <1>9 DEF UpdateOrderError
  <2>2. Proceeds(w, "ack") /\ status' \in [Jobs -> StatusType]
    BY <1>0, <1>1, <2>1, OrderFinishes, SetsStatus
  <2> QED
    BY <1>0, <2>1, <2>2, ProceedsKeeps DEF BeforePlacement
<1>10. CASE AcknowledgeOrder(w)
  <2>1. /\ orderRun[w].at = "ack"
        /\ orderRun' = [orderRun EXCEPT ![w] = NoOrder]
        /\ SettleJob(w, orderRun[w].order, orderRun[w].ok)
        /\ UNCHANGED <<status, placements, executions, refused, orderBudget>>
    BY <1>10 DEF AcknowledgeOrder, OrderOf
  <2>2. orderRun[w].order \in Jobs /\ orderRun[w].ok \in BOOLEAN
    BY <2>1, OrderTypes DEF PInv, HasOrder, OrderRunType
  <2>3. JobsStay
    BY <2>1, <2>2, SettledNoMore, OrderTypes DEF PInv
  <2>4. OneRun(w) /\ orderRun'[w].at = "idle"
    BY <1>0, <2>1, OrderRunChanges, OrderRunIdle
  <2> QED
    BY <1>0, <2>1, <2>3, <2>4, NothingPlaced DEF OneRun
<1> QED
  BY <1>2, <1>3, <1>4, <1>5, <1>6, <1>7, <1>8, <1>9, <1>10 DEF OrderWorkerStep

LEMMA OrderFaultKeeps ==
    ASSUME PInv, NEW w \in Workers, DatabaseFault(w) \/ OrderCrash(w)
    PROVE  PInv'
<1>0. /\ OrderTypeOK /\ status \in [Jobs -> StatusType]
      /\ executions \in [Jobs -> Nat]
  BY OrderTypes DEF PInv
<1>1. CASE DatabaseFault(w)
  <2>1. /\ UNCHANGED <<job, status, placements, executions, refused>>
        /\ orderRun[w].at # "idle" /\ orderBudget' \in BudgetType
    BY <1>0, <1>1, OrderSpends DEF DatabaseFault
  <2>2. CASE OrderGoTo(w, "catch")
    <3>1. Proceeds(w, "catch")
      BY <1>0, <2>2, OrderGoesTo DEF OrderRunSteps
    <3> QED
      BY <1>0, <2>1, <3>1, ProceedsKeeps DEF BeforePlacement
  <2>3. CASE FinishOrder(w, FALSE)
    <3>1. Proceeds(w, "ack")
      BY <1>0, <2>3, OrderFinishes
    <3> QED
      BY <1>0, <2>1, <3>1, ProceedsKeeps DEF BeforePlacement
  <2> QED
    BY <1>1, <2>2, <2>3 DEF DatabaseFault
<1>2. CASE OrderCrash(w)
  <2>1. /\ UNCHANGED <<job, status, placements, executions, refused>>
        /\ orderRun' = [orderRun EXCEPT ![w] = NoOrder]
        /\ orderBudget' \in BudgetType
    BY <1>0, <1>2, OrderSpends DEF OrderCrash
  <2>2. OneRun(w) /\ orderRun'[w].at = "idle"
    BY <1>0, <2>1, OrderRunChanges, OrderRunIdle
  <2> QED
    BY <1>0, <2>1, <2>2, OrderJobsUnchanged, NothingPlaced DEF OneRun
<1> QED
  BY <1>1, <1>2

LEMMA OrderStallKeeps ==
    ASSUME PInv, NEW j \in Jobs,
           StallAfterCrash(j) \/ StallWhileRunning(j)
    PROVE  PInv'
<1>1. /\ UNCHANGED <<status, orderRun, placements, executions, refused>> /\ StallJob(j)
      /\ UNCHANGED orderBudget \/ OrderSpend("slow")
  BY DEF StallAfterCrash, StallWhileRunning
<1>2. /\ status \in [Jobs -> StatusType]
      /\ orderRun \in [Workers -> OrderRunType]
      /\ executions \in [Jobs -> Nat] /\ orderBudget' \in BudgetType
  BY <1>1, OrderTypes, OrderSpends DEF PInv
<1>3. JobsStay
  BY <1>1, StalledNoMore, OrderTypes DEF PInv
<1> QED
  BY <1>1, <1>2, <1>3, NothingPlaced

LEMMA OrdersInit == OrderInit => PInv
<1> SUFFICES ASSUME OrderInit PROVE PInv
  OBVIOUS
<1>1. OrderTypeOK
  BY DEF OrderInit, OrderTypeOK, JobInit, JobTypeOK,
         JobStates, NoOrder, OrderRunSteps
<1>2. JobInv /\ \A j \in Jobs : HandedOut(j) = 0
  BY DEF OrderInit, JobInit, JobInv, HandedOut
<1>3. HasOrder /\ \A j \in Jobs : placements[j] = 0
  BY DEF OrderInit, NoOrder, HasOrder
<1>4. \A j \in Jobs : Unplaced(j) = {}
  BY DEF OrderInit, NoOrder, Unplaced, BeforePlacement
<1>5. Cardinality({}) = 0
  BY FS_EmptySet
<1> QED
  BY <1>1, <1>2, <1>3, <1>4, <1>5 DEF PInv, PlacementsCounted

LEMMA OrdersNext == PInv /\ [OrderNext]_orderVars => PInv'
<1> SUFFICES ASSUME PInv, [OrderNext]_orderVars PROVE PInv'
  OBVIOUS
<1>1. CASE UNCHANGED orderVars
  <2>1. UNCHANGED <<job, status, orderRun, placements, executions, refused,
                    orderBudget>>
    BY <1>1 DEF orderVars
  <2>2. JobsStay
    BY <2>1, OrderJobsUnchanged
  <2> QED
    BY <2>1, <2>2, OrderTypes, NothingPlaced DEF PInv
<1> QED
  BY <1>1, OrderStepKeeps, OrderFaultKeeps, OrderStallKeeps DEF OrderNext

LEMMA OrdersInductive == OrderSpec => []PInv
BY OrdersInit, OrdersNext, PTL DEF OrderSpec

(* However runs of the MVP order processor fail, die, stall and overlap, it *)
(* places an order no more often than the queue hands its job out, for any  *)
(* jobs, workers, bounds, with the INSERT into executions refused or not.   *)
THEOREM PlacementsBoundedHolds == OrderSpec => []PlacementsBounded
<1>1. PInv => PlacementsBounded
  <2> SUFFICES ASSUME PInv, NEW j \in Jobs
               PROVE  /\ placements[j] <= HandedOut(j)
                      /\ HandedOut(j) <= Attempts + MaxStalled
    BY DEF PlacementsBounded
  <2>1. HandedOut(j) \in 0..(Attempts + MaxStalled)
    BY OrderTypes, HandedOutBounded DEF PInv
  <2>2. /\ placements[j] \in Nat /\ Cardinality(Unplaced(j)) \in Nat
        /\ placements[j] + Cardinality(Unplaced(j)) <= HandedOut(j)
    BY OrderTypes, UnplacedFinite DEF PInv, PlacementsCounted
  <2> QED
    BY <2>1, <2>2
<1> QED
  BY <1>1, OrdersInductive, PTL

-----------------------------------------------------------------------------
(***************************************************************************)
(* The books of an order whose job has ended.  As long as nothing but the   *)
(* broker fails, a run owns its job, and a job that is under way has its    *)
(* run, so that what the run has done so far is all that was done for the   *)
(* order.  Before the placement and after an error nothing is recorded; and *)
(* nothing was placed either, unless the INSERT is refused, when only the   *)
(* number of attempts bounds what was placed.                               *)
(***************************************************************************)
Accepted == "execution_account" \notin refused

Blank(j) == executions[j] = 0 /\ (Accepted => placements[j] = 0)
Booked(j) == placements[j] = 1 /\ executions[j] = 1 /\ status[j] = "filled"

RunBooks(w) ==
    LET j == orderRun[w].order IN
    /\ orderRun[w].at \in BeforePlacement \cup {"catch"} => Blank(j)
    /\ orderRun[w].at \in {"record", "execution"} =>
          executions[j] = 0 /\ (Accepted => placements[j] = 1)
    /\ orderRun[w].at = "execution" => status[j] = "filled"
    /\ orderRun[w].at = "ack" => IF orderRun[w].ok THEN Booked(j)
                            ELSE Blank(j) /\ status[j] = "rejected"

OwnsJob(w) == /\ job[orderRun[w].order].state = "active"
              /\ job[orderRun[w].order].owner = w

JobBooks(j) ==
    /\ job[j].stalls = 0
    /\ job[j].state = "waiting" => Blank(j)
    /\ job[j].state = "active" =>
          \E w \in Workers : /\ job[j].owner = w
                             /\ orderRun[w].order = j
                             /\ orderRun[w].at # "idle"
    /\ job[j].state = "completed" => Booked(j)
    /\ job[j].state = "failed" => Blank(j) /\ status[j] = "rejected"

OrdersWithinBudget ==
    /\ orderBudget.faults <= MaxFaults
    /\ orderBudget.crashes <= MaxCrashes /\ orderBudget.slow <= MaxSlow

AllBooks ==
    /\ \A w \in Workers : orderRun[w].at # "idle" => OwnsJob(w) /\ RunBooks(w)
    /\ \A j \in Jobs : JobBooks(j)

OBInv == /\ PInv /\ OrdersWithinBudget
         /\ OrdersUndisturbed => AllBooks

LEMMA OrderBudget ==
    ASSUME OrderTypeOK, OrdersWithinBudget,
           NEW what \in {"faults", "crashes", "slow"}, OrderSpend(what)
    PROVE  OrdersWithinBudget' /\ ~OrdersUndisturbed'
<1>1. orderBudget \in BudgetType
  BY OrderTypes
<1>2. /\ orderBudget[what] > 0
      /\ orderBudget' = [orderBudget EXCEPT ![what] = orderBudget[what] - 1]
  BY DEF OrderSpend
<1>3. /\ orderBudget'.faults \in {orderBudget.faults, orderBudget.faults - 1}
      /\ orderBudget'.crashes \in {orderBudget.crashes, orderBudget.crashes - 1}
      /\ orderBudget'.slow \in {orderBudget.slow, orderBudget.slow - 1}
      /\ orderBudget'[what] = orderBudget[what] - 1
  BY <1>1, <1>2 DEF BudgetType
<1>4. OrdersWithinBudget'
  BY <1>1, <1>3 DEF BudgetType, OrdersWithinBudget
<1>5. \/ orderBudget'.faults < MaxFaults \/ orderBudget'.crashes < MaxCrashes
      \/ orderBudget'.slow < MaxSlow
  BY <1>1, <1>3 DEF BudgetType, OrdersWithinBudget
<1>6. ~OrdersUndisturbed'
  BY <1>5 DEF OrdersUndisturbed
<1> QED
  BY <1>4, <1>6

(* The other orders are left alone. *)
OnlyBooksOf(o) ==
    \A j \in Jobs : j # o => /\ placements'[j] = placements[j]
                             /\ executions'[j] = executions[j]
                             /\ status'[j] = status[j]

LEMMA RunBooksKept ==
    ASSUME NEW v \in Workers, orderRun'[v] = orderRun[v], RunBooks(v),
           orderRun[v].order \in Jobs, refused' = refused,
           NEW o, OnlyBooksOf(o), orderRun[v].order # o
    PROVE  RunBooks(v)'
BY DEF RunBooks, OnlyBooksOf, Blank, Booked, Accepted

(* A run goes on with its order. *)
LEMMA BooksProceed ==
    ASSUME PInv, AllBooks, NEW w \in Workers, orderRun[w].at # "idle",
           NEW step, step # "idle", Proceeds(w, step), UNCHANGED <<job, refused>>,
           OnlyBooksOf(orderRun[w].order), RunBooks(w)'
    PROVE  AllBooks'
<1>1. \A v \in Workers : orderRun[v].at # "idle" => orderRun[v].order \in Jobs
  BY DEF PInv, HasOrder
<1>2. ASSUME NEW v \in Workers, orderRun'[v].at # "idle"
      PROVE  OwnsJob(v)' /\ RunBooks(v)'
  <2>1. CASE v = w
    BY <2>1 DEF AllBooks, OwnsJob, Proceeds
  <2>2. CASE v # w
    <3>1. orderRun'[v] = orderRun[v]
      BY <2>2 DEF Proceeds, OneRun
    <3>2. OwnsJob(v) /\ RunBooks(v) /\ OwnsJob(w)
      BY <1>2, <3>1 DEF AllBooks
    <3>3. orderRun[v].order # orderRun[w].order
      BY <2>2, <3>2 DEF OwnsJob
    <3>4. OwnsJob(v)'
      BY <3>1, <3>2 DEF OwnsJob
    <3> QED
      BY <1>1, <1>2, <3>1, <3>2, <3>3, <3>4, RunBooksKept
  <2> QED
    BY <2>1, <2>2
<1>3. ASSUME NEW j \in Jobs
      PROVE  JobBooks(j)'
  <2>1. CASE j = orderRun[w].order
    <3>1. OwnsJob(w) /\ job[j].stalls = 0
      BY DEF AllBooks, JobBooks
    <3> QED
      BY <2>1, <3>1 DEF OwnsJob, JobBooks, Proceeds
  <2>2. CASE j # orderRun[w].order
    <3>1. JobBooks(j)
      BY DEF AllBooks
    <3>2. OneRun(w) /\ orderRun'[w].order = orderRun[w].order
      BY DEF Proceeds
    <3>3. job[j].state = "active" => job[j].owner # w
      BY <2>2, <3>1 DEF JobBooks
    <3> QED
      BY <2>2, <3>1, <3>2, <3>3
         DEF JobBooks, OnlyBooksOf, Blank, Booked, Accepted, OneRun
  <2> QED
    BY <2>1, <2>2
<1> QED
  BY <1>2, <1>3 DEF AllBooks

LEMMA BooksTaken ==
    ASSUME PInv, AllBooks, NEW w \in Workers, NEW o \in Jobs, TakeOrder(w, o)
    PROVE  AllBooks'
<1>1. /\ orderRun[w].at = "idle" /\ StartJob(w, o)
      /\ UNCHANGED <<status, placements, executions, refused, orderBudget>>
  BY DEF TakeOrder
<1>2. PICK r : r = [NoOrder EXCEPT !.at = "account", !.order = o]
  OBVIOUS
<1>3. r \in OrderRunType /\ r.at = "account" /\ r.order = o
  BY <1>2 DEF NoOrder, OrderRunType, OrderRunSteps
<1>4. OneRun(w) /\ orderRun'[w] = r
  BY <1>2, <1>3, OrderRunChanges DEF PInv, TakeOrder
<1>5. /\ job[o].state = "waiting"
      /\ job'[o].state = "active" /\ job'[o].owner = w
      /\ job'[o].stalls = job[o].stalls
      /\ \A j \in Jobs : j # o => job'[j] = job[j]
  <2>1. JobTypeOK
    BY OrderTypes DEF PInv
  <2>2. Becomes(o, "active", job[o].made, job[o].stalls, w)
    BY <1>1, <2>1, StartsJob
  <2> QED
    BY <1>1, <2>2 DEF StartJob, Becomes
<1>6. Blank(o) /\ OnlyBooksOf(o)
  BY <1>1, <1>5 DEF AllBooks, JobBooks, OnlyBooksOf
<1>7. ASSUME NEW v \in Workers, orderRun'[v].at # "idle"
      PROVE  OwnsJob(v)' /\ RunBooks(v)'
  <2>1. CASE v = w
    BY <1>1, <1>3, <1>4, <1>5, <1>6, <2>1
       DEF OwnsJob, RunBooks, Blank, Accepted, BeforePlacement
  <2>2. CASE v # w
    <3>1. /\ orderRun'[v] = orderRun[v] /\ OwnsJob(v) /\ RunBooks(v)
          /\ orderRun[v].order \in Jobs
      BY <1>4, <1>7, <2>2 DEF OneRun, AllBooks, PInv, HasOrder
    <3>2. orderRun[v].order # o
      BY <1>5, <3>1 DEF OwnsJob
    <3>3. OwnsJob(v)'
      BY <1>5, <3>1, <3>2 DEF OwnsJob
    <3> QED
      BY <1>1, <1>6, <3>1, <3>2, <3>3, RunBooksKept
  <2> QED
    BY <2>1, <2>2
<1>8. ASSUME NEW j \in Jobs
      PROVE  JobBooks(j)'
  <2>1. CASE j = o
    BY <1>3, <1>4, <1>5, <2>1 DEF JobBooks, AllBooks
  <2>2. CASE j # o
    <3>1. job'[j] = job[j] /\ JobBooks(j)
      BY <1>5, <2>2 DEF AllBooks
    <3>2. job[j].state = "active" =>
            \E v \in Workers : /\ job[j].owner = v /\ orderRun'[v].order = j
                               /\ orderRun'[v].at # "idle"
      BY <1>1, <1>4, <3>1 DEF JobBooks, OneRun
    <3> QED
      BY <1>1, <1>6, <2>2, <3>1, <3>2
         DEF JobBooks, OnlyBooksOf, Blank, Booked, Accepted
  <2> QED
    BY <2>1, <2>2
<1> QED
  BY <1>7, <1>8 DEF AllBooks

LEMMA BooksAcknowledged ==
    ASSUME PInv, AllBooks, NEW w \in Workers, AcknowledgeOrder(w)
    PROVE  AllBooks'
<1>1. /\ orderRun[w].at = "ack" /\ orderRun' = [orderRun EXCEPT ![w] = NoOrder]
      /\ SettleJob(w, orderRun[w].order, orderRun[w].ok)
      /\ UNCHANGED <<status, placements, executions, refused, orderBudget>>
  BY DEF AcknowledgeOrder, OrderOf
<1>2. PICK o \in Jobs : o = orderRun[w].order
  BY <1>1 DEF PInv, HasOrder
<1>3. PICK ok \in BOOLEAN : ok = orderRun[w].ok
  BY <1>1, OrderTypes DEF PInv, OrderRunType
<1>4. OneRun(w) /\ orderRun'[w].at = "idle"
  BY <1>1, OrderRunChanges, OrderRunIdle DEF PInv
<1>5. job[o].state = "active" /\ job[o].owner = w
  BY <1>1, <1>2 DEF AllBooks, OwnsJob
<1>6. IF ok THEN Booked(o) ELSE Blank(o) /\ status[o] = "rejected"
  BY <1>1, <1>2, <1>3 DEF AllBooks, RunBooks
<1>7. job[o].made \in Nat /\ w # None
  BY JobRecord, OrderTypes DEF PInv
<1>8. /\ IF ok THEN job'[o].state = "completed"
         ELSE job'[o].state \in {"failed", "waiting"}
      /\ job'[o].stalls = job[o].stalls
      /\ \A j \in Jobs : j # o => job'[j] = job[j]
  <2>1. SettleJob(w, o, ok)
    BY <1>1, <1>2, <1>3
  <2>2. \/ job' = job
        \/ /\ ok /\ Becomes(o, "completed", job[o].made, job[o].stalls, None)
        \/ /\ ~ok
           /\ Becomes(o, IF LastAttempt(o) THEN "failed" ELSE "waiting",
                      job[o].made + 1, job[o].stalls, None)
    BY <2>1, SettlesJob, OrderTypes DEF PInv
  <2>3. job' # job
    <3>1. job \in [Jobs -> [state: JobStates, made: 0..Attempts,
                      stalls: 0..(MaxStalled + 1), owner: Workers \cup {None}]]
      BY OrderTypes DEF PInv, JobTypeOK
    <3>2. job'[o].owner = None
      BY <1>5, <2>1, <3>1 DEF SettleJob
    <3> QED
      BY <1>5, <1>7, <3>2
  <2>4. CASE ok /\ Becomes(o, "completed", job[o].made, job[o].stalls, None)
    BY <2>4 DEF Becomes
  <2>5. CASE ~ok /\ Becomes(o, IF LastAttempt(o) THEN "failed" ELSE "waiting",
                            job[o].made + 1, job[o].stalls, None)
    BY <2>5 DEF Becomes
  <2> QED
    BY <2>2, <2>3, <2>4, <2>5
<1>9. OnlyBooksOf(o) /\ (Booked(o) => Booked(o)') /\ (Blank(o) => Blank(o)')
  BY <1>1 DEF OnlyBooksOf, Booked, Blank, Accepted
<1>10. ASSUME NEW v \in Workers, orderRun'[v].at # "idle"
       PROVE  OwnsJob(v)' /\ RunBooks(v)'
  <2>1. v # w
    BY <1>4, <1>10
  <2>2. /\ orderRun'[v] = orderRun[v] /\ OwnsJob(v) /\ RunBooks(v)
        /\ orderRun[v].order \in Jobs
    BY <1>4, <1>10, <2>1 DEF OneRun, AllBooks, PInv, HasOrder
  <2>3. orderRun[v].order # o
    BY <1>5, <2>1, <2>2 DEF OwnsJob
  <2>4. OwnsJob(v)'
    BY <1>8, <2>2, <2>3 DEF OwnsJob
  <2> QED
    BY <1>1, <1>9, <2>2, <2>3, <2>4, RunBooksKept
<1>11. ASSUME NEW j \in Jobs
       PROVE  JobBooks(j)'
  <2>1. CASE j = o
    BY <1>1, <1>6, <1>8, <1>9, <2>1 DEF JobBooks, AllBooks
  <2>2. CASE j # o
    <3>1. job'[j] = job[j] /\ JobBooks(j)
      BY <1>8, <2>2 DEF AllBooks
    <3>2. job[j].state = "active" => job[j].owner # w
      BY <1>2, <2>2, <3>1 DEF JobBooks
    <3> QED
      BY <1>1, <1>4, <1>9, <2>2, <3>1, <3>2
         DEF JobBooks, OnlyBooksOf, Blank, Booked, Accepted, OneRun
  <2> QED
    BY <2>1, <2>2
<1> QED
  BY <1>10, <1>11 DEF AllBooks

LEMMA OrderStepBalances ==
    ASSUME PInv, AllBooks, NEW w \in Workers, OrderWorkerStep(w)
    PROVE  AllBooks'
<1>0. /\ OrderTypeOK /\ status \in [Jobs -> StatusType]
      /\ executions \in [Jobs -> Nat] /\ placements \in [Jobs -> Nat]
  BY OrderTypes DEF PInv
<1>1. {"connect", "submit", "catch", "place", "record", "execution"}
             \subseteq OrderRunSteps
  BY DEF OrderRunSteps
<1>2. orderRun[w].at # "idle" => /\ orderRun[w].order \in Jobs /\ RunBooks(w)
  BY DEF PInv, HasOrder, AllBooks
<1>3. ASSUME NEW j \in Jobs, TakeOrder(w, j)
      PROVE  AllBooks'
  BY <1>3, BooksTaken
<1>4. ASSUME orderRun[w].at \in {"account", "connect", "place"},
             NEW step \in {"connect", "submit", "catch"}, OrderGoTo(w, step),
             UNCHANGED <<job, status, placements, executions, refused>>
      PROVE  AllBooks'
  <2>1. Proceeds(w, step)
    BY <1>0, <1>1, <1>4, OrderGoesTo
  <2>2. RunBooks(w)'
    BY <1>2, <1>4, <2>1 DEF RunBooks, Proceeds, BeforePlacement, Blank, Accepted
  <2> QED
    BY <1>4, <2>1, <2>2, BooksProceed DEF OnlyBooksOf
<1>5. CASE UpdateOrderStatus(w)
  <2>1. /\ orderRun[w].at = "submit" /\ OrderGoTo(w, "place")
        /\ status' = [status EXCEPT ![orderRun[w].order] = "submitted"]
        /\ UNCHANGED <<job, placements, executions, refused, orderBudget>>
    BY <1>5 DEF UpdateOrderStatus, SetStatus, OrderOf
  <2>2. Proceeds(w, "place")
    BY <1>0, <1>1, <2>1, OrderGoesTo
  <2>3. RunBooks(w)'
    BY <1>2, <2>1, <2>2 DEF RunBooks, Proceeds, BeforePlacement, Blank, Accepted
  <2> QED
    BY <1>0, <2>1, <2>2, <2>3, BooksProceed DEF OnlyBooksOf
<1>6. CASE /\ orderRun[w].at = "place" /\ OrderGoTo(w, "record")
           /\ placements' = [placements EXCEPT ![orderRun[w].order] = @ + 1]
           /\ UNCHANGED <<job, status, executions, refused, orderBudget>>
  <2>1. Proceeds(w, "record")
    BY <1>0, <1>1, <1>6, OrderGoesTo
  <2>2. RunBooks(w)'
    BY <1>0, <1>2, <1>6, <2>1 DEF RunBooks, Proceeds, BeforePlacement, Blank, Accepted
  <2> QED
    BY <1>0, <1>6, <2>1, <2>2, BooksProceed DEF OnlyBooksOf
<1>7. CASE RecordFill(w)
  <2>1. /\ orderRun[w].at = "record" /\ OrderGoTo(w, "execution")
        /\ status' = [status EXCEPT ![orderRun[w].order] = "filled"]
        /\ UNCHANGED <<job, placements, executions, refused, orderBudget>>
    BY <1>7 DEF RecordFill, SetStatus, OrderOf
  <2>2. Proceeds(w, "execution")
    BY <1>0, <1>1, <2>1, OrderGoesTo
  <2>3. RunBooks(w)'
    BY <1>0, <1>2, <2>1, <2>2 DEF RunBooks, Proceeds, BeforePlacement, Accepted
  <2> QED
    BY <1>0, <2>1, <2>2, <2>3, BooksProceed DEF OnlyBooksOf
<1>8. CASE InsertExecution(w) /\ Accepted
  <2>1. /\ orderRun[w].at = "execution" /\ FinishOrder(w, TRUE)
        /\ executions' = [executions EXCEPT ![orderRun[w].order] = @ + 1]
        /\ UNCHANGED <<job, status, placements, refused, orderBudget>>
    BY <1>8 DEF InsertExecution, OrderOf, Accepted
  <2>2. Proceeds(w, "ack") /\ orderRun'[w].ok
    BY <1>0, <2>1, OrderFinishes
  <2>3. /\ orderRun[w].order \in Jobs /\ executions[orderRun[w].order] = 0
        /\ placements[orderRun[w].order] = 1
        /\ status[orderRun[w].order] = "filled"
    BY <1>2, <1>8, <2>1 DEF RunBooks
  <2>4. Booked(orderRun[w].order)'
    BY <1>0, <2>1, <2>2, <2>3 DEF Booked, Proceeds
  <2>5. RunBooks(w)'
    BY <2>2, <2>4 DEF RunBooks, Proceeds, BeforePlacement
  <2> QED
    BY <1>0, <2>1, <2>2, <2>5, BooksProceed DEF OnlyBooksOf
<1>13. CASE InsertExecution(w) /\ ~Accepted
  <2>1. /\ orderRun[w].at = "execution" /\ OrderGoTo(w, "catch")
        /\ UNCHANGED <<job, status, placements, executions, refused, orderBudget>>
    BY <1>13 DEF InsertExecution, Accepted
  <2>2. Proceeds(w, "catch")
    BY <1>0, <1>1, <2>1, OrderGoesTo
  <2>3. RunBooks(w)'
    BY <1>2, <1>13, <2>1, <2>2
       DEF RunBooks, Proceeds, BeforePlacement, Blank, Accepted
  <2> QED
    BY <2>1, <2>2, <2>3, BooksProceed DEF OnlyBooksOf
<1>9. CASE UpdateOrderError(w)
  <2>1. /\ orderRun[w].at = "catch" /\ FinishOrder(w, FALSE)
        /\ status' = [status EXCEPT ![orderRun[w].order] = "rejected"]
        /\ UNCHANGED <<job, placements, executions, refused, orderBudget>>
    BY <1>9 DEF UpdateOrderError, SetStatus, OrderOf
  <2>2. Proceeds(w, "ack") /\ ~orderRun'[w].ok
    BY <1>0, <2>1, OrderFinishes
  <2>3. RunBooks(w)'
    BY <1>0, <1>2, <2>1, <2>2 DEF RunBooks, Proceeds, BeforePlacement, Blank, Accepted
  <2> QED
    BY <1>0, <2>1, <2>2, <2>3, BooksProceed DEF OnlyBooksOf
<1>10. CASE AcknowledgeOrder(w)
  BY <1>10, BooksAcknowledged
<1>11. CASE LoadAccount(w) \/ Connect(w)
  BY <1>4, <1>11 DEF LoadAccount, Connect
<1>12. CASE PlaceOrder(w)
  BY <1>4, <1>6, <1>12 DEF PlaceOrder, OrderOf
<1> QED
  BY <1>3, <1>5, <1>7, <1>8, <1>9, <1>10, <1>11, <1>12, <1>13 DEF OrderWorkerStep

LEMMA OrderStepSpendsNothing ==
    ASSUME NEW w \in Workers, OrderWorkerStep(w)
    PROVE  UNCHANGED orderBudget
BY DEF OrderWorkerStep, TakeOrder, LoadAccount, Connect,
       UpdateOrderStatus, PlaceOrder, RecordFill,
       InsertExecution, UpdateOrderError, AcknowledgeOrder

LEMMA BooksInit == OrderInit => OBInv
<1> SUFFICES ASSUME OrderInit PROVE OBInv
  OBVIOUS
<1>1. PInv
  BY OrdersInit
<1>3. OrdersWithinBudget
  BY DEF OrderInit, OrdersWithinBudget
<1>4. AllBooks
  <2>1. \A j \in Jobs : Blank(j) /\ job[j].state = "waiting" /\ job[j].stalls = 0
    BY DEF OrderInit, JobInit, Blank
  <2>2. \A w \in Workers : orderRun[w].at = "idle"
    BY OrderRunIdle DEF OrderInit
  <2> QED
    BY <2>1, <2>2 DEF AllBooks, JobBooks
<1> QED
  BY <1>1, <1>3, <1>4 DEF OBInv

LEMMA BooksNext ==
    ASSUME OBInv, [OrderNext]_orderVars
    PROVE  OBInv'
<1>0. PInv /\ PInv' /\ OrdersWithinBudget /\ OrderTypeOK
  BY OrdersNext DEF OBInv, PInv
<1>1. ASSUME UNCHANGED orderBudget, OrdersUndisturbed => AllBooks'
      PROVE  OBInv'
  BY <1>0, <1>1 DEF OBInv, OrdersWithinBudget, OrdersUndisturbed
<1>2. ASSUME NEW what \in {"faults", "crashes", "slow"}, OrderSpend(what)
      PROVE  OBInv'
  BY <1>0, <1>2, OrderBudget DEF OBInv
<1>3. ASSUME NEW w \in Workers, OrderWorkerStep(w)
      PROVE  OBInv'
  BY <1>0, <1>1, <1>3, OrderStepBalances, OrderStepSpendsNothing DEF OBInv
<1>4. ASSUME NEW w \in Workers, DatabaseFault(w) \/ OrderCrash(w)
      PROVE  OBInv'
  BY <1>2, <1>4 DEF DatabaseFault, OrderCrash
<1>5. ASSUME NEW j \in Jobs, StallWhileRunning(j)
      PROVE  OBInv'
  BY <1>2, <1>5 DEF StallWhileRunning
<1>6. ASSUME NEW j \in Jobs, StallAfterCrash(j)
      PROVE  OBInv'
  <2>1. /\ job[j].state = "active" /\ orderRun[job[j].owner].order # j
        /\ UNCHANGED orderBudget
    BY <1>6 DEF StallAfterCrash, StallJob, OrderOf
  <2>2. ~AllBooks
    BY <2>1 DEF AllBooks, JobBooks
  <2> QED
    BY <1>1, <2>1, <2>2 DEF OBInv
<1>7. CASE UNCHANGED orderVars
  <2>1. UNCHANGED <<job, status, orderRun, placements, executions, refused,
                    orderBudget>>
    BY <1>7 DEF orderVars
  <2>2. AllBooks => AllBooks'
    BY <2>1 DEF AllBooks, OwnsJob, RunBooks, JobBooks, Blank, Booked, Accepted
  <2> QED
    BY <1>1, <2>1, <2>2 DEF OBInv
<1> QED
  BY <1>3, <1>4, <1>5, <1>6, <1>7 DEF OrderNext

(* As long as nothing but the broker and the INSERT into executions has     *)
(* failed, an order whose job has ended is filled, placed once and recorded *)
(* once, or rejected and not recorded; then it was never placed, or, as     *)
(* deployed, with the INSERT refused, at most once per attempt.             *)
THEOREM OrderBooksBalanceHolds == OrderSpec => []OrderBooksBalance
<1>1. OBInv /\ [OrderNext]_orderVars => OBInv'
  BY BooksNext
<1>2. OBInv => OrderBooksBalance
  <2> SUFFICES ASSUME OBInv, NEW j \in Jobs, OrdersUndisturbed, EndedJob(j)
               PROVE  /\ status[j] \in {"filled", "rejected"}
                      /\ executions[j] = IF status[j] = "filled" THEN 1 ELSE 0
                      /\ placements[j] \in
                           IF "execution_account" \in refused
                             THEN executions[j]..Attempts ELSE {executions[j]}
    BY DEF OrderBooksBalance
  <2>1. JobBooks(j)
    BY DEF OBInv, AllBooks
  <2>2. CASE job[j].state = "completed"
    BY <2>1, <2>2 DEF JobBooks, Booked
  <2>3. CASE job[j].state = "failed"
    <3>1. Blank(j) /\ status[j] = "rejected" /\ job[j].stalls = 0
      BY <2>1, <2>3 DEF JobBooks
    <3>2. placements[j] \in Nat /\ job[j].made \in 0..Attempts
      BY OrderTypes, JobRecord DEF OBInv, PInv
    <3>3. HandedOut(j) = job[j].made
      BY <2>3, <3>1, <3>2 DEF HandedOut
    <3>4. placements[j] <= HandedOut(j)
      <4>1. Cardinality(Unplaced(j)) \in Nat
        BY UnplacedFinite
      <4>2. placements[j] + Cardinality(Unplaced(j)) <= HandedOut(j)
        BY DEF OBInv, PInv, PlacementsCounted
      <4> QED
        BY <3>2, <3>3, <4>1, <4>2
    <3> QED
      BY <3>1, <3>2, <3>3, <3>4 DEF Blank, Accepted
  <2> QED
    BY <2>2, <2>3 DEF EndedJob
<1> QED
  BY <1>1, <1>2, BooksInit, PTL DEF OrderSpec
=============================================================================
