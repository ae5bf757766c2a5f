-------------------------- MODULE SubmissionsProofs --------------------------
(***************************************************************************)
(* Proofs about the way of a submission, for every set of submissions,      *)
(* users, readers, AI replies and faults, and any number of jobs.           *)
(***************************************************************************)
EXTENDS Submissions, FiniteSetTheorems, TLAPS

Reader == [pc : {"none", "idle", "job", "status", "result", "save", "over"}, id : Ids \cup {NoId},
           status : SubmissionStatus, job : Nat,
           state : {"queued", "running", "completed", "failed"}]

\* Tables, broker and calls in progress hold values of their types, a delivery is
\* out exactly while the consumer works on it, and the jobs that exist are those
\* of the table.
SubTypeOK ==
    /\ DOMAIN submissions \subseteq Ids
    /\ submissions \in [DOMAIN submissions -> SubmissionStatus]
    /\ creating \in [Ids -> {"none", "validate", "block", "publish", "mark", "done"}]
    /\ published \subseteq Ids
    /\ queue \subseteq Ids
    /\ consumer \in {"idle", "handle", "ack", "stopped"}
    /\ delivery \in Ids \cup {NoId}
    /\ delivery \in Ids <=> consumer \in {"handle", "ack"}
    /\ rows \in Seq(Ids) /\ Len(rows) <= MaxJobs
    /\ readers \in [Calls -> Reader]
    /\ phase \in [Jobs -> {"absent", "waiting", "leased", "done", "dead"}]
    /\ verdict \in [Jobs -> Verdicts \cup {NoVerdict}]
    /\ \A j \in Jobs : phase[j] # "absent" <=> j \in DOMAIN rows

\* The request of s has reached the broker, the consumer or the jobs table.
Intake(s) == s \in queue \/ s = delivery \/ ItsJobs(s) # {}

\* The create() call of s has not come to its publish.
Unpublished(s) == creating[s] \in {"none", "validate", "block", "publish"}

\* What PublishedNotLost and BlockedNeverRuns rest on: a delivery is acknowledged
\* only when its job exists, nothing of a submission that create() has not
\* published yet is on its way, and create() stops at a refusal.
IntakeInv ==
    /\ PublishedNotLost
    /\ consumer = "ack" => ItsJobs(delivery) # {}
    /\ \A s \in Ids : Unpublished(s) => ~ Intake(s)
    /\ \A s \in Ids : Refusal(s) => creating[s] \in {"block", "done"} /\ ~ Intake(s)

\* What ResultFromItsJob rests on: a reader that has looked up a job holds one of
\* its submission, and one that is about to save has seen it completed.
ReaderInv ==
    /\ ResultFromItsJob
    /\ \A r \in Calls : readers[r].pc \in {"status", "result", "save"} =>
                             readers[r].job \in ItsJobs(readers[r].id)
    /\ \A r \in Calls : readers[r].pc = "save" => phase[readers[r].job] = "done"

SubInv == SubTypeOK /\ IntakeInv /\ ReaderInv

-----------------------------------------------------------------------------
\* Every verdict of a worker becomes one of the submission statuses.
LEMMA VerdictToStatusType == \A v : VerdictToStatus(v) \in SubmissionStatus
  BY DEF VerdictToStatus, VerdictStatus, SubmissionStatus

\* So does every state of a job that a reader can be told.
LEMMA JobStateToStatusType ==
    \A state \in {"queued", "running", "completed", "failed"} :
        JobStateToStatus(state) \in SubmissionStatus
  BY DEF JobStateToStatus, SubmissionStatus

\* A call that is not in progress, and pages before and after their polling.
LEMMA NoReaderType ==
    /\ NoReader \in Reader /\ NoReader.pc = "idle"
    /\ NotPolling \in Reader /\ NotPolling.pc = "none"
    /\ PollOver \in Reader /\ PollOver.pc = "over"
  BY DEF NoReader, NotPolling, PollOver, Reader, SubmissionStatus

\* Jobs rows are numbered from one.
LEMMA ItsJobsAreJobs ==
    ASSUME SubTypeOK, NEW s, NEW j \in ItsJobs(s)
    PROVE  j \in Jobs /\ j \in Nat /\ phase[j] # "absent"
  BY SubmissionsAssumption DEF SubTypeOK, ItsJobs

\* An UPDATE of a status, whether it fails or not, leaves statuses.
LEMMA UpdateStatusType ==
    ASSUME SubTypeOK, NEW s, NEW status \in SubmissionStatus, UpdateStatus(s, status)
    PROVE  /\ DOMAIN submissions' \subseteq Ids
           /\ submissions' \in [DOMAIN submissions' -> SubmissionStatus]
  BY DEF SubTypeOK, UpdateStatus

\* The empty tables satisfy the invariant.
LEMMA SubInitInv == SubInit => SubInv
  <1> SUFFICES ASSUME SubInit PROVE SubInv
    OBVIOUS
  <1>0. readers \in [Calls -> Reader]
    BY NoReaderType DEF SubInit
  <1>1. SubTypeOK
    BY <1>0, SubmissionsAssumption
    DEF SubInit, LifecycleInit, SubTypeOK, EmptyTable, SubmissionStatus
  <1>2. \A s : ItsJobs(s) = {}
    BY DEF SubInit, ItsJobs
  <1>3. IntakeInv
    BY <1>2, SubmissionsAssumption
    DEF SubInit, IntakeInv, PublishedNotLost, Intake, Refusal, EmptyTable
  <1>4. ReaderInv
    BY DEF SubInit, ReaderInv, ResultFromItsJob, EmptyTable, NoReader, NotPolling
  <1> QED BY <1>1, <1>3, <1>4 DEF SubInv

-----------------------------------------------------------------------------
\* Steps that touch neither results, readers, rows nor jobs keep the readers' part.
LEMMA ReadersUntouched ==
    ASSUME ReaderInv, UNCHANGED <<saved, readers, rows, phase, verdict>>
    PROVE  ReaderInv'
  BY DEF ReaderInv, ResultFromItsJob, ItsJobs

\* Steps that touch nothing on the way to the jobs table keep its part.
LEMMA IntakeUntouched ==
    ASSUME IntakeInv, UNCHANGED <<validations, creating, published, queue, consumer, delivery, rows>>
    PROVE  IntakeInv'
  BY DEF IntakeInv, Unpublished, PublishedNotLost, Intake, Refusal, ItsJobs

\* Steps that end calls of create() without a new publish keep it as well.
LEMMA CreatingOnly ==
    ASSUME IntakeInv, UNCHANGED <<validations, published, queue, consumer, delivery, rows>>,
           \A s \in Ids : /\ Unpublished(s)' => Unpublished(s)
                          /\ creating[s] \in {"block", "done"} => creating'[s] \in {"block", "done"}
    PROVE  IntakeInv'
  BY DEF IntakeInv, PublishedNotLost, Intake, Refusal, ItsJobs

\* The insert of a submission puts nothing on the way.
LEMMA CreateInv ==
    ASSUME SubInv, NEW s \in Ids, Create(s)
    PROVE  SubInv'
  <1> USE DEF SubInv
  <1>1. SubTypeOK'
    BY DEF SubTypeOK, Create, Insert, SubmissionStatus, intakeVars, lifecycleVars
  <1>2. IntakeInv'
    BY CreatingOnly DEF SubTypeOK, IntakeInv, Unpublished, Create, intakeVars
  <1>3. ReaderInv'
    BY ReadersUntouched DEF Create, intakeVars, lifecycleVars
  <1> QED BY <1>1, <1>2, <1>3

\* A refusal is stored while nothing of the submission is on its way, and leads
\* to the block.
LEMMA ValidateInv ==
    ASSUME SubInv, NEW s \in Ids, ValidateCodeSubmission(s)
    PROVE  SubInv'
  <1> USE DEF SubInv
  <1>0. UNCHANGED <<submissions, saved, published, readers, queue, consumer, delivery, rows,
                    phase, verdict>>
    BY DEF ValidateCodeSubmission, intakeVars, lifecycleVars
  <1>1. creating[s] = "validate" /\ creating'[s] \in {"publish", "block"}
        /\ \A t \in Ids \ {s} : creating'[t] = creating[t]
    BY DEF ValidateCodeSubmission, SubTypeOK
  <1>2. SubTypeOK'
    BY <1>0 DEF SubTypeOK, ValidateCodeSubmission
  <1>3. \A t \in Ids \ {s} : Refusal(t)' => Refusal(t)
    BY DEF ValidateCodeSubmission, CreateValidation, Insert, Refusal
  <1>4. ~ Refusal(s)
    BY <1>1 DEF IntakeInv
  <1>5. Refusal(s)' => creating'[s] = "block"
    <2>1. ASSUME NEW response, NEW returned \in BOOLEAN, CreateValidation(s, response, returned)
          PROVE  Refusal(s)' => returned /\ ~ response.allowed
      BY <2>1 DEF CreateValidation, Insert, Refusal
    <2>2. CASE UNCHANGED validations
      BY <1>4, <2>2 DEF Refusal
    <2> QED BY <2>1, <2>2 DEF ValidateCodeSubmission, SubTypeOK
  <1>6. \A t \in Ids : Intake(t)' <=> Intake(t)
    BY <1>0 DEF Intake, ItsJobs
  <1>7. PublishedNotLost' /\ (consumer' = "ack" => ItsJobs(delivery)' # {})
    BY <1>0 DEF IntakeInv, PublishedNotLost, ItsJobs
  <1>8. IntakeInv'
    BY <1>1, <1>3, <1>5, <1>6, <1>7 DEF IntakeInv, Unpublished
  <1>9. ReaderInv'
    BY <1>0, ReadersUntouched
  <1> QED BY <1>2, <1>8, <1>9

\* The statements of create() after validation that publish nothing: only a
\* status and the place of the call change.
LEMMA CreateEndsInv ==
    ASSUME SubInv, NEW s \in Ids, NEW status \in SubmissionStatus, UpdateStatus(s, status),
           creating' = [creating EXCEPT ![s] = "done"],
           UNCHANGED <<saved, validations, published, readers, intakeVars, lifecycleVars>>
    PROVE  SubInv'
  <1> USE DEF SubInv
  <1>1. SubTypeOK'
    BY UpdateStatusType DEF SubTypeOK, intakeVars, lifecycleVars
  <1>2. IntakeInv'
    BY CreatingOnly DEF SubTypeOK, Unpublished, intakeVars
  <1>3. ReaderInv'
    BY ReadersUntouched DEF intakeVars, lifecycleVars
  <1> QED BY <1>1, <1>2, <1>3

\* The answer of create() only lets the page begin to poll.
LEMMA MarkQueuedInv ==
    ASSUME SubInv, NEW s \in Ids, MarkQueued(s)
    PROVE  SubInv'
  <1> USE DEF SubInv
  <1>1. /\ UpdateStatus(s, "queued") /\ "queued" \in SubmissionStatus
        /\ creating' = [creating EXCEPT ![s] = "done"]
        /\ readers' = [r \in Calls |-> IF r = s THEN NoReader ELSE readers[r]]
        /\ UNCHANGED <<saved, validations, published, queue, consumer, delivery, rows, phase, verdict>>
    BY DEF MarkQueued, SubmissionStatus, intakeVars, lifecycleVars
  <1>2. SubTypeOK'
    BY <1>1, UpdateStatusType, NoReaderType DEF SubTypeOK
  <1>3. IntakeInv'
    BY <1>1, CreatingOnly DEF SubTypeOK, Unpublished
  <1>4. \A t : ItsJobs(t)' = ItsJobs(t)
    BY <1>1 DEF ItsJobs
  <1>5. ReaderInv'
    BY <1>1, <1>4, NoReaderType DEF ReaderInv, ResultFromItsJob
  <1> QED BY <1>2, <1>3, <1>5

\* A publish is the only step that puts a request on its way, and create() comes
\* to it only without a refusal.
LEMMA PublishInv ==
    ASSUME SubInv, NEW s \in Ids, PublishJobCreation(s)
    PROVE  SubInv'
  <1> USE DEF SubInv
  <1>1. /\ creating[s] = "publish" /\ creating' = [creating EXCEPT ![s] = "mark"]
        /\ queue' = queue \cup {s} /\ published' = published \cup {s}
        /\ UNCHANGED <<submissions, saved, validations, readers, consumer, delivery, rows,
                       phase, verdict>>
    BY DEF PublishJobCreation, lifecycleVars
  <1>2. SubTypeOK'
    BY <1>1 DEF SubTypeOK
  <1>3. \A t \in Ids \ {s} : Intake(t)' <=> Intake(t)
    BY <1>1 DEF Intake, ItsJobs
  <1>4. ~ Refusal(s)
    BY <1>1 DEF IntakeInv
  <1>5. \A t \in Ids : Refusal(t)' <=> Refusal(t)
    BY <1>1 DEF Refusal
  <1>6. PublishedNotLost' /\ (consumer' = "ack" => ItsJobs(delivery)' # {})
    BY <1>1 DEF IntakeInv, PublishedNotLost, ItsJobs
  <1>7. IntakeInv'
    BY <1>1, <1>3, <1>4, <1>5, <1>6 DEF IntakeInv, Unpublished, SubTypeOK
  <1>8. ReaderInv'
    BY <1>1, ReadersUntouched
  <1> QED BY <1>2, <1>7, <1>8

\* A publish that the broker never sees only moves the call on.
LEMMA PublishUnconfirmedInv ==
    ASSUME SubInv, NEW s \in Ids, PublishUnconfirmed(s)
    PROVE  SubInv'
  <1> USE DEF SubInv
  <1>1. /\ creating[s] = "publish" /\ creating' = [creating EXCEPT ![s] = "mark"]
        /\ UNCHANGED <<submissions, saved, validations, published, readers, queue, consumer,
                       delivery, rows, phase, verdict>>
    BY DEF PublishUnconfirmed, intakeVars, lifecycleVars
  <1>2. SubTypeOK'
    BY <1>1 DEF SubTypeOK
  <1>3. IntakeInv'
    BY <1>1, CreatingOnly DEF SubTypeOK, Unpublished
  <1>4. ReaderInv'
    BY <1>1, ReadersUntouched
  <1> QED BY <1>2, <1>3, <1>4

\* Every step of create() keeps the invariant.
LEMMA CreateStepInv ==
    ASSUME SubInv, NEW s \in Ids, CreateStep(s)
    PROVE  SubInv'
  <1>1. CASE ValidateCodeSubmission(s)
    BY <1>1, ValidateInv
  <1>2. CASE Block(s)
    BY <1>2, CreateEndsInv DEF Block, SubmissionStatus
  <1>3. CASE PublishJobCreation(s)
    BY <1>3, PublishInv
  <1>4. CASE PublishUnconfirmed(s)
    BY <1>4, PublishUnconfirmedInv
  <1>5. CASE PublishFails(s)
    BY <1>5, CreateEndsInv DEF PublishFails, SubmissionStatus
  <1>6. CASE MarkQueued(s)
    BY <1>6, MarkQueuedInv
  <1> QED BY <1>1, <1>2, <1>3, <1>4, <1>5, <1>6 DEF CreateStep

\* A recent event that expires changes nothing else.
LEMMA EventExpiresInv ==
    ASSUME SubInv, NEW u \in Users, EventExpires(u)
    PROVE  SubInv'
  <1> USE DEF SubInv
  <1>1. SubTypeOK'
    BY DEF SubTypeOK, EventExpires, intakeVars, lifecycleVars
  <1>2. IntakeInv' /\ ReaderInv'
    BY IntakeUntouched, ReadersUntouched DEF EventExpires, intakeVars, lifecycleVars
  <1> QED BY <1>1, <1>2
-----------------------------------------------------------------------------
\* Steps that pass a request between broker and consumer lose none: what was in
\* one of them still is, unless its job exists.
LEMMA HandedOver ==
    ASSUME SubInv, SubTypeOK', UNCHANGED <<saved, validations, creating, published, readers, rows,
                                           phase, verdict>>,
           consumer' # "ack",
           \A s \in Ids : s \in queue' \/ s = delivery' => s \in queue \/ s = delivery,
           \A s \in Ids : (s \in queue \/ s = delivery) /\ ItsJobs(s) = {} =>
                             s \in queue' \/ s = delivery'
    PROVE  SubInv'
  <1> USE DEF SubInv
  <1>1. \A s : ItsJobs(s)' = ItsJobs(s)
    BY DEF ItsJobs
  <1>2. \A s \in Ids : Intake(s)' => Intake(s)
    BY <1>1 DEF Intake
  <1>3. PublishedNotLost'
    BY <1>1 DEF IntakeInv, PublishedNotLost, SubTypeOK
  <1>4. \A s \in Ids : Refusal(s)' <=> Refusal(s)
    BY DEF Refusal
  <1>5. IntakeInv'
    BY <1>2, <1>3, <1>4 DEF IntakeInv, Unpublished
  <1>6. ReaderInv'
    BY ReadersUntouched
  <1> QED BY <1>5, <1>6

\* The broker hands a request to an idle consumer.
LEMMA DeliverInv ==
    ASSUME SubInv, NEW s \in Ids, Deliver(s)
    PROVE  SubInv'
  <1>1. SubTypeOK'
    BY DEF SubInv, SubTypeOK, Deliver, apiVars, lifecycleVars
  <1> QED
    BY <1>1, HandedOver DEF SubInv, SubTypeOK, Deliver, apiVars, lifecycleVars

\* An acknowledgement forgets a delivery whose job exists.
LEMMA AckInv ==
    ASSUME SubInv, Ack
    PROVE  SubInv'
  <1>1. SubTypeOK'
    BY SubmissionsAssumption DEF SubInv, SubTypeOK, Ack, apiVars, lifecycleVars
  <1> QED
    BY <1>1, HandedOver, SubmissionsAssumption
    DEF SubInv, SubTypeOK, IntakeInv, Ack, apiVars, lifecycleVars

\* When the consumer stops, the broker takes back what was not acknowledged.
LEMMA ConsumerStopsInv ==
    ASSUME SubInv, ConsumerStops
    PROVE  SubInv'
  <1>1. SubTypeOK'
    BY SubmissionsAssumption DEF SubInv, SubTypeOK, ConsumerStops, apiVars, lifecycleVars
  <1> QED
    BY <1>1, HandedOver, SubmissionsAssumption
    DEF SubInv, SubTypeOK, ConsumerStops, apiVars, lifecycleVars

\* A new process consumes the same queue.
LEMMA ControlPlaneStartsInv ==
    ASSUME SubInv, ControlPlaneStarts
    PROVE  SubInv'
  <1>1. SubTypeOK'
    BY DEF SubInv, SubTypeOK, ControlPlaneStarts, apiVars, lifecycleVars
  <1> QED
    BY <1>1, HandedOver DEF SubInv, SubTypeOK, ControlPlaneStarts, apiVars, lifecycleVars

\* A new job belongs to the submission of the delivery, and the others keep theirs.
LEMMA RowsGrow ==
    ASSUME SubTypeOK, delivery \in Ids, rows' = Append(rows, delivery)
    PROVE  \A s \in Ids : ItsJobs(s)' = ItsJobs(s) \cup (IF s = delivery THEN {Len(rows) + 1} ELSE {})
  BY DEF SubTypeOK, ItsJobs

\* CreateJob inserts the row of a job that did not exist, for the request that is
\* being delivered; then the request is acknowledged, or goes back into the queue.
LEMMA CreateJobInv ==
    ASSUME SubInv, consumer = "handle", CreateJob, UNCHANGED apiVars,
           \/ consumer' = "ack" /\ UNCHANGED <<queue, delivery>>
           \/ consumer' = "idle" /\ delivery' = NoId /\ queue' = queue \cup {delivery}
    PROVE  SubInv'
  <1> USE DEF SubInv
  <1> DEFINE j == Len(rows) + 1
  <1>1. /\ delivery \in Ids
        /\ j \in Jobs /\ j \in Nat /\ phase[j] = "absent"
        /\ phase' = [phase EXCEPT ![j] = "waiting"]
        /\ rows' = Append(rows, delivery)
        /\ UNCHANGED <<submissions, saved, validations, creating, published, readers, verdict>>
    BY SubmissionsAssumption DEF CreateJob, Submit, SubTypeOK, apiVars
  <1>2. DOMAIN rows' = DOMAIN rows \cup {j} /\ j \notin DOMAIN rows
        /\ rows' \in Seq(Ids) /\ Len(rows') = j /\ j <= MaxJobs
    BY <1>1 DEF SubTypeOK, CreateJob
  <1>3. SubTypeOK'
    BY <1>1, <1>2, SubmissionsAssumption DEF SubTypeOK
  <1>4. \A s \in Ids : ItsJobs(s) \subseteq ItsJobs(s)'
                       /\ (s # delivery => ItsJobs(s)' = ItsJobs(s))
    BY <1>1, RowsGrow
  <1>5. consumer' = "ack" => ItsJobs(delivery)' # {}
    BY <1>1, RowsGrow
  <1>6. PublishedNotLost'
    BY <1>1, <1>4 DEF IntakeInv, PublishedNotLost, SubTypeOK
  <1>7. \A s \in Ids : Intake(s)' => Intake(s)
    BY <1>1, <1>4, SubmissionsAssumption DEF Intake
  <1>8. IntakeInv'
    BY <1>1, <1>5, <1>6, <1>7 DEF IntakeInv, Unpublished, Refusal
  <1>9. \A k \in DOMAIN rows : phase'[k] = phase[k]
    BY <1>1, <1>2, SubmissionsAssumption DEF SubTypeOK
  <1>10. \A s, k : k \in ItsJobs(s) => k \in ItsJobs(s)' /\ phase'[k] = phase[k]
    BY <1>1, <1>9 DEF ItsJobs, SubTypeOK
  <1>11. ReaderInv'
    BY <1>1, <1>10 DEF ReaderInv, ResultFromItsJob
  <1> QED BY <1>3, <1>8, <1>11

\* A CreateJob that returns an error puts the delivery back into the queue,
\* whether or not its row was inserted.
LEMMA NackInv ==
    ASSUME SubInv, Nack
    PROVE  SubInv'
  <1>1. CASE UNCHANGED <<rows, lifecycleVars>>
    <2>1. SubTypeOK'
      BY <1>1, SubmissionsAssumption DEF SubInv, SubTypeOK, Nack, apiVars, lifecycleVars
    <2> QED
      BY <1>1, <2>1, HandedOver, SubmissionsAssumption
      DEF SubInv, SubTypeOK, Nack, apiVars, lifecycleVars
  <1>2. CASE CreateJob
    BY <1>2, CreateJobInv DEF Nack
  <1> QED BY <1>1, <1>2 DEF Nack

\* No step of a job brings it into being or takes it away, and a done job keeps
\* its verdict.
LEMMA JobStepInv ==
    ASSUME SubInv, JobStep
    PROVE  SubInv'
  <1> USE DEF SubInv
  <1>1. UNCHANGED <<submissions, saved, validations, creating, published, readers, queue,
                    consumer, delivery, rows>>
    BY DEF JobStep, apiVars, intakeVars
  <1>2. /\ phase' \in [Jobs -> {"absent", "waiting", "leased", "done", "dead"}]
        /\ verdict' \in [Jobs -> Verdicts \cup {NoVerdict}]
        /\ \A j \in Jobs : /\ phase'[j] = "absent" <=> phase[j] = "absent"
                           /\ phase[j] = "done" => phase'[j] = "done" /\ verdict'[j] = verdict[j]
    <2>1. CASE \E j \in Jobs, w \in Workers : Claim(j, w)
      BY <2>1 DEF Claim, SubTypeOK
    <2>2. CASE \E j \in Jobs, v \in Verdicts : Finish(j, v)
      BY <2>2 DEF Finish, SubTypeOK
    <2>3. CASE \E lost \in SUBSET Jobs : Lose(lost)
      BY <2>3 DEF Lose, SubTypeOK
    <2> QED BY <2>1, <2>2, <2>3 DEF JobStep
  <1>3. SubTypeOK'
    BY <1>1, <1>2 DEF SubTypeOK
  <1>4. IntakeInv'
    BY <1>1, IntakeUntouched
  <1>5. \A s : ItsJobs(s)' = ItsJobs(s)
    BY <1>1 DEF ItsJobs
  <1>6. ReaderInv'
    BY <1>1, <1>2, <1>5, ItsJobsAreJobs, SMTT(30) DEF ReaderInv, ResultFromItsJob
  <1> QED BY <1>3, <1>4, <1>6
-----------------------------------------------------------------------------
\* Steps of readers that store no result and leave the reader either with
\* nothing or with a job of its submission.
LEMMA ReaderMoves ==
    ASSUME SubInv, NEW r \in Calls, NEW reader \in Reader,
           readers' = [readers EXCEPT ![r] = reader],
           reader.pc \in {"status", "result", "save"} => reader.job \in ItsJobs(reader.id),
           reader.pc = "save" => phase[reader.job] = "done",
           UNCHANGED <<saved, validations, creating, published, intakeVars, lifecycleVars>>,
           DOMAIN submissions' \subseteq Ids,
           submissions' \in [DOMAIN submissions' -> SubmissionStatus]
    PROVE  SubInv'
  <1> USE DEF SubInv
  <1>1. SubTypeOK'
    BY DEF SubTypeOK, intakeVars, lifecycleVars
  <1>2. IntakeInv'
    BY IntakeUntouched DEF intakeVars
  <1>3. \A s : ItsJobs(s)' = ItsJobs(s)
    BY DEF ItsJobs, intakeVars
  <1>4. ReaderInv'
    BY <1>3 DEF ReaderInv, ResultFromItsJob, SubTypeOK, lifecycleVars
  <1> QED BY <1>1, <1>2, <1>4

\* The answer to a call ends it.
LEMMA AnsweredInv ==
    ASSUME SubInv, NEW r \in Calls, NEW status, Answered(r, status),
           UNCHANGED <<saved, validations, creating, published, intakeVars, lifecycleVars>>,
           DOMAIN submissions' \subseteq Ids,
           submissions' \in [DOMAIN submissions' -> SubmissionStatus]
    PROVE  SubInv'
  BY NoReaderType, ReaderMoves DEF Answered

\* GetSubmission reads the row of its submission.
LEMMA GetSubmissionInv ==
    ASSUME SubInv, NEW r \in Calls, NEW s \in Ids, GetSubmission(r, s)
    PROVE  SubInv'
  <1> DEFINE reader == [NoReader EXCEPT !.pc = "job", !.id = s, !.status = submissions[s]]
  <1>1. reader \in Reader /\ reader.pc = "job"
    BY DEF SubInv, SubTypeOK, GetSubmission, NoReader, Reader
  <1>2. CASE Answered(r, submissions[s])
    BY <1>2, AnsweredInv DEF SubInv, SubTypeOK, GetSubmission
  <1>3. CASE readers' = [readers EXCEPT ![r] = reader]
    BY <1>1, <1>3, ReaderMoves DEF SubInv, SubTypeOK, GetSubmission
  <1> QED BY <1>2, <1>3 DEF GetSubmission

\* The control plane answers with a job of the submission, or the call ends.
LEMMA GetJobBySubmissionInv ==
    ASSUME SubInv, NEW r \in Calls, GetJobBySubmission(r)
    PROVE  SubInv'
  <1>1. CASE Answered(r, readers[r].status)
    BY <1>1, AnsweredInv DEF SubInv, SubTypeOK, GetJobBySubmission
  <1>2. ASSUME NEW j \in JobsFor(readers[r].id),
               readers' = [readers EXCEPT ![r].pc = "status", ![r].job = j,
                                          ![r].state = JobStateOf(j)]
        PROVE  SubInv'
    <2> DEFINE reader == [readers[r] EXCEPT !.pc = "status", !.job = j, !.state = JobStateOf(j)]
    <2>1. j \in ItsJobs(readers[r].id)
      BY DEF SubInv, SubTypeOK, JobsFor, ItsJobs
    <2>2. j \in Jobs /\ j \in Nat /\ phase[j] # "absent"
      BY <2>1, ItsJobsAreJobs DEF SubInv
    <2>3. JobStateOf(j) \in {"queued", "running", "completed", "failed"}
      BY <2>2 DEF SubInv, SubTypeOK, JobStateOf
    <2>4. readers[r] \in Reader
      BY DEF SubInv, SubTypeOK
    <2>5. /\ reader \in Reader /\ reader.pc = "status" /\ reader.job = j
          /\ reader.id = readers[r].id
      BY <2>2, <2>3, <2>4 DEF Reader
    <2>6. readers' = [readers EXCEPT ![r] = reader]
      BY <1>2, <2>4, Zenon DEF SubInv, SubTypeOK, Reader
    <2>7. UNCHANGED <<submissions, saved, validations, creating, published, intakeVars, lifecycleVars>>
      BY DEF GetJobBySubmission
    <2>8. /\ DOMAIN submissions' \subseteq Ids
          /\ submissions' \in [DOMAIN submissions' -> SubmissionStatus]
      BY <2>7 DEF SubInv, SubTypeOK
    <2>9. reader.job \in ItsJobs(reader.id)
      BY <2>1, <2>5
    <2> HIDE DEF reader
    <2> QED BY <2>5, <2>6, <2>7, <2>8, <2>9, ReaderMoves
  <1> QED BY <1>1, <1>2 DEF GetJobBySubmission

\* The status that goes with the job's state is written, or the write fails.
LEMMA WriteStatusInv ==
    ASSUME SubInv, NEW r \in Calls, WriteStatus(r)
    PROVE  SubInv'
  <1> DEFINE reader == [readers[r] EXCEPT !.pc = "result"]
  <1>1. readers[r] \in Reader /\ readers[r].job \in ItsJobs(readers[r].id)
    BY DEF SubInv, SubTypeOK, ReaderInv, WriteStatus
  <1>2. /\ reader \in Reader /\ reader.pc = "result"
        /\ reader.job \in ItsJobs(reader.id)
    BY <1>1 DEF Reader
  <1>3. JobStateToStatus(readers[r].state) \in SubmissionStatus
    BY <1>1, JobStateToStatusType DEF Reader
  <1>4. DOMAIN submissions' \subseteq Ids /\ submissions' \in [DOMAIN submissions' -> SubmissionStatus]
    BY <1>3, UpdateStatusType DEF SubInv, SubTypeOK, WriteStatus
  <1>5. CASE Answered(r, JobStateToStatus(readers[r].state))
    BY <1>4, <1>5, AnsweredInv DEF WriteStatus
  <1>6. CASE readers' = [readers EXCEPT ![r].pc = "result"]
    <2>1. readers' = [readers EXCEPT ![r] = reader]
      BY <1>6
    <2> HIDE DEF reader
    <2> QED
      BY <1>2, <1>4, <2>1, ReaderMoves DEF WriteStatus
  <1> QED BY <1>5, <1>6 DEF WriteStatus

\* Only a reader that has seen its job completed goes on to save.
LEMMA GetJobResultInv ==
    ASSUME SubInv, NEW r \in Calls, GetJobResult(r)
    PROVE  SubInv'
  <1>1. readers[r] \in Reader /\ readers[r].job \in ItsJobs(readers[r].id)
    BY DEF SubInv, SubTypeOK, ReaderInv, GetJobResult
  <1>2. CASE Answered(r, JobStateToStatus(readers[r].state))
    BY <1>2, AnsweredInv DEF SubInv, SubTypeOK, GetJobResult
  <1>3. CASE phase[readers[r].job] = "done" /\ readers' = [readers EXCEPT ![r].pc = "save"]
    <2> DEFINE reader == [readers[r] EXCEPT !.pc = "save"]
    <2>1. /\ reader \in Reader /\ reader.pc = "save" /\ reader.job = readers[r].job
          /\ reader.id = readers[r].id /\ readers' = [readers EXCEPT ![r] = reader]
      BY <1>1, <1>3 DEF Reader
    <2>2. /\ UNCHANGED <<submissions, saved, validations, creating, published, intakeVars, lifecycleVars>>
          /\ DOMAIN submissions \subseteq Ids
          /\ submissions \in [DOMAIN submissions -> SubmissionStatus]
      BY DEF SubInv, SubTypeOK, GetJobResult
    <2> HIDE DEF reader
    <2> QED
      BY <1>1, <1>3, <2>1, <2>2, ReaderMoves
  <1> QED BY <1>2, <1>3 DEF GetJobResult

\* What is saved is the verdict of a completed job of the submission.
LEMMA SaveResultInv ==
    ASSUME SubInv, NEW r \in Calls, SaveResult(r)
    PROVE  SubInv'
  <1> USE DEF SubInv
  <1> DEFINE s == readers[r].id
             j == readers[r].job
  <1>1. readers[r] \in Reader /\ j \in ItsJobs(s) /\ phase[j] = "done"
    BY DEF SubTypeOK, ReaderInv, SaveResult
  <1>2. /\ readers' = [readers EXCEPT ![r] = NoReader] \/ readers' = [readers EXCEPT ![r] = PollOver]
        /\ UNCHANGED <<validations, creating, published, queue, consumer, delivery, rows,
                       phase, verdict>>
    BY DEF SaveResult, Answered, intakeVars, lifecycleVars
  <1>3. \/ saved' = saved
        \/ saved' = Insert(saved, s, verdict[j])
    BY DEF SaveResult
  <1>4. DOMAIN submissions' \subseteq Ids /\ submissions' \in [DOMAIN submissions' -> SubmissionStatus]
    BY VerdictToStatusType DEF SubTypeOK, SaveResult
  <1>5. SubTypeOK'
    BY <1>2, <1>4, NoReaderType DEF SubTypeOK
  <1>6. IntakeInv'
    BY <1>2, IntakeUntouched
  <1>7. \A t : ItsJobs(t)' = ItsJobs(t)
    BY <1>2 DEF ItsJobs
  <1>8. ResultFromItsJob'
    BY <1>1, <1>2, <1>3, <1>7 DEF ReaderInv, ResultFromItsJob, Insert
  <1>9. ReaderInv'
    BY <1>2, <1>7, <1>8, NoReaderType DEF ReaderInv, SubTypeOK
  <1> QED BY <1>5, <1>6, <1>9

\* A restart of the API abandons calls and keeps the tables.
LEMMA ApiRestartInv ==
    ASSUME SubInv, ApiRestart
    PROVE  SubInv'
  <1> USE DEF SubInv
  <1>1. SubTypeOK'
    BY NoReaderType DEF SubTypeOK, ApiRestart, intakeVars, lifecycleVars
  <1>2. IntakeInv'
    BY CreatingOnly DEF SubTypeOK, Unpublished, ApiRestart, intakeVars
  <1>3. \A t : ItsJobs(t)' = ItsJobs(t)
    BY DEF ItsJobs, ApiRestart, intakeVars
  <1>4. ReaderInv'
    BY <1>3, NoReaderType DEF ReaderInv, ResultFromItsJob, ApiRestart, lifecycleVars
  <1> QED BY <1>1, <1>2, <1>4

\* A page that is closed changes nothing else.
LEMMA PageLeavesInv ==
    ASSUME SubInv, NEW s \in Pollers, PageLeaves(s)
    PROVE  SubInv'
  BY NoReaderType, ReaderMoves DEF PageLeaves, Calls, SubInv, SubTypeOK

-----------------------------------------------------------------------------
\* Every step, and every step that changes nothing, keeps the invariant.
LEMMA SubNextInv == SubInv /\ [SubNext]_subVars => SubInv'
  <1> SUFFICES ASSUME SubInv, [SubNext]_subVars PROVE SubInv'
    OBVIOUS
  <1>1. CASE \E s \in Ids : Create(s) \/ CreateStep(s)
    BY <1>1, CreateInv, CreateStepInv
  <1>2. CASE \E u \in Users : EventExpires(u)
    BY <1>2, EventExpiresInv
  <1>3. CASE ConsumerStep
    BY <1>3, DeliverInv, CreateJobInv, AckInv DEF ConsumerStep, HandleDelivery
  <1>4. CASE Nack \/ ConsumerStops \/ ControlPlaneStarts
    BY <1>4, NackInv, ConsumerStopsInv, ControlPlaneStartsInv
  <1>5. CASE JobStep
    BY <1>5, JobStepInv
  <1>6. CASE \E r \in Calls, s \in Ids : GetSubmission(r, s)
    BY <1>6, GetSubmissionInv
  <1>7. CASE \E r \in Calls : ReaderStep(r)
    BY <1>7, GetJobBySubmissionInv, WriteStatusInv, GetJobResultInv, SaveResultInv DEF ReaderStep
  <1>8. CASE ApiRestart \/ \E s \in Pollers : PageLeaves(s)
    BY <1>8, ApiRestartInv, PageLeavesInv
  <1>9. CASE UNCHANGED subVars
    <2>1. SubTypeOK'
      BY <1>9 DEF SubInv, SubTypeOK, subVars, apiVars, intakeVars, lifecycleVars
    <2>2. IntakeInv' /\ ReaderInv'
      BY <1>9, IntakeUntouched, ReadersUntouched
      DEF SubInv, subVars, apiVars, intakeVars, lifecycleVars
    <2> QED BY <2>1, <2>2 DEF SubInv
  <1> QED
    BY <1>1, <1>2, <1>3, <1>4, <1>5, <1>6, <1>7, <1>8, <1>9 DEF SubNext

\* The invariant holds in every reachable state.
THEOREM SubInvariant == SubSpec => []SubInv
  BY SubInitInv, SubNextInv, PTL DEF SubSpec

\* A published job request is never lost between the broker, the consumer and the
\* jobs table, through failed inserts, broken channels and restarts.
THEOREM RequestsAreNotLost == SubSpec => []PublishedNotLost
  <1>1. SubInv => PublishedNotLost
    BY DEF SubInv, IntakeInv
  <1> QED BY <1>1, SubInvariant, PTL

\* A submission of whose refusal create() was told is never queued, delivered or
\* given a job.
THEOREM RefusedCodeNeverRuns == SubSpec => []BlockedNeverRuns
  <1>1. SubInv => BlockedNeverRuns
    BY DEF SubInv, IntakeInv, BlockedNeverRuns, Intake
  <1> QED BY <1>1, SubInvariant, PTL

\* A stored result is the verdict of a completed job of the same submission.
THEOREM ResultsAreTrue == SubSpec => []ResultFromItsJob
  <1>1. SubInv => ResultFromItsJob
    BY DEF SubInv, ReaderInv
  <1> QED BY <1>1, SubInvariant, PTL

\* Once a result is stored, no later reader replaces it, whichever of several jobs
\* it has looked at.
THEOREM ResultsAreKept == SubSpec => ResultKept
  <1>1. SubNext => SavedKept
    <2> SUFFICES ASSUME SubNext PROVE SavedKept
      OBVIOUS
    <2>1. CASE \E r \in Calls : SaveResult(r)
      BY <2>1 DEF SaveResult, SavedKept, Insert
    <2>2. CASE UNCHANGED saved
      BY <2>2 DEF SavedKept
    <2>3. ASSUME NEW s \in Ids, Create(s) \/ CreateStep(s) PROVE UNCHANGED saved
      BY <2>3 DEF Create, CreateStep, ValidateCodeSubmission, Block, PublishJobCreation,
                  PublishUnconfirmed, PublishFails, MarkQueued
    <2>4. ASSUME ConsumerStep \/ Nack \/ ConsumerStops \/ ControlPlaneStarts \/ JobStep
          PROVE  UNCHANGED saved
      BY <2>4 DEF ConsumerStep, Deliver, HandleDelivery, Ack, Nack, ConsumerStops,
                  ControlPlaneStarts, JobStep, apiVars
    <2>5. ASSUME NEW r \in Calls, NEW s \in Ids,
                 GetSubmission(r, s)
          PROVE  UNCHANGED saved
      BY <2>5 DEF GetSubmission
    <2>6. ASSUME NEW r \in Calls, GetJobBySubmission(r) \/ WriteStatus(r) \/ GetJobResult(r)
          PROVE  UNCHANGED saved
      BY <2>6 DEF GetJobBySubmission, WriteStatus, GetJobResult
    <2>7. ASSUME (\E u \in Users : EventExpires(u)) \/ ApiRestart \/ \E s \in Pollers : PageLeaves(s)
          PROVE  UNCHANGED saved
      BY <2>7 DEF EventExpires, ApiRestart, PageLeaves
    <2> QED BY <2>1, <2>2, <2>3, <2>4, <2>5, <2>6, <2>7 DEF SubNext, ReaderStep
  <1> QED BY <1>1, PTL DEF SubSpec, ResultKept
-----------------------------------------------------------------------------
(* The status of a submission with one job agrees with its stored result.      *)

\* A reader about to write that the job has failed has seen it dead.
FailedSeen ==
    \A r \in Calls : readers[r].pc = "status" /\ readers[r].state = "failed" =>
                          phase[readers[r].job] = "dead"

StatusInv == StatusMatchesResult /\ FailedSeen

\* A submission of which nothing is on its way has no stored result.
LEMMA NothingSaved ==
    ASSUME SubInv, NEW s \in Ids, ~ Intake(s)
    PROVE  s \notin DOMAIN saved
  BY DEF SubInv, ReaderInv, ResultFromItsJob, Intake

\* A submission has finitely many jobs.
LEMMA FiniteJobs ==
    ASSUME rows \in Seq(Ids), NEW s
    PROVE  IsFiniteSet(ItsJobs(s))
  <1>1. PICK n \in Nat : n = Len(rows)
    OBVIOUS
  <1>2. IsFiniteSet(1 .. n)
    BY <1>1, FS_Interval
  <1>3. ItsJobs(s) \subseteq 1 .. n
    BY <1>1 DEF ItsJobs
  <1> QED BY <1>2, <1>3, FS_Subset

\* Two jobs of a submission with one job are the same one.
LEMMA OnlyJob ==
    ASSUME SubTypeOK, NEW s \in Ids, Cardinality(ItsJobs(s)) <= 1,
           NEW i \in ItsJobs(s), NEW j \in ItsJobs(s)
    PROVE  i = j
  <1> SUFFICES ASSUME i # j PROVE FALSE
    OBVIOUS
  <1>1. PICK J : J = ItsJobs(s)
    OBVIOUS
  <1>2. IsFiniteSet(J)
    BY <1>1, FiniteJobs DEF SubTypeOK
  <1>3. PICK I : I = {i}
    OBVIOUS
  <1>4. IsFiniteSet(I) /\ Cardinality(I) = 1
    BY <1>3, FS_Singleton
  <1>5. Cardinality(I \cup {j}) = 2 /\ I \cup {j} \subseteq J
    <2>1. Cardinality(I \cup {j}) = IF j \in I THEN Cardinality(I) ELSE Cardinality(I) + 1
      BY <1>4, FS_AddElement
    <2> QED BY <1>1, <1>3, <1>4, <2>1
  <1>6. Cardinality(I \cup {j}) <= Cardinality(J) /\ Cardinality(J) \in Nat
    BY <1>2, <1>5, FS_Subset, FS_CardinalityType
  <1>7. Cardinality(J) <= 1
    BY <1>1
  <1> QED BY <1>5, <1>6, <1>7

\* Rows are only added: whoever has one job afterwards had no more before.
LEMMA OneJobBefore ==
    ASSUME SubInv, SubInv', CreateJob, NEW s \in Ids, Cardinality(ItsJobs(s)') <= 1
    PROVE  Cardinality(ItsJobs(s)) <= 1
  <1>1. rows \in Seq(Ids) /\ rows' \in Seq(Ids) /\ rows' = Append(rows, delivery)
    BY DEF SubInv, SubTypeOK, CreateJob
  <1>2. DOMAIN rows \subseteq DOMAIN rows' /\ \A i \in DOMAIN rows : rows'[i] = rows[i]
    BY <1>1, RowsGrow DEF SubInv
  <1>3. PICK I, J : I = ItsJobs(s) /\ J = ItsJobs(s)'
    OBVIOUS
  <1>4. I \subseteq J
    BY <1>2, <1>3 DEF ItsJobs
  <1>5. IsFiniteSet(J)
    <2>1. PICK n \in Nat : DOMAIN rows' = 1 .. n
      BY <1>1
    <2>2. IsFiniteSet(1 .. n)
      BY <2>1, FS_Interval
    <2>3. J \subseteq 1 .. n
      BY <1>3, <2>1 DEF ItsJobs
    <2> QED BY <2>2, <2>3, FS_Subset
  <1>6. Cardinality(I) <= Cardinality(J) /\ Cardinality(I) \in Nat /\ Cardinality(J) \in Nat
    BY <1>4, <1>5, FS_Subset, FS_CardinalityType
  <1>7. Cardinality(J) <= 1
    BY <1>3
  <1> QED BY <1>3, <1>6, <1>7

\* A dead job stays dead, whatever step is taken.
LEMMA DeadStays ==
    ASSUME SubInv, [SubNext]_subVars, NEW j \in Jobs, phase[j] = "dead"
    PROVE  phase'[j] = "dead"
  <1>1. CASE JobStep
    <2>1. CASE \E k \in Jobs, w \in Workers : Claim(k, w)
      BY <2>1 DEF Claim, SubInv, SubTypeOK
    <2>2. CASE \E k \in Jobs, v \in Verdicts : Finish(k, v)
      BY <2>2 DEF Finish, SubInv, SubTypeOK
    <2>3. CASE \E lost \in SUBSET Jobs : Lose(lost)
      BY <2>3 DEF Lose, SubInv, SubTypeOK
    <2> QED BY <1>1, <2>1, <2>2, <2>3 DEF JobStep
  <1>2. CASE CreateJob
    BY <1>2 DEF CreateJob, Submit, SubInv, SubTypeOK
  <1>3. CASE UNCHANGED phase
    BY <1>3
  <1>4. ASSUME NEW s \in Ids, Create(s) \/ CreateStep(s) PROVE UNCHANGED phase
    BY <1>4 DEF Create, CreateStep, ValidateCodeSubmission, Block, PublishJobCreation,
                PublishUnconfirmed, PublishFails, MarkQueued, lifecycleVars
  <1>5. ASSUME ConsumerStep \/ Nack \/ ConsumerStops \/ ControlPlaneStarts
        PROVE  CreateJob \/ UNCHANGED phase
    BY <1>5 DEF ConsumerStep, Deliver, HandleDelivery, Ack, Nack, ConsumerStops,
                ControlPlaneStarts, lifecycleVars
  <1>6. ASSUME NEW r \in Calls, ReaderStep(r) \/ \E s \in Ids : GetSubmission(r, s)
        PROVE  UNCHANGED phase
    BY <1>6 DEF ReaderStep, GetSubmission, GetJobBySubmission, WriteStatus, GetJobResult,
                SaveResult, lifecycleVars
  <1>7. ASSUME \/ \E u \in Users : EventExpires(u)
               \/ ApiRestart \/ \E s \in Pollers : PageLeaves(s)
               \/ UNCHANGED subVars
        PROVE  UNCHANGED phase
    BY <1>7 DEF EventExpires, ApiRestart, PageLeaves, subVars, lifecycleVars
  <1> QED BY <1>1, <1>2, <1>3, <1>4, <1>5, <1>6, <1>7 DEF SubNext

\* Steps that leave every reader where it was, or make it idle, keep what the
\* readers have seen.
LEMMA SeenKept ==
    ASSUME SubInv, FailedSeen, [SubNext]_subVars,
           \A r \in Calls : readers'[r] = readers[r] \/ readers'[r].pc # "status"
    PROVE  FailedSeen'
  <1> SUFFICES ASSUME NEW r \in Calls, readers'[r].pc = "status", readers'[r].state = "failed"
               PROVE  phase'[readers'[r].job] = "dead"
    BY DEF FailedSeen
  <1>1. readers'[r] = readers[r]
    OBVIOUS
  <1>2. phase[readers[r].job] = "dead" /\ readers[r].job \in Jobs
    BY <1>1, ItsJobsAreJobs DEF FailedSeen, SubInv, ReaderInv
  <1> QED BY <1>1, <1>2, DeadStays

\* Steps that change neither statuses, results nor rows keep them in agreement.
LEMMA StatusUntouched ==
    ASSUME StatusMatchesResult, UNCHANGED <<submissions, saved, rows>>
    PROVE  StatusMatchesResult'
  BY DEF StatusMatchesResult, StatusMatches, ItsJobs

\* An UPDATE may write any status that is not terminal, and internal_error or
\* blocked where no result is stored or where there are several jobs.
LEMMA StatusWritten ==
    ASSUME SubTypeOK, StatusMatchesResult, UNCHANGED <<saved, rows>>,
           NEW s, NEW status, UpdateStatus(s, status),
           IsTerminal(status) /\ Cardinality(ItsJobs(s)) <= 1 =>
               status \in {"internal_error", "blocked"} /\ s \notin DOMAIN saved
    PROVE  StatusMatchesResult'
  <1>0. \A k : ItsJobs(k)' = ItsJobs(k)
    BY DEF ItsJobs
  <1>1. CASE UNCHANGED submissions
    BY <1>1, StatusUntouched
  <1>2. CASE submissions' = [submissions EXCEPT ![s] = status]
    <2>1. /\ DOMAIN submissions' = DOMAIN submissions
          /\ \A k \in DOMAIN submissions : submissions'[k] = IF k = s THEN status ELSE submissions[k]
      BY <1>2
    <2> SUFFICES ASSUME NEW k \in DOMAIN submissions, Cardinality(ItsJobs(k)) <= 1
                 PROVE  StatusMatches(k)'
      BY <1>0, <2>1 DEF StatusMatchesResult
    <2>2. StatusMatches(k)
      BY DEF StatusMatchesResult
    <2>3. CASE k = s
      BY <2>1, <2>3 DEF StatusMatches
    <2>4. CASE k # s
      BY <2>1, <2>2, <2>4 DEF StatusMatches
    <2> QED BY <2>3, <2>4
  <1> QED BY <1>1, <1>2 DEF UpdateStatus

\* create() writes blocked and internal_error only before anything was published,
\* and starts no call but the first of the page.
LEMMA CreateStatus ==
    ASSUME SubInv, StatusMatchesResult, NEW s \in Ids, Create(s) \/ CreateStep(s)
    PROVE  /\ StatusMatchesResult'
           /\ \A r \in Calls : readers'[r] = readers[r] \/ readers'[r] = NoReader
  <1> USE DEF SubInv
  <1>1. CASE UNCHANGED <<submissions, saved, readers, rows>>
    BY <1>1, StatusUntouched
  <1>2. CASE Create(s)
    <2>1. /\ \A k \in DOMAIN submissions' \ {s} : k \in DOMAIN submissions
                                                   /\ submissions'[k] = submissions[k]
          /\ submissions'[s] = "pending" /\ UNCHANGED <<saved, readers, rows>>
      BY <1>2 DEF Create, Insert, intakeVars
    <2>2. \A k : ItsJobs(k)' = ItsJobs(k)
      BY <2>1 DEF ItsJobs
    <2>3. StatusMatches(s)'
      BY <2>1 DEF StatusMatches, IsTerminal, SubmissionStatus
    <2>4. \A k \in DOMAIN submissions' \ {s} : StatusMatches(k) => StatusMatches(k)'
      BY <2>1 DEF StatusMatches
    <2> QED BY <2>1, <2>2, <2>3, <2>4 DEF StatusMatchesResult
  <1>3. CASE Block(s) \/ PublishFails(s)
    <2>1. s \notin DOMAIN saved
      BY <1>3, NothingSaved DEF Block, PublishFails, Unpublished, IntakeInv
    <2>2. PICK status \in {"internal_error", "blocked"} : UpdateStatus(s, status)
      BY <1>3 DEF Block, PublishFails
    <2> QED BY <1>3, <2>1, <2>2, StatusWritten DEF Block, PublishFails, intakeVars
  <1>4. CASE MarkQueued(s)
    <2>1. ~ IsTerminal("queued")
      BY DEF IsTerminal, SubmissionStatus
    <2> QED BY <1>4, <2>1, StatusWritten DEF MarkQueued, intakeVars
  <1> QED
    BY <1>1, <1>2, <1>3, <1>4 DEF CreateStep, ValidateCodeSubmission, PublishJobCreation,
                                  PublishUnconfirmed, intakeVars

\* A reader takes the state of the job as it is when it asks.
LEMMA LookupSeen ==
    ASSUME SubInv, FailedSeen, NEW r \in Calls, GetJobBySubmission(r)
    PROVE  FailedSeen'
  <1>1. SubNext
    BY DEF SubNext, ReaderStep
  <1>2. CASE Answered(r, readers[r].status)
    BY <1>1, <1>2, SeenKept, NoReaderType DEF Answered, SubInv, SubTypeOK
  <1>3. ASSUME NEW j \in JobsFor(readers[r].id),
               readers' = [readers EXCEPT ![r].pc = "status", ![r].job = j,
                                          ![r].state = JobStateOf(j)]
        PROVE  FailedSeen'
    <2>1. j \in ItsJobs(readers[r].id)
      BY DEF SubInv, SubTypeOK, JobsFor, ItsJobs
    <2>2. j \in Jobs /\ phase[j] # "absent"
      BY <2>1, ItsJobsAreJobs DEF SubInv
    <2>3. JobStateOf(j) = "failed" => phase[j] = "dead"
      BY <2>2 DEF SubInv, SubTypeOK, JobStateOf
    <2>4. readers \in [Calls -> Reader] /\ UNCHANGED phase
      BY DEF SubInv, SubTypeOK, GetJobBySubmission, lifecycleVars
    <2>5. readers'[r].job = j /\ readers'[r].state = JobStateOf(j)
      BY <1>3, <2>4 DEF Reader
    <2>6. \A q \in Calls \ {r} : readers'[q] = readers[q]
      BY <1>3, <2>4
    <2> QED BY <2>3, <2>4, <2>5, <2>6 DEF FailedSeen
  <1> QED BY <1>2, <1>3 DEF GetJobBySubmission

\* A reader that writes internal_error has seen a job dead, and if it is
\* the only one no result is stored.
LEMMA WriteStatusMatches ==
    ASSUME SubInv, StatusInv, NEW r \in Calls, WriteStatus(r)
    PROVE  StatusMatchesResult'
  <1> USE DEF SubInv, StatusInv
  <1> DEFINE new == JobStateToStatus(readers[r].state)
  <1>1. PICK s, j : s = readers[r].id /\ j = readers[r].job
    OBVIOUS
  <1>2. /\ readers[r] \in Reader /\ j \in ItsJobs(s) /\ UNCHANGED <<saved, rows>>
        /\ readers[r].state = "failed" => phase[j] = "dead"
    BY <1>1 DEF SubTypeOK, ReaderInv, FailedSeen, WriteStatus, intakeVars
  <1>3. s \in Ids
    BY <1>2 DEF SubTypeOK, ItsJobs
  <1>4. /\ IsTerminal(new) => new = "internal_error" /\ readers[r].state = "failed"
    BY <1>2 DEF Reader, JobStateToStatus, IsTerminal, SubmissionStatus
  <1>5. readers[r].state = "failed" /\ Cardinality(ItsJobs(s)) <= 1 => s \notin DOMAIN saved
    BY <1>2, <1>3, OnlyJob DEF ReaderInv, ResultFromItsJob
  <1>6. CASE UNCHANGED submissions
    BY <1>2, <1>6, StatusUntouched
  <1>7. CASE UpdateStatus(s, new)
    BY <1>2, <1>4, <1>5, <1>7, StatusWritten
  <1> QED BY <1>1, <1>6, <1>7 DEF WriteStatus

\* Whoever saves writes the status of the verdict it has read: the stored one, if
\* the job is the only one.
LEMMA SaveResultMatches ==
    ASSUME SubInv, StatusMatchesResult, NEW r \in Calls, SaveResult(r)
    PROVE  StatusMatchesResult'
  <1> USE DEF SubInv
  <1>0. UNCHANGED rows /\ \A k : ItsJobs(k)' = ItsJobs(k)
    BY DEF SaveResult, intakeVars, ItsJobs
  <1>1. PICK s, j, v : s = readers[r].id /\ j = readers[r].job /\ v = verdict[j]
    OBVIOUS
  <1>2. j \in ItsJobs(s)
    BY <1>1 DEF ReaderInv, SaveResult
  <1>3. s \in Ids
    BY <1>2 DEF SubTypeOK, ItsJobs
  <1>4. s \in DOMAIN saved /\ Cardinality(ItsJobs(s)) <= 1 => saved[s] = v
    BY <1>1, <1>2, <1>3, OnlyJob DEF ReaderInv, ResultFromItsJob
  <1>5. CASE UNCHANGED <<saved, submissions>>
    BY <1>0, <1>5, StatusUntouched
  <1>6. CASE /\ saved' = IF s \in DOMAIN saved THEN saved ELSE Insert(saved, s, v)
             /\ submissions' = [submissions EXCEPT ![s] = VerdictToStatus(v)]
    <2>1. /\ s \in DOMAIN saved' /\ (Cardinality(ItsJobs(s)) <= 1 => saved'[s] = v)
          /\ \A k : k # s => (k \in DOMAIN saved' <=> k \in DOMAIN saved)
                             /\ (k \in DOMAIN saved => saved'[k] = saved[k])
      BY <1>4, <1>6 DEF Insert
    <2>2. /\ DOMAIN submissions' = DOMAIN submissions
          /\ \A k \in DOMAIN submissions :
                submissions'[k] = IF k = s THEN VerdictToStatus(v) ELSE submissions[k]
      BY <1>6
    <2> SUFFICES ASSUME NEW k \in DOMAIN submissions, Cardinality(ItsJobs(k)) <= 1
                 PROVE  StatusMatches(k)'
      BY <1>0, <2>2 DEF StatusMatchesResult
    <2>3. CASE k = s
      BY <2>1, <2>2, <2>3 DEF StatusMatches
    <2>4. CASE k # s
      <3>1. StatusMatches(k)
        BY DEF StatusMatchesResult
      <3> QED BY <2>1, <2>2, <2>4, <3>1 DEF StatusMatches
    <2> QED BY <2>3, <2>4
  <1> QED BY <1>1, <1>5, <1>6 DEF SaveResult

\* A new row leaves statuses and results alone.
LEMMA CreateJobMatches ==
    ASSUME SubInv, SubInv', StatusMatchesResult, CreateJob, UNCHANGED <<submissions, saved>>
    PROVE  StatusMatchesResult'
  <1> SUFFICES ASSUME NEW s \in DOMAIN submissions, Cardinality(ItsJobs(s)') <= 1
               PROVE  StatusMatches(s)'
    BY DEF StatusMatchesResult
  <1>1. Cardinality(ItsJobs(s)) <= 1
    BY OneJobBefore DEF SubInv, SubTypeOK
  <1> QED BY <1>1 DEF StatusMatchesResult, StatusMatches

\* Every step keeps status and result of a submission with one job in agreement.
LEMMA StatusNext ==
    ASSUME SubInv, SubInv', StatusInv, [SubNext]_subVars
    PROVE  StatusInv'
  <1> USE DEF StatusInv
  <1>0. readers \in [Calls -> Reader]
    BY DEF SubInv, SubTypeOK
  <1>1. CASE UNCHANGED <<submissions, saved, readers, rows>>
    BY <1>1, SeenKept, StatusUntouched
  <1>2. CASE \E s \in Ids : Create(s) \/ CreateStep(s)
    BY <1>2, CreateStatus, SeenKept, NoReaderType
  <1>3. ASSUME NEW r \in Calls, NEW s \in Ids, GetSubmission(r, s) PROVE StatusInv'
    <2>1. \A q \in Calls : readers'[q] = readers[q] \/ readers'[q].pc # "status"
      BY <1>0, <1>3, NoReaderType DEF GetSubmission, Answered, NoReader
    <2> QED BY <1>3, <2>1, SeenKept, StatusUntouched DEF GetSubmission, intakeVars
  <1>4. ASSUME NEW r \in Calls, GetJobBySubmission(r) PROVE StatusInv'
    BY <1>4, LookupSeen, StatusUntouched DEF GetJobBySubmission, intakeVars
  <1>5. ASSUME NEW r \in Calls, WriteStatus(r) PROVE StatusInv'
    <2>1. \A q \in Calls : readers'[q] = readers[q] \/ readers'[q].pc # "status"
      BY <1>0, <1>5, NoReaderType DEF WriteStatus, Answered, Reader
    <2> QED BY <1>5, <2>1, SeenKept, WriteStatusMatches
  <1>6. ASSUME NEW r \in Calls, GetJobResult(r) PROVE StatusInv'
    <2>1. \A q \in Calls : readers'[q] = readers[q] \/ readers'[q].pc # "status"
      BY <1>0, <1>6, NoReaderType DEF GetJobResult, Answered, Reader
    <2> QED BY <1>6, <2>1, SeenKept, StatusUntouched DEF GetJobResult, intakeVars
  <1>7. ASSUME NEW r \in Calls, SaveResult(r) PROVE StatusInv'
    <2>1. \A q \in Calls : readers'[q] = readers[q] \/ readers'[q].pc # "status"
      BY <1>0, <1>7, NoReaderType DEF SaveResult, Answered
    <2> QED BY <1>7, <2>1, SeenKept, SaveResultMatches
  <1>8. CASE ApiRestart \/ \E s \in Pollers : PageLeaves(s)
    <2>1. \A q \in Calls : readers'[q] = readers[q] \/ readers'[q].pc # "status"
      BY <1>0, <1>8, NoReaderType DEF ApiRestart, PageLeaves
    <2> QED BY <1>8, <2>1, SeenKept, StatusUntouched DEF ApiRestart, PageLeaves, intakeVars
  <1>9. CASE CreateJob /\ UNCHANGED apiVars
    BY <1>9, SeenKept, CreateJobMatches DEF apiVars
  <1>10. ASSUME \/ \E u \in Users : EventExpires(u)
                \/ ConsumerStep \/ Nack \/ ConsumerStops \/ ControlPlaneStarts \/ JobStep
                \/ UNCHANGED subVars
         PROVE  (CreateJob /\ UNCHANGED apiVars) \/ UNCHANGED <<submissions, saved, readers, rows>>
    BY <1>10 DEF EventExpires, ConsumerStep, Deliver, HandleDelivery, Ack, Nack, ConsumerStops,
                 ControlPlaneStarts, JobStep, subVars, apiVars, intakeVars
  <1> QED
    BY <1>1, <1>2, <1>3, <1>4, <1>5, <1>6, <1>7, <1>8, <1>9, <1>10 DEF SubNext, ReaderStep

\* The terminal status a client is shown agrees with the stored result, and every
\* verdict that is shown has one, for every submission that has not got a second
\* job, however the separate statements of create() and of the readers interleave,
\* fail or are cut off by a restart.
THEOREM StatusesMatchResults == SubSpec => []StatusMatchesResult
  <1>1. SubInit => StatusInv
    BY DEF SubInit, StatusInv, StatusMatchesResult, FailedSeen, EmptyTable, NoReader, NotPolling
  <1>2. SubInv /\ SubInv' /\ StatusInv /\ [SubNext]_subVars => StatusInv'
    BY StatusNext
  <1>3. StatusInv => StatusMatchesResult
    BY DEF StatusInv
  <1> QED BY <1>1, <1>2, <1>3, SubInvariant, PTL DEF SubSpec
-----------------------------------------------------------------------------
(* Where second jobs come from.                                               *)

\* The consumer does not stop between CreateJob and its acknowledgement, and a
\* CreateJob that returns an error has inserted nothing.
HandledOnce ==
    /\ ConsumerStops => consumer # "ack"
    /\ Nack => UNCHANGED rows

\* A request is in one place: in the queue, in a delivery or in the jobs table.
OnePlace ==
    /\ \A i, j \in DOMAIN rows : rows[i] = rows[j] => i = j
    /\ \A s \in queue : s # delivery /\ ItsJobs(s) = {}
    /\ consumer = "handle" => ItsJobs(delivery) = {}

\* Steps that leave broker, consumer and jobs table alone.
LEMMA PlaceUntouched ==
    ASSUME OnePlace, UNCHANGED <<queue, consumer, delivery, rows>>
    PROVE  OnePlace'
  BY DEF OnePlace, ItsJobs

\* A request is published once, when it is nowhere yet.
LEMMA PublishPlace ==
    ASSUME SubInv, OnePlace, NEW s \in Ids, PublishJobCreation(s)
    PROVE  OnePlace'
  <1>1. s # delivery /\ ItsJobs(s) = {}
    BY DEF PublishJobCreation, SubInv, IntakeInv, Unpublished, Intake
  <1> QED BY <1>1 DEF PublishJobCreation, OnePlace, ItsJobs

\* CreateJob turns the delivery into a row, and the delivery had none.
LEMMA HandlePlace ==
    ASSUME SubInv, OnePlace, HandleDelivery
    PROVE  OnePlace'
  <1>1. /\ delivery \in Ids /\ ItsJobs(delivery) = {} /\ rows' = Append(rows, delivery)
        /\ consumer' = "ack" /\ UNCHANGED <<queue, delivery>>
        /\ rows \in Seq(Ids) /\ queue \subseteq Ids
    BY DEF HandleDelivery, CreateJob, SubInv, SubTypeOK, OnePlace
  <1>2. \A s \in Ids \ {delivery} : ItsJobs(s)' = ItsJobs(s)
    BY <1>1, RowsGrow DEF SubInv
  <1>3. /\ DOMAIN rows' = DOMAIN rows \cup {Len(rows) + 1}
        /\ rows'[Len(rows) + 1] = delivery
        /\ \A i \in DOMAIN rows : rows'[i] = rows[i] /\ rows[i] # delivery
    BY <1>1 DEF ItsJobs
  <1>4. \A i, j \in DOMAIN rows' : rows'[i] = rows'[j] => i = j
    BY <1>3 DEF OnePlace
  <1> QED BY <1>1, <1>2, <1>4 DEF OnePlace

\* The other steps of broker and consumer move a request that has no job yet, or
\* drop one that has.
LEMMA ConsumerPlace ==
    ASSUME SubInv, OnePlace, HandledOnce,
           (\E s \in Ids : Deliver(s)) \/ Ack \/ Nack \/ ConsumerStops \/ ControlPlaneStarts
    PROVE  OnePlace'
  <1>1. UNCHANGED rows
    BY DEF Deliver, Ack, HandledOnce, ConsumerStops, ControlPlaneStarts
  <1>2. \A s : ItsJobs(s)' = ItsJobs(s)
    BY <1>1 DEF ItsJobs
  <1>3. CASE \E s \in Ids : Deliver(s)
    BY <1>1, <1>2, <1>3 DEF Deliver, OnePlace
  <1>4. CASE Ack \/ ControlPlaneStarts
    BY <1>1, <1>2, <1>4, SubmissionsAssumption
    DEF Ack, ControlPlaneStarts, OnePlace, SubInv, SubTypeOK
  <1>5. CASE Nack \/ ConsumerStops
    <2>1. delivery \in Ids => consumer = "handle"
      BY <1>5 DEF Nack, HandledOnce, SubInv, SubTypeOK
    <2>2. \A s \in queue' : s \in Ids /\ ItsJobs(s) = {}
      BY <1>5, <2>1 DEF Nack, ConsumerStops, OnePlace, SubInv, SubTypeOK
    <2>3. delivery' = NoId /\ consumer' # "handle"
      BY <1>5 DEF Nack, ConsumerStops
    <2> QED BY <1>1, <1>2, <2>2, <2>3, SubmissionsAssumption DEF OnePlace
  <1> QED BY <1>3, <1>4, <1>5

\* Every step keeps a request in one place.
LEMMA PlaceNext ==
    ASSUME SubInv, OnePlace, [SubNext]_subVars, [HandledOnce]_subVars
    PROVE  OnePlace'
  <1>1. CASE UNCHANGED <<queue, consumer, delivery, rows>>
    BY <1>1, PlaceUntouched
  <1>2. CASE \E s \in Ids : PublishJobCreation(s)
    BY <1>2, PublishPlace
  <1>3. CASE HandleDelivery
    BY <1>3, HandlePlace
  <1>4. CASE (\E s \in Ids : Deliver(s)) \/ Ack \/ Nack \/ ConsumerStops \/ ControlPlaneStarts
    <2>1. CASE HandledOnce
      BY <1>4, <2>1, ConsumerPlace
    <2>2. CASE UNCHANGED subVars
      BY <1>1, <2>2 DEF subVars, intakeVars
    <2> QED BY <2>1, <2>2
  <1>5. ASSUME NEW s \in Ids, Create(s) \/ CreateStep(s), ~ PublishJobCreation(s)
        PROVE  UNCHANGED <<queue, consumer, delivery, rows>>
    BY <1>5 DEF Create, CreateStep, ValidateCodeSubmission, Block, PublishUnconfirmed,
                PublishFails, MarkQueued, intakeVars
  <1>6. ASSUME NEW r \in Calls, ReaderStep(r) \/ \E s \in Ids : GetSubmission(r, s)
        PROVE  UNCHANGED <<queue, consumer, delivery, rows>>
    BY <1>6 DEF ReaderStep, GetSubmission, GetJobBySubmission, WriteStatus, GetJobResult,
                SaveResult, intakeVars
  <1>7. ASSUME \/ \E u \in Users : EventExpires(u)
               \/ JobStep \/ ApiRestart \/ \E s \in Pollers : PageLeaves(s)
               \/ UNCHANGED subVars
        PROVE  UNCHANGED <<queue, consumer, delivery, rows>>
    BY <1>7 DEF EventExpires, JobStep, ApiRestart, PageLeaves, subVars, intakeVars
  <1> QED BY <1>1, <1>2, <1>3, <1>4, <1>5, <1>6, <1>7 DEF SubNext, ConsumerStep

\* Rows of different submissions: at most one job each.
LEMMA OnePlaceOneJob == OnePlace => OneJobPerSubmission
  <1> SUFFICES ASSUME OnePlace, NEW s \in Ids PROVE Cardinality(ItsJobs(s)) <= 1
    BY DEF OneJobPerSubmission
  <1>1. PICK J : J = ItsJobs(s)
    OBVIOUS
  <1>2. CASE J = {}
    BY <1>1, <1>2, FS_EmptySet
  <1>3. ASSUME NEW j \in J PROVE Cardinality(J) <= 1
    <2>1. J = {j}
      BY <1>1 DEF OnePlace, ItsJobs
    <2>2. Cardinality({j}) = 1
      BY FS_Singleton
    <2> QED BY <2>1, <2>2
  <1> QED BY <1>1, <1>2, <1>3

\* A submission gets a second job only through a consumer that stops after
\* CreateJob and before the acknowledgement, or through a CreateJob whose INSERT is
\* committed although it returns an error: the broker delivers again what was
\* handled already, and nothing in CreateJob recognises it.  Inserts that fail,
\* lost confirmations, stops at any other point and restarts of the API duplicate
\* nothing.
THEOREM SecondJobNeedsRedelivery ==
    SubSpec /\ [][HandledOnce]_subVars => []OneJobPerSubmission
  <1>1. SubInit => OnePlace
    BY DEF SubInit, OnePlace, ItsJobs
  <1>2. SubInv /\ OnePlace /\ [SubNext]_subVars /\ [HandledOnce]_subVars => OnePlace'
    BY PlaceNext
  <1> QED BY <1>1, <1>2, OnePlaceOneJob, SubInvariant, PTL DEF SubSpec

\* Hence, as long as no request that was handled comes back, status and stored
\* result of every submission agree.
THEOREM StatusesMatchWithoutRedelivery ==
    SubSpec /\ [][HandledOnce]_subVars => [](\A s \in DOMAIN submissions : StatusMatches(s))
  <1>1. SubInv /\ StatusMatchesResult /\ OneJobPerSubmission =>
            \A s \in DOMAIN submissions : StatusMatches(s)
    BY DEF SubInv, SubTypeOK, StatusMatchesResult, OneJobPerSubmission
  <1> QED BY <1>1, SubInvariant, SecondJobNeedsRedelivery, StatusesMatchResults, PTL
=============================================================================
