----------------------------- MODULE Submissions -----------------------------
(***************************************************************************)
(* A submission on its way through the API: create() stores it, has it      *)
(* validated and publishes a job request; the control plane's RabbitMQ       *)
(* consumer turns the request into a job; GetSubmission, called by polling   *)
(* clients, copies the job's state and result back into the API's tables.    *)
(* No two of these steps share a transaction.                                *)
(*                                                                          *)
(* Jobs behave as JobLifecycle says, which JobQueue implements.  Job ids are  *)
(* ranks of insertion, so that ORDER BY queued_at DESC is the order on ids.  *)
(***************************************************************************)
EXTENDS JobLifecycle, Sequences, FiniteSets

CONSTANTS
    Ids,         \* submission ids
    Users, UserOf,
    Readers,     \* GetSubmission request goroutines
    Pollers,     \* submissions whose page stays open and polls (pollSubmission)
    Threshold,   \* violationThreshold
    MaxEvents,   \* bound: security events of a user that are recent
    MaxJobs,     \* bound: jobs rows
    Replies,     \* what the AI may reply: [kind, is_allowed, severity]
    Faults,      \* which faults happen: of db, lost, net, api, ai, cp, broker, unconfirmed
    NoId

ASSUME SubmissionsAssumption ==
    /\ MaxJobs \in Nat /\ Jobs = 1 .. MaxJobs
    /\ UserOf \in [Ids -> Users]
    /\ NoId \notin Ids
    /\ Pollers \subseteq Ids /\ Readers \cap Ids = {}

VARIABLES
    submissions,  \* the submissions table: id -> status
    saved,        \* the submission_results table: id -> overall verdict
    events,       \* security_events rows of each user that are recent
    validations,  \* the ai_code_validations table: id -> [allowed, severity], with
                  \* (history) whether create() was told of a refusal
    creating,     \* where the create() call of each submission is
    published,    \* history: submissions whose job request was published
    queue,        \* the jobs.create queue: requests ready for delivery
    consumer,     \* idle, handle, ack or stopped
    delivery,     \* the delivery that is not acknowledged yet (prefetch 1)
    rows,         \* the jobs table: the submission of each job
    readers       \* where each GetSubmission call is; the calls of a polling page
                  \* go by the id of its submission

apiVars == <<submissions, saved, events, validations, creating, published, readers>>
intakeVars == <<queue, consumer, delivery, rows>>
subVars == <<apiVars, intakeVars, lifecycleVars>>

SubmissionStatus ==
    {"pending", "queued", "running", "accepted", "wrong_answer", "time_limit_exceeded",
     "memory_limit_exceeded", "runtime_error", "compilation_error", "internal_error", "blocked"}
IsTerminal(status) == status \in SubmissionStatus \ {"pending", "queued", "running"}

\* Mutant: a failed job is reported as still running.
JobStateToStatusFailedRuns(state) == IF state = "queued" THEN "queued" ELSE "running"
JobStateToStatus(state) ==
    CASE state = "queued" -> "queued"
      [] state \in {"assigned", "running", "completed"} -> "running"
      [] state \in {"failed", "retry_pending"} -> "internal_error"

VerdictStatus ==
    [Accepted |-> "accepted", WrongAnswer |-> "wrong_answer",
     TimeLimitExceeded |-> "time_limit_exceeded",
     MemoryLimitExceeded |-> "memory_limit_exceeded", RuntimeError |-> "runtime_error",
     CompilationError |-> "compilation_error", SandboxViolation |-> "blocked"]
VerdictToStatus(v) == IF v \in DOMAIN VerdictStatus THEN VerdictStatus[v] ELSE "internal_error"

JobStateOf(j) == CASE phase[j] = "waiting" -> "queued"
                   [] phase[j] = "leased" -> "running"
                   [] phase[j] = "done" -> "completed"
                   [] phase[j] = "dead" -> "failed"

EmptyTable == [key \in {} |-> {}]
Insert(table, key, row) ==
    [k \in DOMAIN table \cup {key} |-> IF k = key THEN row ELSE table[k]]

Calls == Readers \cup Pollers
NoReader == [pc |-> "idle", id |-> NoId, status |-> "pending", job |-> 0, state |-> "queued"]
\* A page before create() has answered it, and one that asks no more.
NotPolling == [NoReader EXCEPT !.pc = "none"]
PollOver == [NoReader EXCEPT !.pc = "over"]

SubInit ==
    /\ LifecycleInit
    /\ submissions = EmptyTable
    /\ saved = EmptyTable
    /\ events = [u \in Users |-> 0]
    /\ validations = EmptyTable
    /\ creating = [s \in Ids |-> "none"]
    /\ published = {}
    /\ queue = {}
    /\ consumer = "idle"
    /\ delivery = NoId
    /\ rows = <<>>
    /\ readers = [r \in Calls |-> IF r \in Pollers THEN NotPolling ELSE NoReader]
-----------------------------------------------------------------------------
(* Statements whose error the code ignores: with the db fault they may fail. *)
(* Where an error is not ignored, the lost fault is a statement that commits   *)
(* although its caller gets an error (connection lost, context cancelled).     *)

UpdateStatus(s, status) ==
    \/ submissions' = [submissions EXCEPT ![s] = status]
    \/ "db" \in Faults /\ UNCHANGED submissions

\* The labels of the enumeration type that the severity is cast to.
SecuritySeverity == {"info", "warn", "high", "block"}

LogSecurityEvent(s, severity) ==
    \/ /\ severity \in SecuritySeverity
       /\ events[UserOf[s]] < MaxEvents
       /\ events' = [events EXCEPT ![UserOf[s]] = @ + 1]
    \/ /\ severity \in SecuritySeverity => "db" \in Faults \/ events[UserOf[s]] = MaxEvents
       /\ UNCHANGED events

\* The event falls out of the ten-minute window that is counted.
EventExpires(u) ==
    /\ events[u] > 0
    /\ events' = [events EXCEPT ![u] = @ - 1]
    /\ UNCHANGED <<submissions, saved, validations, creating, published, readers, intakeVars, lifecycleVars>>
-----------------------------------------------------------------------------
(* create().  Requests refused before the insert change nothing.             *)

Create(s) ==
    /\ creating[s] = "none"
    /\ events[UserOf[s]] < Threshold \/ "db" \in Faults
    /\ submissions' = Insert(submissions, s, "pending")
    /\ \/ creating' = [creating EXCEPT ![s] = "validate"]
       \/ "lost" \in Faults /\ creating' = [creating EXCEPT ![s] = "done"]
    /\ UNCHANGED <<saved, events, validations, published, readers, intakeVars, lifecycleVars>>

\* A reply that does not say that the code is allowed refuses it.
parseValidationResponse(reply) ==
    [allowed |-> reply.is_allowed = "true",
     severity |-> IF reply.severity = "none" THEN "warn" ELSE reply.severity]

\* A failed call and a reply that is not JSON refuse the code.
Refused == [allowed |-> FALSE, severity |-> "block"]
Responses(reply) ==
    {IF reply.kind = "json" THEN parseValidationResponse(reply) ELSE Refused}
    \cup (IF "ai" \in Faults THEN {Refused} ELSE {})

CreateValidation(s, response, returned) ==
    validations' = Insert(validations, s, [allowed |-> response.allowed,
                                           severity |-> response.severity,
                                           told |-> returned /\ ~ response.allowed])

\* The AI is asked and its answer stored; an error, whether or not the answer
\* was stored, makes create() go on.  Nothing reads the row of
\* LogValidationRequest.
ValidateCodeSubmission(s) ==
    /\ creating[s] = "validate"
    /\ \/ \E reply \in Replies : \E response \in Responses(reply) :
            \/ /\ CreateValidation(s, response, TRUE)
               /\ creating' = [creating EXCEPT ![s] = IF response.allowed THEN "publish" ELSE "block"]
            \/ /\ "lost" \in Faults
               /\ CreateValidation(s, response, FALSE)
               /\ creating' = [creating EXCEPT ![s] = "publish"]
       \/ /\ "db" \in Faults
          /\ creating' = [creating EXCEPT ![s] = "publish"]
          /\ UNCHANGED validations
    /\ UNCHANGED <<submissions, saved, events, published, readers, intakeVars, lifecycleVars>>

\* Mutant: no return after the block.
BlockGoesOn(s) ==
    /\ creating[s] = "block"
    /\ UpdateStatus(s, "blocked")
    /\ LogSecurityEvent(s, validations[s].severity)
    /\ creating' = [creating EXCEPT ![s] = "publish"]
    /\ UNCHANGED <<saved, validations, published, readers, intakeVars, lifecycleVars>>

Block(s) ==
    /\ creating[s] = "block"
    /\ UpdateStatus(s, "blocked")
    /\ LogSecurityEvent(s, validations[s].severity)
    /\ creating' = [creating EXCEPT ![s] = "done"]
    /\ UNCHANGED <<saved, validations, published, readers, intakeVars, lifecycleVars>>

PublishJobCreation(s) ==
    /\ creating[s] = "publish"
    /\ queue' = queue \cup {s}
    /\ published' = published \cup {s}
    /\ creating' = [creating EXCEPT ![s] = "mark"]
    /\ UNCHANGED <<submissions, saved, events, validations, readers, consumer, delivery, rows, lifecycleVars>>

\* No publisher confirms: the call succeeds although the broker never has it.
PublishUnconfirmed(s) ==
    /\ "unconfirmed" \in Faults
    /\ creating[s] = "publish"
    /\ creating' = [creating EXCEPT ![s] = "mark"]
    /\ UNCHANGED <<submissions, saved, events, validations, published, readers, intakeVars, lifecycleVars>>

PublishFails(s) ==
    /\ "broker" \in Faults
    /\ creating[s] = "publish"
    /\ UpdateStatus(s, "internal_error")
    /\ creating' = [creating EXCEPT ![s] = "done"]
    /\ UNCHANGED <<saved, events, validations, published, readers, intakeVars, lifecycleVars>>

\* After the publish, whatever the status has become in the meantime; with the
\* answer the page starts to poll.
MarkQueued(s) ==
    /\ creating[s] = "mark"
    /\ UpdateStatus(s, "queued")
    /\ creating' = [creating EXCEPT ![s] = "done"]
    /\ readers' = [r \in Calls |-> IF r = s THEN NoReader ELSE readers[r]]
    /\ UNCHANGED <<saved, events, validations, published, intakeVars, lifecycleVars>>
-----------------------------------------------------------------------------
(* The control plane's consumer: one delivery at a time, acknowledged after   *)
(* CreateJob.                                                                *)

Deliver(s) ==
    /\ consumer = "idle"
    /\ s \in queue
    /\ queue' = queue \ {s}
    /\ consumer' = "handle"
    /\ delivery' = s
    /\ UNCHANGED <<apiVars, rows, lifecycleVars>>

\* The INSERT of a jobs row for the delivery.
CreateJob ==
    LET j == Len(rows) + 1 IN
    /\ j <= MaxJobs
    /\ \E attempts \in Budgets : Submit(j, attempts)
    /\ rows' = Append(rows, delivery)

HandleDelivery ==
    /\ consumer = "handle"
    /\ CreateJob
    /\ consumer' = "ack"
    /\ UNCHANGED <<apiVars, queue, delivery>>

\* Mutant: nack without requeue.
NackDropped ==
    /\ "db" \in Faults
    /\ consumer = "handle"
    /\ consumer' = "idle"
    /\ delivery' = NoId
    /\ UNCHANGED <<apiVars, queue, rows, lifecycleVars>>

\* CreateJob returns an error, with or without its row: negative
\* acknowledgement with requeue.
Nack ==
    /\ consumer = "handle"
    /\ \/ "db" \in Faults /\ UNCHANGED <<rows, lifecycleVars>>
       \/ "lost" \in Faults /\ CreateJob
    /\ queue' = queue \cup {delivery}
    /\ consumer' = "idle"
    /\ delivery' = NoId
    /\ UNCHANGED apiVars

Ack ==
    /\ consumer = "ack"
    /\ consumer' = "idle"
    /\ delivery' = NoId
    /\ UNCHANGED <<apiVars, queue, rows, lifecycleVars>>

\* The channel closes, an Ack fails or the process dies; the broker requeues
\* what is not acknowledged.  Nothing but a new process consumes again.
ConsumerStops ==
    /\ "cp" \in Faults
    /\ consumer # "stopped"
    /\ consumer' = "stopped"
    /\ queue' = queue \cup ({delivery} \ {NoId})
    /\ delivery' = NoId
    /\ UNCHANGED <<apiVars, rows, lifecycleVars>>

ControlPlaneStarts ==
    /\ consumer = "stopped"
    /\ consumer' = "idle"
    /\ UNCHANGED <<apiVars, queue, delivery, rows, lifecycleVars>>
-----------------------------------------------------------------------------
(* GetSubmission.  For a terminal status it only reads.                      *)

\* The call is answered: a page that gets a terminal status stops polling.
Answered(r, status) ==
    readers' = [readers EXCEPT ![r] = IF r \in Pollers /\ IsTerminal(status)
                                      THEN PollOver ELSE NoReader]

GetSubmission(r, s) ==
    /\ readers[r].pc = "idle"
    /\ r \in Pollers => s = r
    /\ s \in DOMAIN submissions
    /\ IF IsTerminal(submissions[s])
       THEN Answered(r, submissions[s])
       ELSE readers' = [readers EXCEPT ![r] = [NoReader EXCEPT !.pc = "job", !.id = s,
                                                               !.status = submissions[s]]]
    /\ UNCHANGED <<submissions, saved, events, validations, creating, published, intakeVars, lifecycleVars>>

\* Mutant: the newest job of anybody.
JobsForAny(s) == 1 .. Len(rows)
JobsFor(s) == {j \in 1 .. Len(rows) : rows[j] = s}

GetJobBySubmission(r) ==
    LET found == JobsFor(readers[r].id) IN
    /\ readers[r].pc = "job"
    /\ \/ \E newest \in found :
            /\ \A j \in found : j <= newest
            /\ readers' = [readers EXCEPT ![r].pc = "status", ![r].job = newest,
                                          ![r].state = JobStateOf(newest)]
       \/ /\ found = {} \/ "net" \in Faults
          /\ Answered(r, readers[r].status)
    /\ UNCHANGED <<submissions, saved, events, validations, creating, published, intakeVars, lifecycleVars>>

WriteStatus(r) ==
    LET new == JobStateToStatus(readers[r].state) IN
    /\ readers[r].pc = "status"
    /\ IF new # readers[r].status THEN UpdateStatus(readers[r].id, new)
                                  ELSE UNCHANGED submissions
    /\ IF readers[r].state \in {"completed", "failed"}
       THEN readers' = [readers EXCEPT ![r].pc = "result"]
       ELSE Answered(r, new)
    /\ UNCHANGED <<saved, events, validations, creating, published, intakeVars, lifecycleVars>>

\* A failed job has no result row: the call is answered with 404.
GetJobResult(r) ==
    /\ readers[r].pc = "result"
    /\ \/ /\ phase[readers[r].job] = "done"
          /\ readers' = [readers EXCEPT ![r].pc = "save"]
          /\ IF verdict[readers[r].job] = "SandboxViolation"
             THEN LogSecurityEvent(readers[r].id, "block") ELSE UNCHANGED events
       \/ /\ phase[readers[r].job] # "done" \/ "net" \in Faults
          /\ Answered(r, JobStateToStatus(readers[r].state))
          /\ UNCHANGED events
    /\ UNCHANGED <<submissions, saved, validations, creating, published, intakeVars, lifecycleVars>>

\* Mutants: the insert overwrites; the two writes are not one transaction.
SaveResultOverwrites(r) ==
    LET s == readers[r].id
        v == verdict[readers[r].job]
    IN
    /\ readers[r].pc = "save"
    /\ saved' = Insert(saved, s, v)
    /\ submissions' = [submissions EXCEPT ![s] = VerdictToStatus(v)]
    /\ readers' = [readers EXCEPT ![r] = NoReader]
    /\ UNCHANGED <<events, validations, creating, published, intakeVars, lifecycleVars>>
SaveResultNoTx(r) ==
    LET s == readers[r].id
        v == verdict[readers[r].job]
    IN
    /\ readers[r].pc = "save"
    /\ submissions' = [submissions EXCEPT ![s] = VerdictToStatus(v)]
    /\ saved' = Insert(saved, s, v) \/ UNCHANGED saved
    /\ readers' = [readers EXCEPT ![r] = NoReader]
    /\ UNCHANGED <<events, validations, creating, published, intakeVars, lifecycleVars>>

\* One transaction: INSERT ... ON CONFLICT DO NOTHING and the final status; the
\* answer is the final status even when it fails.
SaveResult(r) ==
    LET s == readers[r].id
        v == verdict[readers[r].job]
    IN
    /\ readers[r].pc = "save"
    /\ \/ /\ saved' = IF s \in DOMAIN saved THEN saved ELSE Insert(saved, s, v)
          /\ submissions' = [submissions EXCEPT ![s] = VerdictToStatus(v)]
       \/ "db" \in Faults /\ UNCHANGED <<saved, submissions>>
    /\ Answered(r, VerdictToStatus(v))
    /\ UNCHANGED <<events, validations, creating, published, intakeVars, lifecycleVars>>

\* The API process restarts: every call in progress is abandoned.
ApiRestart ==
    /\ "api" \in Faults
    /\ creating' = [s \in Ids |-> IF creating[s] = "none" THEN "none" ELSE "done"]
    /\ readers' = [r \in Calls |-> IF r \notin Pollers THEN NoReader
                                   ELSE IF readers[r].pc = "none" /\ creating[r] = "none"
                                        THEN NotPolling ELSE PollOver]
    /\ UNCHANGED <<submissions, saved, events, validations, published, intakeVars, lifecycleVars>>

\* The page is closed, or a call of it fails, which ends its polling; what the
\* call, whose context is cancelled, had left to do is not done.
PageLeaves(s) ==
    /\ readers[s].pc \notin {"none", "over"}
    /\ readers' = [readers EXCEPT ![s] = PollOver]
    /\ UNCHANGED <<submissions, saved, events, validations, creating, published, intakeVars, lifecycleVars>>
-----------------------------------------------------------------------------
JobStep ==
    /\ \/ \E j \in Jobs, w \in Workers : Claim(j, w)
       \/ \E j \in Jobs, v \in Verdicts : Finish(j, v)
       \/ \E lost \in SUBSET Jobs : Lose(lost)
    /\ UNCHANGED <<apiVars, intakeVars>>

CreateStep(s) ==
    \/ ValidateCodeSubmission(s)
    \/ Block(s)
    \/ PublishJobCreation(s)
    \/ PublishUnconfirmed(s)
    \/ PublishFails(s)
    \/ MarkQueued(s)

ConsumerStep ==
    \/ \E s \in Ids : Deliver(s)
    \/ HandleDelivery
    \/ Ack

ReaderStep(r) ==
    \/ GetJobBySubmission(r)
    \/ WriteStatus(r)
    \/ GetJobResult(r)
    \/ SaveResult(r)

SubNext ==
    \/ \E s \in Ids : Create(s) \/ CreateStep(s)
    \/ \E u \in Users : EventExpires(u)
    \/ ConsumerStep
    \/ Nack
    \/ ConsumerStops
    \/ ControlPlaneStarts
    \/ JobStep
    \/ \E r \in Calls, s \in Ids : GetSubmission(r, s)
    \/ \E r \in Calls : ReaderStep(r)
    \/ ApiRestart
    \/ \E s \in Pollers : PageLeaves(s)

SubSpec == SubInit /\ [][SubNext]_subVars

\* Goroutines, the broker and the jobs make progress (WorkerPool shows that jobs
\* end), and a page that got no terminal status asks again after 200 ms.
SubFairness ==
    /\ \A s \in Ids : WF_subVars(CreateStep(s))
    /\ WF_subVars(ConsumerStep)
    /\ WF_subVars(JobStep)
    /\ \A r \in Calls : WF_subVars(ReaderStep(r))
    /\ \A s \in Pollers : WF_subVars(GetSubmission(s, s))

\* What fails now and then succeeds in the end: CreateJob, and the two calls of
\* GetSubmission to the control plane.
SubLiveSpec ==
    /\ SubSpec
    /\ SubFairness
    /\ SF_subVars(\E s \in Ids : Deliver(s))
    /\ SF_subVars(HandleDelivery)
    /\ \A s \in Pollers :
         /\ SF_subVars(GetJobBySubmission(s) /\ readers'[s].pc = "status")
         /\ SF_subVars(GetJobResult(s) /\ readers'[s].pc = "save")

-----------------------------------------------------------------------------
(* Properties.                                                              *)

ItsJobs(s) == {j \in DOMAIN rows : rows[j] = s}

\* A published request is never lost: until its job exists, the broker or the
\* unacknowledged delivery holds it, through nacks, crashes and restarts.
PublishedNotLost ==
    \A s \in published : s \in queue \/ s = delivery \/ ItsJobs(s) # {}

\* A submission of whose refusal create() was told never reaches the queue or
\* gets a job, whatever fails, and whenever the process dies, between the
\* refusal and the blocked status ("before any execution job is created",
\* docs/security-audit-log.md).  When the INSERT of the refusal ends in an error
\* create() is not told: it fails open, as its comment says, even if the row is
\* in the table.
Refusal(s) == s \in DOMAIN validations /\ validations[s].told
BlockedNeverRuns ==
    \A s \in Ids : Refusal(s) => s \notin queue /\ s # delivery /\ ItsJobs(s) = {}

\* A stored result is the verdict of a completed job of that submission, even
\* when jobs were duplicated and several readers saved at the same time.
ResultFromItsJob ==
    \A s \in DOMAIN saved : \E j \in ItsJobs(s) : phase[j] = "done" /\ verdict[j] = saved[s]

\* Once stored, a result is never replaced (ON CONFLICT DO NOTHING), whichever
\* reader comes later and whatever job it looked at.
SavedKept == \A s \in DOMAIN saved : s \in DOMAIN saved' /\ saved'[s] = saved[s]
ResultKept == [][SavedKept]_subVars

\* As long as a submission has one job, the terminal status a client sees and
\* the stored result agree, however the readers' separate writes interleave.
StatusMatches(s) ==
    LET status == submissions[s] IN
    /\ s \in DOMAIN saved /\ IsTerminal(status) => status = VerdictToStatus(saved[s])
    /\ IsTerminal(status) /\ status \notin {"internal_error", "blocked"} => s \in DOMAIN saved
StatusMatchesResult ==
    \A s \in DOMAIN submissions : Cardinality(ItsJobs(s)) <= 1 => StatusMatches(s)

\* A page does not poll for ever: once a job of its submission has ended,
\* whatever calls fail and whatever status the table is left with, the page gets
\* a terminal status, unless it is closed or stops on an error before.
PollEnds ==
    \A s \in Pollers :
        readers[s].pc # "none" /\ (\E j \in ItsJobs(s) : phase[j] \in {"done", "dead"})
        ~> readers[s].pc = "over"

\* What the schema's comment says: one job per user submission.
OneJobPerSubmission == \A s \in Ids : Cardinality(ItsJobs(s)) <= 1

\* While the consumer runs, a published request gets its job, however often
\* CreateJob fails and the request is put back (the comment on JobConsumer.Run
\* promises as much until its context is cancelled; a broken channel ends it
\* earlier, and then only a new process goes on).
ConsumedWhileRunning ==
    \A s \in Ids : s \in published ~> ItsJobs(s) # {} \/ consumer = "stopped"
=============================================================================
