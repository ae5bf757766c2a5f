# A TLA+ model of the code execution platform

This directory holds a formal model of the platform in `src/`: TLA+ modules
translated from the Go code, the TLC configurations that check them on small
instances, and TLAPS proofs for every size. `PROJECT.json` lists which source
lines each definition stands for, the runs, the hazards the properties are
aimed at, and the theorems.

## The system

| Part | State | Operations |
| --- | --- | --- |
| API: submissions (`internal/api/submissions`) | `submissions`, `submission_results`, `security_events` in the API's Postgres | `create` (Submit, Run), `GetSubmission`, `ListSubmissions` |
| Job intake (`pkg/rabbitmq`, `internal/controlplane/consumer`) | the `jobs.create` queue, unacknowledged deliveries | publish, deliver, handle, ack, nack |
| Execution control plane (`internal/controlplane`, `cmd/control-plane`) | `jobs`, `job_results`, `workers` in its own Postgres | CreateJob, Heartbeat, PollJob, MarkRunning, RenewLease, ReportResult, two sweeps |
| Worker (`internal/worker`, `cmd/worker`) | `activeJobs`, one goroutine per job | heartbeat, poll and renewal loops, `runJob`, shutdown |
| Executors (Docker, Firecracker with `cmd/fc-agent`, stub) | work directories, containers, snapshot pairs, VMs and their chroots | start-up, `Execute`, time limits, parsing of results, removal |
| Rate limiter (`internal/api/middleware`) | a `sync.Map` of sliding windows | `allow`, janitor |
| Accounts (`internal/api/auth`) | `users`, `auth_identities`, `email_verification_tokens`, `refresh_tokens` | Register, VerifyEmail, Login, RefreshToken, Logout |
| E-mail worker (`cmd/email`) | the verification queue | send, ack, nack |
| Roles and permissions (`internal/api/rbac`) | `roles`, `permissions` and their links; the keys an access token carries | create, rename, delete, assign, revoke; `SeedCoreRBAC` at start-up |
| Catalogue (`internal/api/problems`, `tags`, `languages`) | problems, tags, languages, test cases | create and edit, replace the sets of a problem, `ListProblems` |
| AI validator and hints (`internal/api/ai`) | `ai_code_validations`, `hint_messages` | `ValidateCodeSubmission`, `GetHint` |
| Web client (`web/`) | tokens in memory, polling loops | refresh on 401, poll a submission |

A submission is stored by the API, validated, and published to RabbitMQ. The
control plane's consumer turns the message into a row of `jobs`. Workers poll
for rows over HTTP, run them and report. Browsers poll `GetSubmission`, which
copies the state and the result of the job back into the API's tables. No two
of these steps share a transaction.

What makes it hard:

* the control plane runs many requests at once; only row locks and the
  `WHERE` clauses of single statements keep them apart;
* a lease may lapse, be swept, be renewed late, or be reported on late;
* calls and replies get lost, messages are delivered twice, processes stop
  between any two steps, and the control plane restarts;
* `create` and `GetSubmission` write statuses from old snapshots, in any order;
* the rate limiter reads the clock before it takes its lock, and its janitor
  deletes entries that requests have already loaded;
* the account operations are sequences of statements without a transaction;
* an executor must take down what it set up whichever of its calls failed, and
  must not mistake a failure of the host for one of the program;
* claims in a token outlive the tables they were read from, and several API
  instances seed the same tables at once;
* edits of a problem interleave with each other, with its deletion, and with a
  client that walks through the pages of the listing.

## Modules

| Module | Models |
| --- | --- |
| `JobLifecycle` | the promise about a job: waiting, leased, done or dead, with a budget of attempts |
| `JobQueue` | the control plane; workers are an environment that may call anything at any time |
| `WorkerPool` | `JobQueue` composed with worker processes and a lossy network |
| `WorkerPoolProofs` | the theorems about `JobQueue` and `WorkerPool` |
| `Submissions` | the API's submission service, validator, broker and consumer, over `JobLifecycle` |
| `SubmissionsProofs` | the theorems about `Submissions` |
| `Executors` | the Docker, Firecracker and stub executors of a worker |
| `ExecutorsProofs` | the theorems about `Executors` |
| `RateLimit` | the sliding-window limiter |
| `RateLimitProofs` | the theorems about `RateLimit` |
| `Accounts` | registration, verification, sessions and the e-mail worker |
| `AccountsProofs` | the theorems about `Accounts` |
| `Access` | roles, permissions, access tokens and the seeding at start-up |
| `AccessProofs` | the theorems about `Access` |
| `Slugs` | `GenerateSlug` and the numbered slugs, with a reference definition |
| `Catalog` | problems, tags, languages, test cases, hints and the listing, over `Slugs` |
| `CatalogProofs` | the theorems about `Catalog` but for slugs |
| `SlugsProofs` | the theorems about `Slugs`, and about the slugs in `Catalog` |
| `MC*` | constants and symmetry sets for TLC |

`WorkerPool` extends `JobQueue`, `JobQueue` implements `JobLifecycle`, and
`Submissions` takes its jobs from `JobLifecycle`: what `Submissions` assumes of
jobs is what the control plane with its workers is shown to do. An execution in
`WorkerPool` is a step that ends with some verdict; `Executors` shows when it
ends and what the verdict means.

### JobQueue

A table is a function on the ids of its rows. `lease_expires_at` is the time
*left*, `age` the time since the last heartbeat, so that `Tick` can go on for
ever in a finite model. `queued_at` is the rank of the insert, which is what
`ORDER BY queued_at` depends on.

`PollJob` reads the worker row (health, capacity), `AssignNext` is a
transaction in which `FOR UPDATE SKIP LOCKED` takes a row
(`AssignNextLock`) and commits it (`AssignNextCommit`) or not
(`AssignNextAbort`), and `CountActiveJob` is the separate counter update, whose
failure the service only logs. `ReportResult` is the transaction of `Complete`
followed by the same counter update. `MarkRunning`, `RenewLease`,
`RequeueExpiredLeases` and `MarkStaleWorkers` are single statements. `Restart`
loses the requests and nothing else. `claims` is a history variable. `JobQueue`
by itself allows any call at any time; TLC runs it composed with workers, and
the theorems about it need no workers.

### WorkerPool

Each worker has a process (`down`, `starting`, `up`, `stopping`), at most one
heartbeat and one poll in flight, the `activeJobs` map, and a set of `runJob`
goroutines that start, execute, report and clean up. Each call has a variant
whose request or reply is lost. `Faults` selects which faults a run includes.
`attempt` and `lost` of a goroutine are history.

### Submissions

`create` is split at its calls: insert, validate, block or publish, mark queued.
Validation chooses a reply (an answer with or without its fields, text that is not
JSON, or a failure), turns it into a verdict as `ValidateCodeSubmission` does, and
stores it. The insert may be committed and still end in an error (fault `lost`, as
in `CreateJob`); `create` then fails open, so `Refusal` means a refusal that
`create` was told of. A block writes the status and the security event, whose
severity must be a label of the database's enumeration, and enough recent events
suspend the user. `GetSubmission` is split likewise: read the row, ask the control
plane for the job, write the status, ask for the result, save it. Its callers are
readers that come and go, and pages that poll their submission until they get a
terminal status, a call fails or the page is closed (`pollSubmission`). The broker
delivers with prefetch 1; the consumer acknowledges after `CreateJob`. Every
database or network call may fail, both services may stop between calls, and a
publish may be lost, because the channel is not in confirm mode; `published`
records what the broker has accepted.

### Executors

A call is one invocation of `Execute`, with a program counter at its disk, daemon,
VMM and agent calls, each of which may fail. Docker: work directory, create,
start, wait against the wall-clock limit, logs, remove. Firecracker: at start-up
one boot per language, whose state file and memory file are written one after the
other; per job a chroot, a restored VM, the exchange with `fc-agent`, and the
removal. What a program does is one of `Behaviours`: on each test it ends in some
way, with some answer or none (`Outcomes`); or it does not compile; or it takes
the runner down; or, where it runs in the process of its runner (python,
javascript), it prints an array of its own. `Entries` is the array that is read
then, and the `parseResults` of the two executors are what `Execute` makes of it,
for runners that take the answer from the program and for those that take it from
a file that stays between tests. `leaked` is history: it names the calls whose
removal failed or was cut off.

### Access

Rows of `roles` and `permissions` have ids that are never used twice, so that
the links survive a rename and not a deletion. A request is admitted on the keys
in its token alone; `lost` is history: how long ago a user last held a key.
`SeedCoreRBAC` is one step per statement, by several instances at a time;
the loser of a race for a row ends its process, which is started again.

### Catalog

Each request is split at its statements. A transaction that has inserted or
deleted rows of a problem holds the row locks those statements take, others
wait for them, and a cycle of waits ends with an error for one of them.
`GenerateSlug` (module `Slugs`) works on sequences of characters, for an
alphabet of two letters in both cases, the digits, the separators and whatever
else a title has. It is compared with a reference definition (`IsSlugOf`) over
all titles of up to four characters. `NumberedSlug` appends the decimal digits
of the attempt.
`ListProblems` is its five queries, called by a client that goes on until it
has asked for as many rows as the last answer counted. A page is the set of
rows whose rank in `ORDER BY` lies between `OFFSET` and `OFFSET + LIMIT`.
`since` and `undone` of a request (what others inserted and deleted in its set
while it ran), `removed` and `once` (a submission was accepted at some time) are
history. `SaveResult` and `UpdateStatus` are the two writes of `GetSubmission` that
change what a page counts; `Submissions` has the reader around them. No two
problems are created in the same microsecond, which is what `ORDER BY created_at`
needs to be an order.

### RateLimit

Windows have identities separate from the keys that point to them, because a
request may hold a window the janitor has removed. The admissions of a key are
numbered; `admitted` has the age of each one's timestamp, and the slice of a
window is the set of the numbers it holds. Two flags of an admission are history:
`lost`, its window is no longer in the map, and `late`, a request with a later
clock reading had the mutex before it.

### Accounts

Each service call is a request whose SQL statements are separate steps, and
`Fail` may end it before any of them. Tokens are ids; a link expires and a
session expires by an action of time. `Ban` is external: code reads
`users.status` but nothing in the repository sets it to `BANNED`. `family`,
`interrupted` and `loggedOut` are history. Replies to the client are
not modelled: any issued refresh token, and any mailed link, may be presented
at any time, so a client that missed a reply is included.

## Runs

| Run | Instance | Shows |
| --- | --- | --- |
| `WorkerPool_safety` | 1 job, 2 workers with one slot, 2 requests; crashes, restarts, loss | Attempts stay within `max_retries`; a result exists exactly for completed jobs; no two polls claim one row; terminal rows never change; a lease is lost only to its report or to the sweep. Two executions overlap only after a lost lease, which a retry has paid for; a worker with one slot runs one job; a worker whose lease has gone to another cannot store a result. |
| `WorkerPool_live` | 2 jobs, 1 worker, all faults | Lapsed leases are swept, every job ends, the composition is a `JobQueue`, and it implements `JobLifecycle`. |
| `WorkerPool_capacity` | 2 jobs, 1 worker with 2 slots, no faults | A disagreement with the documentation: see below. |
| `Submissions_safety` | 2 submissions of one user, 1 reader, 2 jobs | Requests the broker has accepted are not lost; refused submissions never run; results come from the submission's own jobs and stay. |
| `Submissions_readers` | 1 submission, the page that polls it, 1 reader | A terminal status agrees with the stored result, the page gets a terminal status once a job has ended, and a running consumer gives every accepted request its job. |
| `Submissions_one_job` | 1 submission, 2 jobs | A disagreement with the documentation: see below. |
| `Executors_safety` | 1 call with 2 tests, 3 languages, 3 boots | Nothing is left behind without a named reason; a verdict is the program's doing; a VM is restored from one capture; every call returns. |
| `RateLimit_safety` | 2 keys, 2 requests, 2 windows | No more than `limit` admissions in the window that ends now, or in an earlier one but for late requests, unless the janitor dropped some; no refusal without `limit` admissions. |
| `Accounts_safety` | 2 addresses that want one handle, 2 requests, 2 links, 3 refresh tokens | Concurrent registrations end with one account; each account has exactly one right to be verified, lost only to an interrupted request; rotation never loses a session nobody ended; an ended session stays ended. |
| `Access_safety` | 1 user, 2 requests, 2 instances, 1 fault | No request passes on a permission lost a token lifetime ago; a seed that completes is complete; every instance comes up. |
| `Catalog_safety` | 2 requests, or 1 request and a walk, on 3 problems | Rows refer to rows that exist; slugs are canonical; sets become what concurrent updates asked for; prompts and pages are true; no listed problem is skipped; every request ends. |
| `Catalog_sets` | 2 requests | A disagreement with the documentation: see below. |

Each property of a passing run has a mutant: a definition changed as a plausible
bug would, with which TLC finds the property violated.

### Bounds

Two of each actor are enough for each race the code guards against: two polls for
one row, an old and a new holder of a lease, two readers, two requests on one
window or one token. One and two attempts per job reach both branches of
`retry_count + 1 < max_retries`. `LeaseDuration = 0` reaches a renewal in time, a
lapsed lease not yet swept, and a swept one; a longer lease only adds states
between. Two jobs compete for one worker in `WorkerPool_live`; with two workers
there is one job, since claims of different rows have only the queue order in
common. All workers run the one language there is: which rows a worker may claim
is a condition on the row like its state, and the theorems hold for any assignment
of languages. With two windows and two keys there is one for the other key, or one
that takes the place of a window the janitor removed. `MaxAdmitted` (per key),
`MaxEvents`, `MaxJobs` and the sets of tokens cap what would grow for ever.
Symmetry is used only in runs without liveness properties.

`Executors_safety` has one call, because calls share only the snapshot files,
which a running process does not write again; two tests with different expected
answers reach both a first failure that is not the last and an answer file left by
an earlier test, right or wrong for the later one; arrays a program prints have up
to two entries, so fewer than the tests, as many, or none; three boots reach a
start-up that was cut off between the two files and one after it. `Access_safety`
seeds one core role with one core permission, by two instances that race for each
row, with one statement that fails or process that dies. `Catalog_safety` combines
any two requests, so each pair of operations is interleaved statement by
statement; three seeded problems make three pages of size one. Ten slug attempts
are cut to three, with two of the slugs taken.

In `Accounts_safety` one handle means that only one account exists at a time:
no statement of an account operation reads the rows of another user except for
the uniqueness checks, which that bound does exercise.

### Fairness

* `WorkerPool`: weak fairness for time and the two sweeps, which
  `cmd/control-plane` runs on tickers for as long as the process lives, for the
  workers' tickers and goroutines, and for the restart of
  a worker (`Restart=always` in
  `infra/terraform/scripts/worker-startup.sh.tftpl:83`); an
  execution ends because the executors enforce time limits.
  Strong fairness for calls that a fault may undo: if they are repeated for
  ever, one succeeds. No fairness for lease renewal.
* `Submissions`: weak fairness for the steps of calls in progress, for the
  consumer and for jobs (`EveryJobEnds` shows that they end); a page that got no
  terminal status asks again, as `pollSubmission` does after 200 ms. Nobody else
  has to ask, and a page may be closed at any time. Strong fairness for the page's
  two calls to the control plane, for delivery and for `CreateJob`: what fails now
  and then succeeds in the end. It is not assumed that the control plane is
  ever restarted: the process may live on without its consumer.
* `Executors`: weak fairness for the steps of a call and for its timers. Daemon
  and VMM answer, with success or an error; the program itself need not end.
* `Access`: a process that is started runs on, and one that failed is started
  again.
* `Catalog`: a request goroutine goes on until it returns. That the AI provider
  answers a hint, with a reply or an error, is an assumption: its client has no
  timeout of its own (`src/internal/api/ai/ollama.go:26`).

## Disagreements with the documentation

Checked by a run that TLC must find violated:

* `Submissions_one_job`: the job row is committed before the delivery is
  acknowledged, so a redelivered request creates a second job
  (`src/pkg/rabbitmq/consumer.go:148-153`); the schema says "one per user
  submission" (`src/internal/controlplane/migrations/000001_init.up.sql:11`).
* `WorkerPool_capacity`: `WORKER_CAPACITY` is "Maximum concurrent jobs"
  (`src/README.md:236`), and deployments set it to 4
  (`src/docs/firecracker-host-setup.md:148`). With more than one slot a worker can
  exceed it: `activeJobs` is keyed by job id, so a job that the worker is given
  again while it still runs an attempt whose lease has lapsed takes no second
  slot, and the cleanup of the first forgets both
  (`src/internal/worker/worker.go:222,252`). The worker's heartbeat reports the same
  count to the control plane. In the run a worker with two slots runs three
  executions. With one slot, the default, `SingleSlotRespected` holds.
* `Catalog_sets`: an update of a problem's tags "Replaces the full set of tags"
  (`src/docs/api.md:457`); two updates at the same time leave the union of both,
  because neither `DELETE` sees what the other has inserted
  (`src/internal/api/tags/repository/repository.go:115`). `SetsMerge` is what holds.
  For languages an update can also end without a key it asked for: `ON CONFLICT DO
  NOTHING` skips a row that is there, and the update that deletes this row may
  commit before the first one does. It takes three requests to have it there,
  deleted and asked for, and came up in the proof of `SetsMerge`, not in a
  run of two.

Noticed while modelling and kept in the model as the code has them.

Queue and workers:

* A lease is identified by the worker alone: an old goroutine of a worker that
  has claimed the same job again can renew and complete the new lease
  (`src/internal/controlplane/repository/job_repo.go:242,269`).
  `StaleWorkerRejected` exempts it.
* `Run` "waits for in-flight jobs to drain" (`worker.go:75`), but its WaitGroup
  counts only the two loops.
* `RequeueExpiredLeases` writes `queued`; its comment announces
  `retry_pending` (`src/internal/controlplane/repository/job_repo.go:56-57`).
  No statement writes `retry_pending`.
* A refused renewal is only logged (`worker.go:361`), while the comment on
  `Execute` says that the context is cancelled "if the lease cannot be renewed"
  (`src/internal/worker/executor.go:28-30`).
* The consumer goroutine ends with the first channel error and is not started
  again (`src/cmd/control-plane/main.go:124`); `JobConsumer.Run` "blocks until
  ctx is cancelled" (`src/internal/controlplane/consumer/job_consumer.go:33`).
  `ConsumedWhileRunning` is stated for a consumer that runs.

Executors:

* "The temp directory and container are always removed"
  (`src/internal/worker/docker_executor.go:127`): not when the removal fails, or
  when a create that returned an error had made the container. `NoLeftovers`
  names these cases.
* The Firecracker executor's `parseResults` is "shared with DockerExecutor"
  (`src/internal/worker/firecracker_executor.go:224`) but does not call
  `detectEscapeAttempt`, so the same output has a different verdict there.
* `go.py` and `java.py` do not remove the answer file between tests: a program
  that writes nothing is judged by its previous answer. `VerdictExplained` says
  so (`Passed`).
* `parseResults` does not compare the array it reads with the tests of the
  assignment. In python and javascript the program shares the process of the
  runner; `VerdictExplained` makes no claim about an array the program printed.

API:

* The validator reports its own failures as refusals
  (`src/internal/api/ai/service/validator.go:123-154`), while its caller means
  to "Fail open on validator errors so infra issues don't block all
  submissions" (`src/internal/api/submissions/service/submissions.go:139`). The
  refusals of an outage count towards the suspension of the user.
* A severity that is no label of the enumeration makes the insert of the
  security event fail; the submission is blocked without one.
* The janitor can drop a window that a request has loaded; the admission
  recorded there is forgotten (`src/internal/api/middleware/ratelimit.go:55`).
  `RateBound` is stated for the windows that stay.
* The clock is read before the mutex: a request that is overtaken by one with a
  later reading finds the slice pruned by that one and may be admitted beyond the
  limit of its own window (`ratelimit.go:20-24`). `RateBound` leaves such requests
  out of windows that have ended; the window that ends now has no exception.
* A refusal of the validator whose insert is committed and reported as failed is
  not seen by `create`, which then goes on ("Fail open"). `BlockedNeverRuns` is
  about refusals it was told of.
* The janitor removes only windows without timestamps, and timestamps are
  pruned only by the next request of the key, so idle keys stay
  (`ratelimit.go:45-54`).
* `isUniqueViolation` compares the whole error text with a prefix of what the
  driver returns, so the loser of a race for a unique value gets a 500 instead
  of the documented 409 (`src/docs/api.md:777`).
* `UpdateUser` in `VerifyEmail` writes back the row it read earlier, which
  undoes a change of status made in between.
* A verification mail whose publish fails is never sent again.
* Each start of an instance grants the core permissions again, those an
  administrator has revoked included.
* Creating a tag is "Idempotent" (`src/docs/api.md:499`), but the loser of a race
  for a new name gets an error.
* A title without letters or digits has the slug "", then "-1"; an update must
  not set an empty one ("slug cannot be empty",
  `src/internal/api/problems/service/problems.go:254`).

## Proofs

Eight modules hold the proofs, from the named assumptions on the constants in
the modules they are about, for every size and every choice of faults. The
bounds of the models (`MaxAdmitted`, `MaxBoots`, `MaxRequests` and the like) are
constants like the others: the theorems hold whatever they are.

### WorkerPoolProofs, first part: `JobQueue`

For all sets of jobs, workers and requests, all retry budgets and all
durations:

* `TypeCorrect`, `AttemptsAreBounded`, `ResultsMatchJobs`,
  `LeasesAreWellFormed`, `ClaimsAreExclusive`: the safety invariants;
* `TerminalsAreStable`, `LeasesAreRespected`: the action properties;
* `QueueImplementsLifecycle`: the refinement.

The inductive invariant `IndInv` is the conjunction of the five invariants.
None of the interesting ones is inductive alone. That a commit adds one claim
to a row with a free attempt needs that the row is still queued
(`NoDoubleClaim`); that a claimed row names a registered worker needs that a
request acts for one (`TypeOK`); and `NoDoubleClaim` needs that no other step
moves a queued row. There is one lemma per action, and `NextInv` combines them.
The action properties follow from `RowSteps`, which says what any step can do to
a row. The refinement maps commit to `Claim`, a report to `Finish`, a sweep to
`Lose` of all jobs it takes, and everything else to a stutter.

### WorkerPoolProofs, second part: `WorkerPool`

For all capacities too, and whatever is lost, crashes or restarts:

* `PoolImplementsQueue`: the composed system is a `JobQueue`, so every theorem
  of the first part holds of it, `ImplementsLifecycle` included;
* `OverlapsAreExplained`: each claim is executed at most once, and executions
  overlap only after a lost lease;
* `StaleWorkersAreRejected`: what a report must be to store a result;
* `SingleSlotIsRespected`: `SingleSlotRespected`, that a worker of capacity 1, the
  default of `WORKER_CAPACITY`, runs one job at a time, whatever the others have;
* `CapacityWithoutSelfOverlap`: with any capacities, `CapacityRespected` as long
  as no worker with room for more than one job runs two attempts of the same job
  (`SlotsDistinct`). `CapacityRespected` is false without that, as
  `WorkerPool_capacity` shows; the theorem says that there is no other way to
  exceed a capacity.

`PoolInv` adds two parts to `IndInv`. `PoolTypeOK` bounds `activeJobs` by the
capacity, which needs that there is room while a poll is out; without it a
heartbeat could carry a count that `JobQueue` does not know. `AttemptInv` says
that each attempt belongs to one worker (`Given`), is in the hands of one request
or one goroutine, and that a goroutine whose renewal was refused serves an attempt
whose lease is over (`Over`). It is inductive because claims are only ever counted
up and a lease that is still out under the same claim has the same holder
(`HoldKept`, from `RowSteps`): the attempt of a new claim is larger than all
others. The two theorems about capacity add `SlotInv`, of the workers with one
slot or of all: every job that is running is in `activeJobs` (`Listed`), so
running jobs that are distinct are at most `len(activeJobs)`, which `tryPoll`
compares with the capacity. With capacity 1 `Listed` keeps a second attempt away
by itself, since a poll needs `activeJobs` to be empty. With more room the first
cleanup of a job that runs twice takes it off the list, which is where the
hypothesis is needed.

### SubmissionsProofs

For all sets of submissions, readers, replies and faults and any number of jobs:

* `RequestsAreNotLost`: `PublishedNotLost`;
* `RefusedCodeNeverRuns`: `BlockedNeverRuns`;
* `ResultsAreTrue`: `ResultFromItsJob`;
* `ResultsAreKept`: `ResultKept`;
* `StatusesMatchResults`: `StatusMatchesResult`, which speaks of submissions with
  at most one job (`Submissions_one_job` shows that there can be two);
* `SecondJobNeedsRedelivery`: `OneJobPerSubmission`, if the consumer never stops
  between the insert of a job and the acknowledgement of its message, and no insert
  is committed that returns an error (`HandledOnce`). The control plane may stop
  anywhere else, and the API anywhere at all;
* `StatusesMatchWithoutRedelivery`: both together, status and result of every
  submission agree under `HandledOnce` alone.

`SubInv` adds what these rest on: the consumer acknowledges only a delivery that
has its job; nothing of a submission that is not validated yet is on its way,
and `create` stops at a refusal it was told of, also when it is cut off there; a reader
holds a job of its own submission, and one that is about to save has seen it
completed, which `JobLifecycle` never takes back. For the status, `FailedSeen`
says the same of a reader that is about to write a failure: the job it looked at
is dead, so when it is the only one no reader has a result to save. For one job,
`OnePlace` says that a submission is in the queue, with the consumer, or a job,
and in one of them only.

### AccountsProofs

For all sets of addresses, handles, tokens and requests, each request cut off
anywhere: `RegistrationExclusiveAlways`, `OneVerificationRightAlways`,
`SessionSurvivesAlways` and `EndedSessionsStayEndedAlways`, the four properties
of `Accounts_safety`.

`AccInv` says that what a request remembers is about rows that exist, which
holds because rows are only added (`Grows`), and `Arrives` that each place where
a request holds something is reached in one way. On them rest three invariants:

* `RegistrationExclusive` itself, since a request past `CreateUser` is about a
  user that exists, and a new user has no identity;
* `VerificationInv`: the right of an account is in exactly one place, spent, in a
  link, or with a request, or was lost to an interruption (the counts of
  `OneVerificationRight` follow from the sets), and a request that finds its
  user verified stays right about it, so that deleting the link it came by
  takes nothing away;
* `FamilyInv`: a family nobody logged out of has a token that is not revoked
  *and that no rotation is about to revoke*. Without the second half the next
  `RefreshRevoke` could end the session. The rotation itself provides it: the
  successor it stores is known to no request yet.

### ExecutorsProofs

For any number of calls at a time, any languages, test suites and faults:

* `NothingIsLeftBehind`: `NoLeftovers`;
* `VerdictsAreExplained`: `VerdictExplained`;
* `SnapshotsArePaired`: `PairConsistent`.

The inductive invariant has one part for the start-up (`BootInv`) and one per
call (`CallInv`). `NoLeftovers` speaks of calls that have returned; the
induction needs `Holds`, which says at which steps of `Execute` a call may have
its directory, container or chroot at all, so that each early return is seen to
pass the removal. For `PairConsistent`, a registered language has both files
from one capture, the file written first is the current capture's, and nothing
is captured while calls are served. `VerdictExplained` rests on `Finished`: from
the exit of the program to `parseResults` the record of what it did is one of its
`Behaviours`. `OverallIsFirst` shows for every number of tests that
the verdict is that of the first test that fails; the smallest element of a set
of naturals comes from well-foundedness, which does not need the induction that
the provers lack.

### RateLimitProofs

For every limit, window, number of requests and delay between reading the clock
and taking the mutex:

* `RateIsBounded`: `RateBound`;
* `RefusalsAreJustified`: `RefusalJustified`.

The code counts timestamps in a window; the promise is about admissions of a
key. `WindowInv` connects them: a window is held, by the map or by a request,
for one key only, and its timestamps are admissions of that key, at most
`limit`. `KeyInv` is the other direction: an admission that is not lost and counts
for the newest reading that had the mutex (`newest`), and so for every later one,
is in the window the map has for its key. A window that has ended is counted when
its last admission in time is recorded, and only late ones can join it then
(`TimelyInv`). When the janitor deletes a key,
what was admitted since it saw the window empty is lost with it; what counted
before was already out of the window. A request that pruned with an older clock
reading than another's keeps more, never less. The bound then follows from the
cardinality of the set of timestamps.

### AccessProofs

For all users, tokens, requests and instances, every list of core roles and
permissions and every token lifetime:

* `ClaimsAreFresh`: `ClaimsFresh`;
* `SeedIsEffective`: `SeedEffective`.

For the first, a key that is held is not counted as lost (`LostInv`), and no key
in a token that is still good was lost longer ago than the token is old
(`TokenInv`), which holds from the moment the keys are read. For the second,
`Position` ties the loop variables of `SeedCoreRBAC` to its lists and `Achieved`
says what is done by then: the ids in `permissionMap` are rows with the right
keys, the roles before the current one have their permissions, the current one
those before the current permission. Other instances only add rows and links
(`Grows`); whoever removes or renames one sets `undone`, which the property
allows for. The assumption that core roles name only core permissions is what
`CoreRoles` and `CorePermissions` in the code satisfy.

### CatalogProofs

For any number of requests at a time, any rows at the start and any page size:

* `RowsAreConsistent`: `CatalogTypeOK`;
* `SetsOnlyMerge`: `SetsMerge`;
* `PromptsAreFaithful`: `PromptsFaithful`;
* `PagesAreGrounded`: `PageGrounded`;
* `NoProblemIsSkipped`: `NoProblemSkipped`.

Most steps are seen by the others only through what they leave alone, which
`Grows`, `LinksKept`, `HintsKept` and `SubmissionsKept` state; `StepRows` shows
once that a step with these four keeps all that requests and the walk rely on.

* `Updating`: what is in the set by now is what the update is going to delete
  or what others committed since; what it has been through of its list is
  inserted, or was there and is there still, or was undone.
* `Hinting`: the prompt agrees with the stored conversation up to the question,
  and the question is in no conversation before it is saved. Conversations grow
  only at the end, so this stays true while others add to them.
* `Awaited`: a problem the walk has still to see is not ranked before the page
  that is asked for, and later than what the page shows if it is not on it.
  Ranks only grow while nothing leaves the listing, since new problems come
  first (`RankGrows`); so the walk can see a problem twice, and not miss it.

### SlugsProofs

* `EveryTitleHasItsSlug`: `HasSlug`, which `TitlesCanonical` checks for short
  titles, for every sequence of whatever characters;
* `SlugsAreCanonical`: `SlugCanonical`, for all titles and up to 99 attempts.

The invariant is `SlugInv`: what a request tries is a slug (`IsSlug`: no foreign
character, no two hyphens in a row, none at the ends), and the number it appends
next is one of the attempts.

`GenerateSlug` has no loop in the model: removing characters and squeezing
hyphens keep the elements of a list at a set of positions (`Pick`), of which
`Place` gives the n-th. `PlaceExists` shows that there is one, by the least
position with as many of the set up to it. From there each pass is a reading of
its input at increasing positions (`Reads`), readings compose
(`GenerateSlugReads`), and an increasing map between the letters of two lists
takes the n-th to the n-th (`SamePlaces`). A separator between two letters
survives because the first hyphen after a letter is one that squeezing keeps
(`FirstHyphen`) and trimming removes nothing between letters (`TrimKeeps`).

### What TLC says of the inductive invariants

`PoolInv`, of which `IndInv` is a part, `SubInv`, `SlugInv` and the four `IInv`
hold on the instances of the safety runs, where TLC checked them apart. `SlotInv`
was checked with capacity 1, and with capacity 2 under the constraint
`SlotsDistinct`; `StatusInv` on the instance of `Submissions_readers`.

### Only model-checked

* Liveness (`ExpiredLeaseSwept`, `EveryJobEnds`, `PollEnds`,
  `ConsumedWhileRunning`, `CallsReturn`, `EveryInstanceServes`, `RequestsEnd`):
  the prover does not handle fairness.

Every invariant, every action property and both refinements of a passing run are
stated by a theorem.

## Not modelled

* The adapter to the AI provider (`ollama.go`): one request and one reply of an
  HTTP API, whose outcomes are the replies and failures `Submissions` and
  `Catalog` choose from. The handlers in `internal/api/ai/http/handler.go` are
  not routed.
* Source wrapping: text generated from a signature.
* Account statistics and profiles, `ListSubmissions`, and the lookups of single
  rows: they only read.
* Container options, the VMM, Postgres and RabbitMQ themselves: external, and
  modelled by what the code relies on (row locks, READ COMMITTED, unique keys,
  acknowledgements).
* Two worker processes that share one snapshot directory, and what a VM that
  outlives its worker does to files it has linked.
* Rendering in the web client, configuration, logging, HTTP decoding,
  cryptography, SMTP.
