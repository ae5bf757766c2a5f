------------------------------ MODULE JobQueue ------------------------------
(***************************************************************************)
(* The execution control plane: a job queue in Postgres from which workers *)
(* pull jobs under a lease.  Workers are the environment here: any worker   *)
(* may call any endpoint at any time, in any order; WorkerPool composes     *)
(* this module with what worker processes really do.                        *)
(*                                                                          *)
(* Tables are functions whose domain is the set of rows.  Time is relative: *)
(* lease_expires_at holds the time LEFT on the lease (Lapsed once NOW() has  *)
(* passed it) and age the time since last_heartbeat, so that the clock can  *)
(* advance for ever in a finite model.  queued_at is the rank of the insert. *)
(***************************************************************************)
EXTENDS Integers

CONSTANTS
    Jobs,               \* job ids
    Workers,            \* worker ids
    Handlers,           \* HTTP request goroutines of the control plane
    Languages,
    WorkerLanguages,    \* the languages each worker is configured with
    Capacity,           \* the capacity each worker is configured with
    ReportedHealth,     \* health_status values workers send
    Verdicts,           \* overall verdicts a worker can report
    RequestedRetries,   \* max_retries values found in create requests
    DefaultMaxRetries,  \* 3 in the code
    LeaseDuration,
    HeartbeatTimeout,
    NoWorker, NoJob, NoLease, NoVerdict   \* SQL NULLs

ASSUME ConstantsAssumption ==
    /\ WorkerLanguages \in [Workers -> SUBSET Languages]
    /\ Capacity \in [Workers -> Nat \ {0}]
    /\ ReportedHealth \subseteq {"healthy", "draining", "offline"}
    /\ RequestedRetries \subseteq Int
    /\ DefaultMaxRetries \in Nat \ {0}
    /\ LeaseDuration \in Nat
    /\ HeartbeatTimeout \in Nat

ASSUME NullsAssumption ==
    /\ NoWorker \notin Workers
    /\ NoJob \notin Jobs
    /\ NoLease \notin Int

VARIABLES
    jobs,      \* the jobs table
    results,   \* the job_results table: job id -> overall verdict
    workers,   \* the workers table
    handlers,  \* where each request goroutine is
    inserted,  \* how many jobs rows were ever inserted
    claims     \* history: how often each job was assigned

vars == <<jobs, results, workers, handlers, inserted, claims>>

JobState == {"queued", "assigned", "running", "completed", "failed", "retry_pending"}
Terminal == {"completed", "failed"}
WorkerHealth == {"healthy", "draining", "offline"}

Lapsed == -1
LeaseTime == Lapsed .. LeaseDuration

JobRow == [state : JobState, language : Languages,
           worker_id : Workers \cup {NoWorker},
           lease_expires_at : LeaseTime \cup {NoLease},
           retry_count : Nat, max_retries : Nat \ {0}, queued_at : Nat]

WorkerRow == [active_jobs : Nat, health_status : WorkerHealth,
              age : 0 .. HeartbeatTimeout + 1]

Handler == [pc : {"idle", "assign", "locked", "count", "uncount"},
            worker : Workers \cup {NoWorker}, job : Jobs \cup {NoJob},
            lease : LeaseTime \cup {NoLease}]

Idle == [pc |-> "idle", worker |-> NoWorker, job |-> NoJob, lease |-> NoLease]

EmptyTable == [key \in {} |-> {}]
Upsert(table, key, row) ==
    [k \in DOMAIN table \cup {key} |-> IF k = key THEN row ELSE table[k]]

Leased(j) == j \in DOMAIN jobs /\ jobs[j].state \in {"assigned", "running"}
\* Mutant: the WHERE clause has only the id.
HeldById(j, w) == j \in DOMAIN jobs
HeldBy(j, w) == Leased(j) /\ jobs[j].worker_id = w
Expired(j) == Leased(j) /\ jobs[j].lease_expires_at = Lapsed

Init ==
    /\ jobs = EmptyTable
    /\ results = EmptyTable
    /\ workers = EmptyTable
    /\ handlers = [h \in Handlers |-> Idle]
    /\ inserted = 0
    /\ claims = [j \in Jobs |-> 0]
-----------------------------------------------------------------------------
(* Intake.                                                                  *)

MaxRetries(requested) == IF requested > 0 THEN requested ELSE DefaultMaxRetries

CreateJob(j, language, requested) ==
    /\ j \notin DOMAIN jobs
    /\ jobs' = Upsert(jobs, j,
                 [state |-> "queued", language |-> language, worker_id |-> NoWorker,
                  lease_expires_at |-> NoLease, retry_count |-> 0,
                  max_retries |-> MaxRetries(requested), queued_at |-> inserted])
    /\ inserted' = inserted + 1
    /\ UNCHANGED <<results, workers, handlers, claims>>
-----------------------------------------------------------------------------
(* Worker registration: the upsert overwrites every column, active_jobs      *)
(* included, with what the worker sent.                                      *)

Heartbeat(w, activeJobs, health) ==
    /\ workers' = Upsert(workers, w, [active_jobs |-> activeJobs,
                                      health_status |-> health, age |-> 0])
    /\ UNCHANGED <<jobs, results, handlers, inserted, claims>>
-----------------------------------------------------------------------------
(* PollJob: admission check, AssignNext and the counter update are three      *)
(* database round trips of one request goroutine.                            *)

SetHandler(h, pc, w, j, lease) ==
    handlers' = [handlers EXCEPT ![h] = [pc |-> pc, worker |-> w, job |-> j, lease |-> lease]]

PollJob(h, w) ==
    /\ handlers[h].pc = "idle"
    /\ w \in DOMAIN workers
    /\ workers[w].health_status = "healthy"
    /\ workers[w].active_jobs < Capacity[w]
    /\ WorkerLanguages[w] # {}
    /\ SetHandler(h, "assign", w, NoJob, NoLease)
    /\ UNCHANGED <<jobs, results, workers, inserted, claims>>

\* Rows that SELECT ... FOR UPDATE SKIP LOCKED may return to the poll of w.
RowLocked(j) == \E h \in Handlers : handlers[h].pc = "locked" /\ handlers[h].job = j
\* Mutant: a plain SELECT.
ClaimableLockedToo(w) ==
    {j \in DOMAIN jobs : jobs[j].state = "queued" /\ jobs[j].language \in WorkerLanguages[w]}
Claimable(w) ==
    {j \in DOMAIN jobs : /\ jobs[j].state = "queued"
                         /\ jobs[j].language \in WorkerLanguages[w]
                         /\ ~ RowLocked(j)}
Oldest(S) == {j \in S : \A k \in S : jobs[j].queued_at <= jobs[k].queued_at}

AssignNextLock(h) ==
    /\ handlers[h].pc = "assign"
    /\ \E j \in Oldest(Claimable(handlers[h].worker)) :
         SetHandler(h, "locked", handlers[h].worker, j, LeaseDuration)
    /\ UNCHANGED <<jobs, results, workers, inserted, claims>>

AssignNextEmpty(h) ==
    /\ handlers[h].pc = "assign"
    /\ Claimable(handlers[h].worker) = {}
    /\ SetHandler(h, "idle", NoWorker, NoJob, NoLease)
    /\ UNCHANGED <<jobs, results, workers, inserted, claims>>

AssignNextCommit(h) ==
    LET j == handlers[h].job IN
    /\ handlers[h].pc = "locked"
    /\ jobs' = [jobs EXCEPT ![j].state = "assigned",
                            ![j].worker_id = handlers[h].worker,
                            ![j].lease_expires_at = handlers[h].lease]
    /\ claims' = [claims EXCEPT ![j] = @ + 1]
    /\ SetHandler(h, "count", handlers[h].worker, j, NoLease)
    /\ UNCHANGED <<results, workers, inserted>>

\* The statement fails: Postgres rolls it back and the poll returns an error.
AssignNextAbort(h) ==
    /\ handlers[h].pc \in {"assign", "locked"}
    /\ SetHandler(h, "idle", NoWorker, NoJob, NoLease)
    /\ UNCHANGED <<jobs, results, workers, inserted, claims>>

\* Mutant: no clamp.
GreatestZeroUnclamped(n) == n
GreatestZero(n) == IF n < 0 THEN 0 ELSE n
IncrementActiveJobs(w, delta) ==
    workers' = [workers EXCEPT ![w].active_jobs = GreatestZero(@ + delta)]

\* Best effort, after the claim (+1) and after the report (-1): on an error
\* the handler only logs and the request still succeeds.
CountActiveJob(h) ==
    /\ handlers[h].pc \in {"count", "uncount"}
    /\ \/ IncrementActiveJobs(handlers[h].worker,
                              IF handlers[h].pc = "count" THEN 1 ELSE -1)
       \/ UNCHANGED workers
    /\ SetHandler(h, "idle", NoWorker, NoJob, NoLease)
    /\ UNCHANGED <<jobs, results, inserted, claims>>
-----------------------------------------------------------------------------
(* Calls of the worker that holds the lease; any other worker_id matches no  *)
(* row and the call is answered with ErrLeaseMismatch, changing nothing.     *)

MarkRunning(j, w) ==
    /\ HeldBy(j, w)
    /\ jobs[j].state = "assigned"
    /\ jobs' = [jobs EXCEPT ![j].state = "running"]
    /\ UNCHANGED <<results, workers, handlers, inserted, claims>>

\* The lease may have lapsed: only the sweep takes it away.
RenewLease(j, w) ==
    /\ HeldBy(j, w)
    /\ jobs' = [jobs EXCEPT ![j].lease_expires_at = LeaseDuration]
    /\ UNCHANGED <<results, workers, handlers, inserted, claims>>

\* Mutants: the report of any worker is taken; the result rows are written outside
\* the transaction, and fail.
ReportResultAnyone(h, j, w, verdict) ==
    /\ handlers[h].pc = "idle"
    /\ Leased(j)
    /\ jobs' = [jobs EXCEPT ![j].state = "completed", ![j].lease_expires_at = NoLease]
    /\ results' = Upsert(results, j, verdict)
    /\ SetHandler(h, "uncount", w, j, NoLease)
    /\ UNCHANGED <<workers, inserted, claims>>
ReportResultNoTx(h, j, w, verdict) ==
    /\ handlers[h].pc = "idle"
    /\ HeldBy(j, w)
    /\ jobs' = [jobs EXCEPT ![j].state = "completed", ![j].lease_expires_at = NoLease]
    /\ SetHandler(h, "uncount", w, j, NoLease)
    /\ UNCHANGED <<results, workers, inserted, claims>>

\* Complete is one transaction: the row update and the result rows commit
\* together or not at all.
ReportResult(h, j, w, verdict) ==
    /\ handlers[h].pc = "idle"
    /\ HeldBy(j, w)
    /\ jobs' = [jobs EXCEPT ![j].state = "completed",
                            ![j].lease_expires_at = NoLease]
    /\ results' = Upsert(results, j, verdict)
    /\ SetHandler(h, "uncount", w, j, NoLease)
    /\ UNCHANGED <<workers, inserted, claims>>
-----------------------------------------------------------------------------
(* Background sweeps, the clock, and a restart of the control plane.         *)

\* Mutants: one attempt too many; the retry not counted.
RequeuedOffByOne(row) ==
    [row EXCEPT !.state = IF row.retry_count + 1 <= row.max_retries THEN "queued" ELSE "failed",
                !.retry_count = @ + 1, !.worker_id = NoWorker, !.lease_expires_at = NoLease]
RequeuedFree(row) ==
    [row EXCEPT !.state = "queued", !.worker_id = NoWorker, !.lease_expires_at = NoLease]

Requeued(row) ==
    [row EXCEPT !.state = IF row.retry_count + 1 < row.max_retries
                          THEN "queued" ELSE "failed",
                !.retry_count = @ + 1,
                !.worker_id = NoWorker,
                !.lease_expires_at = NoLease]

\* Mutants: live leases swept too; only running jobs swept.
RequeueAllLeases ==
    /\ \E j \in DOMAIN jobs : Leased(j)
    /\ jobs' = [j \in DOMAIN jobs |-> IF Leased(j) THEN Requeued(jobs[j]) ELSE jobs[j]]
    /\ UNCHANGED <<results, workers, handlers, inserted, claims>>
RequeueExpiredRunning ==
    LET swept == {j \in DOMAIN jobs : Expired(j) /\ jobs[j].state = "running"} IN
    /\ swept # {}
    /\ jobs' = [j \in DOMAIN jobs |-> IF j \in swept THEN Requeued(jobs[j]) ELSE jobs[j]]
    /\ UNCHANGED <<results, workers, handlers, inserted, claims>>

RequeueExpiredLeases ==
    /\ \E j \in DOMAIN jobs : Expired(j)
    /\ jobs' = [j \in DOMAIN jobs |-> IF Expired(j) THEN Requeued(jobs[j]) ELSE jobs[j]]
    /\ UNCHANGED <<results, workers, handlers, inserted, claims>>

Stale(w) == w \in DOMAIN workers /\ workers[w].age > HeartbeatTimeout

MarkStaleWorkers ==
    /\ \E w \in DOMAIN workers : Stale(w) /\ workers[w].health_status # "offline"
    /\ workers' = [w \in DOMAIN workers |->
                     IF Stale(w) THEN [workers[w] EXCEPT !.health_status = "offline"]
                                 ELSE workers[w]]
    /\ UNCHANGED <<jobs, results, handlers, inserted, claims>>

Elapse(lease) == IF lease = NoLease \/ lease = Lapsed THEN lease ELSE lease - 1

Tick ==
    /\ jobs' = [j \in DOMAIN jobs |-> [jobs[j] EXCEPT !.lease_expires_at = Elapse(@)]]
    /\ handlers' = [h \in Handlers |-> [handlers[h] EXCEPT !.lease = Elapse(@)]]
    /\ workers' = [w \in DOMAIN workers |->
                     [workers[w] EXCEPT !.age = IF Stale(w) THEN @ ELSE @ + 1]]
    /\ UNCHANGED <<results, inserted, claims>>

\* The process dies and comes back: requests in progress are gone, and with
\* them their row locks; the database is what survives.
Restart ==
    /\ handlers' = [h \in Handlers |-> Idle]
    /\ UNCHANGED <<jobs, results, workers, inserted, claims>>
-----------------------------------------------------------------------------
HandlerStep(h) ==
    \/ AssignNextLock(h)
    \/ AssignNextEmpty(h)
    \/ AssignNextCommit(h)
    \/ AssignNextAbort(h)
    \/ CountActiveJob(h)

Next ==
    \/ \E j \in Jobs, l \in Languages, r \in RequestedRetries : CreateJob(j, l, r)
    \/ \E w \in Workers, s \in ReportedHealth : \E n \in 0 .. Capacity[w] : Heartbeat(w, n, s)
    \/ \E h \in Handlers, w \in Workers : PollJob(h, w)
    \/ \E h \in Handlers : HandlerStep(h)
    \/ \E j \in Jobs, w \in Workers : MarkRunning(j, w)
    \/ \E j \in Jobs, w \in Workers : RenewLease(j, w)
    \/ \E h \in Handlers, j \in Jobs, w \in Workers, v \in Verdicts : ReportResult(h, j, w, v)
    \/ RequeueExpiredLeases
    \/ MarkStaleWorkers
    \/ Tick
    \/ Restart

Spec == Init /\ [][Next]_vars
-----------------------------------------------------------------------------
(* Properties.                                                              *)

\* Every table, handler and counter holds values of its column types; a
\* results row exists only for a jobs row (its foreign key) and active_jobs
\* never goes below zero (the CHECK constraint, kept by GREATEST(0, ...)).  A
\* request in progress acts for a registered worker.
TypeOK ==
    /\ DOMAIN jobs \subseteq Jobs
    /\ jobs \in [DOMAIN jobs -> JobRow]
    /\ DOMAIN results \subseteq DOMAIN jobs
    /\ results \in [DOMAIN results -> Verdicts]
    /\ DOMAIN workers \subseteq Workers
    /\ workers \in [DOMAIN workers -> WorkerRow]
    /\ handlers \in [Handlers -> Handler]
    /\ \A h \in Handlers :
         /\ handlers[h].pc # "idle" => handlers[h].worker \in DOMAIN workers
         /\ handlers[h].pc = "locked" <=> handlers[h].lease # NoLease
    /\ inserted \in Nat
    /\ claims \in [Jobs -> Nat]

\* RequeueExpiredLeases gives a job at most max_retries attempts in all: each
\* claim is paid for by a retry, by the lease that is still out, or by the
\* result, and the job is failed exactly when the budget is used up.
AttemptsBounded ==
    \A j \in Jobs :
        IF j \notin DOMAIN jobs THEN claims[j] = 0
        ELSE /\ claims[j] = jobs[j].retry_count
                           + IF jobs[j].state \in {"assigned", "running", "completed"} THEN 1 ELSE 0
             /\ claims[j] <= jobs[j].max_retries
             /\ jobs[j].state = "failed" <=> jobs[j].retry_count = jobs[j].max_retries

\* Complete commits the state change and the result rows together: a result
\* exists for the completed jobs and for no other, whatever was requeued,
\* reported late or cut short by a restart.
ResultIffCompleted ==
    \A j \in DOMAIN jobs : jobs[j].state = "completed" <=> j \in DOMAIN results

\* lease_expires_at is NULL exactly when the job is not assigned/running, a
\* leased job always names its holder, and the holder is a registered worker.
\* The sweep and the foreign key depend on it: a leased row without an expiry
\* would never be requeued.
LeaseFields ==
    \A j \in DOMAIN jobs :
        /\ Leased(j) <=> jobs[j].lease_expires_at # NoLease
        /\ Leased(j) => jobs[j].worker_id \in DOMAIN workers
        /\ jobs[j].state \in {"queued", "failed"} => jobs[j].worker_id = NoWorker

\* FOR UPDATE SKIP LOCKED: no two polls in progress hold the same row, and the
\* row a poll holds is still queued when its claim commits.
NoDoubleClaim ==
    \A h \in Handlers : handlers[h].pc = "locked" =>
        /\ handlers[h].job \in DOMAIN jobs
        /\ jobs[handlers[h].job].state = "queued"
        /\ \A g \in Handlers \ {h} : handlers[g].pc = "locked" => handlers[g].job # handlers[h].job

\* No call and no sweep changes a completed or failed job or its result again:
\* late reports, late renewals and the lease sweep all miss it.
TerminalKept ==
    \A j \in DOMAIN jobs : jobs[j].state \in Terminal =>
        /\ jobs'[j] = jobs[j]
        /\ j \in DOMAIN results => results'[j] = results[j]
TerminalStable == [][TerminalKept]_vars

\* A worker loses its lease only by reporting the result itself or after the
\* lease has lapsed; it never passes directly to another worker.
LeaseKept ==
    \A j \in DOMAIN jobs, w \in Workers : HeldBy(j, w) =>
        \/ HeldBy(j, w)'
        \/ jobs'[j].state = "completed" /\ jobs'[j].worker_id = w
        \/ Expired(j) /\ jobs'[j].state \in {"queued", "failed"}
LeaseRespected == [][LeaseKept]_vars

\* The lease sweep leaves no job behind: a lapsed lease is eventually swept,
\* renewed by its holder or closed by a report.
ExpiredLeaseSwept == \A j \in Jobs : Expired(j) ~> ~ Expired(j)

PhaseOf(j) ==
    IF j \notin DOMAIN jobs THEN "absent"
    ELSE CASE jobs[j].state \in {"queued", "retry_pending"} -> "waiting"
           [] jobs[j].state \in {"assigned", "running"} -> "leased"
           [] jobs[j].state = "completed" -> "done"
           [] jobs[j].state = "failed" -> "dead"
HolderOf(j) == IF Leased(j) THEN jobs[j].worker_id ELSE NoWorker
BudgetOf(j) == IF j \in DOMAIN jobs THEN jobs[j].max_retries - jobs[j].retry_count ELSE 0
VerdictOf(j) == IF j \in DOMAIN results THEN results[j] ELSE NoVerdict

Lifecycle == INSTANCE JobLifecycle WITH
    Budgets <- {MaxRetries(r) : r \in RequestedRetries},
    phase <- [j \in Jobs |-> PhaseOf(j)],
    holder <- [j \in Jobs |-> HolderOf(j)],
    budget <- [j \in Jobs |-> BudgetOf(j)],
    verdict <- [j \in Jobs |-> VerdictOf(j)]

\* The control plane keeps its promise: rows, locks, sweeps and restarts
\* implement the lifecycle of JobLifecycle.
ImplementsLifecycle == Lifecycle!LifecycleSpec
=============================================================================
