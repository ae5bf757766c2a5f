-------------------------- MODULE WorkerPoolProofs --------------------------
(***************************************************************************)
(* Proofs about the control plane's job queue, and about workers and control  *)
(* plane together, for every set of workers, jobs and requests, every retry   *)
(* budget, lease duration and capacity, and every set of faults.              *)
(*                                                                          *)
(* The first part is about JobQueue alone and uses nothing of WorkerPool.     *)
(***************************************************************************)
EXTENDS WorkerPool, FiniteSetTheorems, TLAPS

\* The inductive invariant.  AttemptsBounded needs to know that a claim that
\* commits finds its row queued (NoDoubleClaim); ResultIffCompleted needs
\* nothing else; LeaseFields needs the worker of a request to be registered.
IndInv ==
    /\ TypeOK
    /\ AttemptsBounded
    /\ ResultIffCompleted
    /\ LeaseFields
    /\ NoDoubleClaim

-----------------------------------------------------------------------------
\* A lease that runs down stays a lease, and NULL stays NULL.
LEMMA ElapseType ==
    ASSUME NEW lease \in LeaseTime \cup {NoLease}
    PROVE  /\ Elapse(lease) \in LeaseTime \cup {NoLease}
           /\ Elapse(lease) = NoLease <=> lease = NoLease
  BY ConstantsAssumption, NullsAssumption DEF Elapse, LeaseTime, Lapsed

\* The attempt budget of a new job is at least one.
LEMMA MaxRetriesType ==
    ASSUME NEW requested \in RequestedRetries
    PROVE  MaxRetries(requested) \in Nat \ {0}
  BY ConstantsAssumption DEF MaxRetries

-----------------------------------------------------------------------------
\* The control plane starts with empty tables, which satisfy the invariant.
LEMMA InitInv == Init => IndInv
  BY ConstantsAssumption, NullsAssumption
  DEF Init, IndInv, TypeOK, AttemptsBounded, ResultIffCompleted, LeaseFields, NoDoubleClaim,
      EmptyTable, Idle, Handler, LeaseTime, Leased

-----------------------------------------------------------------------------
\* Creating a row does not touch the others, nor a row that a poll has locked.
LEMMA CreateJobInv ==
    ASSUME IndInv, NEW j \in Jobs, NEW l \in Languages, NEW r \in RequestedRetries,
           CreateJob(j, l, r)
    PROVE  IndInv'
  <1> DEFINE row == [state |-> "queued", language |-> l, worker_id |-> NoWorker,
                     lease_expires_at |-> NoLease, retry_count |-> 0,
                     max_retries |-> MaxRetries(r), queued_at |-> inserted]
  <1> USE DEF IndInv
  <1>1. row \in JobRow
    BY MaxRetriesType, Zenon DEF JobRow, JobState, TypeOK
  <1>2. jobs' = Upsert(jobs, j, row)
    BY Zenon DEF CreateJob
  <1> HIDE DEF row
  <1>3. /\ DOMAIN jobs' = DOMAIN jobs \cup {j}
        /\ jobs' \in [DOMAIN jobs' -> JobRow]
        /\ jobs'[j] = row
        /\ \A k \in DOMAIN jobs : k # j /\ jobs'[k] = jobs[k]
    BY <1>1, <1>2, ZenonT(40) DEF TypeOK, CreateJob, Upsert
  <1>4. UNCHANGED <<results, workers, handlers, claims>> /\ inserted' = inserted + 1
    BY Zenon DEF CreateJob
  <1>5. TypeOK'
    BY <1>3, <1>4 DEF TypeOK
  <1>6. AttemptsBounded'
    <2> SUFFICES ASSUME NEW k \in Jobs
                 PROVE  AttemptsBounded!(k)'
      BY Zenon DEF AttemptsBounded
    <2>1. CASE k = j
      BY <2>1, <1>3, <1>4, MaxRetriesType DEF row, AttemptsBounded, TypeOK, CreateJob
    <2>2. CASE k # j
      BY <2>2, <1>3, <1>4, Zenon DEF AttemptsBounded
    <2> QED BY <2>1, <2>2, Zenon
  <1>7. ResultIffCompleted'
    BY <1>3, <1>4 DEF row, ResultIffCompleted, TypeOK, CreateJob
  <1>8. LeaseFields'
    BY <1>3, <1>4 DEF row, LeaseFields, Leased
  <1>9. NoDoubleClaim'
    BY <1>3, <1>4, Zenon DEF NoDoubleClaim
  <1> QED BY <1>5, <1>6, <1>7, <1>8, <1>9, Zenon
-----------------------------------------------------------------------------
\* Steps that leave the jobs alone: heartbeats, the health sweep, and requests
\* that have not claimed anything or only update the counter.
LEMMA JobsUntouched ==
    ASSUME IndInv, UNCHANGED <<jobs, results, claims>>,
           DOMAIN workers \subseteq DOMAIN workers', TypeOK', NoDoubleClaim'
    PROVE  IndInv'
  <1>1. AttemptsBounded' /\ ResultIffCompleted'
    BY Zenon DEF IndInv, AttemptsBounded, ResultIffCompleted
  <1>2. LeaseFields'
    BY Zenon DEF IndInv, LeaseFields, Leased
  <1> QED BY <1>1, <1>2, Zenon DEF IndInv

\* Upsert only writes the row of the worker, with a count that is not negative.
LEMMA HeartbeatInv ==
    ASSUME IndInv, NEW w \in Workers, NEW s \in ReportedHealth, NEW n \in 0 .. Capacity[w],
           Heartbeat(w, n, s)
    PROVE  IndInv'
  <1>1. DOMAIN workers' = DOMAIN workers \cup {w} /\ TypeOK'
    BY ConstantsAssumption
    DEF IndInv, TypeOK, Heartbeat, Upsert, WorkerRow, WorkerHealth
  <1>2. NoDoubleClaim'
    BY Zenon DEF IndInv, NoDoubleClaim, Heartbeat
  <1> QED BY <1>1, <1>2, JobsUntouched, Zenon DEF Heartbeat

\* The health sweep changes nothing but health_status.
LEMMA MarkStaleWorkersInv ==
    ASSUME IndInv, MarkStaleWorkers
    PROVE  IndInv'
  <1>1. DOMAIN workers' = DOMAIN workers /\ TypeOK'
    BY ZenonT(40) DEF IndInv, TypeOK, MarkStaleWorkers, WorkerRow, WorkerHealth
  <1>2. NoDoubleClaim'
    BY Zenon DEF IndInv, NoDoubleClaim, MarkStaleWorkers
  <1> QED BY <1>1, <1>2, JobsUntouched, Zenon DEF MarkStaleWorkers

\* A request that is admitted, finds nothing, fails or is done holds no row.
LEMMA HandlerReleased ==
    ASSUME IndInv, NEW h \in Handlers, NEW pc \in {"idle", "assign"},
           NEW w \in DOMAIN workers \cup {NoWorker}, pc = "assign" => w # NoWorker,
           SetHandler(h, pc, w, NoJob, NoLease),
           UNCHANGED <<jobs, results, workers, inserted, claims>>
    PROVE  IndInv'
  <1>1. TypeOK'
    BY Zenon DEF IndInv, TypeOK, SetHandler, Handler
  <1>2. NoDoubleClaim'
    BY ZenonT(40) DEF IndInv, TypeOK, NoDoubleClaim, SetHandler
  <1> QED BY <1>1, <1>2, JobsUntouched, Zenon

\* Being admitted to poll gives a request no row.
LEMMA PollJobInv ==
    ASSUME IndInv, NEW h \in Handlers, NEW w \in Workers, PollJob(h, w)
    PROVE  IndInv'
  BY HandlerReleased, NullsAssumption, Zenon DEF PollJob

\* A poll that finds no job to claim ends without a row.
LEMMA AssignNextEmptyInv ==
    ASSUME IndInv, NEW h \in Handlers, AssignNextEmpty(h)
    PROVE  IndInv'
  BY HandlerReleased, Zenon DEF AssignNextEmpty

\* A transaction that is rolled back gives its locked row back.
LEMMA AssignNextAbortInv ==
    ASSUME IndInv, NEW h \in Handlers, AssignNextAbort(h)
    PROVE  IndInv'
  BY HandlerReleased, Zenon DEF AssignNextAbort

\* A restart of the control plane drops the requests and keeps the tables.
LEMMA RestartInv ==
    ASSUME IndInv, Restart
    PROVE  IndInv'
  <1>1. TypeOK'
    BY Zenon DEF IndInv, TypeOK, Restart, Handler, Idle
  <1>2. NoDoubleClaim'
    BY Zenon DEF NoDoubleClaim, Restart, Idle
  <1> QED BY <1>1, <1>2, JobsUntouched, Zenon DEF Restart
\* The row taken is queued and no other poll holds it: SKIP LOCKED.
LEMMA AssignNextLockInv ==
    ASSUME IndInv, NEW h \in Handlers, AssignNextLock(h)
    PROVE  IndInv'
  <1> PICK j \in Oldest(Claimable(handlers[h].worker)) :
         SetHandler(h, "locked", handlers[h].worker, j, LeaseDuration)
    BY Zenon DEF AssignNextLock
  <1>1. j \in DOMAIN jobs /\ jobs[j].state = "queued" /\ ~ RowLocked(j)
    BY Zenon DEF Oldest, Claimable
  <1>2. LeaseDuration \in LeaseTime /\ LeaseDuration # NoLease
    BY ConstantsAssumption, NullsAssumption DEF LeaseTime, Lapsed
  <1>3. TypeOK'
    BY <1>1, <1>2, Zenon DEF IndInv, TypeOK, SetHandler, Handler, AssignNextLock
  <1>4. NoDoubleClaim'
    BY <1>1, ZenonT(40) DEF IndInv, TypeOK, NoDoubleClaim, SetHandler, RowLocked, AssignNextLock
  <1> QED BY <1>3, <1>4, JobsUntouched, ZenonT(40) DEF AssignNextLock

\* The counter update, applied or failed, releases the request.
LEMMA CountActiveJobInv ==
    ASSUME IndInv, NEW h \in Handlers, CountActiveJob(h)
    PROVE  IndInv'
  <1> DEFINE w == handlers[h].worker
  <1>1. PICK delta \in {1, -1} : UNCHANGED workers \/ IncrementActiveJobs(w, delta)
    BY Zenon DEF CountActiveJob
  <1>2. w \in DOMAIN workers
    BY Zenon DEF IndInv, TypeOK, CountActiveJob
  <1> HIDE DEF w
  <1>3. ASSUME NEW n \in Nat PROVE GreatestZero(n + delta) \in Nat
    BY DEF GreatestZero
  <1>4. /\ DOMAIN workers' = DOMAIN workers
        /\ workers' \in [DOMAIN workers -> WorkerRow]
    <2>1. CASE UNCHANGED workers
      BY <2>1, Zenon DEF IndInv, TypeOK
    <2>2. CASE IncrementActiveJobs(w, delta)
      BY <2>2, <1>2, <1>3, ZenonT(40) DEF IndInv, TypeOK, IncrementActiveJobs, WorkerRow
    <2> QED BY <1>1, <2>1, <2>2, Zenon
  <1>5. TypeOK'
    BY <1>4, Zenon DEF IndInv, TypeOK, SetHandler, Handler, CountActiveJob
  <1>6. NoDoubleClaim'
    BY ZenonT(40) DEF IndInv, TypeOK, NoDoubleClaim, SetHandler, CountActiveJob
  <1> QED BY <1>4, <1>5, <1>6, JobsUntouched, ZenonT(40) DEF CountActiveJob

\* The claim: one more attempt, paid for by the lease that now is out.
LEMMA AssignNextCommitInv ==
    ASSUME IndInv, NEW h \in Handlers, AssignNextCommit(h)
    PROVE  IndInv'
  <1> DEFINE j == handlers[h].job
  <1> USE DEF IndInv
  <1>1. /\ handlers[h].pc = "locked" /\ handlers[h].worker \in DOMAIN workers
        /\ handlers[h].lease \in LeaseTime
        /\ j \in DOMAIN jobs /\ j \in Jobs /\ jobs[j].state = "queued"
    BY Zenon DEF AssignNextCommit, TypeOK, NoDoubleClaim, Handler
  <1>2. /\ UNCHANGED <<results, workers, inserted>>
        /\ claims' = [claims EXCEPT ![j] = @ + 1]
        /\ SetHandler(h, "count", handlers[h].worker, j, NoLease)
    BY Zenon DEF AssignNextCommit
  <1>3. /\ DOMAIN jobs' = DOMAIN jobs
        /\ jobs' \in [DOMAIN jobs -> JobRow]
        /\ jobs'[j] = [jobs[j] EXCEPT !.state = "assigned",
                                      !.worker_id = handlers[h].worker,
                                      !.lease_expires_at = handlers[h].lease]
        /\ \A k \in DOMAIN jobs : k # j => jobs'[k] = jobs[k]
    <2>1. PICK row : row = [jobs[j] EXCEPT !.state = "assigned",
                                           !.worker_id = handlers[h].worker,
                                           !.lease_expires_at = handlers[h].lease]
      BY Zenon
    <2>2. jobs' = [jobs EXCEPT ![j] = row]
      BY <1>1, <2>1, Zenon DEF AssignNextCommit
    <2>3. jobs \in [DOMAIN jobs -> JobRow] /\ DOMAIN workers \subseteq Workers
      BY Zenon DEF TypeOK
    <2> HIDE DEF j, IndInv
    <2>4. row \in JobRow
      BY <1>1, <2>1, <2>3, ZenonT(40) DEF JobRow, JobState
    <2> QED BY <1>1, <2>1, <2>2, <2>3, <2>4
  <1>4. /\ jobs'[j].state = "assigned"
        /\ jobs'[j].worker_id = handlers[h].worker
        /\ jobs'[j].lease_expires_at \in LeaseTime
        /\ jobs'[j].retry_count = jobs[j].retry_count
        /\ jobs'[j].max_retries = jobs[j].max_retries
    BY <1>1, <1>3 DEF TypeOK, JobRow
  <1> HIDE DEF j
  <1>5. TypeOK'
    BY <1>1, <1>2, <1>3 DEF TypeOK, SetHandler, Handler
  <1>6. AttemptsBounded'
    <2> SUFFICES ASSUME NEW k \in Jobs
                 PROVE  AttemptsBounded!(k)'
      BY Zenon DEF AttemptsBounded
    <2>1. CASE k = j
      <3>1. jobs[j].retry_count \in Nat /\ jobs[j].max_retries \in Nat
        BY <1>1, Zenon DEF TypeOK, JobRow
      <3>2. claims[j] = jobs[j].retry_count /\ jobs[j].retry_count # jobs[j].max_retries
            /\ claims[j] <= jobs[j].max_retries
        BY <1>1, <3>1 DEF AttemptsBounded
      <3>3. claims'[j] = claims[j] + 1
        BY <1>1, <1>2, Zenon DEF TypeOK
      <3> QED BY <2>1, <1>1, <1>3, <1>4, <3>1, <3>2, <3>3
    <2>2. CASE k # j
      BY <2>2, <1>2, <1>3 DEF AttemptsBounded, TypeOK
    <2> QED BY <2>1, <2>2, Zenon
  <1>7. ResultIffCompleted'
    <2> SUFFICES ASSUME NEW k \in DOMAIN jobs
                 PROVE  jobs'[k].state = "completed" <=> k \in DOMAIN results
      BY <1>2, <1>3, Zenon DEF ResultIffCompleted
    <2>1. CASE k = j
      BY <2>1, <1>1, <1>4, Zenon DEF ResultIffCompleted
    <2>2. CASE k # j
      BY <2>2, <1>3, Zenon DEF ResultIffCompleted
    <2> QED BY <2>1, <2>2, Zenon
  <1>8. LeaseFields'
    <2>1. jobs'[j].lease_expires_at # NoLease
      BY <1>4, NullsAssumption, ConstantsAssumption DEF LeaseTime, Lapsed
    <2> SUFFICES ASSUME NEW k \in DOMAIN jobs
                 PROVE  LeaseFields!(k)'
      BY <1>3, Zenon DEF LeaseFields
    <2>2. CASE k = j
      BY <2>1, <2>2, <1>1, <1>2, <1>3, <1>4, Zenon DEF Leased
    <2>3. CASE k # j
      BY <2>3, <1>2, <1>3, Zenon DEF LeaseFields, Leased
    <2> QED BY <2>2, <2>3, Zenon
  <1>9. NoDoubleClaim'
    BY <1>1, <1>2, <1>3 DEF NoDoubleClaim, SetHandler, TypeOK, j
  <1> QED BY <1>5, <1>6, <1>7, <1>8, <1>9, Zenon
-----------------------------------------------------------------------------
\* Two versions of a row that agree on who holds it and how often it was tried.
SameHold(old, new) ==
    /\ new.state = old.state \/ (old.state = "assigned" /\ new.state = "running")
    /\ new.worker_id = old.worker_id
    /\ new.retry_count = old.retry_count /\ new.max_retries = old.max_retries
    /\ new.lease_expires_at = NoLease <=> old.lease_expires_at = NoLease

\* Steps in the life of one attempt: starting it, renewing its lease, time.
LEMMA AttemptContinues ==
    ASSUME IndInv, TypeOK', UNCHANGED <<results, claims>>,
           DOMAIN jobs' = DOMAIN jobs, DOMAIN workers' = DOMAIN workers,
           \A k \in DOMAIN jobs : SameHold(jobs[k], jobs'[k]),
           \A h \in Handlers : handlers'[h].pc = handlers[h].pc /\ handlers'[h].job = handlers[h].job
    PROVE  IndInv'
  <1>1. AttemptsBounded'
    <2> SUFFICES ASSUME NEW k \in Jobs
                 PROVE  AttemptsBounded!(k)'
      BY Zenon DEF AttemptsBounded
    <2>1. CASE k \notin DOMAIN jobs
      BY <2>1, Zenon DEF IndInv, AttemptsBounded
    <2>2. CASE k \in DOMAIN jobs
      BY <2>2 DEF IndInv, AttemptsBounded, SameHold
    <2> QED BY <2>1, <2>2, Zenon
  <1>2. ResultIffCompleted'
    BY ZenonT(40) DEF IndInv, ResultIffCompleted, SameHold
  <1>3. LeaseFields'
    <2> SUFFICES ASSUME NEW k \in DOMAIN jobs
                 PROVE  LeaseFields!(k)'
      BY Zenon DEF LeaseFields
    <2> QED BY Zenon DEF IndInv, LeaseFields, Leased, SameHold
  <1>4. NoDoubleClaim'
    BY DEF IndInv, NoDoubleClaim, SameHold
  <1> QED BY <1>1, <1>2, <1>3, <1>4, Zenon DEF IndInv

\* assigned becomes running under the same lease.
LEMMA MarkRunningInv ==
    ASSUME IndInv, NEW j \in Jobs, NEW w \in Workers, MarkRunning(j, w)
    PROVE  IndInv'
  <1>1. /\ j \in DOMAIN jobs /\ jobs[j].state = "assigned"
        /\ DOMAIN jobs' = DOMAIN jobs
        /\ jobs' \in [DOMAIN jobs -> JobRow]
        /\ jobs'[j] = [jobs[j] EXCEPT !.state = "running"]
        /\ \A k \in DOMAIN jobs : k # j => jobs'[k] = jobs[k]
    <2>1. /\ j \in DOMAIN jobs /\ jobs[j].state = "assigned"
          /\ jobs' = [jobs EXCEPT ![j] = [jobs[j] EXCEPT !.state = "running"]]
      BY Zenon DEF MarkRunning, HeldBy, Leased
    <2>2. jobs \in [DOMAIN jobs -> JobRow] /\ jobs[j] \in JobRow
      BY <2>1, Zenon DEF IndInv, TypeOK
    <2>3. [jobs[j] EXCEPT !.state = "running"] \in JobRow
      BY <2>2, Zenon DEF JobRow, JobState
    <2> QED BY <2>1, <2>2, <2>3, Zenon
  <1>2. SameHold(jobs[j], jobs'[j])
    BY <1>1 DEF SameHold, IndInv, TypeOK, JobRow
  <1>3. TypeOK'
    BY <1>1, Zenon DEF IndInv, TypeOK, MarkRunning
  <1>4. \A k \in DOMAIN jobs : SameHold(jobs[k], jobs'[k])
    BY <1>1, <1>2, Zenon DEF SameHold
  <1> QED BY <1>1, <1>3, <1>4, AttemptContinues, Zenon DEF MarkRunning

\* A renewal extends the lease of the worker that holds it.
LEMMA RenewLeaseInv ==
    ASSUME IndInv, NEW j \in Jobs, NEW w \in Workers, RenewLease(j, w)
    PROVE  IndInv'
  <1>1. LeaseDuration \in LeaseTime /\ LeaseDuration # NoLease
    BY ConstantsAssumption, NullsAssumption DEF LeaseTime, Lapsed
  <1>2. /\ j \in DOMAIN jobs /\ Leased(j)
        /\ DOMAIN jobs' = DOMAIN jobs
        /\ jobs' \in [DOMAIN jobs -> JobRow]
        /\ jobs'[j] = [jobs[j] EXCEPT !.lease_expires_at = LeaseDuration]
        /\ \A k \in DOMAIN jobs : k # j => jobs'[k] = jobs[k]
    BY <1>1, ZenonT(40) DEF RenewLease, HeldBy, Leased, IndInv, TypeOK, JobRow
  <1>3. jobs[j].lease_expires_at # NoLease
    BY <1>2, Zenon DEF IndInv, LeaseFields
  <1>4. SameHold(jobs[j], jobs'[j])
    BY <1>1, <1>2, <1>3 DEF SameHold, IndInv, TypeOK, JobRow
  <1>5. TypeOK'
    BY <1>2, Zenon DEF IndInv, TypeOK, RenewLease
  <1>6. \A k \in DOMAIN jobs : SameHold(jobs[k], jobs'[k])
    BY <1>2, <1>4, Zenon DEF SameHold
  <1> QED BY <1>2, <1>5, <1>6, AttemptContinues, Zenon DEF RenewLease

\* Time only runs leases down and makes heartbeats older.
LEMMA TickInv ==
    ASSUME IndInv, Tick
    PROVE  IndInv'
  <1> USE DEF IndInv, TypeOK
  <1>1. ASSUME NEW k \in DOMAIN jobs
        PROVE  jobs'[k] \in JobRow /\ SameHold(jobs[k], jobs'[k])
    <2>1. jobs'[k] = [jobs[k] EXCEPT !.lease_expires_at = Elapse(@)]
      BY Zenon DEF Tick
    <2>2. jobs[k] \in JobRow /\ jobs[k].lease_expires_at \in LeaseTime \cup {NoLease}
      BY Zenon DEF JobRow
    <2> QED BY <2>1, <2>2, ElapseType, ZenonT(40) DEF JobRow, SameHold
  <1>2. ASSUME NEW h \in Handlers
        PROVE  /\ handlers'[h] \in Handler
               /\ handlers'[h].pc = handlers[h].pc /\ handlers'[h].job = handlers[h].job
               /\ handlers'[h].worker = handlers[h].worker
               /\ handlers'[h].lease # NoLease <=> handlers[h].lease # NoLease
    <2>1. handlers'[h] = [handlers[h] EXCEPT !.lease = Elapse(@)]
      BY Zenon DEF Tick
    <2>2. handlers[h] \in Handler /\ handlers[h].lease \in LeaseTime \cup {NoLease}
      BY Zenon DEF Handler
    <2> QED BY <2>1, <2>2, ElapseType, ZenonT(40) DEF Handler
  <1>2a. ASSUME NEW w \in DOMAIN workers
        PROVE  workers'[w] \in WorkerRow
    <2> DEFINE age == IF Stale(w) THEN workers[w].age ELSE workers[w].age + 1
    <2>1. workers'[w] = [workers[w] EXCEPT !.age = age]
      BY Zenon DEF Tick
    <2>2. workers[w] \in WorkerRow /\ workers[w].age \in 0 .. HeartbeatTimeout + 1
      BY Zenon DEF WorkerRow
    <2>3. age \in 0 .. HeartbeatTimeout + 1
      BY <2>2, ConstantsAssumption DEF Stale
    <2> HIDE DEF age
    <2> QED BY <2>1, <2>2, <2>3, Zenon DEF WorkerRow
  <1>3. DOMAIN workers' = DOMAIN workers /\ workers' \in [DOMAIN workers -> WorkerRow]
    <2>1. workers' = [w \in DOMAIN workers |-> workers'[w]]
      BY Zenon DEF Tick
    <2> QED BY <2>1, <1>2a, Zenon
  <1>4. DOMAIN jobs' = DOMAIN jobs /\ jobs' \in [DOMAIN jobs -> JobRow]
    BY <1>1, Zenon DEF Tick
  <1>5. handlers' \in [Handlers -> Handler]
    BY <1>2, Zenon DEF Tick
  <1>6. UNCHANGED <<results, inserted, claims>>
    BY Zenon DEF Tick
  <1>7. TypeOK'
    BY <1>2, <1>3, <1>4, <1>5, <1>6, Zenon
  <1> QED BY <1>1, <1>2, <1>3, <1>4, <1>6, <1>7, AttemptContinues, Zenon
-----------------------------------------------------------------------------
\* The report closes the attempt: the claim is now paid for by the result.
LEMMA ReportResultInv ==
    ASSUME IndInv, NEW h \in Handlers, NEW j \in Jobs, NEW w \in Workers, NEW v \in Verdicts,
           ReportResult(h, j, w, v)
    PROVE  IndInv'
  <1> USE DEF IndInv
  <1>1. /\ Leased(j) /\ j \in DOMAIN jobs /\ jobs[j].state \in {"assigned", "running"}
        /\ w \in DOMAIN workers
    BY Zenon DEF ReportResult, HeldBy, Leased, LeaseFields
  <1>2. /\ DOMAIN jobs' = DOMAIN jobs
        /\ jobs' \in [DOMAIN jobs -> JobRow]
        /\ jobs'[j] = [jobs[j] EXCEPT !.state = "completed", !.lease_expires_at = NoLease]
        /\ \A k \in DOMAIN jobs : k # j => jobs'[k] = jobs[k]
    <2> DEFINE row == [jobs[j] EXCEPT !.state = "completed", !.lease_expires_at = NoLease]
    <2>1. jobs' = [jobs EXCEPT ![j] = row]
      BY Zenon DEF ReportResult
    <2>2. jobs \in [DOMAIN jobs -> JobRow] /\ jobs[j] \in JobRow
      BY <1>1, Zenon DEF TypeOK
    <2>3. row \in JobRow
      BY <2>2, Zenon DEF JobRow, JobState
    <2> QED BY <1>1, <2>1, <2>2, <2>3, Zenon
  <1>3. /\ jobs'[j].state = "completed" /\ jobs'[j].lease_expires_at = NoLease
        /\ jobs'[j].retry_count = jobs[j].retry_count
        /\ jobs'[j].max_retries = jobs[j].max_retries
    BY <1>1, <1>2 DEF TypeOK, JobRow
  <1>4. /\ DOMAIN results' = DOMAIN results \cup {j}
        /\ results' \in [DOMAIN results' -> Verdicts]
        /\ SetHandler(h, "uncount", w, j, NoLease)
        /\ UNCHANGED <<workers, inserted, claims>>
    BY Zenon DEF ReportResult, TypeOK, Upsert
  <1>5. TypeOK'
    BY <1>1, <1>2, <1>4, Zenon DEF TypeOK, SetHandler, Handler
  <1>6. AttemptsBounded'
    <2> SUFFICES ASSUME NEW k \in Jobs
                 PROVE  AttemptsBounded!(k)'
      BY Zenon DEF AttemptsBounded
    <2>1. CASE k = j
      BY <2>1, <1>1, <1>2, <1>3, <1>4, Zenon DEF AttemptsBounded
    <2>2. CASE k # j
      BY <2>2, <1>2, <1>4, ZenonT(40) DEF AttemptsBounded
    <2> QED BY <2>1, <2>2, ZenonT(40)
  <1>7. ResultIffCompleted'
    <2> SUFFICES ASSUME NEW k \in DOMAIN jobs
                 PROVE  jobs'[k].state = "completed" <=> k \in DOMAIN results'
      BY <1>2, Zenon DEF ResultIffCompleted
    <2>1. CASE k = j
      BY <2>1, <1>3, <1>4, Zenon
    <2>2. CASE k # j
      BY <2>2, <1>2, <1>4, Zenon DEF ResultIffCompleted
    <2> QED BY <2>1, <2>2, Zenon
  <1>8. LeaseFields'
    <2> SUFFICES ASSUME NEW k \in DOMAIN jobs
                 PROVE  LeaseFields!(k)'
      BY <1>2, Zenon DEF LeaseFields
    <2>1. CASE k = j
      BY <2>1, <1>2, <1>3, Zenon DEF Leased
    <2>2. CASE k # j
      BY <2>2, <1>2, <1>4, ZenonT(40) DEF LeaseFields, Leased
    <2> QED BY <2>1, <2>2, Zenon
  <1>9. NoDoubleClaim'
    <2>1. \A g \in Handlers : handlers'[g].pc = "locked" => g # h /\ handlers'[g] = handlers[g]
      BY <1>4, Zenon DEF SetHandler, TypeOK
    <2>2. \A g \in Handlers : handlers[g].pc = "locked" => handlers[g].job # j
      BY <1>1, Zenon DEF NoDoubleClaim
    <2> QED BY <2>1, <2>2, <1>2 DEF NoDoubleClaim
  <1> QED BY <1>5, <1>6, <1>7, <1>8, <1>9, Zenon

\* A lost attempt turns into a retry: its claim is now paid for by retry_count.
LEMMA RequeueExpiredLeasesInv ==
    ASSUME IndInv, RequeueExpiredLeases
    PROVE  IndInv'
  <1> USE DEF IndInv
  <1>1. /\ UNCHANGED <<results, workers, handlers, inserted, claims>>
        /\ DOMAIN jobs' = DOMAIN jobs
        /\ \A k \in DOMAIN jobs : ~ Expired(k) => jobs'[k] = jobs[k]
    BY Zenon DEF RequeueExpiredLeases
  <1>2. ASSUME NEW k \in DOMAIN jobs, Expired(k)
        PROVE  /\ jobs[k].state \in {"assigned", "running"}
               /\ jobs'[k] \in JobRow
               /\ jobs'[k].state = IF jobs[k].retry_count + 1 < jobs[k].max_retries
                                   THEN "queued" ELSE "failed"
               /\ jobs'[k].retry_count = jobs[k].retry_count + 1
               /\ jobs'[k].max_retries = jobs[k].max_retries
               /\ jobs'[k].worker_id = NoWorker /\ jobs'[k].lease_expires_at = NoLease
    <2>1. jobs'[k] = Requeued(jobs[k])
      BY <1>2, Zenon DEF RequeueExpiredLeases
    <2>2. jobs[k] \in JobRow
      BY Zenon DEF TypeOK
    <2>3. Requeued(jobs[k]) = [jobs[k] EXCEPT !.state = Requeued(jobs[k]).state,
                                              !.retry_count = jobs[k].retry_count + 1,
                                              !.worker_id = NoWorker,
                                              !.lease_expires_at = NoLease]
      BY <2>2, Zenon DEF Requeued, JobRow
    <2>4. Requeued(jobs[k]).state = IF jobs[k].retry_count + 1 < jobs[k].max_retries
                                    THEN "queued" ELSE "failed"
      BY <2>2, Zenon DEF Requeued, JobRow
    <2>5. jobs[k].state \in {"assigned", "running"}
      BY <1>2, Zenon DEF Expired, Leased
    <2>6. PICK st \in JobState : Requeued(jobs[k]).state = st
      BY <2>4, Zenon DEF JobState
    <2>7. PICK n \in Nat : jobs[k].retry_count + 1 = n
      BY <2>2 DEF JobRow
    <2>8. jobs'[k] = [jobs[k] EXCEPT !.state = st, !.retry_count = n,
                                     !.worker_id = NoWorker, !.lease_expires_at = NoLease]
      BY <2>1, <2>3, <2>6, <2>7, Zenon
    <2>9. /\ jobs'[k] \in JobRow /\ jobs'[k].state = st
          /\ jobs'[k].retry_count = n
          /\ jobs'[k].max_retries = jobs[k].max_retries
          /\ jobs'[k].worker_id = NoWorker /\ jobs'[k].lease_expires_at = NoLease
      BY <2>2, <2>8, ZenonT(40) DEF JobRow
    <2> QED BY <2>4, <2>5, <2>6, <2>7, <2>9, ZenonT(40)
  <1>3. jobs' \in [DOMAIN jobs -> JobRow]
    BY <1>1, <1>2, Zenon DEF TypeOK, RequeueExpiredLeases
  <1>4. TypeOK'
    BY <1>1, <1>3, Zenon DEF TypeOK
  <1>5. AttemptsBounded'
    <2> SUFFICES ASSUME NEW k \in Jobs
                 PROVE  AttemptsBounded!(k)'
      BY Zenon DEF AttemptsBounded
    <2>1. CASE k \notin DOMAIN jobs \/ ~ Expired(k)
      BY <2>1, <1>1, Zenon DEF AttemptsBounded
    <2>2. CASE k \in DOMAIN jobs /\ Expired(k)
      <3>1. jobs[k].retry_count \in Nat /\ jobs[k].max_retries \in Nat
        BY <2>2, Zenon DEF TypeOK, JobRow
      <3>2. claims[k] = jobs[k].retry_count + 1 /\ claims[k] <= jobs[k].max_retries
        BY <2>2, <1>2, Zenon DEF AttemptsBounded
      <3> QED BY <2>2, <1>1, <1>2, <3>1, <3>2
    <2> QED BY <2>1, <2>2, Zenon
  <1>6. ResultIffCompleted'
    BY <1>1, <1>2 DEF ResultIffCompleted
  <1>7. LeaseFields'
    <2> SUFFICES ASSUME NEW k \in DOMAIN jobs
                 PROVE  LeaseFields!(k)'
      BY <1>1, Zenon DEF LeaseFields
    <2>1. CASE Expired(k)
      BY <2>1, <1>1, <1>2, Zenon DEF Leased
    <2>2. CASE ~ Expired(k)
      BY <2>2, <1>1, Zenon DEF LeaseFields, Leased
    <2> QED BY <2>1, <2>2, Zenon
  <1>8. NoDoubleClaim'
    BY <1>1, Zenon DEF NoDoubleClaim, Expired, Leased
  <1> QED BY <1>4, <1>5, <1>6, <1>7, <1>8, Zenon

-----------------------------------------------------------------------------
\* Every step of the control plane preserves the invariant.
LEMMA NextInv ==
    ASSUME IndInv, [Next]_vars
    PROVE  IndInv'
  <1>1. CASE UNCHANGED vars
    BY <1>1, SMTT(30) DEF vars, IndInv, TypeOK, AttemptsBounded, ResultIffCompleted, LeaseFields,
                NoDoubleClaim, Leased
  <1>2. CASE \E h \in Handlers : HandlerStep(h)
    BY <1>2, AssignNextLockInv, AssignNextEmptyInv, AssignNextCommitInv, AssignNextAbortInv,
       CountActiveJobInv, Zenon DEF HandlerStep
  <1>3. CASE RequeueExpiredLeases \/ MarkStaleWorkers \/ Tick \/ Restart
    BY <1>3, RequeueExpiredLeasesInv, MarkStaleWorkersInv, TickInv, RestartInv, Zenon
  <1> QED
    BY <1>1, <1>2, <1>3, CreateJobInv, HeartbeatInv, PollJobInv, MarkRunningInv, RenewLeaseInv,
       ReportResultInv, ZenonT(40) DEF Next

\* The invariant holds in every reachable state of the control plane.
LEMMA Inductive == Spec => []IndInv
  <1>1. Init => IndInv
    BY InitInv, Zenon
  <1>2. IndInv /\ [Next]_vars => IndInv'
    BY NextInv, Zenon
  <1> QED BY <1>1, <1>2, PTL DEF Spec

\* The tables, the requests and the counters of the control plane are always
\* well typed, and no counter update drives active_jobs below zero.
THEOREM TypeCorrect == Spec => []TypeOK
  BY Inductive, PTL DEF IndInv

\* A job is executed at most max_retries times, whatever workers call and
\* whenever the sweeps run.
THEOREM AttemptsAreBounded == Spec => []AttemptsBounded
  BY Inductive, PTL DEF IndInv

\* Exactly the completed jobs have a result.
THEOREM ResultsMatchJobs == Spec => []ResultIffCompleted
  BY Inductive, PTL DEF IndInv

\* Exactly the assigned and running jobs carry a lease, held by a known worker.
THEOREM LeasesAreWellFormed == Spec => []LeaseFields
  BY Inductive, PTL DEF IndInv

\* Concurrent polls never claim the same job.
THEOREM ClaimsAreExclusive == Spec => []NoDoubleClaim
  BY Inductive, PTL DEF IndInv
-----------------------------------------------------------------------------
\* What a step can do to one row: nothing that matters, a claim, a report by
\* the holder, or the loss of a lapsed lease.  Results follow reports only.
RowStep(j) ==
    /\ j \in DOMAIN jobs'
    /\ \/ jobs'[j] = jobs[j]
       \/ Leased(j) /\ SameHold(jobs[j], jobs'[j])
       \/ jobs[j].state = "queued" /\ jobs'[j].state = "assigned"
       \/ Leased(j) /\ jobs'[j].state = "completed" /\ jobs'[j].worker_id = jobs[j].worker_id
       \/ Expired(j) /\ jobs'[j].state \in {"queued", "failed"}
    /\ j \in DOMAIN results => j \in DOMAIN results' /\ results'[j] = results[j]

\* Every step of the control plane is one of these for every row.
LEMMA RowSteps ==
    ASSUME IndInv, [Next]_vars, NEW j \in DOMAIN jobs
    PROVE  RowStep(j)
  <1> USE DEF IndInv
  <1>0. jobs[j] \in JobRow /\ j \in Jobs
    BY Zenon DEF TypeOK
  <1>1. CASE UNCHANGED <<jobs, results>>
    BY <1>1, Zenon DEF RowStep
  <1>2. ASSUME NEW k \in Jobs, NEW l \in Languages, NEW r \in RequestedRetries, CreateJob(k, l, r)
        PROVE  RowStep(j)
    <2>1. j # k /\ jobs'[j] = jobs[j] /\ j \in DOMAIN jobs' /\ results' = results
      BY <1>2, Zenon DEF CreateJob, Upsert
    <2> QED BY <2>1, Zenon DEF RowStep
  <1>3. ASSUME NEW h \in Handlers, AssignNextCommit(h)
        PROVE  RowStep(j)
    <2>1. handlers[h].job \in DOMAIN jobs /\ jobs[handlers[h].job].state = "queued"
      BY <1>3, Zenon DEF AssignNextCommit, NoDoubleClaim
    <2>2. jobs'[j] = jobs[j] \/ (jobs[j].state = "queued" /\ jobs'[j].state = "assigned")
      BY <1>0, <1>3, <2>1, Zenon DEF AssignNextCommit, JobRow
    <2> QED BY <1>3, <2>2, ZenonT(40) DEF AssignNextCommit, RowStep
  <1>4. ASSUME NEW k \in Jobs, NEW w \in Workers, MarkRunning(k, w)
        PROVE  RowStep(j)
    <2>1. jobs'[j] = jobs[j] \/ (Leased(j) /\ SameHold(jobs[j], jobs'[j]))
      BY <1>0, <1>4, Zenon DEF MarkRunning, HeldBy, Leased, SameHold, JobRow
    <2> QED BY <1>4, <2>1, Zenon DEF MarkRunning, RowStep
  <1>5. ASSUME NEW k \in Jobs, NEW w \in Workers, RenewLease(k, w)
        PROVE  RowStep(j)
    <2>1. Leased(j) => jobs[j].lease_expires_at # NoLease
      BY Zenon DEF LeaseFields
    <2>2. LeaseDuration # NoLease
      BY ConstantsAssumption, NullsAssumption
    <2>3. jobs'[j] = jobs[j] \/ (Leased(j) /\ SameHold(jobs[j], jobs'[j]))
      BY <1>0, <1>5, <2>1, <2>2, Zenon DEF RenewLease, HeldBy, Leased, SameHold, JobRow
    <2> QED BY <1>5, <2>3, Zenon DEF RenewLease, RowStep
  <1>6. ASSUME NEW h \in Handlers, NEW k \in Jobs, NEW w \in Workers, NEW v \in Verdicts,
               ReportResult(h, k, w, v)
        PROVE  RowStep(j)
    <2>1. Leased(k) /\ jobs[k].worker_id = w /\ k \notin DOMAIN results
      BY <1>6, Zenon DEF ReportResult, HeldBy, Leased, ResultIffCompleted
    <2>2. /\ j \in DOMAIN jobs'
          /\ j \in DOMAIN results => j \in DOMAIN results' /\ results'[j] = results[j]
      BY <1>6, <2>1, Zenon DEF ReportResult, Upsert
    <2>3. CASE j = k
      BY <2>3, <1>0, <1>6, <2>1, <2>2, ZenonT(40) DEF ReportResult, RowStep, JobRow
    <2>4. CASE j # k
      BY <2>4, <1>6, <2>2, Zenon DEF ReportResult, RowStep
    <2> QED BY <2>3, <2>4, Zenon
  <1>7. ASSUME RequeueExpiredLeases
        PROVE  RowStep(j)
    <2>1. Expired(j) => jobs'[j].state \in {"queued", "failed"}
      BY <1>0, <1>7, Zenon DEF RequeueExpiredLeases, Requeued, JobRow
    <2> QED BY <1>7, <2>1, Zenon DEF RequeueExpiredLeases, RowStep
  <1>8. ASSUME Tick
        PROVE  RowStep(j)
    <2>1. jobs'[j] = [jobs[j] EXCEPT !.lease_expires_at = Elapse(@)]
      BY <1>8, Zenon DEF Tick
    <2>2. CASE Leased(j)
      <3>1. SameHold(jobs[j], jobs'[j])
        BY <1>0, <2>1, ElapseType, ZenonT(40) DEF SameHold, JobRow
      <3> QED BY <1>8, <2>2, <3>1, Zenon DEF Tick, RowStep
    <2>3. CASE ~ Leased(j)
      <3>1. jobs[j].lease_expires_at = NoLease
        BY <2>3, Zenon DEF LeaseFields
      <3>2. jobs'[j] = jobs[j]
        BY <1>0, <2>1, <3>1, ZenonT(40) DEF Elapse, JobRow
      <3> QED BY <1>8, <3>2, Zenon DEF Tick, RowStep
    <2> QED BY <2>2, <2>3, Zenon
  <1>9. CASE \E h \in Handlers : HandlerStep(h)
    BY <1>1, <1>3, <1>9, Zenon
    DEF HandlerStep, AssignNextLock, AssignNextEmpty, AssignNextAbort, CountActiveJob
  <1>10. CASE \/ \E w \in Workers, s \in ReportedHealth : \E n \in 0 .. Capacity[w] : Heartbeat(w, n, s)
              \/ \E h \in Handlers, w \in Workers : PollJob(h, w)
              \/ MarkStaleWorkers \/ Restart \/ UNCHANGED vars
    BY <1>1, <1>10, ZenonT(40) DEF Heartbeat, PollJob, MarkStaleWorkers, Restart, vars
  <1> QED
    BY <1>2, <1>4, <1>5, <1>6, <1>7, <1>8, <1>9, <1>10, ZenonT(40) DEF Next

\* Completed and failed jobs, and results, never change again.
THEOREM TerminalsAreStable == Spec => TerminalStable
  <1>1. ASSUME IndInv, [Next]_vars, NEW j \in DOMAIN jobs, jobs[j].state \in Terminal
        PROVE  jobs'[j] = jobs[j] /\ (j \in DOMAIN results => results'[j] = results[j])
    BY <1>1, RowSteps, Zenon DEF RowStep, Leased, Expired, Terminal
  <1>2. IndInv /\ [Next]_vars => TerminalKept
    BY <1>1, Zenon DEF TerminalKept
  <1> QED BY <1>2, Inductive, PTL DEF Spec, TerminalStable

\* A lease is lost only to its own report or to the sweep after it has lapsed.
THEOREM LeasesAreRespected == Spec => LeaseRespected
  <1>1. ASSUME IndInv, [Next]_vars, NEW j \in DOMAIN jobs, NEW w \in Workers, HeldBy(j, w)
        PROVE  \/ HeldBy(j, w)'
               \/ jobs'[j].state = "completed" /\ jobs'[j].worker_id = w
               \/ Expired(j) /\ jobs'[j].state \in {"queued", "failed"}
    BY <1>1, RowSteps, Zenon DEF RowStep, HeldBy, Leased, Expired, SameHold
  <1>2. IndInv /\ [Next]_vars => LeaseKept
    BY <1>1, Zenon DEF LeaseKept
  <1> QED BY <1>2, Inductive, PTL DEF Spec, LeaseRespected
-----------------------------------------------------------------------------
(* The refinement: each step of the queue is a step of JobLifecycle or none.  *)

\* Steps after which every job is in the same phase, with the same holder,
\* budget and verdict, are invisible to the lifecycle.
LEMMA InvisibleStep ==
    ASSUME \A j \in Jobs : /\ PhaseOf(j)' = PhaseOf(j) /\ HolderOf(j)' = HolderOf(j)
                           /\ BudgetOf(j)' = BudgetOf(j) /\ VerdictOf(j)' = VerdictOf(j)
    PROVE  UNCHANGED Lifecycle!lifecycleVars
  BY Zenon DEF Lifecycle!lifecycleVars

\* Empty tables are jobs that have not been submitted.
LEMMA LifecycleInitial == Init => Lifecycle!LifecycleInit
  BY Zenon DEF Init, EmptyTable, Lifecycle!LifecycleInit, PhaseOf, HolderOf, BudgetOf, VerdictOf, Leased

\* The views of a row that the lifecycle sees depend only on the row.
LEMMA SameRowSameView ==
    ASSUME NEW j \in DOMAIN jobs, j \in DOMAIN jobs', SameHold(jobs[j], jobs'[j]), IndInv
    PROVE  PhaseOf(j)' = PhaseOf(j) /\ HolderOf(j)' = HolderOf(j) /\ BudgetOf(j)' = BudgetOf(j)
  BY Zenon DEF SameHold, PhaseOf, HolderOf, BudgetOf, Leased, IndInv, TypeOK, JobRow, JobState
\* A row a step leaves alone keeps its view.
LEMMA UntouchedRowSameView ==
    ASSUME IndInv, NEW j \in Jobs, j \in DOMAIN jobs <=> j \in DOMAIN jobs',
           j \in DOMAIN jobs => jobs'[j] = jobs[j]
    PROVE  PhaseOf(j)' = PhaseOf(j) /\ HolderOf(j)' = HolderOf(j) /\ BudgetOf(j)' = BudgetOf(j)
  <1>1. CASE j \in DOMAIN jobs
    BY <1>1, SameRowSameView, Zenon DEF SameHold
  <1>2. CASE j \notin DOMAIN jobs
    BY <1>2, Zenon DEF PhaseOf, HolderOf, BudgetOf, Leased
  <1> QED BY <1>1, <1>2, Zenon

\* Starting, renewing and waiting change no view.
LEMMA AttemptContinuesInvisible ==
    ASSUME IndInv, [Next]_vars, UNCHANGED results, DOMAIN jobs' = DOMAIN jobs,
           \A k \in DOMAIN jobs : SameHold(jobs[k], jobs'[k])
    PROVE  UNCHANGED Lifecycle!lifecycleVars
  <1> SUFFICES ASSUME NEW k \in Jobs
               PROVE  /\ PhaseOf(k)' = PhaseOf(k) /\ HolderOf(k)' = HolderOf(k)
                      /\ BudgetOf(k)' = BudgetOf(k) /\ VerdictOf(k)' = VerdictOf(k)
    BY InvisibleStep, Zenon
  <1>1. VerdictOf(k)' = VerdictOf(k)
    BY Zenon DEF VerdictOf
  <1>2. CASE k \in DOMAIN jobs
    BY <1>1, <1>2, SameRowSameView, Zenon
  <1>3. CASE k \notin DOMAIN jobs
    BY <1>1, <1>3, Zenon DEF PhaseOf, HolderOf, BudgetOf, Leased
  <1> QED BY <1>2, <1>3, Zenon

\* CreateJob is the submission of the lifecycle.
LEMMA CreateJobSubmits ==
    ASSUME IndInv, NEW j \in Jobs, NEW l \in Languages, NEW r \in RequestedRetries,
           CreateJob(j, l, r)
    PROVE  Lifecycle!Submit(j, MaxRetries(r))
  <1>1. /\ j \notin DOMAIN jobs /\ j \notin DOMAIN results
        /\ DOMAIN jobs' = DOMAIN jobs \cup {j} /\ results' = results
        /\ jobs'[j].state = "queued" /\ jobs'[j].retry_count = 0
        /\ jobs'[j].max_retries = MaxRetries(r)
        /\ \A k \in DOMAIN jobs : jobs'[k] = jobs[k]
    BY Zenon DEF CreateJob, Upsert, IndInv, TypeOK
  <1>2. \A k \in Jobs : VerdictOf(k)' = VerdictOf(k)
    BY <1>1, Zenon DEF VerdictOf
  <1>3. \A k \in Jobs : HolderOf(k)' = HolderOf(k)
    BY <1>1, Zenon DEF HolderOf, Leased
  <1>4. PhaseOf(j) = "absent" /\ PhaseOf(j)' = "waiting"
    BY <1>1, Zenon DEF PhaseOf
  <1>5. BudgetOf(j)' = MaxRetries(r)
    BY <1>1, MaxRetriesType DEF BudgetOf
  <1>6. \A k \in Jobs : k # j => PhaseOf(k)' = PhaseOf(k) /\ BudgetOf(k)' = BudgetOf(k)
    BY <1>1, UntouchedRowSameView, Zenon
  <1> QED BY <1>2, <1>3, <1>4, <1>5, <1>6, ZenonT(40) DEF Lifecycle!Submit

\* The commit of a claim is the claim of the lifecycle.
LEMMA AssignNextCommitClaims ==
    ASSUME IndInv, NEW h \in Handlers, AssignNextCommit(h)
    PROVE  \E j \in Jobs, w \in Workers : Lifecycle!Claim(j, w)
  <1>0. /\ handlers[h].job \in DOMAIN jobs /\ handlers[h].job \in Jobs
        /\ handlers[h].worker \in Workers /\ jobs[handlers[h].job].state = "queued"
    BY Zenon DEF AssignNextCommit, IndInv, TypeOK, NoDoubleClaim
  <1>1. PICK j \in Jobs, w \in Workers :
          /\ j = handlers[h].job /\ w = handlers[h].worker
          /\ j \in DOMAIN jobs /\ jobs[j] \in JobRow /\ jobs[j].state = "queued"
    BY <1>0, Zenon DEF IndInv, TypeOK
  <1>2. /\ DOMAIN jobs' = DOMAIN jobs /\ results' = results
        /\ jobs'[j].state = "assigned" /\ jobs'[j].worker_id = w
        /\ jobs'[j].retry_count = jobs[j].retry_count
        /\ jobs'[j].max_retries = jobs[j].max_retries
        /\ \A k \in DOMAIN jobs : k # j => jobs'[k] = jobs[k]
    BY <1>1, Zenon DEF AssignNextCommit, JobRow
  <1>3. \A k \in Jobs : VerdictOf(k)' = VerdictOf(k)
    BY <1>2, Zenon DEF VerdictOf
  <1>4. \A k \in Jobs : BudgetOf(k)' = BudgetOf(k)
    BY <1>2, Zenon DEF BudgetOf
  <1>5. PhaseOf(j) = "waiting" /\ PhaseOf(j)' = "leased" /\ HolderOf(j)' = w
    BY <1>1, <1>2, Zenon DEF PhaseOf, HolderOf, Leased
  <1>6. \A k \in Jobs : k # j => PhaseOf(k)' = PhaseOf(k) /\ HolderOf(k)' = HolderOf(k)
    BY <1>2, UntouchedRowSameView, Zenon
  <1>7. Lifecycle!Claim(j, w)
    BY <1>1, <1>3, <1>4, <1>5, <1>6, ZenonT(40) DEF Lifecycle!Claim
  <1> QED BY <1>1, <1>7, Zenon

\* An accepted report is the end of the attempt with a verdict.
LEMMA ReportResultFinishes ==
    ASSUME IndInv, NEW h \in Handlers, NEW j \in Jobs, NEW w \in Workers, NEW v \in Verdicts,
           ReportResult(h, j, w, v)
    PROVE  Lifecycle!Finish(j, v)
  <1>1. /\ j \in DOMAIN jobs /\ jobs[j] \in JobRow /\ jobs[j].state \in {"assigned", "running"}
    BY Zenon DEF ReportResult, HeldBy, Leased, IndInv, TypeOK
  <1>2. /\ DOMAIN jobs' = DOMAIN jobs
        /\ jobs'[j].state = "completed"
        /\ jobs'[j].retry_count = jobs[j].retry_count
        /\ jobs'[j].max_retries = jobs[j].max_retries
        /\ \A k \in DOMAIN jobs : k # j => jobs'[k] = jobs[k]
    BY <1>1, Zenon DEF ReportResult, JobRow
  <1>3. /\ DOMAIN results' = DOMAIN results \cup {j} /\ results'[j] = v
        /\ \A k \in DOMAIN results : k # j => results'[k] = results[k]
    BY Zenon DEF ReportResult, Upsert
  <1>4. \A k \in Jobs : BudgetOf(k)' = BudgetOf(k)
    BY <1>2, Zenon DEF BudgetOf
  <1>5. PhaseOf(j) = "leased" /\ PhaseOf(j)' = "done" /\ HolderOf(j)' = NoWorker
    BY <1>1, <1>2, Zenon DEF PhaseOf, HolderOf, Leased
  <1>6. VerdictOf(j)' = v /\ \A k \in Jobs : k # j => VerdictOf(k)' = VerdictOf(k)
    BY <1>3, Zenon DEF VerdictOf
  <1>7. \A k \in Jobs : k # j => PhaseOf(k)' = PhaseOf(k) /\ HolderOf(k)' = HolderOf(k)
    BY <1>2, UntouchedRowSameView, Zenon
  <1> QED BY <1>4, <1>5, <1>6, <1>7, ZenonT(40) DEF Lifecycle!Finish

\* The lease sweep is the loss of every attempt it takes away.
LEMMA RequeueLoses ==
    ASSUME IndInv, RequeueExpiredLeases
    PROVE  \E lost \in SUBSET Jobs : Lifecycle!Lose(lost)
  <1> DEFINE lost == {j \in Jobs : Expired(j)}
  <1>1. lost # {} /\ lost \in SUBSET Jobs
    BY Zenon DEF RequeueExpiredLeases, IndInv, TypeOK
  <1>2. /\ results' = results /\ DOMAIN jobs' = DOMAIN jobs
        /\ \A k \in DOMAIN jobs : ~ Expired(k) => jobs'[k] = jobs[k]
    BY Zenon DEF RequeueExpiredLeases
  <1>3. \A k \in Jobs : VerdictOf(k)' = VerdictOf(k)
    BY <1>2, Zenon DEF VerdictOf
  <1>4. ASSUME NEW k \in Jobs, Expired(k)
        PROVE  /\ PhaseOf(k) = "leased" /\ HolderOf(k)' = NoWorker
               /\ PhaseOf(k)' = IF BudgetOf(k) > 1 THEN "waiting" ELSE "dead"
               /\ BudgetOf(k)' = BudgetOf(k) - 1
    <2>1. /\ k \in DOMAIN jobs /\ jobs[k].state \in {"assigned", "running"}
          /\ jobs[k].retry_count \in Nat /\ jobs[k].max_retries \in Nat /\ jobs[k] \in JobRow
      BY <1>4, Zenon DEF Expired, Leased, IndInv, TypeOK, JobRow
    <2>2. /\ jobs'[k].state = IF jobs[k].retry_count + 1 < jobs[k].max_retries
                              THEN "queued" ELSE "failed"
          /\ jobs'[k].retry_count = jobs[k].retry_count + 1
          /\ jobs'[k].max_retries = jobs[k].max_retries
      BY <1>4, <2>1, Zenon DEF RequeueExpiredLeases, Requeued, JobRow
    <2>3. PhaseOf(k) = "leased" /\ HolderOf(k)' = NoWorker
      BY <1>2, <2>1, <2>2, ZenonT(40) DEF PhaseOf, HolderOf, Leased
    <2>4. BudgetOf(k) = jobs[k].max_retries - jobs[k].retry_count /\ BudgetOf(k)' = BudgetOf(k) - 1
      BY <1>2, <2>1, <2>2 DEF BudgetOf
    <2>5. PhaseOf(k)' = IF jobs'[k].state = "queued" THEN "waiting" ELSE "dead"
      BY <1>2, <2>1, <2>2, Zenon DEF PhaseOf
    <2> QED BY <2>1, <2>2, <2>3, <2>4, <2>5
  <1>5. ASSUME NEW k \in Jobs, ~ Expired(k)
        PROVE  PhaseOf(k)' = PhaseOf(k) /\ HolderOf(k)' = HolderOf(k) /\ BudgetOf(k)' = BudgetOf(k)
    BY <1>2, <1>5, UntouchedRowSameView, Zenon
  <1>6. Lifecycle!Lose(lost)
    BY <1>1, <1>3, <1>4, <1>5, Zenon DEF Lifecycle!Lose
  <1> QED BY <1>1, <1>6, Zenon
\* Locks, counters, heartbeats, sweeps and restarts included, the control plane
\* implements the abstract lifecycle of a job.
THEOREM QueueImplementsLifecycle == Spec => ImplementsLifecycle
  <1>1. ASSUME IndInv, [Next]_vars
        PROVE  [Lifecycle!LifecycleNext]_(Lifecycle!lifecycleVars)
    <2>1. CASE UNCHANGED <<jobs, results>>
      <3>1. \A k \in Jobs : VerdictOf(k)' = VerdictOf(k)
        BY <2>1, Zenon DEF VerdictOf
      <3> QED BY <1>1, <2>1, <3>1, UntouchedRowSameView, InvisibleStep, ZenonT(40)
    <2>2. ASSUME NEW j \in Jobs, NEW l \in Languages, NEW r \in RequestedRetries, CreateJob(j, l, r)
          PROVE  Lifecycle!LifecycleNext
      BY <1>1, <2>2, CreateJobSubmits, Zenon DEF Lifecycle!LifecycleNext
    <2>3. ASSUME NEW h \in Handlers, HandlerStep(h)
          PROVE  [Lifecycle!LifecycleNext]_(Lifecycle!lifecycleVars)
      <3>1. CASE AssignNextCommit(h)
        BY <1>1, <3>1, AssignNextCommitClaims, Zenon DEF Lifecycle!LifecycleNext
      <3>2. CASE UNCHANGED <<jobs, results>>
        BY <2>1, <3>2, Zenon
      <3> QED BY <2>3, <3>1, <3>2, Zenon
          DEF HandlerStep, AssignNextLock, AssignNextEmpty, AssignNextAbort, CountActiveJob
    <2>4. ASSUME NEW h \in Handlers, NEW j \in Jobs, NEW w \in Workers, NEW v \in Verdicts,
                 ReportResult(h, j, w, v)
          PROVE  Lifecycle!LifecycleNext
      BY <1>1, <2>4, ReportResultFinishes, Zenon DEF Lifecycle!LifecycleNext
    <2>5. CASE RequeueExpiredLeases
      BY <1>1, <2>5, RequeueLoses, Zenon DEF Lifecycle!LifecycleNext
    <2>6. CASE \/ \E j \in Jobs, w \in Workers : MarkRunning(j, w) \/ RenewLease(j, w)
               \/ Tick
      <3>1. UNCHANGED results /\ DOMAIN jobs' = DOMAIN jobs
        BY <2>6, Zenon DEF MarkRunning, RenewLease, Tick
      <3>2. ASSUME NEW k \in DOMAIN jobs
            PROVE  SameHold(jobs[k], jobs'[k])
        <4>1. RowStep(k)
          BY <1>1, RowSteps, Zenon
        <4>2. jobs[k] \in JobRow
          BY <1>1, ZenonT(40) DEF IndInv, TypeOK
        <4>3. CASE \E j \in Jobs, w \in Workers : MarkRunning(j, w) \/ RenewLease(j, w)
          BY <4>1, <4>2, <4>3 DEF RowStep, SameHold, MarkRunning, RenewLease, HeldBy, Leased, Expired, JobRow
        <4>4. CASE Tick
          BY <4>1, <4>2, <4>4, Zenon DEF RowStep, SameHold, Tick, Leased, Expired, JobRow
        <4> QED BY <2>6, <4>3, <4>4, Zenon
      <3> QED BY <1>1, <3>1, <3>2, AttemptContinuesInvisible, Zenon
    <2>7. CASE \/ \E w \in Workers, s \in ReportedHealth : \E n \in 0 .. Capacity[w] : Heartbeat(w, n, s)
               \/ \E h \in Handlers, w \in Workers : PollJob(h, w)
               \/ MarkStaleWorkers \/ Restart \/ UNCHANGED vars
      BY <2>1, <2>7, ZenonT(40) DEF Heartbeat, PollJob, MarkStaleWorkers, Restart, vars
    <2> QED
      BY <1>1, <2>2, <2>3, <2>4, <2>5, <2>6, <2>7, ZenonT(40) DEF Next
  <1>2. Init => Lifecycle!LifecycleInit
    BY LifecycleInitial, Zenon
  <1> QED BY <1>1, <1>2, Inductive, PTL DEF Spec, ImplementsLifecycle, Lifecycle!LifecycleSpec

-----------------------------------------------------------------------------
(* Workers and control plane together.                                       *)

\* The worker side is well typed, and the bound that keeps a heartbeat within
\* the capacity: while a poll is out there is room for the job it may bring.
PoolTypeOK ==
    /\ \A w \in Workers : beat[w] = NoBeat \/ beat[w] \in 0 .. Capacity[w]
    /\ beat \in [Workers -> Nat \cup {NoBeat}]
    /\ polling \in [Workers -> Handlers \cup {NoHandler}]
    /\ activeJobs \in [Workers -> SUBSET Jobs]
    /\ \A w \in Workers :
         /\ IsFiniteSet(activeJobs[w])
         /\ Cardinality(activeJobs[w]) <= Capacity[w]
         /\ polling[w] # NoHandler => Cardinality(activeJobs[w]) < Capacity[w]
    /\ execs \subseteq Exec
    /\ granted \in [Handlers -> Nat]

Serving(h) == handlers[h].pc = "count"

\* Attempt a of job j was given to worker w: if it is the latest claim and its
\* lease is still out, the row names w.
Given(w, j, a) ==
    /\ j \in DOMAIN jobs
    /\ a \in 1 .. claims[j]
    /\ a = claims[j] /\ Leased(j) => jobs[j].worker_id = w

\* The lease of attempt a of job j is no longer out.
Over(j, a) == ~ (a = claims[j] /\ Leased(j))

\* Every attempt that a request is about to hand out or a goroutine serves was
\* given to that worker, is served by one of them only, and a goroutine whose
\* renewal was refused has lost its lease.
AttemptInv ==
    /\ \A h \in Handlers : Serving(h) => Given(handlers[h].worker, handlers[h].job, granted[h])
    /\ \A e \in execs : Given(e.worker, e.job, e.attempt) /\ (e.lost => Over(e.job, e.attempt))
    /\ \A e, f \in execs : e # f /\ e.job = f.job => e.attempt # f.attempt
    /\ \A e \in execs, h \in Handlers :
          Serving(h) /\ handlers[h].job = e.job => granted[h] # e.attempt
    /\ \A g, h \in Handlers :
          g # h /\ Serving(g) /\ Serving(h) /\ handlers[g].job = handlers[h].job =>
             granted[g] # granted[h]

PoolInv == IndInv /\ PoolTypeOK /\ AttemptInv

-----------------------------------------------------------------------------
\* A claim of job j is counted.
Counted(j) ==
    \/ claims'[j] = claims[j] + 1
    \/ claims'[j] = claims[j] /\ (jobs[j].state = "queued" => jobs'[j].state # "assigned")

\* A step of the control plane counts every claim it makes, and no other.
LEMMA ClaimsCounted ==
    ASSUME IndInv, [Next]_vars, NEW j \in DOMAIN jobs
    PROVE  Counted(j)
  <1> USE DEF IndInv
  <1>0. jobs[j] \in JobRow /\ j \in Jobs /\ claims \in [Jobs -> Nat]
    BY Zenon DEF TypeOK
  <1>1. CASE UNCHANGED claims /\ jobs'[j] = jobs[j]
    BY <1>1, Zenon DEF Counted
  <1>2. ASSUME NEW k \in Jobs, NEW l \in Languages, NEW r \in RequestedRetries, CreateJob(k, l, r)
        PROVE  Counted(j)
    BY <1>1, <1>2, Zenon DEF CreateJob, Upsert
  <1>3. ASSUME NEW h \in Handlers, AssignNextCommit(h)
        PROVE  Counted(j)
    <2>1. CASE j = handlers[h].job
      BY <2>1, <1>0, <1>3, ZenonT(40) DEF AssignNextCommit, Counted
    <2>2. CASE j # handlers[h].job
      <3>1. jobs'[j] = jobs[j] /\ claims'[j] = claims[j]
        BY <2>2, <1>0, <1>3, ZenonT(40) DEF AssignNextCommit, TypeOK
      <3> QED BY <3>1, Zenon DEF Counted
    <2> QED BY <2>1, <2>2, Zenon
  <1>4. ASSUME NEW k \in Jobs, NEW w \in Workers, MarkRunning(k, w)
        PROVE  Counted(j)
    <2>1. jobs'[j] = jobs[j] \/ jobs'[j].state = "running"
      BY <1>0, <1>4, Zenon DEF MarkRunning, JobRow
    <2> QED BY <1>4, <2>1, Zenon DEF MarkRunning, Counted
  <1>5. ASSUME NEW k \in Jobs, NEW w \in Workers, RenewLease(k, w)
        PROVE  Counted(j)
    <2>1. jobs'[j].state = jobs[j].state
      BY <1>0, <1>5, Zenon DEF RenewLease, JobRow
    <2> QED BY <1>5, <2>1, Zenon DEF RenewLease, Counted
  <1>6. ASSUME NEW h \in Handlers, NEW k \in Jobs, NEW w \in Workers, NEW v \in Verdicts,
               ReportResult(h, k, w, v)
        PROVE  Counted(j)
    <2>1. jobs'[j] = jobs[j] \/ jobs'[j].state = "completed"
      BY <1>0, <1>6, Zenon DEF ReportResult, JobRow
    <2> QED BY <1>6, <2>1, Zenon DEF ReportResult, Counted
  <1>7. ASSUME RequeueExpiredLeases
        PROVE  Counted(j)
    <2>1. jobs'[j] = jobs[j] \/ jobs'[j].state \in {"queued", "failed"}
      BY <1>0, <1>7, Zenon DEF RequeueExpiredLeases, Requeued, JobRow
    <2> QED BY <1>7, <2>1, Zenon DEF RequeueExpiredLeases, Counted
  <1>8. ASSUME Tick
        PROVE  Counted(j)
    <2>1. jobs'[j].state = jobs[j].state
      BY <1>0, <1>8, Zenon DEF Tick, JobRow
    <2> QED BY <1>8, <2>1, Zenon DEF Tick, Counted
  <1>9. CASE \E h \in Handlers : HandlerStep(h)
    BY <1>1, <1>3, <1>9, Zenon
    DEF HandlerStep, AssignNextLock, AssignNextEmpty, AssignNextAbort, CountActiveJob
  <1>10. CASE \/ \E w \in Workers, s \in ReportedHealth : \E n \in 0 .. Capacity[w] : Heartbeat(w, n, s)
              \/ \E h \in Handlers, w \in Workers : PollJob(h, w)
              \/ MarkStaleWorkers \/ Restart \/ UNCHANGED vars
    BY <1>1, <1>10, Zenon DEF Heartbeat, PollJob, MarkStaleWorkers, Restart, vars
  <1> QED BY <1>2, <1>4, <1>5, <1>6, <1>7, <1>8, <1>9, <1>10, Zenon DEF Next

\* A step never takes a claim back, and a lease that is out afterwards under the
\* same claim was out before, with the same holder.
LEMMA HoldKept ==
    ASSUME IndInv, [Next]_vars, NEW j \in DOMAIN jobs
    PROVE  /\ j \in DOMAIN jobs'
           /\ claims[j] \in Nat /\ claims'[j] \in Nat /\ claims[j] <= claims'[j]
           /\ claims'[j] = claims[j] /\ Leased(j)' =>
                 Leased(j) /\ jobs'[j].worker_id = jobs[j].worker_id
  <1>1. claims[j] \in Nat
    BY Zenon DEF IndInv, TypeOK
  <1>2. j \in DOMAIN jobs' /\ RowStep(j)
    BY RowSteps, Zenon DEF RowStep
  <1>3. claims'[j] \in Nat /\ claims[j] <= claims'[j]
    BY <1>1, ClaimsCounted DEF Counted
  <1>4. ASSUME claims'[j] = claims[j], Leased(j)'
        PROVE  Leased(j) /\ jobs'[j].worker_id = jobs[j].worker_id
    <2>1. ~ (jobs[j].state = "queued" /\ jobs'[j].state = "assigned")
      BY <1>1, <1>4, ClaimsCounted DEF Counted
    <2> QED BY <1>2, <1>4, <2>1, ZenonT(40) DEF RowStep, SameHold, Leased, Expired
  <1> QED BY <1>1, <1>2, <1>3, <1>4, Zenon

\* So an attempt that was given to a worker stays given to it, and over once over.
LEMMA GivenKept ==
    ASSUME IndInv, [Next]_vars, NEW w, NEW j, NEW a, Given(w, j, a)
    PROVE  Given(w, j, a)' /\ (Over(j, a) => Over(j, a)')
  BY HoldKept DEF Given, Over

-----------------------------------------------------------------------------
\* The requests that are about to hand out a job after the step were about to
\* hand out the same attempt before it.
CountKept ==
    \A h \in Handlers : Serving(h)' =>
        /\ Serving(h)
        /\ handlers'[h].job = handlers[h].job /\ handlers'[h].worker = handlers[h].worker
        /\ granted'[h] = granted[h]

\* A request that keeps its attempt keeps it for the same worker.
LEMMA ServingKept ==
    ASSUME IndInv, AttemptInv, [Next]_vars, NEW h \in Handlers, Serving(h),
           handlers'[h].job = handlers[h].job, handlers'[h].worker = handlers[h].worker,
           granted'[h] = granted[h]
    PROVE  Given(handlers[h].worker, handlers[h].job, granted[h])'
  <1>1. PICK w, j, a : w = handlers[h].worker /\ j = handlers[h].job /\ a = granted[h]
    BY Zenon
  <1>2. Given(w, j, a)
    BY <1>1, Zenon DEF AttemptInv
  <1>3. Given(w, j, a)'
    BY <1>2, GivenKept, Zenon
  <1> QED BY <1>1, <1>3, Zenon DEF Given, Leased

\* Goroutines that end leave the others with their attempts.
LEMMA FewerExecs ==
    ASSUME IndInv, AttemptInv, [Next]_vars, CountKept, execs' \subseteq execs
    PROVE  AttemptInv'
  <1>1. \A h \in Handlers : Serving(h)' => Given(handlers[h].worker, handlers[h].job, granted[h])'
    BY ServingKept, Zenon DEF CountKept
  <1>2. \A e \in execs' : Given(e.worker, e.job, e.attempt)' /\ (e.lost => Over(e.job, e.attempt)')
    BY GivenKept, Zenon DEF AttemptInv
  <1>3. \A e, f \in execs' : e # f /\ e.job = f.job => e.attempt # f.attempt
    BY Zenon DEF AttemptInv
  <1>4. \A e \in execs', h \in Handlers :
           Serving(h)' /\ handlers'[h].job = e.job => granted'[h] # e.attempt
    BY ZenonT(40) DEF AttemptInv, CountKept
  <1>5. \A g, h \in Handlers :
          g # h /\ Serving(g)' /\ Serving(h)' /\ handlers'[g].job = handlers'[h].job =>
             granted'[g] # granted'[h]
    BY ZenonT(40) DEF AttemptInv, CountKept
  <1> QED BY <1>1, <1>2, <1>3, <1>4, <1>5, ZenonT(40) DEF AttemptInv

\* So does a goroutine that moves on with the attempt it serves.
LEMMA ExecMoves ==
    ASSUME IndInv, AttemptInv, [Next]_vars, CountKept, NEW e \in execs, NEW f,
           execs' = (execs \ {e}) \cup {f},
           f.worker = e.worker /\ f.job = e.job /\ f.attempt = e.attempt,
           f.lost => Over(e.job, e.attempt)
    PROVE  AttemptInv'
  <1>1. \A h \in Handlers : Serving(h)' => Given(handlers[h].worker, handlers[h].job, granted[h])'
    BY ServingKept, Zenon DEF CountKept
  <1>2. ASSUME NEW g \in execs'
        PROVE  Given(g.worker, g.job, g.attempt)' /\ (g.lost => Over(g.job, g.attempt)')
    <2>1. CASE g \in execs
      BY <2>1, GivenKept, Zenon DEF AttemptInv
    <2>2. CASE g = f
      BY <2>2, GivenKept, Zenon DEF AttemptInv
    <2> QED BY <2>1, <2>2, Zenon
  <1>3. ASSUME NEW g1 \in execs', NEW g2 \in execs', g1 # g2, g1.job = g2.job
        PROVE  g1.attempt # g2.attempt
    BY <1>3, ZenonT(40) DEF AttemptInv
  <1>4. ASSUME NEW g \in execs', NEW h \in Handlers, Serving(h)', handlers'[h].job = g.job
        PROVE  granted'[h] # g.attempt
    BY <1>4 DEF AttemptInv, CountKept
  <1>5. \A g, h \in Handlers :
          g # h /\ Serving(g)' /\ Serving(h)' /\ handlers'[g].job = handlers'[h].job =>
             granted'[g] # granted'[h]
    BY DEF AttemptInv, CountKept
  <1> QED BY <1>1, <1>2, <1>3, <1>4, <1>5, ZenonT(40) DEF AttemptInv

\* A claim that commits takes an attempt nobody serves: all others are older.
LEMMA PollClaimsAttempts ==
    ASSUME IndInv, PoolTypeOK, AttemptInv, NEW h \in Handlers, AssignNextCommit(h), [Next]_vars,
           granted' = [granted EXCEPT ![h] = claims'[handlers[h].job]], execs' = execs
    PROVE  AttemptInv'
  <1> DEFINE j == handlers[h].job
  <1>1. /\ j \in DOMAIN jobs /\ j \in Jobs /\ claims[j] \in Nat /\ claims'[j] = claims[j] + 1
        /\ jobs[j] \in JobRow
    BY Zenon DEF IndInv, TypeOK, NoDoubleClaim, AssignNextCommit
  <1>2. /\ \A g \in Handlers \ {h} : handlers'[g] = handlers[g] /\ granted'[g] = granted[g]
        /\ handlers'[h].job = j /\ handlers'[h].worker = handlers[h].worker
        /\ granted'[h] = claims'[j]
    BY Zenon DEF AssignNextCommit, SetHandler, IndInv, TypeOK, PoolTypeOK
  <1>3. jobs'[j].worker_id = handlers[h].worker /\ j \in DOMAIN jobs'
    BY <1>1, ZenonT(40) DEF AssignNextCommit, JobRow
  <1> HIDE DEF j
  <1>4. ASSUME NEW g \in Handlers, Serving(g)'
        PROVE  Given(handlers[g].worker, handlers[g].job, granted[g])'
    <2>1. CASE g = h
      BY <2>1, <1>1, <1>2, <1>3 DEF Given, Leased
    <2>2. CASE g # h
      BY <2>2, <1>2, <1>4, ServingKept, ZenonT(40) DEF Serving
    <2> QED BY <2>1, <2>2, ZenonT(40)
  <1>5. \A e \in execs' : Given(e.worker, e.job, e.attempt)' /\ (e.lost => Over(e.job, e.attempt)')
    BY GivenKept, Zenon DEF AttemptInv
  <1>6. ASSUME NEW e \in execs', NEW g \in Handlers, Serving(g)', handlers'[g].job = e.job
        PROVE  granted'[g] # e.attempt
    <2>1. CASE g = h
      <3>1. e.attempt \in 1 .. claims[j]
        BY <2>1, <1>2, <1>6, ZenonT(40) DEF AttemptInv, Given
      <3> QED BY <2>1, <3>1, <1>1, <1>2
    <2>2. CASE g # h
      BY <2>2, <1>2, <1>6 DEF AttemptInv, Serving
    <2> QED BY <2>1, <2>2, ZenonT(40)
  <1>7. ASSUME NEW g \in Handlers \ {h}, Serving(g)', handlers'[g].job = j
        PROVE  granted'[g] # granted'[h]
    <2>1. granted[g] \in 1 .. claims[j]
      BY <1>2, <1>7, ZenonT(40) DEF AttemptInv, Given, Serving
    <2> QED BY <2>1, <1>1, <1>2
  <1>8. ASSUME NEW g1 \in Handlers, NEW g2 \in Handlers, g1 # g2, Serving(g1)', Serving(g2)',
               handlers'[g1].job = handlers'[g2].job
        PROVE  granted'[g1] # granted'[g2]
    <2>1. CASE g1 = h \/ g2 = h
      BY <2>1, <1>2, <1>7, <1>8, Zenon
    <2>2. CASE g1 # h /\ g2 # h
      BY <2>2, <1>2, <1>8, SMTT(30) DEF AttemptInv, Serving
    <2> QED BY <2>1, <2>2, Zenon
  <1> QED BY <1>4, <1>5, <1>6, <1>8, ZenonT(40) DEF AttemptInv

\* The attempt passes from the request that claimed it to one goroutine.
LEMMA PollReturnsJobAttempts ==
    ASSUME IndInv, PoolTypeOK, AttemptInv, NEW h \in Handlers, PollReturnsJob(h), [Next]_vars
    PROVE  AttemptInv'
  <1> DEFINE e == [worker |-> handlers[h].worker, job |-> handlers[h].job,
                   attempt |-> granted[h], pc |-> "start", lost |-> FALSE]
  <1>1. execs' = execs \cup {e} /\ Serving(h)
    BY Zenon DEF PollReturnsJob, Serving
  <1>2. /\ e.worker = handlers[h].worker /\ e.job = handlers[h].job
        /\ e.attempt = granted[h] /\ ~ e.lost
    BY Zenon
  <1>3. /\ ~ Serving(h)'
        /\ \A g \in Handlers \ {h} : handlers'[g] = handlers[g] /\ granted'[g] = granted[g]
    BY Zenon DEF PollReturnsJob, CountActiveJob, SetHandler, Serving, IndInv, TypeOK, PoolTypeOK
  <1> HIDE DEF e
  <1>4. CountKept
    BY <1>3, Zenon DEF CountKept, Serving
  <1>5. \A g \in Handlers : Serving(g)' => Given(handlers[g].worker, handlers[g].job, granted[g])'
    BY <1>4, ServingKept, ZenonT(40) DEF CountKept
  <1>6. ASSUME NEW f \in execs'
        PROVE  Given(f.worker, f.job, f.attempt)' /\ (f.lost => Over(f.job, f.attempt)')
    <2>1. CASE f \in execs
      BY <2>1, GivenKept, Zenon DEF AttemptInv
    <2>2. CASE f = e
      BY <2>2, <1>1, <1>2, GivenKept, ZenonT(40) DEF AttemptInv
    <2> QED BY <2>1, <2>2, <1>1, Zenon
  <1>7. ASSUME NEW f1 \in execs', NEW f2 \in execs', f1 # f2, f1.job = f2.job
        PROVE  f1.attempt # f2.attempt
    BY <1>1, <1>2, <1>7, ZenonT(40) DEF AttemptInv
  <1>8. ASSUME NEW f \in execs', NEW g \in Handlers, Serving(g)', handlers'[g].job = f.job
        PROVE  granted'[g] # f.attempt
    BY <1>1, <1>2, <1>3, <1>4, <1>8, SMTT(30) DEF AttemptInv, CountKept
  <1>9. \A g1, g2 \in Handlers :
          g1 # g2 /\ Serving(g1)' /\ Serving(g2)' /\ handlers'[g1].job = handlers'[g2].job =>
             granted'[g1] # granted'[g2]
    <2>1. \A g1, g2 \in Handlers :
            g1 # g2 /\ Serving(g1) /\ Serving(g2) /\ handlers[g1].job = handlers[g2].job =>
               granted[g1] # granted[g2]
      BY Zenon DEF AttemptInv
    <2>2. \A g \in Handlers : Serving(g)' => /\ Serving(g) /\ handlers'[g].job = handlers[g].job
                                            /\ granted'[g] = granted[g]
      BY <1>4, Zenon DEF CountKept
    <2> QED BY <2>1, <2>2, ZenonT(40)
  <1> QED BY <1>5, <1>6, <1>7, <1>8, <1>9, ZenonT(40) DEF AttemptInv
-----------------------------------------------------------------------------
(* Every step of the composed system is one of the control plane, or none.    *)

\* Steps of a worker process: only its heartbeats and polls reach the control plane.
LEMMA ProcessSteps ==
    ASSUME PoolTypeOK, NEW w \in Workers, Process(w)
    PROVE  [Next]_vars
  <1>1. CASE \/ Start(w) \/ Shutdown(w) \/ Exit(w) \/ Crash(w)
             \/ SendHeartbeat(w) \/ HeartbeatLost(w) \/ PollTimeout(w)
    BY <1>1, Zenon DEF Start, Shutdown, Exit, Crash, Gone, SendHeartbeat, HeartbeatLost, PollTimeout
  <1>2. CASE HeartbeatArrives(w)
    <2>1. beat[w] \in 0 .. Capacity[w]
      BY <1>2, Zenon DEF HeartbeatArrives, PoolTypeOK
    <2> QED BY <1>2, <2>1, PoolAssumption, ZenonT(40) DEF HeartbeatArrives, Next
  <1>3. CASE \E h \in Handlers : TryPoll(w, h)
    BY <1>3, ZenonT(40) DEF TryPoll, Next
  <1> QED BY <1>1, <1>2, <1>3, ZenonT(40) DEF Process

\* Steps of a request goroutine.
LEMMA RequestSteps ==
    ASSUME NEW h \in Handlers, Request(h)
    PROVE  HandlerStep(h) /\ Next
  BY Zenon DEF Request, PollClaims, PollFails, PollReturnsJob, PollReplyLost, ReportCounted,
         HandlerStep, Next

\* Steps of a runJob goroutine.
LEMMA RunJobSteps ==
    ASSUME PoolTypeOK, NEW e \in execs, RunJob(e)
    PROVE  [Next]_vars
  <1>1. e.job \in Jobs /\ e.worker \in Workers
    BY Zenon DEF PoolTypeOK, Exec
  <1>2. CASE \/ MarkRunningFails(e) \/ LeaseRefused(e) \/ ExecuteReturns(e) \/ ReportFails(e)
             \/ Cleanup(e)
    BY <1>2, Zenon DEF MarkRunningFails, LeaseRefused, ExecuteReturns, ReportFails, Cleanup
  <1>3. CASE MarkRunningDone(e) \/ MarkRunningReplyLost(e)
    BY <1>1, <1>3, ZenonT(40) DEF MarkRunningDone, MarkRunningReplyLost, Next
  <1>4. CASE LeaseRenewed(e)
    BY <1>1, <1>4, ZenonT(40) DEF LeaseRenewed, Next
  <1>5. CASE \E h \in Handlers, v \in Verdicts : ReportArrives(e, h, v)
    BY <1>1, <1>5, ZenonT(40) DEF ReportArrives, Next
  <1> QED BY <1>2, <1>3, <1>4, <1>5, ZenonT(40) DEF RunJob

\* All of them.
LEMMA QueueSteps ==
    ASSUME PoolTypeOK, [PoolNext]_allVars
    PROVE  [Next]_vars
  <1>1. CASE UNCHANGED allVars
    BY <1>1, Zenon DEF allVars
  <1>2. CASE ControlPlane \/ ControlPlaneRestart
    BY <1>2, ZenonT(40) DEF ControlPlane, ControlPlaneRestart, Next
  <1> QED BY <1>1, <1>2, ProcessSteps, RequestSteps, RunJobSteps, ZenonT(40) DEF PoolNext
-----------------------------------------------------------------------------
(* The worker side stays well typed and within capacity.                      *)

\* The jobs a worker has in its map stay finitely many and within capacity.
LEMMA CapacityStep ==
    ASSUME NEW S, IsFiniteSet(S), NEW j
    PROVE  /\ IsFiniteSet(S \cup {j}) /\ Cardinality(S \cup {j}) <= Cardinality(S) + 1
           /\ IsFiniteSet(S \ {j}) /\ Cardinality(S \ {j}) <= Cardinality(S)
           /\ Cardinality(S) \in Nat
           /\ Cardinality(S \cup {j}) \in Nat /\ Cardinality(S \ {j}) \in Nat
  <1>1. IsFiniteSet(S \cup {j}) /\ Cardinality(S) \in Nat
    BY FS_AddElement, FS_CardinalityType, Zenon
  <1>2. Cardinality(S \cup {j}) = IF j \in S THEN Cardinality(S) ELSE Cardinality(S) + 1
    BY FS_AddElement, Zenon
  <1>3. IsFiniteSet(S \ {j})
    BY FS_RemoveElement, Zenon
  <1>4. Cardinality(S \ {j}) = IF j \in S THEN Cardinality(S) - 1 ELSE Cardinality(S)
    BY FS_RemoveElement, Zenon
  <1>5. Cardinality(S \cup {j}) \in Nat /\ Cardinality(S \ {j}) \in Nat
    BY <1>1, <1>3, FS_CardinalityType, ZenonT(40)
  <1> QED BY <1>1, <1>2, <1>3, <1>4, <1>5

\* Steps of a worker process.
LEMMA ProcessType ==
    ASSUME PoolTypeOK, NEW w \in Workers, Process(w)
    PROVE  PoolTypeOK'
  <1>0. Capacity[w] \in Nat \ {0} /\ IsFiniteSet(activeJobs[w]) /\ Cardinality(activeJobs[w]) \in Nat
    BY ConstantsAssumption, CapacityStep, ZenonT(40) DEF PoolTypeOK
  <1>1. CASE Start(w)
    BY <1>0, <1>1 DEF Start, PoolTypeOK
  <1>2. CASE Shutdown(w)
    BY <1>2, ZenonT(40) DEF Shutdown, PoolTypeOK
  <1>3. CASE Exit(w) \/ Crash(w)
    <2>1. Gone(w)
      BY <1>3, Zenon DEF Exit, Crash
    <2>2. IsFiniteSet({}) /\ Cardinality({}) = 0
      BY FS_EmptySet, ZenonT(40)
    <2> QED BY <1>0, <2>1, <2>2 DEF Gone, PoolTypeOK
  <1>4. CASE SendHeartbeat(w)
    BY <1>0, <1>4, SMTT(30) DEF SendHeartbeat, PoolTypeOK
  <1>5. CASE HeartbeatArrives(w) \/ HeartbeatLost(w)
    BY <1>5, Zenon DEF HeartbeatArrives, HeartbeatLost, BeatDone, PoolTypeOK
  <1>6. CASE PollTimeout(w)
    BY <1>6, Zenon DEF PollTimeout, PollOver, PoolTypeOK
  <1>7. CASE \E h \in Handlers : TryPoll(w, h)
    BY <1>7, Zenon DEF TryPoll, PoolTypeOK
  <1> QED BY <1>1, <1>2, <1>3, <1>4, <1>5, <1>6, <1>7, ZenonT(40) DEF Process

\* Steps of a request: only the job it returns reaches the worker.
LEMMA RequestType ==
    ASSUME IndInv, PoolTypeOK, AttemptInv, NEW h \in Handlers, Request(h)
    PROVE  PoolTypeOK'
  <1>1. CASE PollClaims(h)
    <2>1. CASE UNCHANGED workerVars
      BY <2>1, Zenon DEF workerVars, PoolTypeOK
    <2>2. CASE AssignNextCommit(h) /\ granted' = [granted EXCEPT ![h] = claims'[handlers[h].job]]
               /\ UNCHANGED <<process, beat, polling, activeJobs, execs>>
      <3>1. claims'[handlers[h].job] \in Nat
        BY <2>2 DEF IndInv, TypeOK, NoDoubleClaim, AssignNextCommit
      <3> QED BY <2>2, <3>1, ZenonT(40) DEF PoolTypeOK
    <2> QED BY <1>1, <2>1, <2>2, ZenonT(40) DEF PollClaims
  <1>2. CASE PollFails(h)
    BY <1>2, Zenon DEF PollFails, PollOver, PoolTypeOK
  <1>3. CASE PollReplyLost(h)
    BY <1>3, ZenonT(40) DEF PollReplyLost, PollOver, PoolTypeOK
  <1>4. CASE ReportCounted(h)
    BY <1>4, Zenon DEF ReportCounted, workerVars, PoolTypeOK
  <1>5. CASE PollReturnsJob(h)
    <2> DEFINE w == handlers[h].worker
               j == handlers[h].job
               e == [worker |-> w, job |-> j, attempt |-> granted[h], pc |-> "start", lost |-> FALSE]
    <2>1. handlers[h].pc = "count" /\ polling[w] = h
      BY <1>5, Zenon DEF PollReturnsJob
    <2>2. Given(w, j, granted[h]) /\ w \in Workers
      BY <2>1, ZenonT(40) DEF AttemptInv, Serving, IndInv, TypeOK
    <2>3. j \in Jobs /\ granted[h] \in Nat \ {0}
      BY <2>2 DEF Given, IndInv, TypeOK
    <2>4. e \in Exec
      BY <2>2, <2>3, Zenon DEF Exec
    <2>5. /\ execs' = execs \cup {e} /\ activeJobs' = [activeJobs EXCEPT ![w] = @ \cup {j}]
          /\ PollOver(h) /\ granted' = [granted EXCEPT ![h] = 0] /\ UNCHANGED beat
      BY <1>5, ZenonT(40) DEF PollReturnsJob
    <2> HIDE DEF w, j, e
    <2>6. /\ IsFiniteSet(activeJobs[w]) /\ Cardinality(activeJobs[w]) < Capacity[w]
          /\ Capacity[w] \in Nat
      BY <2>1, <2>2, PoolAssumption, ConstantsAssumption, ZenonT(40) DEF PoolTypeOK
    <2>7. /\ IsFiniteSet(activeJobs'[w]) /\ Cardinality(activeJobs'[w]) <= Capacity[w]
          /\ activeJobs' \in [Workers -> SUBSET Jobs]
      <3>1. activeJobs'[w] = activeJobs[w] \cup {j} /\ activeJobs' \in [Workers -> SUBSET Jobs]
        BY <2>2, <2>3, <2>5, ZenonT(40) DEF PoolTypeOK
      <3>2. PICK S : S = activeJobs[w]
        BY Zenon
      <3>3. /\ IsFiniteSet(S \cup {j}) /\ Cardinality(S \cup {j}) <= Cardinality(S) + 1
            /\ Cardinality(S \cup {j}) \in Nat /\ Cardinality(S) \in Nat
        BY <2>6, <3>2, CapacityStep, ZenonT(40)
      <3>4. Cardinality(S \cup {j}) <= Capacity[w]
        BY <2>6, <3>2, <3>3
      <3> QED BY <3>1, <3>2, <3>3, <3>4, ZenonT(40)
    <2>8. /\ polling' \in [Workers -> Handlers \cup {NoHandler}] /\ polling'[w] = NoHandler
          /\ \A v \in Workers : polling'[v] # NoHandler => polling[v] # NoHandler
      BY <2>1, <2>2, <2>5, ZenonT(40) DEF PollOver, PoolTypeOK
    <2>9. \A v \in Workers : /\ IsFiniteSet(activeJobs'[v])
                             /\ Cardinality(activeJobs'[v]) <= Capacity[v]
                             /\ polling'[v] # NoHandler => Cardinality(activeJobs'[v]) < Capacity[v]
      <3> TAKE v \in Workers
      <3>1. CASE v = w
        BY <3>1, <2>7, <2>8, Zenon
      <3>2. CASE v # w
        BY <3>2, <2>2, <2>5, <2>8, ZenonT(40) DEF PoolTypeOK
      <3> QED BY <3>1, <3>2, ZenonT(40)
    <2>10. execs' \subseteq Exec /\ granted' \in [Handlers -> Nat]
      BY <2>4, <2>5, Zenon DEF PoolTypeOK
    <2> QED BY <2>5, <2>7, <2>8, <2>9, <2>10, ZenonT(40) DEF PoolTypeOK
  <1> QED BY <1>1, <1>2, <1>3, <1>4, <1>5, ZenonT(40) DEF Request

\* Steps of a goroutine: it moves on, or is cleaned up.
LEMMA RunJobType ==
    ASSUME PoolTypeOK, NEW e \in execs, RunJob(e)
    PROVE  PoolTypeOK'
  <1>1. e \in Exec
    BY Zenon DEF PoolTypeOK
  <1>2. ASSUME NEW f \in Exec, execs' = (execs \ {e}) \cup {f},
               UNCHANGED <<process, beat, polling, activeJobs, granted>>
        PROVE  PoolTypeOK'
    BY <1>2, Zenon DEF PoolTypeOK
  <1>3. \A pc \in {"start", "executing", "report", "cleanup"} : [e EXCEPT !.pc = pc] \in Exec
    BY <1>1, Zenon DEF Exec
  <1>4. [e EXCEPT !.lost = TRUE] \in Exec
    BY <1>1, Zenon DEF Exec
  <1>5. CASE MarkRunningDone(e) \/ MarkRunningReplyLost(e) \/ MarkRunningFails(e)
    BY <1>2, <1>3, <1>5, ZenonT(40) DEF MarkRunningDone, MarkRunningReplyLost, MarkRunningFails, Become
  <1>6. CASE LeaseRenewed(e)
    BY <1>6, Zenon DEF LeaseRenewed, workerVars, PoolTypeOK
  <1>7. CASE LeaseRefused(e)
    BY <1>2, <1>4, <1>7, Zenon DEF LeaseRefused
  <1>8. CASE ExecuteReturns(e) \/ ReportFails(e)
    BY <1>2, <1>3, <1>8, ZenonT(40) DEF ExecuteReturns, ReportFails, Become
  <1>9. CASE \E h \in Handlers, v \in Verdicts : ReportArrives(e, h, v)
    BY <1>2, <1>3, <1>9, ZenonT(40) DEF ReportArrives, Become
  <1>10. CASE Cleanup(e)
    <2>1. e.worker \in Workers
      BY <1>1, Zenon DEF Exec
    <2> DEFINE w == e.worker
    <2>2. /\ IsFiniteSet(activeJobs[w]) /\ Cardinality(activeJobs[w]) \in Nat
          /\ Capacity[w] \in Nat
      BY <2>1, CapacityStep, ConstantsAssumption, ZenonT(40) DEF PoolTypeOK
    <2>3. activeJobs' = [activeJobs EXCEPT ![w] = @ \ {e.job}] /\ execs' \subseteq execs
          /\ UNCHANGED <<beat, polling, granted>>
      BY <1>10, Zenon DEF Cleanup
    <2>4. activeJobs'[w] = activeJobs[w] \ {e.job} /\ activeJobs' \in [Workers -> SUBSET Jobs]
      BY <2>1, <2>3, Zenon DEF PoolTypeOK
    <2>5. /\ IsFiniteSet(activeJobs'[w]) /\ Cardinality(activeJobs'[w]) \in Nat
          /\ Cardinality(activeJobs'[w]) <= Cardinality(activeJobs[w])
      <3>1. PICK S, j : S = activeJobs[w] /\ j = e.job
        BY Zenon
      <3>2. /\ IsFiniteSet(S \ {j}) /\ Cardinality(S \ {j}) \in Nat
            /\ Cardinality(S \ {j}) <= Cardinality(S)
        BY <2>2, <3>1, CapacityStep, ZenonT(40)
      <3> QED BY <2>4, <3>1, <3>2, ZenonT(40)
    <2>6. \A v \in Workers : /\ IsFiniteSet(activeJobs'[v])
                             /\ Cardinality(activeJobs'[v]) <= Capacity[v]
                             /\ polling'[v] # NoHandler => Cardinality(activeJobs'[v]) < Capacity[v]
      <3> TAKE v \in Workers
      <3>1. CASE v = w
        <4>1. PICK m \in Nat, n \in Nat, c \in Nat :
                m = Cardinality(activeJobs[w]) /\ n = Cardinality(activeJobs'[w]) /\ c = Capacity[w]
          BY <2>2, <2>5, ZenonT(40)
        <4>2. m <= c /\ (polling[w] # NoHandler => m < c)
          BY <2>1, <4>1, ZenonT(40) DEF PoolTypeOK
        <4>3. n <= m /\ polling'[w] = polling[w]
          BY <2>3, <2>5, <4>1, ZenonT(40)
        <4>4. n <= c /\ (polling'[w] # NoHandler => n < c)
          BY <4>2, <4>3, SMTT(30)
        <4> QED BY <3>1, <2>5, <4>1, <4>4, ZenonT(40)
      <3>2. CASE v # w
        BY <3>2, <2>1, <2>3, ZenonT(40) DEF PoolTypeOK
      <3> QED BY <3>1, <3>2, ZenonT(40)
    <2> QED BY <2>3, <2>4, <2>6, ZenonT(40) DEF PoolTypeOK
  <1> QED BY <1>5, <1>6, <1>7, <1>8, <1>9, <1>10, ZenonT(40) DEF RunJob
-----------------------------------------------------------------------------
(* The inductive invariant of the composed system.                            *)

\* Requests that are touched by a step which claims nothing hand out nothing
\* after it.
LEMMA OnlyClaimsServe ==
    ASSUME TypeOK, granted \in [Handlers -> Nat], NEW h \in Handlers, NEW pc, NEW w, NEW j, NEW l,
           pc # "count", SetHandler(h, pc, w, j, l),
           \A g \in Handlers \ {h} : granted'[g] = granted[g]
    PROVE  CountKept
  <1>1. /\ handlers'[h].pc = pc
        /\ \A g \in Handlers \ {h} : handlers'[g] = handlers[g]
    BY Zenon DEF SetHandler, TypeOK
  <1> QED BY <1>1, Zenon DEF CountKept, Serving

\* Steps of the control plane alone.
LEMMA ControlPlaneAttempts ==
    ASSUME PoolInv, ControlPlane \/ ControlPlaneRestart, [Next]_vars
    PROVE  AttemptInv' /\ PoolTypeOK'
  <1> USE DEF PoolInv
  <1>1. CASE ControlPlane
    <2>1. UNCHANGED workerVars
      BY <1>1, Zenon DEF ControlPlane
    <2>2. UNCHANGED handlers \/ Tick
      BY <1>1, ZenonT(40) DEF ControlPlane, CreateJob, RequeueExpiredLeases, MarkStaleWorkers
    <2>3. \A h \in Handlers : /\ handlers'[h].pc = handlers[h].pc
                              /\ handlers'[h].job = handlers[h].job
                              /\ handlers'[h].worker = handlers[h].worker
      BY <2>2 DEF Tick, IndInv, TypeOK, Handler
    <2>4. CountKept
      BY <2>1, <2>3, ZenonT(40) DEF CountKept, Serving, workerVars
    <2>5. AttemptInv'
      BY <2>1, <2>4, FewerExecs, Zenon DEF workerVars
    <2> QED BY <2>1, <2>5, ZenonT(40) DEF workerVars, PoolTypeOK
  <1>2. CASE ControlPlaneRestart
    <2>1. CountKept
      BY <1>2, Zenon DEF ControlPlaneRestart, Restart, CountKept, Serving, Idle
    <2>2. AttemptInv'
      BY <1>2, <2>1, FewerExecs, ZenonT(40) DEF ControlPlaneRestart
    <2> QED BY <1>2, <2>2, Zenon DEF ControlPlaneRestart, PoolTypeOK
  <1> QED BY <1>1, <1>2, ZenonT(40)

\* Steps of a worker process.
LEMMA ProcessAttempts ==
    ASSUME PoolInv, NEW w \in Workers, Process(w), [Next]_vars
    PROVE  AttemptInv'
  <1> USE DEF PoolInv
  <1>1. execs' \subseteq execs /\ granted' = granted
    BY ZenonT(40) DEF Process, Start, Shutdown, Exit, Crash, Gone, SendHeartbeat, HeartbeatArrives,
           HeartbeatLost, BeatDone, PollTimeout, TryPoll
  <1>2. CountKept
    <2>1. CASE UNCHANGED handlers
      BY <1>1, <2>1, ZenonT(40) DEF CountKept, Serving
    <2>2. CASE \E h \in Handlers : TryPoll(w, h)
      BY <1>1, <2>2, OnlyClaimsServe, ZenonT(40) DEF TryPoll, PollJob, IndInv, PoolTypeOK
    <2> QED BY <2>1, <2>2, ZenonT(40)
        DEF Process, Start, Shutdown, Exit, Crash, Gone, SendHeartbeat, HeartbeatArrives,
            Heartbeat, HeartbeatLost, PollTimeout, vars
  <1> QED BY <1>1, <1>2, FewerExecs, ZenonT(40)

\* Steps of a request.
LEMMA RequestAttempts ==
    ASSUME PoolInv, NEW h \in Handlers, Request(h), [Next]_vars
    PROVE  AttemptInv'
  <1> USE DEF PoolInv
  <1>1. CASE PollClaims(h) /\ AssignNextLock(h)
    <2>1. granted' = granted /\ execs' = execs
      BY <1>1, Zenon DEF PollClaims, workerVars, AssignNextLock, AssignNextCommit
    <2>2. CountKept
      BY <1>1, <2>1, OnlyClaimsServe, ZenonT(40) DEF AssignNextLock, IndInv, PoolTypeOK
    <2> QED BY <2>1, <2>2, FewerExecs, ZenonT(40)
  <1>2. CASE PollClaims(h) /\ AssignNextCommit(h)
    BY <1>2, PollClaimsAttempts, ZenonT(40) DEF PollClaims, AssignNextLock, AssignNextCommit
  <1>3. CASE PollFails(h)
    <2>1. CountKept
      BY <1>3, OnlyClaimsServe, Zenon DEF PollFails, AssignNextEmpty, AssignNextAbort, IndInv, PoolTypeOK
    <2> QED BY <1>3, <2>1, FewerExecs, Zenon DEF PollFails
  <1>4. CASE PollReturnsJob(h)
    BY <1>4, PollReturnsJobAttempts, Zenon
  <1>5. CASE PollReplyLost(h)
    <2>1. \A g \in Handlers \ {h} : granted'[g] = granted[g]
      BY <1>5, Zenon DEF PollReplyLost, PoolTypeOK
    <2>2. CountKept
      BY <1>5, <2>1, OnlyClaimsServe, ZenonT(40) DEF PollReplyLost, CountActiveJob, IndInv, PoolTypeOK
    <2> QED BY <1>5, <2>2, FewerExecs, ZenonT(40) DEF PollReplyLost
  <1>6. CASE ReportCounted(h)
    <2>1. CountKept
      BY <1>6, OnlyClaimsServe, ZenonT(40) DEF ReportCounted, CountActiveJob, workerVars, IndInv, PoolTypeOK
    <2> QED BY <1>6, <2>1, FewerExecs, ZenonT(40) DEF ReportCounted, workerVars
  <1> QED BY <1>1, <1>2, <1>3, <1>4, <1>5, <1>6, ZenonT(40) DEF Request, PollClaims

\* Steps of a goroutine.  A refused renewal means that the lease is not out to
\* this worker any more.
LEMMA RunJobAttempts ==
    ASSUME PoolInv, NEW e \in execs, RunJob(e), [Next]_vars
    PROVE  AttemptInv'
  <1> USE DEF PoolInv
  <1>1. e \in Exec /\ Given(e.worker, e.job, e.attempt) /\ (e.lost => Over(e.job, e.attempt))
    BY Zenon DEF PoolTypeOK, AttemptInv
  <1>2. granted' = granted
    BY Zenon DEF RunJob, MarkRunningDone, MarkRunningReplyLost, MarkRunningFails, LeaseRenewed,
           LeaseRefused, ExecuteReturns, ReportArrives, ReportFails, Cleanup, workerVars
  <1>3. CountKept
    <2>1. CASE UNCHANGED handlers
      BY <1>2, <2>1, ZenonT(40) DEF CountKept, Serving
    <2>2. CASE \E h \in Handlers, v \in Verdicts : ReportArrives(e, h, v)
      BY <1>2, <2>2, OnlyClaimsServe, ZenonT(40) DEF ReportArrives, ReportResult, IndInv, PoolTypeOK
    <2> QED BY <2>1, <2>2, ZenonT(40)
        DEF RunJob, MarkRunningDone, MarkRunningReplyLost, MarkRunningFails, LeaseRenewed,
            LeaseRefused, ExecuteReturns, ReportFails, Cleanup, MarkRunning, RenewLease, vars
  <1>4. ASSUME NEW pc, Become(e, pc)
        PROVE  AttemptInv'
    <2>1. PICK f : f = [e EXCEPT !.pc = pc]
      BY Zenon
    <2>2. f.worker = e.worker /\ f.job = e.job /\ f.attempt = e.attempt /\ f.lost = e.lost
      BY <1>1, <2>1, ZenonT(40) DEF Exec
    <2>3. execs' = (execs \ {e}) \cup {f}
      BY <1>4, <2>1, ZenonT(40) DEF Become
    <2> QED BY <1>1, <1>3, <2>2, <2>3, ExecMoves, ZenonT(40)
  <1>5. CASE LeaseRefused(e)
    <2>1. PICK f : f = [e EXCEPT !.lost = TRUE]
      BY Zenon
    <2>2. f.worker = e.worker /\ f.job = e.job /\ f.attempt = e.attempt
      BY <1>1, <2>1, Zenon DEF Exec
    <2>3. execs' = (execs \ {e}) \cup {f}
      BY <1>5, <2>1, Zenon DEF LeaseRefused
    <2>4. Over(e.job, e.attempt)
      BY <1>1, <1>5, Zenon DEF LeaseRefused, HeldBy, Given, Over
    <2> QED BY <1>3, <2>2, <2>3, <2>4, ExecMoves, ZenonT(40)
  <1>6. CASE execs' \subseteq execs
    BY <1>3, <1>6, FewerExecs, Zenon
  <1> QED BY <1>4, <1>5, <1>6, ZenonT(40)
      DEF RunJob, MarkRunningDone, MarkRunningReplyLost, MarkRunningFails, LeaseRenewed,
          ExecuteReturns, ReportArrives, ReportFails, Cleanup, workerVars

\* Every step of the composed system preserves the invariant.
LEMMA PoolNextInv ==
    ASSUME PoolInv, [PoolNext]_allVars
    PROVE  PoolInv'
  <1>1. [Next]_vars
    BY QueueSteps, Zenon DEF PoolInv
  <1>2. IndInv'
    BY <1>1, NextInv, Zenon DEF PoolInv
  <1>3. CASE UNCHANGED allVars
    <2>1. CountKept /\ execs' \subseteq execs
      BY <1>3, Zenon DEF allVars, workerVars, vars, CountKept, Serving
    <2>2. AttemptInv'
      BY <1>1, <2>1, FewerExecs, Zenon DEF PoolInv
    <2>3. PoolTypeOK'
      BY <1>3, Zenon DEF allVars, workerVars, PoolInv, PoolTypeOK
    <2> QED BY <1>2, <2>2, <2>3, ZenonT(40) DEF PoolInv
  <1>4. CASE ControlPlane \/ ControlPlaneRestart
    BY <1>1, <1>2, <1>4, ControlPlaneAttempts, ZenonT(40) DEF PoolInv
  <1>5. CASE \E w \in Workers : Process(w)
    BY <1>1, <1>2, <1>5, ProcessAttempts, ProcessType, ZenonT(40) DEF PoolInv
  <1>6. CASE \E h \in Handlers : Request(h)
    BY <1>1, <1>2, <1>6, RequestAttempts, RequestType, ZenonT(40) DEF PoolInv
  <1>7. CASE \E e \in execs : RunJob(e)
    BY <1>1, <1>2, <1>7, RunJobAttempts, RunJobType, ZenonT(40) DEF PoolInv
  <1> QED BY <1>3, <1>4, <1>5, <1>6, <1>7, ZenonT(40) DEF PoolNext

\* Before any worker has started, nothing is claimed and nothing runs.
LEMMA PoolInitInv == PoolInit => PoolInv
  <1> SUFFICES ASSUME PoolInit PROVE PoolInv
    BY Zenon
  <1>1. IndInv
    BY InitInv, Zenon DEF PoolInit
  <1>2. IsFiniteSet({}) /\ Cardinality({}) = 0
    BY FS_EmptySet, ZenonT(40)
  <1>3. PoolTypeOK
    BY <1>2, ConstantsAssumption DEF PoolInit, PoolTypeOK
  <1>4. AttemptInv
    BY ZenonT(40) DEF PoolInit, Init, Idle, AttemptInv, Serving
  <1> QED BY <1>1, <1>3, <1>4, ZenonT(40) DEF PoolInv

\* The invariant holds in every reachable state of workers and control plane.
LEMMA PoolInductive == PoolSpec => []PoolInv
  <1>1. PoolInv /\ [PoolNext]_allVars => PoolInv'
    BY PoolNextInv, Zenon
  <1> QED BY PoolInitInv, <1>1, PTL DEF PoolSpec
-----------------------------------------------------------------------------
\* Every claim is executed at most once, and two executions of a job overlap only
\* after the sweep has taken the lease of the older one, whatever calls are lost
\* and whichever processes crash, stop or restart (tryPoll, runJob and
\* leaseRenewalLoop against the control plane's lease columns).
THEOREM OverlapsAreExplained == PoolSpec => []OverlapOnlyAfterLostLease
  <1>1. ASSUME PoolInv, NEW e \in execs
        PROVE  /\ e.attempt <= claims[e.job]
               /\ e.attempt < claims[e.job] => jobs[e.job].retry_count >= e.attempt
               /\ e.lost => jobs[e.job].state = "completed" \/ jobs[e.job].retry_count >= e.attempt
    <2>1. Given(e.worker, e.job, e.attempt) /\ (e.lost => Over(e.job, e.attempt))
      BY <1>1, Zenon DEF PoolInv, AttemptInv
    <2>2. /\ e.job \in DOMAIN jobs /\ e.job \in Jobs /\ claims[e.job] \in Nat
          /\ e.attempt \in 1 .. claims[e.job]
          /\ jobs[e.job].retry_count \in Nat /\ jobs[e.job].state \in JobState
      BY <1>1, <2>1, ZenonT(40) DEF Given, PoolInv, IndInv, TypeOK, JobRow
    <2>3. claims[e.job] = jobs[e.job].retry_count
                        + IF jobs[e.job].state \in {"assigned", "running", "completed"} THEN 1 ELSE 0
      BY <1>1, <2>2, ZenonT(40) DEF PoolInv, IndInv, AttemptsBounded
    <2>4. e.lost => \/ e.attempt < claims[e.job]
                    \/ jobs[e.job].state \notin {"assigned", "running"}
      BY <2>1, <2>2, SMTT(30) DEF Over, Leased
    <2>5. PICK n \in Nat, c \in Nat, r \in Nat :
            n = e.attempt /\ c = claims[e.job] /\ r = jobs[e.job].retry_count
      BY <2>2
    <2>6. n <= c /\ (c = r \/ c = r + 1)
      BY <2>2, <2>3, <2>5
    <2>7. n <= c /\ (n < c => r >= n)
      BY <2>6
    <2>8. CASE jobs[e.job].state \in {"assigned", "running"}
      BY <2>4, <2>5, <2>7, <2>8, ZenonT(40)
    <2>9. CASE jobs[e.job].state \notin {"assigned", "running", "completed"}
      <3>1. c = r
        BY <2>3, <2>5, <2>9
      <3> QED BY <3>1, <2>5, <2>7, ZenonT(40)
    <2>10. CASE jobs[e.job].state = "completed"
      BY <2>5, <2>7, <2>10, ZenonT(40)
    <2> QED BY <2>8, <2>9, <2>10, ZenonT(40)
  <1>2. PoolInv => OverlapOnlyAfterLostLease
    BY <1>1, ZenonT(40) DEF OverlapOnlyAfterLostLease, PoolInv, AttemptInv
  <1> QED BY <1>2, PoolInductive, PTL

\* A result is stored only by the goroutine that reports it, which serves the
\* latest claim or whose own worker holds the latest claim: the worker_id match in
\* Complete fences every worker that has lost the job to another one.
THEOREM StaleWorkersAreRejected == PoolSpec => StaleWorkerRejected
  <1>1. ASSUME PoolInv, [PoolNext]_allVars, NEW j \in Jobs, j \in DOMAIN results', j \notin DOMAIN results
        PROVE  \E e \in execs : /\ e.job = j /\ e.pc = "report" /\ e \notin execs'
                                /\ \/ e.attempt = claims[j]
                                   \/ e.attempt < claims[j] /\ jobs[j].worker_id = e.worker
    <2>1. results' # results
      BY <1>1, Zenon
    <2>2. PICK e \in execs : \E h \in Handlers, v \in Verdicts : ReportArrives(e, h, v)
      <3>1. ~ UNCHANGED allVars
        BY <2>1, ZenonT(40) DEF allVars, vars
      <3>2. ~ (ControlPlane \/ ControlPlaneRestart)
        BY <2>1, ZenonT(40) DEF ControlPlane, ControlPlaneRestart, CreateJob, RequeueExpiredLeases,
                    MarkStaleWorkers, Tick, Restart
      <3>3. ASSUME NEW w \in Workers, Process(w)
            PROVE  FALSE
        BY <2>1, <3>3, ZenonT(40) DEF Process, Start, Shutdown, Exit, Crash, Gone, SendHeartbeat,
                     HeartbeatArrives, Heartbeat, HeartbeatLost, PollTimeout, TryPoll, PollJob, vars
      <3>4. ASSUME NEW h \in Handlers, Request(h)
            PROVE  FALSE
        BY <2>1, <3>4, RequestSteps, ZenonT(40) DEF HandlerStep, AssignNextLock, AssignNextEmpty,
                     AssignNextCommit, AssignNextAbort, CountActiveJob
      <3>5. ASSUME NEW e \in execs, RunJob(e)
            PROVE  \E h \in Handlers, v \in Verdicts : ReportArrives(e, h, v)
        BY <2>1, <3>5, ZenonT(40) DEF RunJob, MarkRunningDone, MarkRunningReplyLost, MarkRunningFails,
                     LeaseRenewed, LeaseRefused, ExecuteReturns, ReportFails, Cleanup,
                     MarkRunning, RenewLease, vars
      <3> QED BY <1>1, <3>1, <3>2, <3>3, <3>4, <3>5, ZenonT(40) DEF PoolNext
    <2>3. PICK h \in Handlers, v \in Verdicts : ReportArrives(e, h, v)
      BY <2>2, Zenon
    <2>4. e.pc = "report" /\ HeldBy(e.job, e.worker) /\ results' = Upsert(results, e.job, v)
      BY <2>3, Zenon DEF ReportArrives, ReportResult
    <2>5. e.job = j
      BY <1>1, <2>4, ZenonT(40) DEF Upsert
    <2>6. e \notin execs'
      <3>1. e \in Exec
        BY <1>1, Zenon DEF PoolInv, PoolTypeOK
      <3>2. [e EXCEPT !.pc = "cleanup"] # e
        BY <2>4, <3>1, ZenonT(40) DEF Exec
      <3> QED BY <2>3, <3>2, ZenonT(40) DEF ReportArrives, Become
    <2>7. e.attempt \in 1 .. claims[j] /\ claims[j] \in Nat
      BY <1>1, <2>5, ZenonT(40) DEF PoolInv, AttemptInv, Given, IndInv, TypeOK
    <2> QED BY <2>4, <2>5, <2>6, <2>7, SMTT(30) DEF HeldBy
  <1>2. PoolInv /\ [PoolNext]_allVars => ReportFenced
    BY <1>1, Zenon DEF ReportFenced
  <1> QED BY <1>2, PoolInductive, PTL DEF PoolSpec, StaleWorkerRejected

\* Workers only ever take steps the control plane allows: the composed system
\* implements JobQueue, and with it everything proved of JobQueue.
THEOREM PoolImplementsQueue == PoolSpec => ImplementsQueue
  <1>1. PoolInit => Init
    BY Zenon DEF PoolInit
  <1>2. PoolInv /\ [PoolNext]_allVars => [Next]_vars
    BY QueueSteps, Zenon DEF PoolInv
  <1> QED BY <1>1, <1>2, PoolInductive, PTL DEF PoolSpec, Spec, ImplementsQueue
-----------------------------------------------------------------------------
(* Capacity.  tryPoll counts the entries of activeJobs, a map keyed by job id,  *)
(* so that a second goroutine for a job the worker already runs is not counted. *)

\* No two goroutines of worker w run the same job.
NoSelfOverlap(w) == \A e, f \in ExecsOf(w) : e.job = f.job => e = f

\* Every goroutine of worker w has an entry in its activeJobs.
Listed(w) == \A e \in ExecsOf(w) : e.job \in activeJobs[w]

\* The workers with a single slot.
SingleSlots == {w \in Workers : Capacity[w] = 1}

\* Every worker of W has a single slot, or does not run a job that it is running.
SlotsDistinct(W) == \A w \in W : Capacity[w] = 1 \/ NoSelfOverlap(w)

\* What the bounds on the goroutines of the workers of W rest on; a worker with a
\* single slot polls only while it runs nothing, so it cannot overlap with itself.
SlotInv(W) == \A w \in W : Listed(w) /\ (Capacity[w] = 1 => NoSelfOverlap(w))

\* Goroutines with entries of their own are at most as many as the entries.
LEMMA EntriesBound ==
    ASSUME PoolTypeOK, NEW w \in Workers, Listed(w), NoSelfOverlap(w)
    PROVE  Cardinality(ExecsOf(w)) <= Capacity[w]
  <1>1. PICK E, A : E = ExecsOf(w) /\ A = activeJobs[w]
    BY Zenon
  <1>2. /\ IsFiniteSet(A) /\ Cardinality(A) <= Capacity[w] /\ Capacity[w] \in Nat
        /\ Cardinality(A) \in Nat
    BY <1>1, ConstantsAssumption, FS_CardinalityType, ZenonT(40) DEF PoolTypeOK
  <1> DEFINE JobOf == [e \in E |-> e.job]
  <1>3. JobOf \in [E -> A] /\ \A e, f \in E : JobOf[e] = JobOf[f] => e = f
    BY <1>1, Zenon DEF Listed, NoSelfOverlap
  <1>4. JobOf \in Injection(E, A)
    BY <1>3, Zenon DEF Injection, IsInjective
  <1> HIDE DEF JobOf
  <1>5. IsFiniteSet(E) /\ Cardinality(E) <= Cardinality(A)
    BY <1>2, <1>4, FS_Injection, ZenonT(40)
  <1>6. Cardinality(E) \in Nat
    BY <1>5, FS_CardinalityType, ZenonT(40)
  <1>7. PICK m \in Nat, n \in Nat, c \in Nat :
          m = Cardinality(E) /\ n = Cardinality(A) /\ c = Capacity[w]
    BY <1>2, <1>6, Zenon
  <1>8. m <= n /\ n <= c
    BY <1>2, <1>5, <1>7, ZenonT(40)
  <1>9. m <= c
    BY <1>8, SMTT(30)
  <1> QED BY <1>1, <1>7, <1>9, ZenonT(40)

\* Steps that start no goroutine and take no entry away keep the entries.
LEMMA SlotsKept ==
    ASSUME NEW W \in SUBSET Workers, SlotInv(W), UNCHANGED activeJobs, execs' \subseteq execs
    PROVE  SlotInv(W)'
  BY Zenon DEF SlotInv, Listed, NoSelfOverlap, ExecsOf

\* A goroutine that moves on keeps its job.
LEMMA SlotMoves ==
    ASSUME PoolTypeOK, NEW W \in SUBSET Workers, SlotInv(W), NEW e \in execs,
           NEW f, f.worker = e.worker, f.job = e.job,
           execs' = (execs \ {e}) \cup {f}, UNCHANGED activeJobs
    PROVE  SlotInv(W)'
  <1> SUFFICES ASSUME NEW w \in W
               PROVE  Listed(w)' /\ (Capacity[w] = 1 => NoSelfOverlap(w)')
    BY Zenon DEF SlotInv
  <1>1. Listed(w)'
    BY Zenon DEF SlotInv, Listed, ExecsOf
  <1>2. ASSUME NoSelfOverlap(w) PROVE NoSelfOverlap(w)'
    BY <1>2 DEF NoSelfOverlap, ExecsOf
  <1> QED BY <1>1, <1>2, ZenonT(40) DEF SlotInv

\* A worker process that stops takes its goroutines along with their entries, and
\* its other steps start none.
LEMMA ProcessSlots ==
    ASSUME PoolTypeOK, NEW W \in SUBSET Workers, SlotInv(W), NEW v \in Workers, Process(v)
    PROVE  SlotInv(W)'
  <1>1. CASE Gone(v)
    <2>1. /\ \A e \in execs' : e \in execs /\ e.worker # v
          /\ \A w \in Workers \ {v} : activeJobs'[w] = activeJobs[w]
      BY <1>1, Zenon DEF Gone, ExecsOf, PoolTypeOK
    <2> QED BY <2>1, Zenon DEF SlotInv, Listed, NoSelfOverlap, ExecsOf
  <1>2. CASE UNCHANGED <<activeJobs, execs>>
    BY <1>2, SlotsKept, ZenonT(40)
  <1> QED
    BY <1>1, <1>2, ZenonT(40) DEF Process, Start, Shutdown, Exit, Crash, SendHeartbeat, HeartbeatArrives,
                      HeartbeatLost, BeatDone, PollTimeout, TryPoll

\* A poll brings a job to a worker that had room for it: with a single slot, to one
\* that runs nothing.
LEMMA RequestSlots ==
    ASSUME IndInv, PoolTypeOK, NEW W \in SUBSET Workers, SlotInv(W), NEW h \in Handlers,
           Request(h)
    PROVE  SlotInv(W)'
  <1>1. CASE UNCHANGED <<activeJobs, execs>>
    BY <1>1, SlotsKept, ZenonT(40)
  <1>2. CASE PollReturnsJob(h)
    <2>1. PICK v, j, new : /\ v = handlers[h].worker /\ j = handlers[h].job
                           /\ new = [worker |-> v, job |-> j, attempt |-> granted[h],
                                     pc |-> "start", lost |-> FALSE]
      BY ZenonT(40)
    <2>2. /\ handlers[h].pc = "count" /\ polling[v] = h /\ execs' = execs \cup {new}
          /\ activeJobs' = [activeJobs EXCEPT ![v] = @ \cup {j}]
      BY <1>2, <2>1, ZenonT(40) DEF PollReturnsJob
    <2>3. v \in Workers /\ new.worker = v /\ new.job = j
      BY <2>1, <2>2, ZenonT(40) DEF IndInv, TypeOK
    <2>4. /\ activeJobs'[v] = activeJobs[v] \cup {j}
          /\ \A w \in Workers \ {v} : activeJobs'[w] = activeJobs[w]
      BY <2>2, <2>3, ZenonT(40) DEF PoolTypeOK
    <2>5. \A w \in W : Listed(w)'
      BY <2>2, <2>3, <2>4, ZenonT(40) DEF SlotInv, Listed, ExecsOf
    <2>6. Capacity[v] = 1 => activeJobs[v] = {}
      <3>1. polling[v] # NoHandler
        BY <2>2, PoolAssumption, ZenonT(40)
      <3>2. IsFiniteSet(activeJobs[v]) /\ Cardinality(activeJobs[v]) < Capacity[v]
        BY <2>3, <3>1, ZenonT(40) DEF PoolTypeOK
      <3>3. Cardinality(activeJobs[v]) \in Nat
        BY <3>2, FS_CardinalityType, ZenonT(40)
      <3>4. Capacity[v] = 1 => Cardinality(activeJobs[v]) = 0
        BY <3>2, <3>3
      <3> QED BY <3>2, <3>4, FS_EmptySet, ZenonT(40)
    <2>7. v \in W /\ Capacity[v] = 1 => ExecsOf(v) = {}
      BY <2>3, <2>6, ZenonT(40) DEF SlotInv, Listed
    <2>8. \A w \in W : Capacity[w] = 1 => NoSelfOverlap(w)'
      BY <2>2, <2>3, <2>7 DEF SlotInv, NoSelfOverlap, ExecsOf
    <2> QED BY <2>5, <2>8, ZenonT(40) DEF SlotInv
  <1> QED
    BY <1>1, <1>2, ZenonT(40) DEF Request, PollClaims, PollFails, PollReplyLost, ReportCounted, workerVars

\* A goroutine's cleanup takes its own entry, which no other goroutine needs.
LEMMA RunJobSlots ==
    ASSUME PoolTypeOK, NEW W \in SUBSET Workers, SlotInv(W), SlotsDistinct(W),
           NEW e \in execs, RunJob(e)
    PROVE  SlotInv(W)'
  <1>1. e \in Exec
    BY Zenon DEF PoolTypeOK
  <1>2. \A pc : [e EXCEPT !.pc = pc].worker = e.worker /\ [e EXCEPT !.pc = pc].job = e.job
    BY <1>1, Zenon DEF Exec
  <1>3. [e EXCEPT !.lost = TRUE].worker = e.worker /\ [e EXCEPT !.lost = TRUE].job = e.job
    BY <1>1, Zenon DEF Exec
  <1>4. CASE LeaseRenewed(e)
    BY <1>4, SlotsKept, Zenon DEF LeaseRenewed, workerVars
  <1>5. CASE LeaseRefused(e)
    BY <1>3, <1>5, SlotMoves, ZenonT(40) DEF LeaseRefused
  <1>6. ASSUME NEW pc, Become(e, pc), UNCHANGED activeJobs PROVE SlotInv(W)'
    BY <1>2, <1>6, SlotMoves, ZenonT(40) DEF Become
  <1>7. CASE Cleanup(e)
    <2>1. /\ execs' = execs \ {e} /\ e.worker \in Workers
          /\ activeJobs'[e.worker] = activeJobs[e.worker] \ {e.job}
          /\ \A w \in Workers \ {e.worker} : activeJobs'[w] = activeJobs[w]
      BY <1>1, <1>7, ZenonT(40) DEF Cleanup, PoolTypeOK, Exec
    <2>2. e.worker \in W => \A f \in execs' : f.worker = e.worker => f.job # e.job
      BY <2>1, Zenon DEF SlotInv, SlotsDistinct, NoSelfOverlap, ExecsOf
    <2>3. \A w \in W : Listed(w)'
      BY <2>1, <2>2, ZenonT(40) DEF SlotInv, Listed, ExecsOf
    <2>4. \A w \in W : NoSelfOverlap(w) => NoSelfOverlap(w)'
      BY <2>1, Zenon DEF NoSelfOverlap, ExecsOf
    <2> QED BY <2>3, <2>4, ZenonT(40) DEF SlotInv
  <1> QED
    BY <1>4, <1>5, <1>6, <1>7, ZenonT(40) DEF RunJob, MarkRunningDone, MarkRunningReplyLost, MarkRunningFails,
                                  ExecuteReturns, ReportArrives, ReportFails

\* Every step of the composed system keeps the entries.
LEMMA SlotNext ==
    ASSUME PoolInv, NEW W \in SUBSET Workers, SlotInv(W), SlotsDistinct(W), [PoolNext]_allVars
    PROVE  SlotInv(W)'
  <1>1. CASE UNCHANGED allVars \/ ControlPlane \/ ControlPlaneRestart
    BY <1>1, SlotsKept, ZenonT(40) DEF allVars, workerVars, ControlPlane, ControlPlaneRestart
  <1>2. CASE \E w \in Workers : Process(w)
    BY <1>2, ProcessSlots, ZenonT(40) DEF PoolInv
  <1>3. CASE \E h \in Handlers : Request(h)
    BY <1>3, RequestSlots, Zenon DEF PoolInv
  <1>4. CASE \E e \in execs : RunJob(e)
    BY <1>4, RunJobSlots, ZenonT(40) DEF PoolInv
  <1> QED BY <1>1, <1>2, <1>3, <1>4, ZenonT(40) DEF PoolNext

\* A worker with a single slot, as the configuration has it by default, never runs
\* two jobs at once, in whatever order leases expire, polls time out and replies
\* are lost, and whatever capacities the other workers have.
THEOREM SingleSlotIsRespected == PoolSpec => []SingleSlotRespected
  <1>1. SlotsDistinct(SingleSlots)
    BY Zenon DEF SlotsDistinct, SingleSlots
  <1>2. PoolInit => SlotInv(SingleSlots)
    BY Zenon DEF PoolInit, SlotInv, SingleSlots, Listed, NoSelfOverlap, ExecsOf
  <1>3. PoolInv /\ SlotInv(SingleSlots) /\ [PoolNext]_allVars => SlotInv(SingleSlots)'
    <2>1. SingleSlots \in SUBSET Workers
      BY Zenon DEF SingleSlots
    <2> QED BY <1>1, <2>1, SlotNext, Zenon
  <1>4. PoolInv /\ SlotInv(SingleSlots) => SingleSlotRespected
    <2> SUFFICES ASSUME PoolTypeOK, SlotInv(SingleSlots), NEW w \in Workers, Capacity[w] = 1
                 PROVE  Cardinality(ExecsOf(w)) <= 1
      BY Zenon DEF PoolInv, SingleSlotRespected
    <2>1. Listed(w) /\ NoSelfOverlap(w)
      BY Zenon DEF SlotInv, SingleSlots
    <2> QED BY <2>1, EntriesBound, Zenon
  <1> QED BY <1>2, <1>3, <1>4, PoolInductive, PTL DEF PoolSpec

\* Workers run within their capacity, whatever it is, in every behaviour in which
\* no worker with several slots is given a job again that it is still running
\* (tryPoll's len(activeJobs) check; the map has one entry for both goroutines).
THEOREM CapacityWithoutSelfOverlap == PoolSpec /\ []SlotsDistinct(Workers) => []CapacityRespected
  <1>1. PoolInit => SlotInv(Workers)
    BY Zenon DEF PoolInit, SlotInv, Listed, NoSelfOverlap, ExecsOf
  <1>2. PoolInv /\ SlotInv(Workers) /\ SlotsDistinct(Workers) /\ [PoolNext]_allVars => SlotInv(Workers)'
    BY SlotNext, Zenon
  <1>3. PoolInv /\ SlotInv(Workers) /\ SlotsDistinct(Workers) => CapacityRespected
    BY EntriesBound, Zenon DEF PoolInv, SlotInv, SlotsDistinct, CapacityRespected
  <1> QED BY <1>1, <1>2, <1>3, PoolInductive, PTL DEF PoolSpec
=============================================================================
