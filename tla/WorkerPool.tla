----------------------------- MODULE WorkerPool -----------------------------
(***************************************************************************)
(* Worker processes and the control plane together.  Each worker runs a      *)
(* heartbeat loop, a poll loop and one goroutine per job with its lease      *)
(* renewal loop; every call crosses a network that may lose the request or   *)
(* the reply (the client gives up after 10 s).  A worker may crash, be shut  *)
(* down and start again under the same id.                                   *)
(***************************************************************************)
EXTENDS JobQueue, FiniteSets

CONSTANTS
    Faults,              \* which faults happen: of crash, shutdown, restart, loss
    NoHandler, NoBeat    \* no call outstanding

\* Workers always report themselves healthy.
ASSUME PoolAssumption ==
    /\ NoHandler \notin Handlers
    /\ "healthy" \in ReportedHealth

VARIABLES
    process,     \* down, starting, up or stopping
    beat,        \* the active-job count of the heartbeat in flight
    polling,     \* the request that serves the poll in flight
    activeJobs,  \* Worker.activeJobs: a map keyed by job id
    execs,       \* the runJob goroutines
    granted      \* history: which attempt a poll request in progress has claimed

workerVars == <<process, beat, polling, activeJobs, execs, granted>>
allVars == <<vars, workerVars>>

\* attempt and lost are history: which claim of the job this goroutine serves,
\* and whether a renewal of its lease was refused.
Exec == [worker : Workers, job : Jobs, attempt : Nat \ {0},
         pc : {"start", "executing", "report", "cleanup"}, lost : BOOLEAN]

ExecsOf(w) == {e \in execs : e.worker = w}
Become(e, pc) == execs' = (execs \ {e}) \cup {[e EXCEPT !.pc = pc]}

PoolInit ==
    /\ Init
    /\ process = [w \in Workers |-> "down"]
    /\ beat = [w \in Workers |-> NoBeat]
    /\ polling = [w \in Workers |-> NoHandler]
    /\ activeJobs = [w \in Workers |-> {}]
    /\ execs = {}
    /\ granted = [h \in Handlers |-> 0]
-----------------------------------------------------------------------------
(* Process life.  Run sends one heartbeat before it starts the loops.        *)

Start(w) ==
    /\ process[w] = "down"
    /\ process' = [process EXCEPT ![w] = "starting"]
    /\ beat' = [beat EXCEPT ![w] = 0]
    /\ UNCHANGED <<vars, polling, activeJobs, execs, granted>>

\* ctx is cancelled: outstanding calls return, both loops end.
Shutdown(w) ==
    /\ "shutdown" \in Faults
    /\ process[w] \in {"starting", "up"}
    /\ process' = [process EXCEPT ![w] = "stopping"]
    /\ beat' = [beat EXCEPT ![w] = NoBeat]
    /\ polling' = [polling EXCEPT ![w] = NoHandler]
    /\ UNCHANGED <<vars, activeJobs, execs, granted>>

Gone(w) ==
    /\ process' = [process EXCEPT ![w] = "down"]
    /\ beat' = [beat EXCEPT ![w] = NoBeat]
    /\ polling' = [polling EXCEPT ![w] = NoHandler]
    /\ activeJobs' = [activeJobs EXCEPT ![w] = {}]
    /\ execs' = execs \ ExecsOf(w)
    /\ UNCHANGED <<vars, granted>>

\* Run's WaitGroup counts the two loops only; main returns right after it and
\* takes the runJob goroutines along.
Exit(w) ==
    /\ process[w] = "stopping"
    /\ Gone(w)

Crash(w) ==
    /\ "crash" \in Faults
    /\ process[w] # "down"
    /\ Gone(w)
-----------------------------------------------------------------------------
(* Heartbeat loop: the count is read under the mutex and sent after it.      *)

\* Mutant: the poll loop counts as a job.
SendHeartbeatOffByOne(w) ==
    /\ process[w] = "up"
    /\ beat[w] = NoBeat
    /\ beat' = [beat EXCEPT ![w] = Cardinality(activeJobs[w]) + 1]
    /\ UNCHANGED <<vars, process, polling, activeJobs, execs, granted>>

SendHeartbeat(w) ==
    /\ process[w] = "up"
    /\ beat[w] = NoBeat
    /\ beat' = [beat EXCEPT ![w] = Cardinality(activeJobs[w])]
    /\ UNCHANGED <<vars, process, polling, activeJobs, execs, granted>>

BeatDone(w) ==
    /\ beat' = [beat EXCEPT ![w] = NoBeat]
    /\ process' = [process EXCEPT ![w] = "up"]
    /\ UNCHANGED <<polling, activeJobs, execs, granted>>

HeartbeatArrives(w) ==
    /\ beat[w] # NoBeat
    /\ Heartbeat(w, beat[w], "healthy")
    /\ BeatDone(w)

HeartbeatLost(w) ==
    /\ "loss" \in Faults
    /\ beat[w] # NoBeat
    /\ BeatDone(w)
    /\ UNCHANGED vars
-----------------------------------------------------------------------------
(* Poll loop.  A poll the control plane does not admit changes nothing.      *)

\* Mutant: the capacity check is dropped.
TryPollUnchecked(w, h) ==
    /\ process[w] = "up"
    /\ polling[w] = NoHandler
    /\ PollJob(h, w)
    /\ polling' = [polling EXCEPT ![w] = h]
    /\ UNCHANGED <<process, beat, activeJobs, execs, granted>>

TryPoll(w, h) ==
    /\ process[w] = "up"
    /\ polling[w] = NoHandler
    /\ Cardinality(activeJobs[w]) < Capacity[w]
    /\ PollJob(h, w)
    /\ polling' = [polling EXCEPT ![w] = h]
    /\ UNCHANGED <<process, beat, activeJobs, execs, granted>>

\* The poll that h serves is over for the worker, if it still waits for it.
PollOver(h) ==
    polling' = [w \in Workers |-> IF polling[w] = h THEN NoHandler ELSE polling[w]]

PollTimeout(w) ==
    /\ "loss" \in Faults
    /\ polling[w] # NoHandler
    /\ PollOver(polling[w])
    /\ UNCHANGED <<vars, process, beat, activeJobs, execs, granted>>

PollClaims(h) ==
    \/ /\ AssignNextLock(h)
       /\ UNCHANGED workerVars
    \/ /\ AssignNextCommit(h)
       /\ granted' = [granted EXCEPT ![h] = claims'[handlers[h].job]]
       /\ UNCHANGED <<process, beat, polling, activeJobs, execs>>

PollFails(h) ==
    /\ AssignNextEmpty(h) \/ AssignNextAbort(h)
    /\ PollOver(h)
    /\ UNCHANGED <<process, beat, activeJobs, execs, granted>>

PollReturnsJob(h) ==
    LET w == handlers[h].worker
        j == handlers[h].job
    IN
    /\ handlers[h].pc = "count"
    /\ polling[w] = h
    /\ CountActiveJob(h)
    /\ PollOver(h)
    /\ activeJobs' = [activeJobs EXCEPT ![w] = @ \cup {j}]
    /\ execs' = execs \cup {[worker |-> w, job |-> j, attempt |-> granted[h],
                             pc |-> "start", lost |-> FALSE]}
    /\ granted' = [granted EXCEPT ![h] = 0]
    /\ UNCHANGED <<process, beat>>

\* Nobody waits for the assignment any more, or it is lost on the way.
PollReplyLost(h) ==
    /\ handlers[h].pc = "count"
    /\ polling[handlers[h].worker] # h \/ "loss" \in Faults
    /\ CountActiveJob(h)
    /\ PollOver(h)
    /\ granted' = [granted EXCEPT ![h] = 0]
    /\ UNCHANGED <<process, beat, activeJobs, execs>>

ReportCounted(h) ==
    /\ handlers[h].pc = "uncount"
    /\ CountActiveJob(h)
    /\ UNCHANGED workerVars
-----------------------------------------------------------------------------
(* runJob: mark running, execute while renewing, report once, clean up.       *)

MarkRunningDone(e) ==
    /\ e.pc = "start"
    /\ process[e.worker] = "up"
    /\ MarkRunning(e.job, e.worker)
    /\ Become(e, "executing")
    /\ UNCHANGED <<process, beat, polling, activeJobs, granted>>

\* Applied, but the worker sees an error: it gives the job up.
MarkRunningReplyLost(e) ==
    /\ "loss" \in Faults
    /\ e.pc = "start"
    /\ MarkRunning(e.job, e.worker)
    /\ Become(e, "cleanup")
    /\ UNCHANGED <<process, beat, polling, activeJobs, granted>>

\* A call of e cannot succeed, or happens to be lost.
CallFails(e) ==
    \/ ~ HeldBy(e.job, e.worker)
    \/ process[e.worker] = "stopping"
    \/ "loss" \in Faults

\* Refused, lost on the way, or the context is cancelled.
MarkRunningFails(e) ==
    /\ e.pc = "start"
    /\ CallFails(e) \/ jobs[e.job].state # "assigned"
    /\ Become(e, "cleanup")
    /\ UNCHANGED <<vars, process, beat, polling, activeJobs, granted>>

LeaseRenewed(e) ==
    /\ e.pc = "executing"
    /\ process[e.worker] = "up"
    /\ RenewLease(e.job, e.worker)
    /\ UNCHANGED workerVars

\* Mutant: a lease that has lapsed is not renewed any more, swept or not.
LeaseRefusedLapsed(e) ==
    /\ e.pc = "executing"
    /\ process[e.worker] = "up"
    /\ ~ HeldBy(e.job, e.worker) \/ Expired(e.job)
    /\ execs' = (execs \ {e}) \cup {[e EXCEPT !.lost = TRUE]}
    /\ UNCHANGED <<vars, process, beat, polling, activeJobs, granted>>

\* leaseRenewalLoop logs the refusal and keeps ticking; the job goes on.
LeaseRefused(e) ==
    /\ e.pc = "executing"
    /\ process[e.worker] = "up"
    /\ ~ HeldBy(e.job, e.worker)
    /\ execs' = (execs \ {e}) \cup {[e EXCEPT !.lost = TRUE]}
    /\ UNCHANGED <<vars, process, beat, polling, activeJobs, granted>>

ExecuteReturns(e) ==
    /\ e.pc = "executing"
    /\ Become(e, "report")
    /\ UNCHANGED <<vars, process, beat, polling, activeJobs, granted>>

\* Whether or not the reply makes it back, the goroutine is done.
ReportArrives(e, h, verdict) ==
    /\ e.pc = "report"
    /\ process[e.worker] = "up"
    /\ ReportResult(h, e.job, e.worker, verdict)
    /\ Become(e, "cleanup")
    /\ UNCHANGED <<process, beat, polling, activeJobs, granted>>

\* Refused, lost on the way, or the context is cancelled: never retried.
ReportFails(e) ==
    /\ e.pc = "report"
    /\ CallFails(e)
    /\ Become(e, "cleanup")
    /\ UNCHANGED <<vars, process, beat, polling, activeJobs, granted>>

Cleanup(e) ==
    /\ e.pc = "cleanup"
    /\ execs' = execs \ {e}
    /\ activeJobs' = [activeJobs EXCEPT ![e.worker] = @ \ {e.job}]
    /\ UNCHANGED <<vars, process, beat, polling, granted>>
-----------------------------------------------------------------------------
\* Steps of the control plane that no worker takes part in.
ControlPlane ==
    /\ \/ \E j \in Jobs, l \in Languages, r \in RequestedRetries : CreateJob(j, l, r)
       \/ RequeueExpiredLeases
       \/ MarkStaleWorkers
       \/ Tick
    /\ UNCHANGED workerVars

\* Every connection breaks when the control plane goes down.
ControlPlaneRestart ==
    /\ "restart" \in Faults
    /\ Restart
    /\ polling' = [w \in Workers |-> NoHandler]
    /\ granted' = [h \in Handlers |-> 0]
    /\ UNCHANGED <<process, beat, activeJobs, execs>>

Process(w) ==
    \/ Start(w)
    \/ Shutdown(w)
    \/ Exit(w)
    \/ Crash(w)
    \/ SendHeartbeat(w)
    \/ HeartbeatArrives(w)
    \/ HeartbeatLost(w)
    \/ PollTimeout(w)
    \/ \E h \in Handlers : TryPoll(w, h)

Request(h) ==
    \/ PollClaims(h)
    \/ PollFails(h)
    \/ PollReturnsJob(h)
    \/ PollReplyLost(h)
    \/ ReportCounted(h)

RunJob(e) ==
    \/ MarkRunningDone(e)
    \/ MarkRunningReplyLost(e)
    \/ MarkRunningFails(e)
    \/ LeaseRenewed(e)
    \/ LeaseRefused(e)
    \/ ExecuteReturns(e)
    \/ \E h \in Handlers, v \in Verdicts : ReportArrives(e, h, v)
    \/ ReportFails(e)
    \/ Cleanup(e)

PoolNext ==
    \/ ControlPlane
    \/ ControlPlaneRestart
    \/ \E w \in Workers : Process(w)
    \/ \E h \in Handlers : Request(h)
    \/ \E e \in execs : RunJob(e)

PoolSpec == PoolInit /\ [][PoolNext]_allVars

\* Tickers keep ticking, goroutines keep running and an execution ends (its
\* time limit and the container timeout see to that): weak fairness.  What a
\* fault can undo again and again (a call that is lost, a process that crashes)
\* still succeeds if it is tried for ever: strong fairness.
PoolLiveSpec ==
    /\ PoolSpec
    /\ WF_allVars(ControlPlane /\ RequeueExpiredLeases)
    /\ WF_allVars(ControlPlane /\ Tick)
    /\ \A h \in Handlers :
         /\ WF_allVars(Request(h))
         /\ SF_allVars(PollClaims(h) /\ AssignNextLock(h))
         /\ SF_allVars(PollClaims(h) /\ AssignNextCommit(h))
    /\ \A w \in Workers :
         /\ WF_allVars(Start(w))
         /\ WF_allVars(Exit(w))
         /\ SF_allVars(SendHeartbeat(w))
         /\ SF_allVars(HeartbeatArrives(w))
         /\ SF_allVars(\E h \in Handlers : TryPoll(w, h))
    /\ WF_allVars(\E e \in execs : RunJob(e) /\ ~ LeaseRenewed(e) /\ ~ LeaseRefused(e))
-----------------------------------------------------------------------------
(* Properties.                                                              *)

\* Each claim is executed at most once, and two goroutines work on the same job
\* at the same time only because the lease of the earlier claim was lost to the
\* sweep: every older execution has been paid for by a retry.  Likewise the
\* renewal of a lease is refused only once the sweep has taken the lease or the
\* job has its result.
OverlapOnlyAfterLostLease ==
    \A e \in execs :
        /\ e.attempt <= claims[e.job]
        /\ e.attempt < claims[e.job] => jobs[e.job].retry_count >= e.attempt
        /\ e.lost => jobs[e.job].state = "completed" \/ jobs[e.job].retry_count >= e.attempt
        /\ \A f \in execs \ {e} : e.job = f.job => e.attempt # f.attempt

\* A worker of capacity 1, the default of WORKER_CAPACITY, never runs two jobs, or
\* two attempts of one job, at once: it polls only while activeJobs is empty, one
\* poll at a time, and each of its goroutines has its entry until it is done.
SingleSlotRespected ==
    \A w \in Workers : Capacity[w] = 1 => Cardinality(ExecsOf(w)) <= 1

\* What README.md says of WORKER_CAPACITY, "Maximum concurrent jobs".  It is false
\* of a worker with several slots: activeJobs is keyed by job id, so a goroutine
\* that runs a job whose lease it has lost and one that runs the next attempt of
\* the same job share an entry, and tryPoll counts one job where two are running.
CapacityRespected == \A w \in Workers : Cardinality(ExecsOf(w)) <= Capacity[w]

\* A result is never stored for an execution whose lease has passed to another
\* worker: if it does not serve the latest claim, the latest claim is its own
\* worker's (the worker_id match in Complete is the only fence there is).
ReportFenced ==
    \A j \in Jobs : j \in DOMAIN results' /\ j \notin DOMAIN results =>
        \E e \in execs : /\ e.job = j /\ e.pc = "report" /\ e \notin execs'
                         /\ \/ e.attempt = claims[j]
                            \/ e.attempt < claims[j] /\ jobs[j].worker_id = e.worker
StaleWorkerRejected == [][ReportFenced]_allVars

\* Every step of the composed system is a step of the control plane as JobQueue
\* allows it, so that everything shown of JobQueue holds here.
ImplementsQueue == Spec

\* Every submitted job ends: whatever is lost, crashes or restarts, it is
\* eventually completed or failed.
EveryJobEnds ==
    \A j \in Jobs : j \in DOMAIN jobs ~> j \in DOMAIN jobs /\ jobs[j].state \in Terminal
=============================================================================
