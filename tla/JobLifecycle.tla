---------------------------- MODULE JobLifecycle ----------------------------
(***************************************************************************)
(* What the control plane promises about a job, without requests, clocks or *)
(* rows: a submitted job waits, is leased to one worker at a time, at most   *)
(* budget times, and ends either done, with one verdict that never changes,  *)
(* or dead, with no attempt left.  JobQueue implements this specification.   *)
(***************************************************************************)
EXTENDS Integers

CONSTANTS Jobs, Workers, Verdicts, Budgets, NoWorker, NoVerdict

VARIABLES
    phase,    \* absent, waiting, leased, done or dead
    holder,   \* the worker that may finish a leased job
    budget,   \* attempts the job may still use up
    verdict

lifecycleVars == <<phase, holder, budget, verdict>>

LifecycleInit ==
    /\ phase = [j \in Jobs |-> "absent"]
    /\ holder = [j \in Jobs |-> NoWorker]
    /\ budget = [j \in Jobs |-> 0]
    /\ verdict = [j \in Jobs |-> NoVerdict]

Submit(j, attempts) ==
    /\ phase[j] = "absent"
    /\ phase' = [phase EXCEPT ![j] = "waiting"]
    /\ budget' = [budget EXCEPT ![j] = attempts]
    /\ UNCHANGED <<holder, verdict>>

Claim(j, w) ==
    /\ phase[j] = "waiting"
    /\ phase' = [phase EXCEPT ![j] = "leased"]
    /\ holder' = [holder EXCEPT ![j] = w]
    /\ UNCHANGED <<budget, verdict>>

Finish(j, v) ==
    /\ phase[j] = "leased"
    /\ phase' = [phase EXCEPT ![j] = "done"]
    /\ holder' = [holder EXCEPT ![j] = NoWorker]
    /\ verdict' = [verdict EXCEPT ![j] = v]
    /\ UNCHANGED budget

\* Several leases can be lost in one sweep.
Lose(lost) ==
    /\ lost # {}
    /\ \A j \in lost : phase[j] = "leased"
    /\ phase' = [j \in Jobs |-> IF j \notin lost THEN phase[j]
                                ELSE IF budget[j] > 1 THEN "waiting" ELSE "dead"]
    /\ holder' = [j \in Jobs |-> IF j \in lost THEN NoWorker ELSE holder[j]]
    /\ budget' = [j \in Jobs |-> IF j \in lost THEN budget[j] - 1 ELSE budget[j]]
    /\ UNCHANGED verdict

LifecycleNext ==
    \/ \E j \in Jobs, attempts \in Budgets : Submit(j, attempts)
    \/ \E j \in Jobs, w \in Workers : Claim(j, w)
    \/ \E j \in Jobs, v \in Verdicts : Finish(j, v)
    \/ \E lost \in SUBSET Jobs : Lose(lost)

LifecycleSpec == LifecycleInit /\ [][LifecycleNext]_lifecycleVars
=============================================================================
