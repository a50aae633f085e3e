---------------------------- MODULE MCScheduler ----------------------------
(* Small instances of Scheduler for TLC. *)
EXTENDS SchedulerLifecycle, TLC

CONSTANTS j1, j2, j3

Manual == [kind |-> "manual", every |-> 1]
OnChange == [kind |-> "onchange", every |-> 1]
Every(n) == [kind |-> "interval", every |-> n]
NoRetry == [enabled |-> FALSE, maxAttempts |-> 0, after |-> 1]
Retry(n) == [enabled |-> TRUE, maxAttempts |-> n, after |-> 1]

\* Everything allowed, nothing scheduled.
Plain ==
    [jobs |-> Job, usable |-> Job, enabled |-> Job,
     schedule |-> [j \in Job |-> Manual], sources |-> [j \in Job |-> 0],
     retry |-> [j \in Job |-> NoRetry],
     maxParallel |-> 2, pausedUntil |-> 0, runMissed |-> TRUE, wake |-> FALSE,
     skipMetered |-> FALSE, skipBattery |-> FALSE]

Unlocked == [unlocked |-> TRUE, metered |-> FALSE, battery |-> FALSE]
Locked == [Unlocked EXCEPT !.unlocked = FALSE]

\* Queue: three jobs, two slots or one, a job deleted and brought back.
QueueConfigs ==
    {Plain, [Plain EXCEPT !.jobs = Job \ {j1}, !.maxParallel = 0]}
QueueEnvironment == {Unlocked, Locked}

\* Time: a job that runs on changes and re-attempts shares one slot with an
\* hourly one; it is edited into an interval job, runs are paused for a while,
\* and what the edit finds queued, running or brought forward goes on.
OnChanges ==
    [Plain EXCEPT !.schedule = (j1 :> OnChange @@ j2 :> Every(1)),
                  !.retry = (j1 :> Retry(1) @@ j2 :> NoRetry),
                  !.maxParallel = 1, !.wake = TRUE]
Edited ==
    [OnChanges EXCEPT !.schedule = (j1 :> Every(2) @@ j2 :> Manual),
                      !.pausedUntil = 2]
TimeConfigs == {OnChanges, Edited}
TimeEnvironment == {Unlocked}

RunsOf(jobs, triggers) ==
    {[type |-> "run", job |-> j, trigger |-> t] : j \in jobs, t \in triggers}
Cancels(jobs) == {[type |-> "cancel", job |-> j] : j \in jobs}
Swaps(configs) == {[type |-> "config", config |-> c] : c \in configs}

QueueInput == RunsOf(Job, {"Manual"}) \cup Cancels({j1}) \cup Swaps(QueueConfigs)
TimeInput == Cancels({j1}) \cup Swaps({Edited})

NeverRan == {[j \in Job |-> Never]}
RanAtZero == {[j \in Job |-> 0]}

\* Run ids are alike everywhere, two of the three jobs in the queue instance.
RunSymmetry == Permutations(Run)
QueueSymmetry == RunSymmetry \cup Permutations({j2, j3})
=============================================================================
