------------------------------- MODULE Runner -------------------------------
(***************************************************************************)
(* One run of one job (crates/core/src/engine/runner.rs): prepare the      *)
(* payload, run the `before` hook, take the planned destinations one by    *)
(* one, retry what may be retried, and close the run.                      *)
(*                                                                         *)
(* Around the run live its driver (a spawned task that writes to one       *)
(* destination and is never aborted, only told to stop), the cancel token  *)
(* with its three sources, and the timeout watchdog.  Time is abstract: a  *)
(* sleep ends at some point, and the grace given to a driver is over at    *)
(* some point after the token fired.                                       *)
(***************************************************************************)
EXTENDS Planning

CONSTANTS
    Request,      \* the runs the scheduler may ask for
    MaxAttempts   \* RetryPolicy::max_attempts

RequestShape(q) ==
    /\ ListShape(q)
    /\ q.prepared \in BOOLEAN       \* the content is staged, not read from disk
    /\ q.before \in BOOLEAN         \* has a `before` hook
    /\ q.abort \in BOOLEAN          \* abort_on_before_failure
    /\ q.carryOn \in BOOLEAN        \* continue_on_destination_error
    /\ q.limit \in BOOLEAN          \* timeout_minutes
    /\ q.after \subseteq {"success", "failure"}

ASSUME RequestAssumption == \A q \in Request : RequestShape(q)
ASSUME AttemptsAssumption == MaxAttempts \in Nat \ {0}

Good == {"Succeeded", "Warned"}
Terminal == Good \cup {"Failed", "Cancelled", "Skipped"}
Reason == {"None", "Requested", "Timeout", "Shutdown"}
Error == {"transient", "permanent", "cancelled"}
Result == {"ok", "warned"} \cup Error

VARIABLES
    phase, index, attempt,   \* where `execute` is
    status, runStatus,       \* the JobRun it fills in
    cancel, watchdog,        \* the run's token; the timeout still pending
    driver,                  \* "none", "busy", or the result it left
    stray,                   \* a driver left behind, by its position; 0: none
    written,                 \* positions a driver has written in this run
    hook                     \* which after-hook ran

report == <<status, runStatus, written, hook>>
control == <<phase, index, attempt, driver, stray>>
vars == <<request, plan, control, report, cancel, watchdog>>

Positions == DOMAIN plan
AtWork == IF driver = "none" THEN {} ELSE {index}
Strays == {stray} \ {0}

\* derive_status: the worst of the destinations, skipped ones a warning.
DeriveStatus(st) ==
    LET seen == Range(st) IN
    IF "Queued" \in seen THEN "Running"
    ELSE IF "Failed" \in seen THEN "Failed"
    ELSE IF "Cancelled" \in seen THEN "Cancelled"
    ELSE IF seen = {} THEN "Skipped"
    ELSE IF seen \cap {"Warned", "Skipped"} # {} THEN "Warned"
    ELSE "Succeeded"

\* mark_remaining: only destinations that are still waiting.
\* Faulty variant: everything from there on.
MarkedAll(st, from, s) == [i \in DOMAIN st |-> IF i >= from - 1 THEN s ELSE st[i]]

Marked(st, from, s) ==
    [i \in DOMAIN st |-> IF i >= from /\ st[i] = "Queued" THEN s ELSE st[i]]

\* replication_blocker: the source did not succeed in this run.
\* Faulty variants: the source's warnings count as a failure, its outcome is
\* not looked at.
BlockerOnWarning(i) ==
    plan[i].blocked \/ (plan[i].dependsOn # 0 /\ status[plan[i].dependsOn] # "Succeeded")
BlockerByPlan(i) == plan[i].blocked

Blocker(i) ==
    plan[i].blocked \/ (plan[i].dependsOn # 0 /\ status[plan[i].dependsOn] \notin Good)

----------------------------------------------------------------------------
Init ==
    /\ request \in Request
    /\ plan = PlanDestinations(request.origin, request.listed)
    /\ phase = "stage" /\ index = 1 /\ attempt = 1
    /\ status = [i \in DOMAIN plan |-> "Queued"] /\ runStatus = "Running"
    /\ cancel \in {"None", "Shutdown"}   \* a child of a fired token is born fired
    /\ watchdog = request.limit
    /\ driver = "none" /\ stray = 0 /\ written = {} /\ hook = "none"

(* The steps of `execute` before the first destination.                    *)
EarlyFailure ==
    /\ status' = [i \in Positions |-> "Skipped"]
    /\ runStatus' = "Failed"
    /\ phase' = "close"

GoOn == phase' = "loop" /\ UNCHANGED <<status, runStatus>>

Stage ==
    /\ phase = "stage"
    /\ \/ phase' = "before" /\ UNCHANGED <<status, runStatus>>
       \/ request.prepared /\ EarlyFailure
    /\ UNCHANGED <<request, plan, index, attempt, cancel, watchdog,
                   driver, stray, written, hook>>

\* A hook is not even started once the token has fired; it has failed then.
BeforeHook ==
    /\ phase = "before"
    /\ \/ ~request.before /\ GoOn
       \/ request.before /\ cancel = "None"
          /\ phase' = "hook" /\ UNCHANGED <<status, runStatus>>
       \/ request.before /\ cancel # "None"
          /\ IF request.abort THEN EarlyFailure ELSE GoOn
    /\ UNCHANGED <<request, plan, index, attempt, cancel, watchdog,
                   driver, stray, written, hook>>

\* It ends well, or fails: by itself, at its own time limit, or cancelled.
BeforeHookEnds ==
    /\ phase = "hook"
    /\ GoOn \/ (request.abort /\ EarlyFailure)
    /\ UNCHANGED <<request, plan, index, attempt, cancel, watchdog,
                   driver, stray, written, hook>>

----------------------------------------------------------------------------
(* The destinations, in the planned order.                                 *)
Settle(st) ==
    /\ status' = st
    /\ runStatus' = DeriveStatus(st)
    /\ phase' = "close"
    /\ UNCHANGED index

\* apply_destination_outcome and what the loop makes of it.
Outcome(s) ==
    LET st == [status EXCEPT ![index] = s] IN
    \/ /\ s = "Failed" /\ ~request.carryOn
       /\ Settle(Marked(st, index + 1, "Skipped"))
    \/ /\ s = "Cancelled"
       /\ Settle(Marked(st, index + 1, "Cancelled"))
    \/ /\ s \in Good \/ (s = "Failed" /\ request.carryOn)
       /\ status' = st
       /\ index' = index + 1
       /\ phase' = "loop"
       /\ UNCHANGED runStatus

LoopEnds ==
    /\ phase = "loop"
    /\ index \notin Positions
    /\ Settle(status)
    /\ UNCHANGED <<request, plan, attempt, cancel, watchdog,
                   driver, stray, written, hook>>

LoopStops ==
    /\ phase = "loop"
    /\ index \in Positions /\ cancel # "None"
    /\ Settle(Marked(status, index, "Cancelled"))
    /\ UNCHANGED <<request, plan, attempt, cancel, watchdog,
                   driver, stray, written, hook>>

SkipReplica ==
    /\ phase = "loop"
    /\ index \in Positions /\ cancel = "None" /\ Blocker(index)
    /\ status' = [status EXCEPT ![index] = "Skipped"]
    /\ index' = index + 1
    /\ UNCHANGED <<request, plan, phase, attempt, runStatus, cancel, watchdog,
                   driver, stray, written, hook>>

BeginDestination ==
    /\ phase = "loop"
    /\ index \in Positions /\ cancel = "None" /\ ~Blocker(index)
    /\ phase' = "attempt" /\ attempt' = 1
    /\ UNCHANGED <<request, plan, index, report, cancel, watchdog, driver, stray>>

----------------------------------------------------------------------------
(* run_destination and attempt_destination.                                *)
AttemptStops ==
    /\ phase = "attempt" /\ cancel # "None"
    /\ Outcome("Cancelled")
    /\ UNCHANGED <<request, plan, attempt, cancel, watchdog,
                   driver, stray, written, hook>>

StartDriver ==
    /\ phase = "attempt" /\ cancel = "None"
    /\ driver' = "busy" /\ phase' = "driving"
    /\ UNCHANGED <<request, plan, index, attempt, report, cancel, watchdog, stray>>

\* Any error counts as a cancellation once the token has fired.
StatusOf(result) ==
    CASE result = "ok" -> "Succeeded"
      [] result = "warned" -> "Warned"
      [] result \in Error /\ (result = "cancelled" \/ cancel # "None") -> "Cancelled"
      [] OTHER -> "Failed"

ShouldRetry(result) ==
    result = "transient" /\ cancel = "None" /\ attempt < MaxAttempts

TakeResult ==
    /\ phase = "driving" /\ driver \in Result
    /\ ~ShouldRetry(driver)
    /\ Outcome(StatusOf(driver))
    /\ driver' = "none"
    /\ UNCHANGED <<request, plan, attempt, cancel, watchdog, stray, written, hook>>

TakeFailure ==
    /\ phase = "driving" /\ driver \in Result
    /\ ShouldRetry(driver)
    /\ phase' = "backoff"
    /\ driver' = "none"
    /\ UNCHANGED <<request, plan, index, attempt, report, cancel, watchdog, stray>>

\* Faulty variant: a driver waited for.
GraceNeverOver ==
    /\ phase = "driving" /\ cancel # "None" /\ driver # "busy"
    /\ Outcome("Cancelled")
    /\ driver' = "none"
    /\ UNCHANGED <<request, plan, attempt, cancel, watchdog, stray, written, hook>>

\* The driver outlived its grace: it is left running and the destination is
\* reported as cancelled, also when the driver ended in the same instant.
GraceOver ==
    /\ phase = "driving" /\ cancel # "None"
    /\ Outcome("Cancelled")
    /\ driver' = "none"
    /\ stray' = IF driver = "busy" THEN index ELSE stray
    /\ UNCHANGED <<request, plan, attempt, cancel, watchdog, written, hook>>

\* The select between sleep and token is fair to both.
BackoffEnds ==
    /\ phase = "backoff"
    /\ phase' = "attempt" /\ attempt' = attempt + 1
    /\ UNCHANGED <<request, plan, index, report, cancel, watchdog, driver, stray>>

BackoffStops ==
    /\ phase = "backoff" /\ cancel # "None"
    /\ Outcome("Cancelled")
    /\ UNCHANGED <<request, plan, attempt, cancel, watchdog,
                   driver, stray, written, hook>>

----------------------------------------------------------------------------
(***************************************************************************)
(* finalise: the watchdog is stopped, a timeout is told as a failure, the  *)
(* after-hook runs on a token of its own, and the run is recorded.  What   *)
(* fires from here on is read by nobody.                                   *)
(***************************************************************************)
\* Faulty variant: the timeout stays a cancellation.
NeverTimedOut == FALSE

TimedOut == runStatus = "Cancelled" /\ cancel = "Timeout"

Close ==
    /\ phase = "close"
    /\ watchdog' = FALSE
    /\ runStatus' = IF TimedOut THEN "Failed" ELSE runStatus
    /\ status' = [i \in Positions |->
                    IF TimedOut /\ status[i] = "Cancelled" THEN "Failed" ELSE status[i]]
    /\ hook' = LET kind == IF runStatus' \in Good THEN "success" ELSE "failure"
               IN  IF kind \in request.after THEN kind ELSE "none"
    /\ phase' = "after"
    /\ UNCHANGED <<request, plan, index, attempt, cancel, driver, stray, written>>

Record ==
    /\ phase = "after"
    /\ phase' = "done"
    /\ UNCHANGED <<request, plan, index, attempt, report, cancel, watchdog,
                   driver, stray>>

----------------------------------------------------------------------------
(* The world around the run.                                               *)
\* By contract a driver speaks of a cancellation only if there was one.
DriverEnds(result) ==
    /\ driver = "busy"
    /\ result = "cancelled" => cancel # "None"
    /\ driver' = result
    /\ written' = IF result \in Error THEN written ELSE written \cup {index}
    /\ UNCHANGED <<request, plan, phase, index, attempt, stray,
                   status, runStatus, hook, cancel, watchdog>>

StrayEnds ==
    /\ stray # 0
    /\ stray' = 0
    /\ written' \in {written, written \cup {stray}}
    /\ UNCHANGED <<request, plan, phase, index, attempt, driver,
                   status, runStatus, hook, cancel, watchdog>>

Fire(reason) ==
    /\ cancel = "None"
    /\ cancel' = reason
    /\ UNCHANGED <<request, plan, control, report, watchdog>>

WatchdogFires ==
    /\ watchdog
    /\ watchdog' = FALSE
    /\ cancel' = IF cancel = "None" THEN "Timeout" ELSE cancel
    /\ UNCHANGED <<request, plan, control, report>>

Finished == phase = "done" /\ UNCHANGED vars

Execute ==
    \/ Stage \/ BeforeHook \/ BeforeHookEnds
    \/ LoopEnds \/ LoopStops \/ SkipReplica \/ BeginDestination
    \/ AttemptStops \/ StartDriver \/ TakeResult \/ TakeFailure \/ GraceOver
    \/ BackoffEnds \/ BackoffStops
    \/ Close \/ Record

Around ==
    \/ \E result \in Result : DriverEnds(result)
    \/ StrayEnds
    \/ Fire("Requested") \/ Fire("Shutdown")
    \/ WatchdogFires

Next == Execute \/ Around \/ Finished

Spec == Init /\ [][Next]_vars

(***************************************************************************)
(* `execute` is a task that is polled, its hooks and its staging end (a    *)
(* hook has a time limit of its own), sleeps and deadlines pass.  Nothing  *)
(* is asked of a driver: it may hang for ever.                             *)
(***************************************************************************)
FairSpec == Spec /\ WF_vars(Execute) /\ WF_vars(WatchdogFires)

----------------------------------------------------------------------------
(***************************************************************************)
(* Properties.                                                             *)
(***************************************************************************)
PlanShape(p) ==
    p \in Seq(Entry) /\ \A i \in DOMAIN p : p[i].dependsOn \in 0..Len(p)

\* Types, and the bound on attempts.
TypeOK ==
    /\ request \in Request /\ PlanShape(plan)
    /\ phase \in {"stage", "before", "hook", "loop", "attempt", "driving",
                  "backoff", "close", "after", "done"}
    /\ index \in 1..(Len(plan) + 1) /\ attempt \in 1..MaxAttempts
    /\ status \in [Positions -> {"Queued"} \cup Terminal]
    /\ runStatus \in {"Running"} \cup Terminal
    /\ cancel \in Reason /\ watchdog \in BOOLEAN
    /\ driver \in {"none", "busy"} \cup Result
    /\ stray \in 0..Len(plan) /\ written \subseteq Positions
    /\ hook \in {"none", "success", "failure"}

\* config.rs:622: a replica is made from a source this same run has brought
\* up to date: whatever writes a replica, or has written one, has its source
\* written and reported as such, through skips, retries and abandoned drivers.
ReplicaFollowsSource ==
    \A i \in written \cup AtWork \cup Strays :
      /\ ~plan[i].blocked
      /\ plan[i].dependsOn # 0 =>
           plan[i].dependsOn \in written /\ status[plan[i].dependsOn] \in Good

\* A run has at most one driver. One that ignored its token is never joined
\* by another: the run only closes after it.
OneDriver ==
    stray # 0 => driver = "none" /\ phase \in {"close", "after", "done"}

\* What is recorded is what happened: no destination is left open, one called
\* good was written, "Succeeded" means everywhere, a failure anywhere is the
\* run's, and "Cancelled" is only said when somebody asked for it (the time
\* limit is a failure). The after-hook is the one of the recorded status.
\* A run that is good as a whole is GoodRunWrote's.
RecordIsHonest ==
    phase = "done" =>
      /\ \A i \in Positions :
           /\ status[i] # "Queued"
           /\ status[i] \in Good => i \in written
           /\ status[i] = "Failed" => runStatus = "Failed"
      /\ runStatus = "Succeeded" => written = Positions
      /\ runStatus = "Cancelled" => cancel \in {"Requested", "Shutdown"}
      /\ hook = "success" => runStatus \in Good
      /\ hook = "failure" => runStatus \notin Good

\* runner.rs:403: to let a run in which all was skipped count as a success
\* "is exactly the wrong thing to tell someone whose backup did not happen".
\* derive_status does so when replicas are all there is to run and the source
\* of each is left out, being disabled, so this does not hold.
GoodRunWrote ==
    phase = "done" /\ runStatus \in Good /\ ValidReplication(request.origin) =>
      written # {}

\* In a run that nothing stopped and nothing failed, exactly the replicas
\* that no chain connects to the job's sources are skipped.
HealthyRunReachesAll ==
    phase = "done" /\ cancel = "None" /\ runStatus # "Failed" =>
      \A i \in Positions : status[i] = "Skipped" <=> plan[i].dest \notin Fed(request)

\* mark_remaining, skips and late outcomes never rewrite a destination that
\* is settled; only the time limit turns a cancelled one into a failed one.
SettledStays ==
    [][\A i \in Positions : status[i] \in Terminal /\ status'[i] # status[i] =>
         status[i] = "Cancelled" /\ status'[i] = "Failed" /\ cancel = "Timeout"]_vars

\* A stopped run, and one with a time limit, ends even if its driver hangs.
StopEnds ==
    /\ cancel # "None" ~> phase = "done"
    /\ request.limit ~> phase = "done"
=============================================================================
