------------------------------ MODULE Watcher -------------------------------
(***************************************************************************)
(* A job that runs when its files change (crates/core/src/engine/          *)
(* watcher.rs): the operating system reports changes, ChangeDebouncer      *)
(* gathers them until the tree is quiet or has been busy for too long, the *)
(* watcher's task asks the scheduler for a run, and the scheduler accepts  *)
(* the request only of a job that neither waits nor runs.                  *)
(*                                                                         *)
(* Instants are kept as ages (how long ago), which is all the debouncer    *)
(* computes with.  Time passes only while the task waits: it is prompt.    *)
(* Excluded paths raise no signal; that a trigger stands for a rescan is   *)
(* left out, because the scheduler maps both kinds to one.                 *)
(***************************************************************************)
EXTENDS Integers, Sequences

CONSTANTS
    Debounce,      \* seconds of quiet
    Multiplier,    \* MAX_DEBOUNCE_MULTIPLIER
    MinInterval,   \* seconds between two triggers
    None,          \* no age: it never happened
    MaxRequests    \* bound: requests waiting for the scheduler

ASSUME DebounceAssumption ==
    Debounce \in Nat \ {0} /\ Multiplier \in Nat \ {0} /\ MinInterval \in Nat
ASSUME NoneAssumption == None \notin Int
ASSUME BoundAssumption == MaxRequests \in Nat \ {0}

VARIABLES
    sinceBurst, sinceEvent, sinceFire,   \* ChangeDebouncer
    reported,    \* notify reported something the task has not taken
    loop,        \* the task: about to poll, or in its select
    wake,        \* how long the select sleeps
    requests,    \* FileChange commands in the scheduler's mailbox
    run,         \* the job's place in the scheduler
    change       \* (for the properties) what became of the last change

debouncer == <<sinceBurst, sinceEvent, sinceFire>>
task == <<reported, loop, wake>>
scheduler == <<requests, run>>
vars == <<debouncer, task, scheduler, change>>

\* Older than this, ages make no difference.
Patience == Debounce * Multiplier
Oldest == (IF Patience > MinInterval THEN Patience ELSE MinInterval) + 1
Age == 0..Oldest \cup {None}
Older(age) == IF age = None \/ age = Oldest THEN age ELSE age + 1

TypeOK ==
    /\ sinceBurst \in Age /\ sinceEvent \in Age /\ sinceFire \in Age
    /\ (sinceBurst = None) = (sinceEvent = None)
    /\ reported \in BOOLEAN
    /\ loop \in {"poll", "wait"} /\ wake \in 0..Oldest \cup {None}
    /\ requests \in 0..MaxRequests
    /\ run \in {"idle", "queued", "running"}
    /\ change \in {"read", "held", "ignored", "refused", "replaced"}

Init ==
    /\ sinceBurst = None /\ sinceEvent = None /\ sinceFire = None
    /\ reported = FALSE /\ loop = "poll" /\ wake = None
    /\ requests = 0 /\ run = "idle"
    /\ change = "read"

(***************************************************************************)
(* ChangeDebouncer.                                                        *)
(***************************************************************************)
Pending == sinceEvent # None
Quiet == sinceEvent >= Debounce \/ sinceBurst >= Patience
TooSoon == sinceFire # None /\ sinceFire < MinInterval
PollFires == Pending /\ Quiet /\ ~TooSoon

Larger(a, b) == IF a > b THEN a ELSE b
Smaller(a, b) == IF a < b THEN a ELSE b

\* The time left until poll can say yes.
\* Faulty variant: the patience with a busy tree is forgotten.
NextWakeOfQuiet ==
    IF ~Pending THEN None
      ELSE Larger(0, Larger(Debounce - sinceEvent,
                            IF TooSoon THEN MinInterval - sinceFire ELSE 0))
NextWake ==
    IF ~Pending THEN None
      ELSE Larger(0, Larger(Smaller(Debounce - sinceEvent, Patience - sinceBurst),
                            IF TooSoon THEN MinInterval - sinceFire ELSE 0))

\* Faulty variant: every event begins a new burst.
OnEventAnew == sinceBurst' = 0 /\ sinceEvent' = 0
OnEvent ==
    /\ sinceBurst' = IF sinceBurst = None THEN 0 ELSE sinceBurst
    /\ sinceEvent' = 0

(***************************************************************************)
(* The tree, the clock and the task.                                       *)
(***************************************************************************)

\* A file changes, or the system lost track of what changed.  Two reports at
\* one instant are one to the debouncer, and one during a poll is one after.
Change ==
    /\ loop = "wait" /\ ~reported
    /\ reported' = TRUE
    /\ change' = "held"
    /\ UNCHANGED <<debouncer, loop, wake, scheduler>>

Tick ==
    /\ loop = "wait" /\ ~reported /\ wake # 0
    /\ sinceBurst' = Older(sinceBurst)
    /\ sinceEvent' = Older(sinceEvent)
    /\ sinceFire' = Older(sinceFire)
    /\ wake' = IF wake = None THEN None ELSE wake - 1
    /\ UNCHANGED <<reported, loop, scheduler, change>>

\* The pending state is consumed by a trigger and kept by a refusal.
Fire ==
    /\ loop = "poll" /\ PollFires
    /\ requests < MaxRequests
    /\ requests' = requests + 1
    /\ sinceBurst' = None /\ sinceEvent' = None /\ sinceFire' = 0
    /\ UNCHANGED <<task, run, change>>

\* Faulty variant: a poll inside the minimum interval consumes the burst.
WaitAndForget ==
    /\ loop = "poll" /\ ~PollFires
    /\ loop' = "wait"
    /\ wake' = IF TooSoon THEN None ELSE NextWake
    /\ sinceBurst' = IF TooSoon THEN None ELSE sinceBurst
    /\ sinceEvent' = IF TooSoon THEN None ELSE sinceEvent
    /\ UNCHANGED <<sinceFire, reported, scheduler, change>>

Wait ==
    /\ loop = "poll" /\ ~PollFires
    /\ loop' = "wait"
    /\ wake' = NextWake
    /\ UNCHANGED <<debouncer, reported, scheduler, change>>

TakeSignal ==
    /\ loop = "wait" /\ reported
    /\ reported' = FALSE
    /\ OnEvent
    /\ loop' = "poll"
    /\ UNCHANGED <<sinceFire, wake, scheduler, change>>

WakeUp ==
    /\ loop = "wait" /\ ~reported /\ wake = 0
    /\ loop' = "poll"
    /\ UNCHANGED <<debouncer, reported, wake, scheduler, change>>

(***************************************************************************)
(* The scheduler, as far as this job goes.                                 *)
(***************************************************************************)

\* What became of a change that was held only by what this step gave up.
Fate(held, fate) == IF change = "held" /\ ~held THEN fate ELSE change

\* resync replaces the watcher of a job whose schedule was edited.
Rebuild ==
    /\ sinceBurst' = None /\ sinceEvent' = None /\ sinceFire' = None
    /\ reported' = FALSE /\ loop' = "poll" /\ wake' = None
    /\ change' = Fate(requests > 0 \/ run = "queued", "replaced")
    /\ UNCHANGED scheduler

\* FileChange: a job that waits or runs is not queued again.
TakeRequest ==
    /\ requests > 0
    /\ requests' = requests - 1
    /\ run' = IF run = "idle" THEN "queued" ELSE run
    /\ change' = Fate(reported \/ Pending \/ requests > 1 \/ run # "running", "ignored")
    /\ UNCHANGED <<debouncer, task>>

\* Another trigger: a client, a catch-up.
Ask ==
    /\ run = "idle"
    /\ run' = "queued"
    /\ UNCHANGED <<debouncer, task, requests, change>>

\* A run reads the tree as it is from here on.
StartRun ==
    /\ run = "queued"
    /\ run' = "running"
    /\ change' = "read"
    /\ UNCHANGED <<debouncer, task, requests>>

\* A gate refuses the run, or a Stop takes it out of the queue.
DropRun ==
    /\ run = "queued"
    /\ run' = "idle"
    /\ change' = Fate(reported \/ Pending \/ requests > 0, "refused")
    /\ UNCHANGED <<debouncer, task, requests>>

EndRun ==
    /\ run = "running"
    /\ run' = "idle"
    /\ UNCHANGED <<debouncer, task, requests, change>>

TaskStep == Fire \/ Wait \/ TakeSignal \/ WakeUp

Next ==
    \/ Change \/ Tick \/ TaskStep
    \/ Rebuild \/ TakeRequest \/ Ask \/ StartRun \/ DropRun \/ EndRun

Spec == Init /\ [][Next]_vars

\* The task and the scheduler's loop are scheduled by the runtime; time
\* passes however often the tree changes.
FairSpec ==
    Spec /\ WF_vars(TaskStep) /\ WF_vars(TakeRequest) /\ SF_vars(Tick)

(***************************************************************************)
(* Properties.                                                             *)
(***************************************************************************)

\* A change waits for a quiet tree, and for a busy one not longer than the
\* patience; only the minimum interval since the last trigger delays it.  The
\* task sleeps exactly until poll says yes: next_wake and poll say the same.
FiresOnTime ==
    /\ Pending =>
         \/ (sinceEvent <= Debounce /\ sinceBurst <= Patience)
         \/ (sinceFire # None /\ sinceFire <= MinInterval)
    /\ loop = "wait" => (wake = 0 <=> PollFires)

\* A change that no run has read is on its way to one, from the report to
\* the queue, unless its request was ignored or refused, or its watcher
\* replaced: the minimum interval delays it and loses nothing.
Carried == reported \/ Pending \/ requests > 0 \/ run = "queued"
ChangeIsHeld == change = "held" => Carried

\* A tree that never goes quiet is asked to be backed up all the same.
ChurnIsSaved == Pending ~> ~Pending
=============================================================================
