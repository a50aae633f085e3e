----------------------------- MODULE DaemonRuns -----------------------------
(***************************************************************************)
(* What the daemon knows of the engine's runs, and when the vault is open. *)
(* The engine (Scheduler, reduced here to the life of a run) reports over  *)
(* a lossy broadcast channel; one pump (daemon/events.rs) turns each event *)
(* into the list of live runs, the history on disk and the jobs that the   *)
(* locked vault held back.  Clients and the auto-lock timer open and close *)
(* the vault beside it (daemon/lifecycle.rs), in steps that their awaits   *)
(* separate; opening it asks again for the runs that were held back.  An   *)
(* orderly stop (daemon/mod.rs) waits for the runs, ends the engine and    *)
(* saves the history once more, beside the pump; a crash may come anywhere,*)
(* a save may fail and a handler may be cut off in the middle.             *)
(*                                                                         *)
(* The vault is only its gate here.  Progress and log events (they only    *)
(* decorate an entry), notifications and the history's length are left     *)
(* out.                                                                    *)
(***************************************************************************)
EXTENDS Naturals, Sequences, FiniteSets

CONSTANTS
    Job,
    Run,        \* the run ids of one execution of the daemon, each used once
    NoJob,      \* the job of an id not drawn yet
    Client,     \* who may open or close the vault: connections, the timer
    Capacity    \* events the channel keeps for a slow pump

ASSUME NoJobAssumption == NoJob \notin Job
ASSUME CapacityAssumption == Capacity \in Nat \ {0}

VARIABLES
    \* the engine
    jobOf,      \* the job each run id was drawn for
    stage,      \* what became of each run
    stops,      \* jobs whose cancel command waits in the engine's mailbox
    catchUp,    \* jobs the engine will ask for as soon as it is up
    channel,    \* events the pump has not taken
    lagging,    \* the pump will learn that it missed some
    up,         \* the scheduler's loop has not ended
    \* the daemon
    active,     \* Runtime::active: runs shown as live
    history,    \* PersistedState: runs recorded in memory
    disk,       \* ... and in state.json
    pump,       \* where the pump is in its handler
    main,       \* how far the main task has come in stopping the daemon
    \* the vault
    gate,       \* Environment::vault_unlocked: the engine may start runs
    blocked,    \* Runtime::blocked_by_lock
    op,         \* what each client is doing to the vault
    \* for the properties only
    missed,     \* runs some event of which never reached the pump
    durable,    \* runs a save has put on disk that no other was to overtake
    owed,       \* runs refused for the lock, their job not queued since
    cutOff      \* jobs an aborted unlock had taken, not queued since

engine == <<jobOf, stage, stops, catchUp, channel, lagging>>
daemon == <<active, history, disk, pump>>
exit == <<up, main>>
vault == <<gate, blocked, op>>
ghosts == <<missed, durable, owed, cutOff>>
vars == <<engine, daemon, exit, vault, ghosts>>

Stage == {"new", "queued", "running", "stopping", "over", "skipped", "dropped", "past"}
InFlight == {"running", "stopping"}
Retired == {"over", "skipped"}

Event == [kind: {"queued", "started", "finished", "locked", "refused"}, run: Run]

Off == [at |-> "off"]     \* not subscribed yet
Idle == [at |-> "recv"]
Pump ==
    {Off, Idle} \cup [at: {"record", "save"}, run: Run]
           \cup [at: {"write"}, run: Run, copy: SUBSET Run]

Serving == [at |-> "up"]
Main ==
    [at: {"up", "wait", "close"}]
    \cup [at: {"save"}, copy: SUBSET Run]
    \cup [at: {"saved"}, copy: SUBSET Run, kept: BOOLEAN]

Free == [at |-> "free"]
Op ==
    {Free} \cup [at: {"opened"}]
           \cup [at: {"requeue"}, jobs: SUBSET Job]

TypeOK ==
    /\ jobOf \in [Run -> Job \cup {NoJob}]
    /\ stage \in [Run -> Stage]
    /\ stops \subseteq Job /\ catchUp \subseteq Job
    /\ channel \in Seq(Event) /\ Len(channel) <= Capacity
    /\ lagging \in BOOLEAN
    /\ active \subseteq Run /\ history \subseteq Run /\ disk \subseteq Run
    /\ pump \in Pump
    /\ up \in BOOLEAN /\ main \in Main
    /\ gate \in BOOLEAN
    /\ blocked \subseteq Job
    /\ op \in [Client -> Op]
    /\ missed \subseteq Run /\ durable \subseteq Run /\ owed \subseteq Run
    /\ cutOff \subseteq Job

Init ==
    /\ jobOf = [r \in Run |-> NoJob] /\ stage = [r \in Run |-> "new"]
    /\ stops = {} /\ catchUp = {} /\ channel = <<>> /\ lagging = FALSE
    /\ active = {} /\ history = {} /\ disk = {} /\ pump = Off
    /\ up = TRUE /\ main = Serving
    /\ gate = FALSE /\ blocked = {}
    /\ op = [c \in Client |-> Free]
    /\ missed = {} /\ durable = {} /\ owed = {} /\ cutOff = {}

RunsAt(stages) == {r \in Run : stage[r] \in stages}
BusyJobs == {jobOf[r] : r \in RunsAt({"queued"} \cup InFlight)}
Announced(kinds, r) ==
    \E i \in DOMAIN channel : channel[i].run = r /\ channel[i].kind \in kinds

(***************************************************************************)
(* The engine.                                                             *)
(***************************************************************************)

\* An event nobody has subscribed to is dropped; a full channel overwrites its
\* oldest one.
Emit(kind, r) ==
    LET new == [kind |-> kind, run |-> r]
    IN  \/ /\ pump = Off
           /\ missed' = missed \cup {r}
           /\ UNCHANGED <<channel, lagging>>
        \/ /\ pump # Off /\ Len(channel) < Capacity
           /\ channel' = Append(channel, new)
           /\ UNCHANGED <<lagging, missed>>
        \/ /\ pump # Off /\ Len(channel) = Capacity
           /\ channel' = Append(Tail(channel), new)
           /\ lagging' = TRUE
           /\ missed' = missed \cup {Head(channel).run}

\* Accept a run of an idle job under a fresh id (Scheduler: Enqueue).
Enqueue(j) ==
    /\ up
    /\ j \notin BusyJobs
    /\ \E r \in RunsAt({"new"}) :
         /\ jobOf' = [jobOf EXCEPT ![r] = j]
         /\ stage' = [stage EXCEPT ![r] = "queued"]
         /\ Emit("queued", r)
    /\ owed' = {r \in owed : jobOf[r] # j} /\ cutOff' = cutOff \ {j}
    /\ UNCHANGED stops

\* The schedule, a watcher or a client asks for a run.
Due ==
    /\ \E j \in Job : Enqueue(j)
    /\ UNCHANGED <<catchUp, daemon, exit, vault, durable>>

\* resync asks at once for a job that missed its moment while the daemon was
\* down; one that is busy by then is refused.
CatchUp(j) ==
    /\ j \in catchUp
    /\ catchUp' = catchUp \ {j}
    /\ \/ Enqueue(j)
       \/ j \in BusyJobs /\ UNCHANGED <<jobOf, stage, stops, channel, lagging, missed, owed, cutOff>>
    /\ UNCHANGED <<daemon, exit, vault, durable>>

\* A queued run that reaches the front is refused: the vault is shut, or
\* another gate (pause, battery, network, destinations) says no.
Refuse(r) ==
    /\ stage[r] = "queued"
    /\ stage' = [stage EXCEPT ![r] = "skipped"]
    /\ \/ ~gate /\ Emit("locked", r) /\ owed' = owed \cup {r}
       \/ Emit("refused", r) /\ UNCHANGED owed
    /\ UNCHANGED <<jobOf, stops, catchUp, daemon, exit, vault, durable, cutOff>>

Start(r) ==
    /\ stage[r] = "queued" /\ gate
    /\ stage' = [stage EXCEPT ![r] = "running"]
    /\ Emit("started", r)
    /\ UNCHANGED <<jobOf, stops, catchUp, daemon, exit, vault, durable, owed, cutOff>>

\* The runner records the run and then says so (Runner: Close).
Finish(r) ==
    /\ stage[r] \in InFlight
    /\ stage' = [stage EXCEPT ![r] = "over"]
    /\ history' = history \cup {r}
    /\ Emit("finished", r)
    /\ UNCHANGED <<jobOf, stops, catchUp, active, disk, pump, exit, vault, durable, owed, cutOff>>

\* A run in flight is told to stop; one that waits leaves without a word.
Cancel(j) ==
    /\ j \in stops
    /\ stops' = stops \ {j}
    /\ stage' = [r \in Run |->
         CASE jobOf[r] = j /\ stage[r] = "running" -> "stopping"
           [] jobOf[r] = j /\ stage[r] = "queued" -> "dropped"
           [] OTHER -> stage[r]]
    /\ UNCHANGED <<jobOf, catchUp, channel, lagging, daemon, exit, vault, ghosts>>

(***************************************************************************)
(* The pump.                                                               *)
(***************************************************************************)

\* The daemon subscribes for the pump after it has spawned the scheduler.
Attach ==
    /\ pump = Off
    /\ pump' = Idle
    /\ UNCHANGED <<engine, active, history, disk, exit, vault, ghosts>>

\* The missed events are gone; clients are told to look again.
NoticeLag ==
    /\ pump = Idle /\ lagging
    /\ lagging' = FALSE
    /\ UNCHANGED <<jobOf, stage, stops, catchUp, channel, daemon, exit, vault, ghosts>>

Receive(kind, r) ==
    /\ pump = Idle /\ ~lagging
    /\ channel # <<>> /\ Head(channel) = [kind |-> kind, run |-> r]
    /\ channel' = Tail(channel)
    /\ UNCHANGED <<jobOf, stage, stops, catchUp, lagging, exit, gate, op, ghosts>>

\* The whole handler of an event that shows a run as live.
OnLive(r) ==
    /\ \E kind \in {"queued", "started"} : Receive(kind, r)
    /\ active' = active \cup {r}
    /\ UNCHANGED <<history, disk, pump, blocked>>

OnFinished(r) ==
    /\ Receive("finished", r)
    /\ active' = active \ {r}
    /\ pump' = [at |-> "save", run |-> r]
    /\ UNCHANGED <<history, disk, blocked>>

\* A skip retires the run it was announced for and is recorded; of the
\* skips for the lock only the first of a locked stretch is.
\* Faulty variant: an unrecorded skip leaves the run where it is.
RetireRecorded(r, recorded) ==
    /\ active' = IF recorded THEN active \ {r} ELSE active
    /\ pump' = IF r \in active /\ recorded
                 THEN [at |-> "record", run |-> r] ELSE Idle
    /\ UNCHANGED <<history, disk>>
Retire(r, recorded) ==
    /\ active' = active \ {r}
    /\ pump' = IF r \in active /\ recorded
                 THEN [at |-> "record", run |-> r] ELSE Idle
    /\ UNCHANGED <<history, disk>>

OnRefused(r) == Receive("refused", r) /\ Retire(r, TRUE) /\ UNCHANGED blocked

OnLocked(r) ==
    /\ Receive("locked", r)
    /\ blocked' = blocked \cup {jobOf[r]}
    /\ Retire(r, jobOf[r] \notin blocked)

RecordSkip ==
    /\ pump.at = "record"
    /\ history' = history \cup {pump.run}
    /\ pump' = [pump EXCEPT !.at = "save"]
    /\ UNCHANGED <<engine, active, disk, exit, vault, ghosts>>

\* save_state: a copy is taken under the lock and written without it.
CopyState ==
    /\ pump.at = "save"
    /\ pump' = [at |-> "write", run |-> pump.run, copy |-> history]
    /\ UNCHANGED <<engine, active, history, disk, exit, vault, ghosts>>

\* The copy replaces the file as a whole.  A save that fails leaves the file
\* as it is and is only logged: the pump goes on, and the next save has it all.
WriteState ==
    /\ pump.at = "write"
    /\ \/ /\ disk' = pump.copy
          /\ durable' = durable \cup
               {r \in pump.copy \cup {pump.run} : main.at = "save" => r \in main.copy}
       \/ UNCHANGED <<disk, durable>>
    /\ pump' = Idle
    /\ UNCHANGED <<engine, active, history, exit, vault, missed, owed, cutOff>>

PumpStep ==
    \/ Attach \/ NoticeLag \/ RecordSkip \/ CopyState \/ WriteState
    \/ \E r \in Run : OnLive(r) \/ OnFinished(r) \/ OnRefused(r) \/ OnLocked(r)

(***************************************************************************)
(* Clients and the auto-lock timer.                                        *)
(***************************************************************************)

\* A Stop names a run; the engine cancels by job.
\* Faulty variant: the run is taken for stopped at once.
StopRunAndForget(r) ==
    /\ up /\ r \in active
    /\ stops' = stops \cup {jobOf[r]}
    /\ active' = active \ {r}
    /\ UNCHANGED <<jobOf, stage, catchUp, channel, lagging, history, disk, pump, exit, vault, ghosts>>
StopRun(r) ==
    /\ up /\ r \in active
    /\ stops' = stops \cup {jobOf[r]}
    /\ UNCHANGED <<jobOf, stage, catchUp, channel, lagging, daemon, exit, vault, ghosts>>

At(c, place) == op[c].at = place

\* on_unlocked: the gate opens, the keychain is written, and only then are
\* the blocked jobs taken.  The vault is first opened, and connections first
\* served, once the pump is subscribed.
OpenGate(c) ==
    /\ pump # Off /\ At(c, "free")
    /\ gate' = TRUE
    /\ op' = [op EXCEPT ![c] = [at |-> "opened"]]
    /\ UNCHANGED <<engine, daemon, exit, blocked, ghosts>>

TakeBlocked(c) ==
    /\ At(c, "opened")
    /\ op' = [op EXCEPT ![c] = [at |-> "requeue", jobs |-> blocked]]
    /\ blocked' = {}
    /\ UNCHANGED <<engine, daemon, exit, gate, ghosts>>

\* Each taken job is asked for again; run_now refuses a busy one, and every
\* one once the engine is gone.
Requeue(c, j) ==
    /\ At(c, "requeue") /\ j \in op[c].jobs
    /\ op' = [op EXCEPT ![c].jobs = @ \ {j}]
    /\ \/ Enqueue(j) /\ UNCHANGED catchUp
       \/ (j \in BusyJobs \/ ~up) /\ UNCHANGED <<engine, missed, owed, cutOff>>
    /\ UNCHANGED <<daemon, exit, gate, blocked, durable>>

\* Faulty variant: blocked is emptied when all are queued, not when taken.
OpenedAndCleared(c) ==
    /\ At(c, "requeue") /\ op[c].jobs = {}
    /\ op' = [op EXCEPT ![c] = Free]
    /\ blocked' = {}
    /\ UNCHANGED <<engine, daemon, exit, gate, ghosts>>

Opened(c) ==
    /\ At(c, "requeue") /\ op[c].jobs = {}
    /\ op' = [op EXCEPT ![c] = Free]
    /\ UNCHANGED <<engine, daemon, exit, gate, blocked, ghosts>>

\* The transport aborts a handler that takes too long, at an await: what it
\* has done stays, the jobs it had taken and not asked for are gone.  (The
\* daemon's own unlock at its start is one that nothing aborts.)
Abort(c) ==
    /\ op[c] # Free
    /\ op' = [op EXCEPT ![c] = Free]
    /\ cutOff' = IF At(c, "requeue") THEN cutOff \cup op[c].jobs ELSE cutOff
    /\ UNCHANGED <<engine, daemon, exit, gate, blocked, missed, durable, owed>>

\* vault.lock from a client, or the auto-lock timer on an idle machine.
CloseGate ==
    /\ gate' = FALSE
    /\ UNCHANGED <<engine, daemon, exit, blocked, op, ghosts>>

(***************************************************************************)
(* An orderly stop: the main task.                                         *)
(***************************************************************************)

\* finish_runs, with or without stop_runs: every run in the list is stopped
\* by its job.  Connections are told to end and some may still be served.
AskStop ==
    /\ pump # Off /\ main = Serving
    /\ main' = [at |-> "wait"]
    /\ \/ UNCHANGED stops
       \/ up /\ stops' = stops \cup {jobOf[r] : r \in active}
    /\ UNCHANGED <<jobOf, stage, catchUp, channel, lagging, up, daemon, vault, ghosts>>

\* The list is empty, or the grace period is over: fire the engine's token.
FinishRuns ==
    /\ main.at = "wait"
    /\ main' = [at |-> "close"]
    /\ UNCHANGED <<engine, up, daemon, vault, ghosts>>

\* The loop sees the token once resync is done: it drops its queue and its
\* mailbox and stops the runs in flight, which go on until they notice.
EngineStops ==
    /\ up /\ main.at \in {"close", "save", "saved"}
    /\ catchUp = {}
    /\ up' = FALSE
    /\ stops' = {}
    /\ stage' = [r \in Run |->
         CASE stage[r] = "running" -> "stopping"
           [] stage[r] = "queued" -> "dropped"
           [] OTHER -> stage[r]]
    /\ UNCHANGED <<jobOf, catchUp, channel, lagging, main, daemon, vault, ghosts>>

\* The connections are over, or their grace period is: save_state, in its
\* two halves, beside the pump's.
LastCopy ==
    /\ main.at = "close"
    /\ main' = [at |-> "save", copy |-> history]
    /\ UNCHANGED <<engine, up, daemon, vault, ghosts>>

\* The pump will write an older copy over it.
Overtaken == pump.at = "write" /\ ~(main.copy \subseteq pump.copy)

\* Faulty variant: a save that is under way is trusted to be enough.
LastWriteUnlessSaving ==
    /\ main.at = "save"
    /\ disk' = IF pump.at = "write" THEN disk ELSE main.copy
    /\ main' = [at |-> "saved", copy |-> main.copy, kept |-> ~Overtaken]
    /\ UNCHANGED <<engine, up, active, history, pump, vault, ghosts>>

\* It may fail like any other; nothing is saved after it.
LastWrite ==
    /\ main.at = "save"
    /\ \/ /\ disk' = main.copy
          /\ durable' = durable \cup
               {r \in main.copy : pump.at = "write" => r \in pump.copy}
          /\ main' = [at |-> "saved", copy |-> main.copy, kept |-> ~Overtaken]
       \/ /\ UNCHANGED <<disk, durable>>
          /\ main' = [at |-> "saved", copy |-> main.copy, kept |-> FALSE]
    /\ UNCHANGED <<engine, up, active, history, pump, vault, missed, owed, cutOff>>

StopStep == AskStop \/ FinishRuns \/ EngineStops \/ LastCopy \/ LastWrite

(***************************************************************************)
(* The end of the process, by a crash or after the last save, and the      *)
(* daemon that starts after it: history comes from disk, the vault is      *)
(* shut, what was in flight is gone.  The engine catches up on a job whose *)
(* moment is later than its last recorded run, and a recorded skip counts  *)
(* as a run (PersistedState::record, catch_up_due).  The file is read as   *)
(* it was written; load_state begins anew when it cannot be read.          *)
(***************************************************************************)
\* Faulty variant: every start begins with an empty history.
LoadNothing == {}
LoadState == disk

\* Every job has run before, and run_missed_on_start is set.
MissedJobs == {jobOf[r] : r \in owed \ disk}

Crash ==
    /\ stage' = [r \in Run |-> IF stage[r] = "new" THEN "new" ELSE "past"]
    /\ up' = TRUE /\ main' = Serving
    /\ stops' = {} /\ catchUp' = MissedJobs
    /\ channel' = <<>> /\ lagging' = FALSE
    /\ active' = {} /\ history' = LoadState /\ pump' = Off
    /\ gate' = FALSE /\ blocked' = {}
    /\ op' = [c \in Client |-> Free]
    /\ missed' = {} /\ cutOff' = {}
    /\ UNCHANGED <<jobOf, disk, durable, owed>>

Next ==
    \/ Due
    \/ \E r \in Run : Refuse(r) \/ Start(r) \/ Finish(r) \/ StopRun(r)
    \/ \E j \in Job : CatchUp(j) \/ Cancel(j)
    \/ PumpStep
    \/ \E c \in Client :
         \/ OpenGate(c) \/ TakeBlocked(c) \/ Opened(c) \/ Abort(c)
         \/ \E j \in Job : Requeue(c, j)
    \/ CloseGate
    \/ StopStep
    \/ Crash

Spec == Init /\ [][Next]_vars

(***************************************************************************)
(* Properties.                                                             *)
(***************************************************************************)

\* A run in flight is shown as live, or is about to be: auto-lock, shutdown
\* and Stop look runs up in this list.  Only the channel's loss excuses it.
RunningIsTracked ==
    \A r \in RunsAt(InFlight) \ missed :
      r \in active \/ Announced({"queued", "started"}, r)

\* What is shown as live is live, or the pump is about to learn that it is
\* not; a run that left the queue without a word is the exception.
ActiveIsCurrent ==
    \A r \in active \ missed :
      \/ stage[r] \in {"queued", "dropped"} \cup InFlight
      \/ Announced({"finished", "locked", "refused"}, r)

\* A run that a save has put on disk while no other save was about to write a
\* copy without it is in the history and on disk from then on, whatever saves
\* work or fail, stops and crashes follow.  The run the pump saved for is one
\* of those its copy holds.
HandledIsDurable == durable \subseteq history \cap disk

\* An orderly stop whose last save worked leaves on disk what was recorded
\* when it saved, whatever the pump still saves, unless the pump was writing
\* an older copy by then.
StopIsSaved == main.at = "saved" /\ main.kept => main.copy \subseteq disk

\* A run the lock cost a job is never forgotten: the job waits in blocked,
\* on its way there, in the hands of whoever opened the vault, or to be caught
\* up on.  The exceptions are a skip the pump never heard of, an unlock that
\* was aborted with the jobs in its hands, and what a restart does to a
\* recorded skip; without an engine only the next start can ask again.
Remembered(r) ==
    \/ jobOf[r] \in blocked \cup catchUp
    \/ \E c \in Client : At(c, "requeue") /\ jobOf[r] \in op[c].jobs
    \/ r \in missed \/ Announced({"locked"}, r)
SkippedIsRemembered ==
    up => \A r \in owed :
      Remembered(r) \/ jobOf[r] \in cutOff \/ (stage[r] = "past" /\ r \in disk)
=============================================================================
