----------------------------- MODULE Scheduler -----------------------------
(***************************************************************************)
(* The engine's scheduler task (crates/core/src/engine/scheduler.rs): one  *)
(* loop that owns the run queue, the map of running jobs, the next firing  *)
(* of every schedule and the re-attempt counters, and that talks to the    *)
(* rest of the daemon through two mailboxes (commands in, completions      *)
(* back from the runs it spawned).                                         *)
(*                                                                         *)
(* The loop is one task, so only its mailboxes, the environment flags, the *)
(* cancel tokens and the persisted state change between two of its steps.  *)
(* Its inner loops (retain, resync, enqueue_due, pump) are control states  *)
(* of `pc`: one action per element, no way round an action that is due.    *)
(***************************************************************************)
EXTENDS Integers, Sequences, FiniteSets

CONSTANTS
    Job,          \* job ids that can ever be configured
    Run,          \* run ids: uuid v4, an id in use is never drawn again
    Config,       \* the configurations the daemon can hand over
    Environment,  \* values of (vault unlocked, metered, on battery)
    Restored,     \* the last starts a previous daemon may have left on disk
    MaxNow,       \* bound: the last instant the clock reaches
    MaxMailbox,   \* bound: commands waiting in the mailbox
    NoRun, NoJob, NoSchedule

Never == -1       \* an absent entry of next_fire, last_run or the alarm
WakeLead == 1     \* WAKE_LEAD_SECONDS, in ticks

Max1(n) == IF n < 1 THEN 1 ELSE n

(***************************************************************************)
(* Schedules.  `manual` never fires, `onchange` fires from its watcher,    *)
(* `interval` on the grid of multiples of `every` (schedule.rs             *)
(* next_interval / last_interval; daily, weekly and cron differ in which   *)
(* instants, not in how the scheduler uses them).                          *)
(***************************************************************************)
Schedule == [kind: {"manual", "onchange", "interval"}, every: Nat \ {0}]

NextOccurrence(s, t) ==
    IF s.kind = "interval" THEN ((t \div s.every) + 1) * s.every ELSE Never

LastOccurrence(s, t) ==
    IF s.kind = "interval" THEN (t \div s.every) * s.every ELSE Never

\* A job that never ran has nothing to catch up on.
CatchUpDue(s, lastStart, t) ==
    lastStart # Never /\ LastOccurrence(s, t) > lastStart

RetrySettings == [enabled: BOOLEAN, maxAttempts: Nat, after: Nat]

ConfigShape(c) ==
    /\ c.jobs \subseteq Job
    /\ c.usable \subseteq Job         \* jobs with a destination in reach
    /\ c.enabled \subseteq Job
    /\ c.schedule \in [Job -> Schedule]
    /\ c.sources \in [Job -> Nat]    \* which folders the job backs up
    /\ c.retry \in [Job -> RetrySettings]
    /\ c.maxParallel \in Nat
    /\ c.pausedUntil \in Nat          \* 0: not paused
    /\ {c.runMissed, c.wake, c.skipMetered, c.skipBattery} \subseteq BOOLEAN

ASSUME ConfigAssumption == \A c \in Config : ConfigShape(c)
ASSUME EnvironmentAssumption ==
    Environment \subseteq [unlocked: BOOLEAN, metered: BOOLEAN, battery: BOOLEAN]
ASSUME RestoredAssumption == Restored \subseteq [Job -> Nat \cup {Never}]
ASSUME SentinelAssumption ==
    NoRun \notin Run /\ NoJob \notin Job /\ NoSchedule \notin Schedule
ASSUME JobAssumption == IsFiniteSet(Job)
\* A fresh uuid is always to be had: one id per job is enough (IdsToSpare).
ASSUME IdsAssumption == IsFiniteSet(Run) => Cardinality(Job) <= Cardinality(Run)
ASSUME BoundAssumption == MaxNow \in Nat /\ MaxMailbox \in Nat

UserTrigger == {"Manual"}   \* and Cli, which is treated alike
Trigger == UserTrigger \cup {"Schedule", "FileChange", "CatchUp"}
Reason == {"None", "Requested", "Shutdown"}
Outcome == {"whole", "short", "stopped"}

Pending == [run: Run, job: Job, trigger: Trigger]
Task == [job: Job \cup {NoJob}, started: Nat, cancel: Reason]
NoTask == [job |-> NoJob, started |-> 0, cancel |-> "None"]
Completion == [run: Run, job: Job, outcome: Outcome]

Command ==
    [type: {"run"}, job: Job, trigger: Trigger]
    \cup [type: {"cancel"}, job: Job]
    \cup [type: {"config"}, config: Config]

CONSTANT Input    \* the commands the daemon's handlers may post
ASSUME InputAssumption == Input \subseteq Command

VARIABLES
    \* the world around the loop
    now,          \* the injected clock
    env,          \* vault, power and network as Environment reports them
    commands,     \* the command mailbox, unbounded in the code
    completions,  \* finished runs on their way back
    engineCancel, \* the engine-wide cancel token
    task,         \* the runs in flight, with their cancel token
    lastRun,      \* PersistedState: when each job last started
    \* the loop's own state
    pc, todo,     \* where the loop is, and what its inner loop has left
    config, queue, active, nextFire, known, caughtUp, reattempts,
    watchers,     \* the sources each live watcher was given when it was made
    awake, alarm

world == <<now, env, commands, completions, engineCancel, task, lastRun>>
tables == <<nextFire, known, caughtUp, reattempts, watchers>>
power == <<awake, alarm>>
vars == <<world, pc, todo, config, queue, active, tables, power>>

----------------------------------------------------------------------------
(* Reading the state. *)

InFlight == {r \in Run : task[r].job # NoJob}
ActiveJobs == {j \in Job : active[j] # NoRun}
QueuedJobs == {queue[i].job : i \in DOMAIN queue}
UsedRuns ==
    InFlight \cup {active[j] : j \in ActiveJobs}
    \cup {queue[i].run : i \in DOMAIN queue}
    \cup {completions[i].run : i \in DOMAIN completions}

Armed == {j \in Job : nextFire[j] # Never}
Due == {j \in Armed : nextFire[j] <= now}
FirstFire == CHOOSE t \in {nextFire[j] : j \in Armed} :
                \A j \in Armed : t <= nextFire[j]
\* Faulty variants: one run too many, one slot never used.
SlotFreeAtLimit == Cardinality(ActiveJobs) <= Max1(config.maxParallel)
SlotFreeReserving == Cardinality(ActiveJobs) + 1 < Max1(config.maxParallel)

SlotFree == Cardinality(ActiveJobs) < Max1(config.maxParallel)

(***************************************************************************)
(* evaluate_gates: the physical gates stop everybody, the policy gates     *)
(* only runs nobody asked for by hand.                                     *)
(***************************************************************************)
PhysicalGate(j) ==
    active[j] # NoRun \/ j \notin config.usable \/ ~env.unlocked
PolicyGate(j) ==
    \/ j \notin config.enabled
    \/ now < config.pausedUntil
    \/ config.skipMetered /\ env.metered
    \/ config.skipBattery /\ env.battery
Skipped(p) ==
    PhysicalGate(p.job) \/ (p.trigger \notin UserTrigger /\ PolicyGate(p.job))

----------------------------------------------------------------------------
Init ==
    /\ now = 0 /\ env \in Environment /\ config \in Config
    /\ commands = <<>> /\ completions = <<>> /\ engineCancel = FALSE
    /\ task = [r \in Run |-> NoTask]
    /\ lastRun \in Restored
    /\ pc = "retain" /\ todo = config.jobs
    /\ queue = <<>> /\ active = [j \in Job |-> NoRun]
    /\ nextFire = [j \in Job |-> Never]
    /\ known = [j \in Job |-> NoSchedule]
    /\ caughtUp = {} /\ reattempts = [j \in Job |-> 0]
    /\ watchers = [j \in Job |-> Never]
    /\ awake = FALSE /\ alarm = Never

(***************************************************************************)
(* enqueue: refused for a job that is gone, running or already waiting.    *)
(***************************************************************************)
\* Faulty variant: at the front of the queue.
EnqueueFirst(j, trigger) ==
    IF j \in config.jobs /\ active[j] = NoRun /\ j \notin QueuedJobs
      THEN \E r \in Run \ UsedRuns :
             queue' = <<[run |-> r, job |-> j, trigger |-> trigger]>> \o queue
      ELSE queue' = queue

Enqueue(j, trigger) ==
    IF j \in config.jobs /\ active[j] = NoRun /\ j \notin QueuedJobs
      THEN \E r \in Run \ UsedRuns :
             queue' = Append(queue, [run |-> r, job |-> j, trigger |-> trigger])
      ELSE queue' = queue

RemoveAt(q, i) ==
    [k \in 1..(Len(q) - 1) |-> IF k < i THEN q[k] ELSE q[k + 1]]

(***************************************************************************)
(* resync, first half: forget what belongs to jobs the new configuration   *)
(* no longer has.  The queue's retain drops one entry per step.            *)
(***************************************************************************)
RetainDrop ==
    /\ pc = "retain"
    /\ \E i \in DOMAIN queue :
         /\ queue[i].job \notin config.jobs
         /\ queue' = RemoveAt(queue, i)
    /\ UNCHANGED <<world, pc, todo, config, active, tables, power>>

RetainDone ==
    /\ pc = "retain"
    /\ QueuedJobs \subseteq config.jobs
    /\ nextFire' = [j \in Job |-> IF j \in config.jobs THEN nextFire[j] ELSE Never]
    /\ known' = [j \in Job |-> IF j \in config.jobs THEN known[j] ELSE NoSchedule]
    /\ watchers' = [j \in Job |-> IF j \in config.jobs THEN watchers[j] ELSE Never]
    /\ pc' = "resync"
    /\ UNCHANGED <<world, todo, config, queue, active, caughtUp, reattempts, power>>

(***************************************************************************)
(* resync, second half: one job.  The order of the jobs in the file is     *)
(* abstracted.  `lastRun` is read here and not at the top of resync: it    *)
(* only moves for a job that is running, which enqueue refuses anyway.     *)
(***************************************************************************)
ResyncOnChange(j) ==
    /\ config.schedule[j].kind = "onchange"
    /\ nextFire' = [nextFire EXCEPT ![j] = Never]
    /\ watchers' = IF known[j] # config.schedule[j] \/ watchers[j] = Never
                     THEN [watchers EXCEPT ![j] = config.sources[j]] ELSE watchers
    /\ UNCHANGED <<queue, caughtUp>>

ResyncManual(j) ==
    /\ config.schedule[j].kind = "manual"
    /\ nextFire' = [nextFire EXCEPT ![j] = Never]
    /\ watchers' = [watchers EXCEPT ![j] = Never]
    /\ UNCHANGED <<queue, caughtUp>>

ResyncInterval(j) ==
    LET s == config.schedule[j]
        rearm == known[j] # s \/ nextFire[j] = Never
        consider == rearm /\ config.runMissed /\ j \notin caughtUp
    IN  /\ s.kind = "interval"
        /\ watchers' = [watchers EXCEPT ![j] = Never]
        /\ caughtUp' = IF consider THEN caughtUp \cup {j} ELSE caughtUp
        /\ IF consider /\ CatchUpDue(s, lastRun[j], now)
             THEN Enqueue(j, "CatchUp")
             ELSE queue' = queue
        /\ nextFire' = IF rearm
                         THEN [nextFire EXCEPT ![j] = NextOccurrence(s, now)]
                         ELSE nextFire

ResyncJob(j) ==
    /\ pc = "resync"
    /\ j \in todo
    /\ ResyncOnChange(j) \/ ResyncManual(j) \/ ResyncInterval(j)
    /\ known' = [known EXCEPT ![j] = config.schedule[j]]
    /\ todo' = todo \ {j}
    /\ UNCHANGED <<world, pc, config, active, reattempts, power>>

ResyncDone ==
    /\ pc = "resync"
    /\ todo = {}
    /\ pc' = "pump"
    /\ UNCHANGED <<world, todo, config, queue, active, tables, power>>

----------------------------------------------------------------------------
(***************************************************************************)
(* pump: start queued runs while there is a slot.  A refused run leaves    *)
(* the queue and takes no slot.                                            *)
(***************************************************************************)
CanPump == pc = "pump" /\ SlotFree /\ queue # <<>>

PumpSkip ==
    /\ CanPump
    /\ Skipped(Head(queue))
    /\ queue' = Tail(queue)
    /\ UNCHANGED <<world, pc, todo, config, active, tables, power>>

PumpStart ==
    /\ CanPump
    /\ ~Skipped(Head(queue))
    /\ LET p == Head(queue) IN
         /\ active' = [active EXCEPT ![p.job] = p.run]
         /\ task' = [task EXCEPT ![p.run] =
                        [job |-> p.job, started |-> now,
                         cancel |-> IF engineCancel THEN "Shutdown" ELSE "None"]]
    /\ queue' = Tail(queue)
    /\ UNCHANGED <<now, env, commands, completions, engineCancel, lastRun,
                   pc, todo, config, tables, power>>

\* reconcile_power's alarm: ahead of the earliest firing, while it still is.
Alarm ==
    IF config.wake /\ Armed # {} /\ FirstFire - WakeLead > now
      THEN FirstFire - WakeLead
      ELSE Never

\* Nothing left to start: reconcile_power, then wait in select.
PumpDone ==
    /\ pc = "pump"
    /\ ~SlotFree \/ queue = <<>>
    /\ awake' = (ActiveJobs # {})
    /\ alarm' = Alarm
    /\ pc' = "select"
    /\ UNCHANGED <<world, todo, config, queue, active, tables>>

----------------------------------------------------------------------------
(***************************************************************************)
(* The select, biased: shutdown, then commands, then completions, then the *)
(* timer.  Leaving the loop drops the queue and both mailboxes and cancels *)
(* what is in flight; the first reason a token was given stays.            *)
(***************************************************************************)
\* Faulty variant: the last reason wins.
CancelledAgain(t, reason) ==
    IF t.job # NoJob THEN [t EXCEPT !.cancel = reason] ELSE t

Cancelled(t, reason) ==
    IF t.job # NoJob /\ t.cancel = "None" THEN [t EXCEPT !.cancel = reason] ELSE t

\* Faulty variant: everything is cleaned up, and the loop goes round again.
SeeCancelAndGoOn ==
    /\ pc = "select"
    /\ engineCancel
    /\ pc' = "pump"
    /\ task' = [r \in Run |-> IF \E j \in ActiveJobs : active[j] = r
                               THEN Cancelled(task[r], "Shutdown") ELSE task[r]]
    /\ active' = [j \in Job |-> NoRun]
    /\ queue' = <<>> /\ commands' = <<>> /\ completions' = <<>>
    /\ watchers' = [j \in Job |-> Never]
    /\ awake' = FALSE /\ alarm' = Never
    /\ UNCHANGED <<now, env, engineCancel, lastRun, todo, config,
                   nextFire, known, caughtUp, reattempts>>

SeeCancel ==
    /\ pc = "select"
    /\ engineCancel
    /\ pc' = "stopped"
    /\ task' = [r \in Run |-> IF \E j \in ActiveJobs : active[j] = r
                               THEN Cancelled(task[r], "Shutdown") ELSE task[r]]
    /\ active' = [j \in Job |-> NoRun]
    /\ queue' = <<>> /\ commands' = <<>> /\ completions' = <<>>
    /\ watchers' = [j \in Job |-> Never]
    /\ awake' = FALSE /\ alarm' = Never
    /\ UNCHANGED <<now, env, engineCancel, lastRun, todo, config,
                   nextFire, known, caughtUp, reattempts>>

Receive(type) ==
    /\ pc = "select" /\ ~engineCancel
    /\ commands # <<>> /\ Head(commands).type = type
    /\ commands' = Tail(commands)

\* A Stop for a running job fires its token; for a waiting one it empties
\* the queue of it, and tells nobody.
\* Faulty variant: the slot is freed while the run is still stopping.
TakeCancelAndFree ==
    /\ Receive("cancel")
    /\ LET j == Head(commands).job IN
         /\ active[j] # NoRun
         /\ task' = [task EXCEPT ![active[j]] = Cancelled(@, "Requested")]
         /\ active' = [active EXCEPT ![j] = NoRun]
    /\ pc' = "pump"
    /\ UNCHANGED <<now, env, completions, engineCancel, lastRun,
                   todo, config, queue, tables, power>>

TakeCancel ==
    /\ Receive("cancel")
    /\ LET j == Head(commands).job IN
         \/ /\ active[j] # NoRun
            /\ task' = [task EXCEPT ![active[j]] = Cancelled(@, "Requested")]
            /\ UNCHANGED queue
         \/ /\ active[j] = NoRun
            /\ \E i \in DOMAIN queue :
                 queue[i].job = j /\ queue' = RemoveAt(queue, i)
            /\ UNCHANGED task
         \/ /\ active[j] = NoRun /\ j \notin QueuedJobs
            /\ UNCHANGED <<queue, task>>
    /\ pc' = "pump"
    /\ UNCHANGED <<now, env, completions, engineCancel, lastRun,
                   todo, config, active, tables, power>>

\* run_now and a watcher's FileChange: both are one enqueue.
TakeRun ==
    /\ Receive("run")
    /\ Enqueue(Head(commands).job, Head(commands).trigger)
    /\ pc' = "pump"
    /\ UNCHANGED <<now, env, completions, engineCancel, task, lastRun,
                   todo, config, active, tables, power>>

TakeConfig ==
    /\ Receive("config")
    /\ config' = Head(commands).config
    /\ todo' = Head(commands).config.jobs
    /\ pc' = "retain"
    /\ UNCHANGED <<now, env, completions, engineCancel, task, lastRun,
                   queue, active, tables, power>>

(***************************************************************************)
(* reattempt::delay_after and consider_reattempt: a run that fell short    *)
(* brings the job's next firing forward, never back, and counts what it    *)
(* has spent; anything else clears the count.                              *)
(***************************************************************************)
MayReattempt(c) ==
    LET retry == config.retry[c.job] IN
    /\ retry.enabled
    /\ c.outcome = "short"
    /\ retry.maxAttempts > 0 => reattempts[c.job] < retry.maxAttempts

BringsForward(j, at) == nextFire[j] = Never \/ nextFire[j] > at

ConsiderReattempt(c) ==
    LET at == now + Max1(config.retry[c.job].after)
        forward == BringsForward(c.job, at)
    IN  CASE c.job \notin config.jobs -> UNCHANGED <<nextFire, reattempts>>
          [] c.job \in config.jobs /\ MayReattempt(c) /\ forward ->
               /\ nextFire' = [nextFire EXCEPT ![c.job] = at]
               /\ reattempts' = [reattempts EXCEPT ![c.job] = @ + 1]
          [] c.job \in config.jobs /\ ~(MayReattempt(c) /\ forward) ->
               /\ reattempts' = [reattempts EXCEPT ![c.job] = 0]
               /\ UNCHANGED nextFire

\* Faulty variant: a cancelled run keeps its slot.
FreedUnlessStopped(c) ==
    IF c.outcome = "stopped" THEN active ELSE [active EXCEPT ![c.job] = NoRun]

Freed(c) == [active EXCEPT ![c.job] = NoRun]

TakeCompletion ==
    /\ pc = "select" /\ ~engineCancel /\ commands = <<>>
    /\ completions # <<>>
    /\ active' = Freed(Head(completions))
    /\ ConsiderReattempt(Head(completions))
    /\ completions' = Tail(completions)
    /\ pc' = "pump"
    /\ UNCHANGED <<now, env, commands, engineCancel, task, lastRun,
                   todo, config, queue, known, caughtUp, watchers, power>>

\* The timer arm: every due job is queued and re-armed, one per step.
TakeTimer ==
    /\ pc = "select" /\ ~engineCancel /\ commands = <<>> /\ completions = <<>>
    /\ Due # {}
    /\ todo' = Due
    /\ pc' = "fire"
    /\ UNCHANGED <<world, config, queue, active, tables, power>>

\* Faulty variant: re-armed a full interval after a firing that came late.
RearmedFromNow(j) ==
    IF j \in config.jobs /\ config.schedule[j].kind = "interval"
      THEN now + config.schedule[j].every ELSE Never

Rearmed(j) ==
    IF j \in config.jobs THEN NextOccurrence(config.schedule[j], now) ELSE Never

FireJob(j) ==
    /\ pc = "fire"
    /\ j \in todo
    /\ Enqueue(j, "Schedule")
    /\ nextFire' = [nextFire EXCEPT ![j] = Rearmed(j)]
    /\ todo' = todo \ {j}
    /\ UNCHANGED <<world, pc, config, active, known, caughtUp, reattempts,
                   watchers, power>>

FireDone ==
    /\ pc = "fire"
    /\ todo = {}
    /\ pc' = "pump"
    /\ UNCHANGED <<world, todo, config, queue, active, tables, power>>

----------------------------------------------------------------------------
(* A run in flight: it records itself, announces its end and hands back.   *)
Handback(r, outcome) == [run |-> r, job |-> task[r].job, outcome |-> outcome]

FinishRun(r, outcome) ==
    /\ task[r].job # NoJob
    /\ lastRun' = [lastRun EXCEPT ![task[r].job] = task[r].started]
    /\ completions' =
         IF pc = "stopped" THEN completions
         ELSE Append(completions, Handback(r, outcome))
    /\ task' = [task EXCEPT ![r] = NoTask]
    /\ UNCHANGED <<now, env, commands, engineCancel,
                   pc, todo, config, queue, active, tables, power>>

\* CancelToken::child: the engine token reaches each run in its own time.
PropagateCancel(r) ==
    /\ engineCancel
    /\ task[r].job # NoJob /\ task[r].cancel = "None"
    /\ task' = [task EXCEPT ![r].cancel = "Shutdown"]
    /\ UNCHANGED <<now, env, commands, completions, engineCancel, lastRun,
                   pc, todo, config, queue, active, tables, power>>

(* The rest of the daemon, through SchedulerHandle and Environment. *)
Send(c) ==
    /\ pc # "stopped"
    /\ Len(commands) < MaxMailbox
    /\ commands' = Append(commands, c)
    /\ UNCHANGED <<now, env, completions, engineCancel, task, lastRun,
                   pc, todo, config, queue, active, tables, power>>

\* run_now, stop and replace_config: what the handlers post.
Request == \E c \in Input : Send(c)
\* A JobWatcher reports that its tree went quiet.
FileChange(j) ==
    /\ watchers[j] # Never
    /\ Send([type |-> "run", job |-> j, trigger |-> "FileChange"])
\* shutdown also posts a command; by then the token alone ends the loop.
Shutdown ==
    /\ ~engineCancel
    /\ engineCancel' = TRUE
    /\ UNCHANGED <<now, env, commands, completions, task, lastRun,
                   pc, todo, config, queue, active, tables, power>>

SetEnvironment(e) ==
    /\ e # env
    /\ env' = e
    /\ UNCHANGED <<now, commands, completions, engineCancel, task, lastRun,
                   pc, todo, config, queue, active, tables, power>>

\* The clock moves while the loop waits; its handlers take no time.
Tick ==
    /\ pc \in {"select", "stopped"}
    /\ now < MaxNow
    /\ now' = now + 1
    /\ UNCHANGED <<env, commands, completions, engineCancel, task, lastRun,
                   pc, todo, config, queue, active, tables, power>>

\* After a shutdown, once the last run is over, nothing more happens.
Halted == pc = "stopped" /\ InFlight = {} /\ UNCHANGED vars

Loop ==
    \/ RetainDrop \/ RetainDone \/ (\E j \in Job : ResyncJob(j)) \/ ResyncDone
    \/ PumpSkip \/ PumpStart \/ PumpDone
    \/ SeeCancel \/ TakeCancel \/ TakeRun \/ TakeConfig \/ TakeCompletion
    \/ TakeTimer \/ (\E j \in Job : FireJob(j)) \/ FireDone

Runs == \E r \in Run :
    PropagateCancel(r) \/ \E outcome \in Outcome : FinishRun(r, outcome)

Daemon ==
    \/ Request
    \/ \E j \in Job : FileChange(j)
    \/ \E e \in Environment : SetEnvironment(e)
    \/ Shutdown
    \/ Tick
    \/ Halted

Next == Loop \/ Runs \/ Daemon

Spec == Init /\ [][Next]_vars

(***************************************************************************)
(* The loop is a tokio task that is always polled again; each run ends by  *)
(* itself or by its timeout; a fired token reaches its children.  A poll   *)
(* that finds no command looks at the completions and then at the timer,   *)
(* so these are not passed over for ever (strong fairness).  Nothing       *)
(* obliges the user, the clock or the filesystem to act.                   *)
(***************************************************************************)
FairSpec ==
    /\ Spec
    /\ WF_vars(Loop)
    /\ SF_vars(TakeCompletion)
    /\ SF_vars(TakeTimer)
    /\ \A r \in Run : /\ WF_vars(\E outcome \in Outcome : FinishRun(r, outcome))
                      /\ WF_vars(PropagateCancel(r))

----------------------------------------------------------------------------
(***************************************************************************)
(* Properties.                                                             *)
(***************************************************************************)
\* Types of everything the loop and its surroundings hold.
TypeOK ==
    /\ now \in Nat /\ env \in Environment
    /\ commands \in Seq(Command) /\ completions \in Seq(Completion)
    /\ engineCancel \in BOOLEAN
    /\ task \in [Run -> Task]
    /\ lastRun \in [Job -> Nat \cup {Never}]
    /\ pc \in {"retain", "resync", "pump", "select", "fire", "stopped"}
    /\ todo \subseteq Job
    /\ config \in Config
    /\ queue \in Seq(Pending)
    /\ active \in [Job -> Run \cup {NoRun}]
    /\ nextFire \in [Job -> Nat \cup {Never}]
    /\ known \in [Job -> Schedule \cup {NoSchedule}]
    /\ caughtUp \subseteq Job
    /\ reattempts \in [Job -> Nat]
    /\ watchers \in [Job -> Nat \cup {Never}]
    /\ awake \in BOOLEAN
    /\ alarm \in Nat \cup {Never}

\* Concurrency invariant 1 of engine/mod.rs: two runs of one job are never
\* in flight together, whatever is queued, cancelled, reconfigured or shut
\* down in between (even after the loop forgot its active map).
OneRunPerJob ==
    \A r, s \in InFlight : task[r].job = task[s].job => r = s

\* A slot is held exactly by a run in flight or by one whose completion is
\* still in the mailbox: none leaks, none is freed under a live run.
SlotAccounting ==
    pc # "stopped" =>
      /\ \A r \in InFlight : active[task[r].job] = r
      /\ \A j \in ActiveJobs :
           \/ task[active[j]].job = j
           \/ \E i \in DOMAIN completions :
                completions[i].run = active[j] /\ completions[i].job = j

\* A run id stands for one run: a waiting run, a run in flight and a run on
\* its way back never share one, and a stopped loop holds none.
IdsAreFresh ==
    /\ \A i, k \in DOMAIN queue : queue[i].run = queue[k].run => i = k
    /\ \A i \in DOMAIN queue :
         /\ queue[i].run \notin InFlight
         /\ \A j \in ActiveJobs : active[j] # queue[i].run
    /\ \A i, k \in DOMAIN completions : completions[i].run = completions[k].run => i = k
    /\ \A i \in DOMAIN completions :
         /\ active[completions[i].job] = completions[i].run
         /\ completions[i].run \notin InFlight
    /\ pc = "stopped" => queue = <<>> /\ completions = <<>> /\ ActiveJobs = {}

\* A job waits at most once, and never behind its own running run.
QueueOnce ==
    /\ \A i, k \in DOMAIN queue : queue[i].job = queue[k].job => i = k
    /\ QueuedJobs \cap ActiveJobs = {}

\* While the loop waits, no interval job has lost or overslept an occurrence:
\* it is armed, no later than its next occurrence, through every mix of
\* edits, re-attempts, late timers and refused runs.  Exactly the on-change
\* jobs have a live watcher, the machine is held awake exactly while a slot
\* is taken, and an alarm never stands for anything but the earliest firing.
NoOccurrenceLost ==
    pc = "select" =>
      /\ \A j \in config.jobs : config.schedule[j].kind = "interval" =>
           j \in Armed /\ nextFire[j] <= NextOccurrence(config.schedule[j], now)
      /\ {j \in Job : watchers[j] # Never}
           = {j \in config.jobs : config.schedule[j].kind = "onchange"}
      /\ awake = (ActiveJobs # {})
      /\ alarm # Never => Armed # {} /\ alarm = FirstFire - WakeLead

\* max_parallel_jobs bounds the runs really in flight at every start, also
\* right after the limit was lowered under running jobs.
ParallelLimit ==
    [][~(InFlight' \subseteq InFlight) =>
         Cardinality(InFlight') <= Max1(config.maxParallel)]_vars

\* The first reason a run is cancelled for is the one it keeps, and a Stop
\* for one job never reaches another.
CancelIsIsolated ==
    [][\A r \in InFlight : task'[r].cancel # task[r].cancel /\ task'[r] # NoTask =>
         /\ task[r].cancel = "None"
         /\ task'[r].cancel = "Requested" =>
              Head(commands) = [type |-> "cancel", job |-> task[r].job]]_vars

(***************************************************************************)
(* Liveness.  Commands are served first (biased), so a mailbox that never  *)
(* runs dry can hold back completions and the timer: the properties assume *)
(* that it is empty again and again while the loop waits.                  *)
(***************************************************************************)
QuietMailbox == []<>(pc = "select" /\ commands = <<>>)

\* A queued run is started, skipped or dropped: it never waits for ever.
QueuedIsDecided ==
    QuietMailbox => \A j \in Job : j \in QueuedJobs ~> j \notin QueuedJobs

\* After shutdown the loop ends and every run with it.
ShutdownEnds == engineCancel ~> (pc = "stopped" /\ InFlight = {})
=============================================================================
