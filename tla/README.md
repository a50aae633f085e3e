# superbackup: TLA+ models, checks and proofs

superbackup is a backup program in Rust. One daemon per machine owns the backup
repositories; a window, a tray icon, a command line and a service entry point
talk to it over IPC. This directory holds TLA+ models of the parts of the daemon
that decide *whether a backup happens and what is said about it*, the TLC runs
that check them on small instances, and TLAPS proofs of what matters most for
instances of any size.

```
 tlc -workers 2 -config SchedulerTime.cfg MCScheduler.tla     model-check
 tlapm SchedulerProofs.tla                                    prove
```

`PROJECT.json` is the index: every run with what it asks, every definition with
the source lines it models, the faulty variants that show each property can
fail, the hazards of the code and the theorems.

## 1. The system

### 1.1 Components

| Component | Source | State it keeps | Operations |
|---|---|---|---|
| Scheduler | `core/src/engine/scheduler.rs`, `schedule.rs`, `reattempt.rs`, `cancel.rs`, `clock.rs`, `platform/wake.rs` | configuration, queue, job → running run, next firing per job, known schedules, jobs already caught up, re-attempt counts, watchers, wake lock and alarm | commands (run, cancel, replace configuration, file change, status, shutdown), timer, completion, pump, resync |
| Runner | `engine/runner.rs`, `hooks.rs`, `retry.rs`, `state.rs` | the `JobRun` it fills in, the run's cancel token, its watchdog, the driver task at work | stage, before hook, attempt, retry, back-off, skip, settle, finalise, after hook |
| Replication planning | `runner.rs` (`plan_destinations`), `model.rs`, `config.rs` | none | plan, walk a chain to its root, validate |
| Change watcher | `engine/watcher.rs` | burst start, last event, last trigger | event, overflow, poll, next wake |
| Event pump and run list | `app/src/daemon/events.rs`, `runtime.rs`, `mod.rs` | live runs, history in memory and in `state.json`, jobs held back by the lock | one handler per engine event, `save_state`, `load_state` |
| Vault session | `daemon/lifecycle.rs`, `handler.rs`, `keychain.rs`, `runtime.rs` | store open or shut, scheduler's gate, retained passphrase, cached passphrase (a sealed file and a key in the keychain), confirmation, auto-lock deadline | unlock, lock, auto-lock and its step down, start-up from the keychain, re-arming, the keychain setting |
| Configuration commits | `handler.rs` (`commit`), `config.rs` | configuration in memory and on disk | mutate, save, push to the scheduler |
| Passphrase rotation | `daemon/rekey.rs`, `core/src/crypto/rekey.rs` | report on disk, dated copies of the vault, suppressed destinations, a background walk | rotate, report, walk (probe, change, verify, mark), restore after a restart |
| Vault and keys | `core/src/crypto/`, `config.rs` | sealed file, dated copies, keys and generated passphrases in memory | seal, open, derive, copy, prune, generate a passphrase |
| Instance lock, handover | `platform/single_instance.rs`, `handover.rs` | lock file | acquire, take over, release |
| IPC | `core/src/ipc/` | connections, subscriptions | request, reply, stream |
| kopia driver | `core/src/kopia/`, `daemon/executor.rs` | child process | snapshot, replicate, verify |
| Folder mirror | `engine/mirror.rs` | the mirror folder, temporary files, a bounded channel between walk and copy | walk, receive, copy a file, stop, join |
| Protected content, exports | `engine/protected.rs`, `daemon/content.rs`, `manifest.rs` | none between runs | stage, export |
| Progress throttle | `engine/throttle.rs` | latest frame per destination | coalesce |
| Remote configuration, git inventory, object storage, update | `remote.rs`, `git/`, `s3.rs`, `update.rs` | none, or files | fetch, list, probe, install |
| Platform services | `core/src/platform/` | none | power, network, disk, notifications, autostart |
| Interfaces | `app/src/{cli,gui,tray,service}` | what is on the screen | requests |

### 1.2 How they interact

* Clients call the daemon's handlers, concurrently per connection. Handlers talk
  to the scheduler by messages (`run_now` waits for the answer, `cancel_job` and
  `replace_config` do not) and to the rest through the shared `Runtime`.
* The scheduler is one task with a biased `select!`: shutdown token, command,
  completion, timer. Each run is a task of its own that is handed a snapshot of
  the configuration and sends one completion back.
* A runner starts one driver task per attempt and never aborts it: it tells it
  to stop and, after a grace period, leaves it behind.
* A watcher is a task per on-change job; it asks the scheduler by the same
  mailbox as everyone else.
* The engine reports by a lossy broadcast channel (1024 events). One pump turns
  the events into the list of live runs, the history and the set of jobs held
  back by the lock; auto-lock, Stop and the orderly shutdown read that list.
* Cancellation is a tree: engine token → run token. The first reason stays.
* Durable truth is `state.json` (written by copy and rename), the configuration,
  the vault with its dated copies, `rekey-migration.json` and the cached
  passphrase; everything else is rebuilt at start.
* A request handler is a task of its own that the transport aborts at an await
  after its time-out. The store's lock is held for one read or one save at a
  time, never over a whole handler.
* A mirror run is two threads, a walk and a copy, joined by a channel of 256.

### 1.3 What is hard here

Commands, completions, timers and configuration changes meet in every order; the
queue, four per-job tables and the running runs must agree afterwards. A run can
be stopped, time out and be shut down while a hook, a driver or a back-off is in
progress, and a driver may ignore all three. Replicas are written from other
destinations of the same run. Time decides in three places (schedules, the
debouncer, re-attempts) and is rewritten by edits. Events get lost, the daemon
crashes between two steps, and the vault opens and shuts beside all of it.

Opening the vault touches seven pieces of state in different places and shutting
it touches them again, statement by statement, while other handlers do the same
and any of them may be aborted half way. A rotation rewrites the vault first and
moves the repositories afterwards, one kopia call at a time, each of which may
fail, lie or be cut off. A generated passphrase exists before its repository and
is the only thing that opens it. A mirror copies files that the user is writing.

### 1.4 What makes each part correct

* **Scheduler**: one run per job; slots are neither leaked nor freed early; no
  occurrence is lost; a Stop reaches one job; deleted jobs do not run; queued
  runs are decided; a shutdown reaches every run; the machine is awake when it
  must be.
* **Runner**: a replica only ever follows its source; the record says what
  happened; a stopped run is recorded even if its driver hangs; what is settled
  stays.
* **Planning**: every destination has one entry, sources first, declared order
  otherwise, and only hopeless replicas are blocked.
* **Watcher**: no change is postponed for ever, none is dropped by the minimum
  interval, and the task neither spins nor oversleeps.
* **Pump and run list**: running runs are in the list and ended ones leave it;
  what was handled survives a crash; a backup the lock prevented is made up for.
* **Vault session**: after a lock that nothing overlapped nothing is open and
  nothing opens it again; after an unlock keys, gate, deadline and passphrases
  agree; the start-up never throws away a cache that works; the scheduler has
  the configuration that was saved. All of that whatever was left half done before.
* **Rotation**: the password a repository really has can always be worked out;
  what is left behind is named on disk and kept from the scheduler; what is
  recorded as moved has moved.
* **Generated passphrases**: on disk before the repository is, and there to stay.
* **Mirror**: what looks up to date is a true copy; what is reported as done is
  done; nothing half written stays but where it cannot be removed; no run hangs.

## 2. Modules

| Module | What it models |
|---|---|
| `RunLifecycle` | abstract: what the engine promises of a job's runs. A line, a stage per job, an open or closed engine. |
| `Scheduler` | the loop, step by step, with its mailboxes, clock, environment and run tasks |
| `SchedulerLifecycle` | the mapping from `Scheduler` to `RunLifecycle` |
| `SchedulerProofs` | types, bookkeeping, times and refinement of the scheduler, proved |
| `Replication` | pure: chains, validation and the planner |
| `Planning` | the plan of a run, and what it ought to be, said without the algorithm |
| `Runner` | one run, from its plan on |
| `RunnerProofs` | the planner for every list and link, types and the safety of a run, proved |
| `Watcher` | the debouncer, its task and the scheduler as far as one job goes |
| `WatcherProofs` | the safety of the debouncer, proved |
| `DaemonRuns` | the pump, the run list, the history, the vault's gate, crashes; the engine reduced to the life of a run |
| `DaemonRunsProofs` | every property of the pump and the run list, proved |
| `Session` | unlock, lock, auto-lock, start-up, keychain, settings, commits and the rotation's passphrase, one statement an action |
| `SessionProofs` | every property of the session, proved |
| `VaultFile` | the sealed vault, its dated copies, the open vault in memory; the operations of both modules below |
| `Rotation` | a change of the master passphrase and the walk over the repositories, on `VaultFile` |
| `Keyring` | passphrases generated for repositories, on `VaultFile` |
| `RotationProofs`, `KeyringProofs` | what the vault's operations keep, and every property of the rotation and the keyring, proved |
| `Mirror` | the walk, the channel and the copy of the folder mirror, with the user's writes |
| `MirrorProofs` | types and the safety of the mirror, proved |
| `MC*` | constants and instances for TLC |

### 2.1 Scheduler

`pc` is where the loop stands. `retain` and `resync` are the two halves of
`resync` (drop what belongs to deleted jobs; then job by job, in any order),
`pump` starts or refuses the front of the queue, `select` waits, `fire` handles
the jobs that are due, `stopped` is after `shutdown_runs`. `commands` and
`completions` are the two channels, `task` the run tasks with the cancel reason
each of them sees, `engineCancel` the root token. `SeeCancel`, `TakeRun`,
`TakeCancel`, `TakeConfig`, `TakeCompletion` and `TakeTimer` are the branches of
the `select!`; completions and the timer are guarded by an empty mailbox,
because the select is biased. `TakeCompletion` includes `consider_reattempt`.
`PropagateCancel` is the token reaching a child, `FinishRun` the end of a task.

Abstractions: an interval schedule stands for daily, weekly and cron ones (what
matters is next and last occurrence); triggers `Manual` and `Cli` are treated
alike by the code and are one; the order in which the file lists jobs and the
order of the due set are arbitrary; `last_run` is read per job; the command
`Shutdown` and the root token end the loop alike and are one; a file change is
a run command; spawning a watcher succeeds; run ids are reused once nothing
holds them (they are UUIDs in the code); time moves only while the loop waits
or after it ended. `MaxMailbox` bounds the commands waiting, `MaxNow` the clock.

### 2.2 Replication and Runner

`Replication` translates `replication_chain`, `replication_root`,
`validate_replication` and `plan_destinations` as functions: `Place` is the body of
the planner's inner loop, `Pass` one walk over what is left, `PlanPasses` the outer
loop (a pass without progress changes nothing, so instead of ending early it is
repeated as often as the list is long). `Planning` has the request and the plan as its
variables, with the reference: a destination is in or behind a loop if it lies in a
set whose members are all filled from others of the set (`Looped`), connected if it
is in every set closed under being filled (`Fed`), and listed in a workable order if
it lies in a set of positions each behind its source's (`InOrder`). `Runner` goes on
from the plan. In `Runner`,
`phase` is where `execute` stands. A driver call, which is prepare, then
snapshot, mirror or replicate, is one external task that ends as `ok`, `warned`,
`transient`, `permanent` or, once the token fired, `cancelled`; a panic of the
worker is an error. `StartDriver` spawns it, `TakeResult` and `TakeFailure` are
the two arms after it, `GraceOver` leaves it behind as `stray` and a stray may
still write (`StrayEnds`). `TimedOut` is the translation in `finalise`, `Record`
the `state.record` with the completion. Time is abstract: a sleep may always be
over. Staging cannot be interrupted, as in the code; the after hook has a fresh
token. Left out: progress, bandwidth, retention, dry runs and log lines.

### 2.3 Watcher

Instants are kept as ages, capped where they stop to matter. Reports at one
instant are one to the debouncer. `Fire` and `Wait` are the two outcomes of a
poll, `TakeSignal` and `WakeUp` the branches of the select. `run` is what the
scheduler makes of the job. The variable `change` belongs to the properties: what
became of the last change, `read` by a run, `held`, `ignored` because a run was
in progress, `refused` by a gate or a Stop, or lost with a `replaced` watcher.
That a trigger may stand for a rescan is left out (the scheduler ignores it), and
so is the last poll of a watcher that was just cancelled.

### 2.4 DaemonRuns

The engine is the life of a run (`new → queued → running → stopping → over`, or
`skipped` by a gate, or `dropped` from the queue without a word) with the events
it sends; ids are used once. The channel overwrites its oldest event when full
and tells the pump that it missed some. The daemon spawns the scheduler before it
subscribes the pump (`Attach`), and what is sent before that nobody hears.
Each handler of the pump is one step up
to its first await that matters: `OnFinished` then saves, `OnLocked` and
`OnRefused` record and then save; `CopyState` and `WriteState` are the two
halves of `save_state`, whose second half may fail: that is only logged, the disk
keeps what it had and the pump goes on. Opening the vault is three steps (gate, take the held
jobs, ask for each) that anything may come between, the transport's time-out
included (`Abort`): it loses the jobs that were taken and not asked for yet.
`durable` and `cutOff` belong to the properties. `Crash` may happen anywhere;
after it the history is what was on disk and the engine catches up on the jobs
whose last recorded run is older than the occurrence that was missed. Other
events only decorate an entry and are left out, as are the history's length and the
store behind the gate. `load_state` is assumed to read what was written (it begins
anew when it cannot).

The orderly stop is a task of its own (`main`): it asks for the runs to stop or
waits for them (`AskStop`, `FinishRuns`), fires the engine's token, waits for the
connections and saves (`LastCopy`, `LastWrite`). The last save may fail like
any other. Both of its waits have a grace period, so `FinishRuns` and `LastCopy` may come at any time after the step before; the
engine ends when its loop next looks (`EngineStops`), runs in flight end after it,
and the pump and clients go on beside all of this until `Crash`, which stands for
the end of the process as well.

### 2.5 Session

Each operation is a script of places, one statement of the code each: `unlock`
(`unlock_with`, then `on_unlocked`), `boot` (`try_keychain_unlock`), `lock`,
`stepdown` (the auto-lock task that is refused), `rearm` (any request that arms
the deadline anew), `settings`, `commit` and `rotate`. `op[a]` is what an actor is
doing, `Abort` the transport's time-out, `Crash` the end of the process. The cache
is two halves: `sidecar` is the sealed file, `opener` says who has the key that
opens it (the keychain, an operation that is about to store it, or nobody).
`alone` marks an operation that nothing else overlapped from beginning to end;
`fresh` and `heard` say that a configuration in hand, or the scheduler's, is the
saved one.

Abstractions: writing the cache's file succeeds, the keychain may refuse anything;
a keychain call that an aborted handler leaves behind happens at once or never; a
key that opens nothing may be in the keychain or not; `auto_lock_minutes` is
positive; the confirmation expires only between operations. A rotation's
repositories are in `Rotation`, the held-back runs in `DaemonRuns`; passkeys,
status broadcasts and events are left out.

### 2.6 VaultFile, Rotation and Keyring

A vault is a generation of the key hierarchy and the passphrases generated for
repositories. Each operation of the store is one step, because it runs under the
store's lock without an await; each that writes may fail, and the ones that
change memory before they save leave it changed (`dirty`). `Rotation` gives each
generation the walk of the rotation that made it (`rot`): `Commit` rewrites the
vault, `WriteReport`, `Spawn` and `Push` tell disk and scheduler, `Probe`,
`TryOld`, `ChangePassword`, `Verify` and `Mark` are the kopia calls for one
repository in the code's order, `Finish`, `Told` and `Last` the end. kopia may
have done what it says it did not, and the reverse. `report` is on disk,
`migration` and `paused` are what the daemon and the scheduler hold. `Keyring`
follows `repo.create` from the passphrase to the repository (`Ensure`, `Bind`,
`Make`) beside everything else that writes the vault. `Restore` puts a copy back
while the daemon is down, which `vault restore` insists on.

A second change is refused while a migration is pending (`Ask`), but `migration` is
set only at `rekey.rs:316`, after the awaits that follow the commit (one of them a
keychain prompt): until then another change is let through, and two walks go on side
by side. `asked` are the changes let through, each known by the generation its
passphrase opens; `Granted` is the check at the vault's lock. `alone` says that no
rotation was committed beside another.

Left out: a run that is in flight on a destination when the walk reaches it,
credentials of object stores, `set_secret` aimed at the passphrase of a
repository itself, and `remote_apply`, which replaces the live vault by a signed
remote one while the daemon is up. `resume_rekey` is called by nothing.

### 2.7 Mirror

A file is the sequence of its chunks, each named by the write that left it, and a
modification time in units longer than `MTIME_TOLERANCE_SECS`; within one unit a
file only grows. `Scan` is one step of the walk, whose item beyond `Cap` is the
one it stands with in `blocking_send`; `Receive`, `OpenCopy`, `ReadChunk`,
`Rename` and `Join` are the copy. `Write` (grow, rewrite, replace, remove) is the
user; a worker goes on reading the file it opened when another takes its name
(`fd`). Two members of `Runs` are two calls at once: a copy left behind by a
stopped run beside the next, or two jobs with one folder. A copy that is given up or
stopped removes its temporary file (`Sweep`), and the error of doing so is discarded,
so that the file may stay. `steady`, `alone` and `lost` belong to the properties.

Assumed: `set_modified` succeeds (a failure is only logged, and the copy is then
made again), and two writes that leave a file with the same length are further
apart than the tolerance; a size-and-time check can see neither. Left out:
several sources (one after the other, each in a folder of its own), exclusions,
empty folders, throttling, the dry run, edits of the mirror folder by others, and
the prune, which nothing switches on. A folder that cannot be read is one warning
in the code and a warning for each of its files here; beyond a hundred
(`MAX_WARNINGS`) the code counts warnings without a text. What a walk will find is
fixed when the call starts, where the code lists one folder after another.

## 3. Model-checked

Bounds are chosen so that the smallest conflict of each kind fits: two runs of
one job and a bystander, a limit lowered below what runs, a replica of a replica,
a channel that overflows, two repositories one of which is left behind, a walk
that stands at a full channel.

| Run | Instance | Shows |
|---|---|---|
| `scheduler_queue` | 3 jobs, 3 run ids, 2 slots or (limit 0, read as) 1, a job deleted and restored, locked or open vault, run, Stop, configuration, shutdown; mailbox of 1 | queue, slots and ids keep their bookkeeping; the limit holds at every start; a Stop is isolated; every step is one of `RunLifecycle` |
| `scheduler_time` | 2 jobs, 1 slot: an on-change job with a re-attempt, edited into one of every 2 ticks, beside an hourly one that becomes manual while runs are paused; Stop, shutdown, late timers; clock to 2 | no occurrence is lost, watchers and power follow; queued runs are decided, slots are freed, a shutdown ends |
| `runner` | up to 3 destinations side by side, in a chain listed backwards, in a fan with an orphan, in a loop, all switches; and every linking of 3 (dangling, self and cyclic links included) with every length of the list; depth 2 so that chains can be too long; 3 attempts, as in the code | the plan against a reference said without the algorithm; passphrases of chains; replicas, drivers, record; stopped and limited runs end |
| `runner_chain` | 9 destinations in a row, depth 8 as in the code | expected violation, section 3.2 |
| `runner_skipped` | replicas whose source is not in the run | expected violation, section 3.2 |
| `watcher` | debounce 2, patience 6, minimum interval 8, so that each of the three is sometimes the one that decides | timer exact, triggers in time, changes held, churn saved |
| `daemon_runs` | 2 runs, 2 jobs, 2 clients, channel of 2, a late pump, failing saves, aborted unlocks, an orderly stop, crashes; jobs, runs and clients alike | list, history, last save, held-back jobs |
| `session` | 2 clients, the timer and the start-up, 2 passphrases, 2 operations at a time | locks, unlocks, start-up, rotations and commits are whole after whatever half-done work |
| `rotation` | 2 repositories, 3 generations (two rotations, also side by side), 3 copies kept, 1 other change, 2 faults | no repository is lost sight of, touched while in use or taken for moved |
| `keyring` | 2 repositories, 2 generations, 2 passphrases each, 3 copies kept, 2 other changes, 2 faults | passphrases are saved first and stay |
| `keyring_unsaved` | 1 repository, 2 faults | expected violation, section 3.2 |
| `mirror` | 4 plays: 3 files, a write, a trouble; 1 file, 2 writes, a trouble; 1 file, a write, 2 calls, a trouble; 2 files, 2 calls, a trouble; room for 1 item, 2 chunks | true copies, honest ends, no leftovers, no hang |

The name lists in the runner and the planner may be prefixes of one order: names
are interchangeable, and the validator rejects duplicates. A run id set as large
as the job set is enough: a job has at most one run and ids come back, so an idle
job always finds one nobody holds (`IdsToSpareHolds`). Run ids are alike, and so are the two jobs
of the queue instance that are never deleted or stopped: both are symmetry sets
there, where no liveness is checked. The clock's two ticks cover a firing, a late
firing and a re-attempt in between; the theorem speaks of any clock. Three destinations
are the least with a loop and a bystander, or a chain listed backwards; the planner's
theorems speak of any number. Two run ids in `DaemonRuns` are the least with
which an entry can be overtaken, a skip be the second of a locked stretch, and
the pump lag by a whole run.

Two operations at a time in `Session` are enough because its properties are about
one that is alone: what others left behind is a state, and every state two
overlapping operations can leave is reached. Three copies and three
generations in `Rotation` let an interrupted rotation be followed by a second one, or
two walk at once, before a copy is pruned. A *trouble* in `Mirror` is a stop, a file that fails or a
death; the plays end, which is why `mirror` is the run that does not look for
deadlocks (`RunEnds` does it there). The type invariants of `Scheduler`, `Runner`,
`DaemonRuns`, `Session`, `Rotation`, `Keyring` and `Mirror` are proved and not asked of
a run.

### 3.1 Fairness

* `Scheduler`: weak fairness of the loop (a tokio task that is ready is polled),
  of every run's end (a driver either ends or is left after the grace period, see
  `StopEnds`; ordinary runs are assumed to end) and of the token reaching its
  children; strong fairness of taking a completion and of the timer, because each
  poll that finds the mailbox empty looks at them. A mailbox that never runs dry
  starves both in the code, so the liveness properties assume that it is empty
  again and again (`QuietMailbox`); nobody is obliged to send anything.
* `Runner`: weak fairness of `execute` and of the watchdog; none of drivers.
* `Watcher`: weak fairness of the task and of the scheduler's mailbox; strong
  fairness of the clock, because time passes however often the tree changes.
* `Mirror`: weak fairness of the walk and of the copy: reads and writes return, and
  a thread that can go on does.
* `DaemonRuns`, `Session`, `Rotation` and `Keyring` are checked for safety only.

### 3.2 Where the code and its documents disagree

Three are shown by TLC.

`keyring_unsaved` shows one by TLC: a generated passphrase whose save failed stays
in memory (`handler.rs:4483`); the next attempt finds it there, saves nothing and
creates the repository, and a lock or the end of the process loses the only copy.
`handler.rs:4457` says that the passphrase is saved first. `KeyStays` names the case
as its exception.

`runner_chain`: a chain of exactly eight hops is valid and has no root
(`model.rs:205`, one turn fewer than `model.rs:223`), so the passphrase of its last
replica is not found, though `model.rs:199` says that a validated configuration always
has one. `ValidPlansRun` is claimed for shorter chains.

`runner_skipped`: a run all of whose destinations were skipped, replicas of a source
the run leaves out, is recorded as a success with warnings (`state.rs:290`) and has the
success hook run. `runner.rs:403` calls that exactly the
wrong thing to say, and avoids it for a failed before hook only. `RecordIsHonest`
speaks of single destinations and of full success.

Met while modelling, and named by the exception of the neighbouring property or
left out of a model:

* *Scheduler.* Editing only the folders of an on-change job keeps the old watcher
  (`scheduler.rs:558`, `watcher.rs:157`). The re-attempt count is not cleared by the
  ordinary schedule (`scheduler.rs:361`).
* *Run list.* A queued run that is stopped stays in the list of live runs
  (`engine/mod.rs:134`; exception of `ActiveIsCurrent`). A skip for the locked vault
  is recorded as the job's last run, and a restart forgets the job
  (`scheduler.rs:46`; exception of `SkippedIsRemembered`).
  An unlock that the transport aborts between taking the held-back jobs and asking for
  them forgets them (`lifecycle.rs:96`, `ipc/server.rs:896`; the same). Skips refused
  before the pump subscribes are lost (`mod.rs:282`).
* *Saves.* A save of the history that fails is only logged (`mod.rs:639`); after the
  last one nothing is saved again (exceptions of `HandledIsDurable` and `StopIsSaved`).
* *Orderly stop.* Nothing serialises the last `save_state` (`mod.rs:359`) with the
  pump's (`events.rs:389`), and an older copy may be written over a newer one
  (exceptions of `StopIsSaved` and `HandledIsDurable`). `mod.rs:885` says that the
  engine's token has fired when the grace period ends; it is fired after that
  (`mod.rs:348`), so runs that were only waited for get no time to end. A queued run
  that is stopped leaves no event, so `finish_runs` waits for it the whole period.
* *Rotation.* `rekey.rs:184` asks to let one change finish before another; one that
  arrives between the commit of the first and its report is let through. Two walks then
  share one report and one suppression: the first to end clears both while the second
  has repositories in hand, and a failed write leaves them apart (`MovedUnderCover`,
  `PausedIsNamed` and `LeftBehindIsNamed` are claimed only without such an overlap;
  `MarkedIsMoved` and `OldKeysHeld` always).
  A rotation that failed or was interrupted cannot be retried: a new one
  is refused while the migration is pending and `resume_rekey` has no caller, though
  messages promise it (`rekey.rs:146`, `408`). A derived destination whose
  repository was never created keeps it pending for ever. A prune that fails after
  the commit reports a failed rotation and leaves no report (exception of
  `LeftBehindIsNamed`). Each saved secret prunes the copies to twelve, the one an
  unfinished migration needs included, against `rekey.rs:39` (exception of
  `OldKeysHeld`). Restoring a copy leaves report and suppression as they were.
* *Session.* `runtime.rs:500` says that changing the passphrase withdraws the
  confirmation; nothing does. Unlocking a vault that is open does not check the
  passphrase (`handler.rs:3550`). `reload_config` does not apply the keychain
  setting. Applying a remote configuration shuts the vault with the gate open.
* *Mirror.* Two jobs that mirror folders of one name into one place share a folder,
  where a file of equal size and time counts as up to date
  (`unique_folder_name` knows the names of one run, `mirror.rs:14`). The prune takes
  an unreadable source for a removed one (`mirror.rs:39`). A temporary file left by a
  dead process, or one that could not be removed (`mirror.rs:699`, `708`, `717`, `737`
  discard the error), stays for good: nothing looks for `.sbtmp-` files. A copy left behind by a stopped run may put an older
  version over a newer one; it does not look up to date, and the next run repairs it.
  A file that became a folder, or a folder that became a file, is never mirrored. A
  file that keeps growing is copied as long as it grows.

## 4. Proved

TLAPS proves the following for all jobs, runs, configurations, requests and
inputs that satisfy the named assumptions on the constants (which TLC evaluates
on every run).

**Scheduler** (`SchedulerProofs`). `TypeCorrect` is inductive by itself.
`OneRunPerJob`, `SlotAccounting`, `QueueOnce` and `IdsAreFresh` are not: that two
runs of a job are never in flight follows only from what the slots, the queue and
the two ends of the completion channel know of each other. The inductive
invariant `IInv` has these parts: the types; `Waiting` (a queued run holds an
unused id, its job waits once and has no slot); the slots (each run in flight
holds the slot of its job while the loop lives); `Returning` (each completion
belongs to a slot that is still held, to a run that has ended, once);
`Forgotten` (after the loop ended there is nothing left to give out). The lemmas
`WaitingShrinks` and `WaitingGrows` say that removing entries from the queue and
appending one keep `Waiting`; `RunsStay` covers every step that touches neither
slots nor completions; only starting, completing and ending a run are proved on
their own.

On that invariant rest two action properties and the refinement. For
`ParallelLimit` only `PumpStart` adds to the runs in flight (`StartsAdd`), and every
one of them, the new one included, has a slot of its own job (`SlotsCover`): the
slots taken bound them, and the pump starts below the limit. For
`CancelIsIsolated` the slot a Stop looks up is that of the job's own run
(`StopReaches`). `SchedulerImplementsLifecycle` shows that `Spec` implements
`RunLifecycle`: for each action of the scheduler the stage of the one job it touches
moves as the promise says while every other stage stays (`StageKept`), and the line
is joined at its end and left anywhere (`LineAppend`, `LineRemove`); the steps
the promise does not see are stutters (`StutterStep`).

`NoOccurrenceLost` needs an invariant of its own, `Timed`. A job may be armed for no
later than the next occurrence of the schedule the loop *knows* for it (`Kept`),
which after an edit is the old one; resync brings the four tables of one job in line
with the configuration (`InSync`, for the jobs `Dealt` with), and from there to the
next edit a re-attempt only brings a firing forward and a late timer re-arms on
the grid. That the bound holds while the clock moves is arithmetic on the grid
(`NextOccurrenceLater`, `NextOccurrenceMoves`).

**Runner** (`RunnerProofs`). From one inductive invariant: `TypeCorrect`,
`ReplicaFollowsSource`, `OneDriver`, `RecordIsHonest` and the action property
`SettledStays`. Its parts tie the phase to the driver (`Driving`), destinations
before the index to settled statuses and later ones to `Queued` (`Turn`), good
statuses to what was written (`Backed`) and cancelled ones to a fired token
(`Told`). Only two facts about
the plan enter, both proved below: its entries are well formed (`PlanIsRight`), and a
source comes before its replicas while what is held up is what no chain connects to
the job's sources (`RightPlanFeeds`). From the second, `HealthyRunReachesAll` is that a
run turns such a plan into these skips and no others (`Reached`). Assumed are
the shape of the request (`RequestAssumption`) and that bounds are positive.

**Planner** (`RunnerProofs`). `SourceGoesFirst`, `OnlyTheUnworkableMove` and
`ValidPlansRun` for any list, any links and any number of hops. Nothing here steps but
the recursion, so the proofs are inductions over its depth; they rest on one fact,
that a nonempty set of numbers has a least element (`Least`), which gives induction
over an interval (`Induction`) and that a recursive function satisfies its equation
(`Recursion`), both said of sets and functions rather than of operators. The loop
invariant of a pass is `WellPlaced` (placed and deferred are what was listed, each
placed entry fits what is before it) with `Unlooped` (nothing placed is in or behind a
loop). A pass places something or finds everything left to wait for something left
(`Stuck`), which is a loop; so after as many passes as the list is long nothing but
loops is left (`LastPass`). The order is kept because the first pass already places
what is listed in a workable order (`FirstPassKeeps`) and later ones only append. For
the validator, a chain ends in at most one root (`OneRoot`) and one that ends is in no
loop (`NoRootInLoop`), so what it accepts is never blocked.

**Watcher** (`WatcherProofs`). `FiresOnTime` and `ChangeIsHeld` for every debounce,
multiplier and minimum interval. The invariant is about the timer: what is left of a
sleep is what `next_wake` would answer now (`SleepIsExact`), kept as each second
shortens both by one (`TickShortens`), so `poll` and `next_wake`, two functions written
apart, agree when the sleep ends.

**Pump and run list** (`DaemonRunsProofs`). All five properties for any jobs, runs,
clients and capacity of the channel. The invariant orders the channel: an event that
shows a run as live is of a run that has not ended, or one that retires it comes
later (`Heard`); overwriting takes the oldest event and keeps that order. A pump that is not
subscribed yet has missed what is sent (`Emit`). With it
go that a job has one run that waits or runs (`OneAtATime`) and that a job that is
owed a run has none (`OwedIsIdle`). Any save may fail, and
at a stop two copies of the history may be on their way to the disk, either of which
may be written last. So what is proved durable is a run that a save did put on disk
while no other was about to write a copy without it: memory, the disk and both copies
hold those (`Saved`), and what an earlier life of the daemon recorded (`PastIsSaved`),
which is why a skip that excuses `SkippedIsRemembered` does not vanish.

**Session** (`SessionProofs`). Every property, for any connections, passphrases and
operations at a time. The properties speak of the end of an operation, so the
invariant follows one: for each kind a script says which consequences are there
at each place (`LockScript`, `UnlockScript`, ...), and need only say so of an
operation that is alone, because nobody else acts then (`Alone`). `Fits` ties
places to kinds; `Early` says that nothing can come between the start-up until it
arms the auto-lock. Aborted, overlapped and crashed operations need no script.

**Rotation** (`RotationProofs`). Every property, for any repositories, copies kept,
generations, failures, restores and crashes. Nothing bounds the rotations under way, so
the invariant is a ladder (`Ladder`): each begins at a password where an earlier one
ended, or later, and moves a repository only from that password to its own. What one
of them has in hand no other moves, and what is recorded as moved only goes up. One
that was committed with nothing else under way or pending, and beside which no other
was committed, is alone until it ends (`Cover`): what it has not moved yet is what the
daemon holds for unfinished, named by the report and suppressed. With no rotation under
way the same is said of every repository on an older password, and also of one about to
be *created* with one (`StaleIsNamed`), which is what carries the property over a
creation that overlaps a rotation; it starts from the fact that only a repository that
does not exist is being created (`Creating`), and counts such passwords among those a
copy must still give (`Held`).

**Keyring** (`KeyringProofs`). `KeyStays` and `KeyIsSomewhere` for any
repositories, copies kept, saves, rotations, crashes and restores. The vault's
lemmas say of each operation that it keeps the vault's type and that what is on
disk afterwards was there before or is the file it wrote. The invariant adds to
the properties that memory holds no passphrase the file does not, but for one that
failed to be saved (`MemoryIsFile`), and that nothing is asked for while the daemon
is down (`DownIsQuiet`).

**Mirror** (`MirrorProofs`). All three safety properties, for any files, calls and
room in the channel. While a file still has the modification time an item was
scanned with it has only grown since, so what a worker holds of it is its
beginning (`Aged`, `Reads`), and so is every copy of the same age (`MirrorFits`): if
it is as long, it is equal. Of a file the user leaves alone each item is current
(`Steady`), and a call that works alone has it between the walk and the mirror
(`Covered`); `Apart` carries that over to whoever comes next.

**What liveness rests on.** That a fair execution gets somewhere is a conclusion from
fairness and a well-founded order; it needs `ENABLED` and an induction over behaviours,
which are out of the prover's reach, so `QueuedIsDecided`, `ShutdownEnds`, `StopEnds`,
`ChurnIsSaved` and `RunEnds` are only model-checked, each on its instance. What they
rest on is safety, and that is proved for every value of the constants. In each case
there are two halves: somebody the fairness speaks of can go on, and each of their steps
descends in a well-founded order that nobody else's step climbs back.

* *Scheduler*, stopping. After a shutdown every step of the loop reaches its next part or
  leaves less of the queue or of the todo (`StopCountsDownHolds`); the end tells every
  run in flight (`NoRunUntoldHolds`), and from then on they only become fewer
  (`StoppedForGoodHolds`).
* *Scheduler*, waiting. Whenever the loop sleeps, the queue is empty or every slot is
  taken (`NoIdleSlotHolds`: no wakeup is lost); no run is ever moved back in the queue
  (`NobodyOvertakesHolds`); and no enqueue waits for an id (`IdsToSpareHolds`, from
  `IdsAssumption`: there are as many ids as jobs, or infinitely many, as with uuids).
* *Runner*. Whenever `execute` cannot go on, it awaits a driver, nobody has asked for
  the end, and a run with a limit still has its watchdog (`OnlyADriverIsAwaitedHolds`).
  Each step of `execute` comes nearer the end in the order destination, part, attempt,
  part of the attempt, and drivers, stops and the watchdog take nothing back
  (`ExecuteCountsHolds`).
* *Watcher*. While a change is pending, the sleep is never longer than `Delay`
  (`SleepIsAlwaysBounded`), which no event in the tree lengthens and every second
  shortens; at zero `poll` says yes (`DelayAlwaysRunsOut`).
* *Mirror*. A working call always has a thread that can go on, for any room in the
  channel (`NeitherThreadHangs`). Each step of either thread gets further through the walk,
  the channel and the item in hand, and no write, stop or other call sets it back
  (`EachStepCountsHolds`); what is read of a file is bounded (`CallsAreBounded`).

`CanExecute`, `CanScan` and `CanCopy`, the guards written out, stand for `ENABLED` of
`Execute`, `Scan` and `Copy` in these theorems. Every safety property of a passing run
is proved, for every value of the constants.

## 5. Not modelled

The not modelled components of section 1.1 and why: ciphers, parsing, HTTP and
presentation are sequential code without a protocol between actors; kopia and the
operating system appear as free choices of their outcomes. Notifications, progress
and log lines are outcomes without consequence for what is modelled. The interfaces
(window, tray, command line), object storage, the git inventory and the platform
services are most of the repository's lines and hold no state that outlives a
request. The instance lock and the handover have consequences and are next.
What a modelled component leaves out is said with its module in section 2.

## 6. Plan

Done, in this order: `RunLifecycle`, `Scheduler` and its proofs, `Replication`,
`Planning`, `Runner` and the proofs of both, `Watcher`, `DaemonRuns` and the proofs of both, `Session` and its proofs,
`VaultFile`, `Rotation`, `Keyring` and the proofs of both, `Mirror` and its proofs. Left:
`InstanceLock` (`platform/single_instance.rs`).

Runs of a new module are added with their component; questions that can share an
instance are asked in one run, so that checking everything stays a matter of
minutes.
