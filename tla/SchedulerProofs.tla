-------------------------- MODULE SchedulerProofs --------------------------
(* Theorems about Scheduler and its life of a run, for every value of the   *)
(* constants.                                                              *)
EXTENDS SchedulerLifecycle, SequenceTheorems, FiniteSetTheorems, WellFoundedInduction, TLAPS

\* What the removal of one entry leaves of a sequence: every other entry, in
\* its order (Cancel and the retain of resync).
LEMMA RemoveAtProperties ==
    ASSUME NEW S, NEW q \in Seq(S), NEW i \in 1..Len(q)
    PROVE  /\ RemoveAt(q, i) \in Seq(S)
           /\ Len(RemoveAt(q, i)) = Len(q) - 1
           /\ DOMAIN RemoveAt(q, i) = 1..(Len(q) - 1)
           /\ \A k \in 1..(Len(q) - 1) :
                RemoveAt(q, i)[k] = IF k < i THEN q[k] ELSE q[k + 1]
<1>1. Len(q) \in Nat /\ q \in [1..Len(q) -> S]
  BY LenProperties
<1>2. Len(q) - 1 \in Nat
  BY <1>1
<1>3. RemoveAt(q, i) \in [1..(Len(q) - 1) -> S]
  BY <1>1 DEF RemoveAt
<1>4. RemoveAt(q, i) \in Seq(S)
  BY <1>2, <1>3, SeqDef
<1>5. QED
  BY <1>2, <1>3, <1>4, LenProperties DEF RemoveAt

\* A queue entry or a command taken from its sequence has its type.
LEMMA Entries ==
    ASSUME TypeOK
    PROVE  /\ \A i \in DOMAIN queue : queue[i] \in Pending
           /\ \A i \in DOMAIN completions : completions[i] \in Completion
           /\ queue # <<>> => Head(queue) \in Pending /\ Tail(queue) \in Seq(Pending)
           /\ commands # <<>> =>
                Head(commands) \in Command /\ Tail(commands) \in Seq(Command)
           /\ completions # <<>> =>
                /\ Head(completions) \in Completion
                /\ Tail(completions) \in Seq(Completion)
BY HeadTailProperties, ElementOfSeq, LenProperties DEF TypeOK

LEMMA EnqueueType ==
    ASSUME TypeOK, NEW j \in Job, NEW t \in Trigger, Enqueue(j, t)
    PROVE  queue' \in Seq(Pending)
<1>1. queue \in Seq(Pending)
  BY DEF TypeOK
<1>2. ASSUME NEW r \in Run,
             queue' = Append(queue, [run |-> r, job |-> j, trigger |-> t])
      PROVE  queue' \in Seq(Pending)
  <2>1. [run |-> r, job |-> j, trigger |-> t] \in Pending
    BY DEF Pending
  <2>2. QED
    BY <1>1, <1>2, <2>1, AppendProperties
<1>3. QED
  BY <1>1, <1>2 DEF Enqueue

LEMMA NextOccurrenceType ==
    ASSUME NEW s \in Schedule, NEW t \in Nat
    PROVE  NextOccurrence(s, t) \in Nat \cup {Never}
<1>1. s.every \in Nat \ {0}
  BY DEF Schedule
<1>2. (t \div s.every) \in Nat
  BY <1>1
<1>3. ((t \div s.every) + 1) * s.every \in Nat
  BY <1>1, <1>2
<1>4. QED
  BY <1>3 DEF NextOccurrence

LEMMA ConfigTypes ==
    ASSUME NEW c \in Config
    PROVE  /\ c.jobs \subseteq Job
           /\ \A j \in Job : c.schedule[j] \in Schedule
           /\ \A j \in Job : c.sources[j] \in Nat
           /\ \A j \in Job : c.retry[j].after \in Nat
BY ConfigAssumption DEF ConfigShape, RetrySettings

\* The earliest firing is one of the armed instants: a set of naturals that
\* is not empty has a least element.
LEMMA FirstFireType ==
    ASSUME TypeOK, Armed # {}
    PROVE  FirstFire \in Nat /\ \E j \in Armed : FirstFire = nextFire[j]
<1> DEFINE T == {nextFire[j] : j \in Armed}
<1>1. T \subseteq Nat /\ T # {}
  BY ZenonT(60) DEF TypeOK, Armed, Never
<1>2. PICK t \in T : \A u \in T : ~(<<u, t>> \in OpToRel(<, Nat))
  BY <1>1, NatLessThanWellFounded, WFMin
<1>3. \A u \in T : t <= u
  <2>1. ASSUME NEW u \in Nat, u < t
        PROVE  <<u, t>> \in OpToRel(<, Nat)
    BY <1>1, <2>1, Zenon DEF OpToRel
  <2>2. \A u \in T : ~(u < t)
    BY <1>1, <1>2, <2>1, Zenon
  <2>3. QED
    BY SMTT(40), <1>1, <2>2
<1>4. FirstFire \in T
  BY <1>3 DEF FirstFire
<1>5. QED
  BY <1>1, <1>4

----------------------------------------------------------------------------
(***************************************************************************)
(* Type correctness.                                                       *)
(***************************************************************************)
LEMMA TypeInit == Init => TypeOK
<1> SUFFICES ASSUME Init PROVE TypeOK
  OBVIOUS
<1>1. NoTask \in Task
  BY DEF NoTask, Task, Reason
<1>2. todo \subseteq Job
  BY ConfigTypes DEF Init
<1>3. lastRun \in [Job -> Nat \cup {Never}]
  BY RestoredAssumption DEF Init
<1>4. <<>> \in Seq(Pending) /\ <<>> \in Seq(Command) /\ <<>> \in Seq(Completion)
  BY EmptySeq
<1>5. task \in [Run -> Task]
  BY <1>1 DEF Init
<1>6. /\ active \in [Job -> Run \cup {NoRun}]
      /\ nextFire \in [Job -> Nat \cup {Never}]
      /\ known \in [Job -> Schedule \cup {NoSchedule}]
      /\ reattempts \in [Job -> Nat]
  BY DEF Init
<1>7. QED
  BY <1>2, <1>3, <1>4, <1>5, <1>6 DEF Init, TypeOK

\* Every step of the loop keeps the types.
LEMMA TypeLoop == TypeOK /\ Loop => TypeOK'
<1> SUFFICES ASSUME TypeOK, Loop PROVE TypeOK'
  OBVIOUS
<1> USE DEF TypeOK, world, tables, power
<1>1. CASE RetainDrop
  <2>1. PICK i \in DOMAIN queue : queue' = RemoveAt(queue, i)
    BY <1>1 DEF RetainDrop
  <2>2. queue' \in Seq(Pending)
    BY <2>1, RemoveAtProperties, LenProperties
  <2>3. QED
    BY <1>1, <2>2 DEF RetainDrop
<1>2. CASE RetainDone
  BY <1>2 DEF RetainDone
<1>3. ASSUME NEW j \in Job, ResyncJob(j)
      PROVE  TypeOK'
  <2>1. config.schedule[j] \in Schedule /\ config.sources[j] \in Nat
    BY ConfigTypes
  <2>2. CASE ResyncOnChange(j)
    BY <1>3, <2>1, <2>2 DEF ResyncJob, ResyncOnChange, Never
  <2>3. CASE ResyncManual(j)
    BY <1>3, <2>1, <2>3 DEF ResyncJob, ResyncManual, Never
  <2>4. CASE ResyncInterval(j)
    <3>1. queue' \in Seq(Pending)
      BY <2>4, EnqueueType DEF ResyncInterval, Trigger
    <3>2. NextOccurrence(config.schedule[j], now) \in Nat \cup {Never}
      BY <2>1, NextOccurrenceType
    <3>3. nextFire' \in [Job -> Nat \cup {Never}] /\ caughtUp' \subseteq Job
          /\ watchers' \in [Job -> Nat \cup {Never}]
      BY <2>4, <3>2 DEF ResyncInterval
    <3>4. QED
      BY <1>3, <2>1, <3>1, <3>3 DEF ResyncJob
  <2>5. QED
    BY <1>3, <2>2, <2>3, <2>4 DEF ResyncJob
<1>4. CASE ResyncDone
  BY <1>4 DEF ResyncDone
<1>5. CASE PumpSkip
  BY <1>5, Entries DEF PumpSkip, CanPump
<1>6. CASE PumpStart
  <2>1. Head(queue) \in Pending /\ Tail(queue) \in Seq(Pending)
    BY <1>6, Entries DEF PumpStart, CanPump
  <2>2. [job |-> Head(queue).job, started |-> now,
         cancel |-> IF engineCancel THEN "Shutdown" ELSE "None"] \in Task
    BY <2>1 DEF Task, Pending, Reason
  <2>3. QED
    BY <1>6, <2>1, <2>2 DEF PumpStart, Pending
<1>7. CASE PumpDone
  <2>1. alarm' \in Nat \cup {Never}
    BY <1>7, FirstFireType DEF PumpDone, Alarm, WakeLead, Never
  <2>2. QED
    BY <1>7, <2>1 DEF PumpDone
<1>8. CASE SeeCancel
  <2>1. \A r \in Run : Cancelled(task[r], "Shutdown") \in Task
    BY ZenonT(60) DEF Cancelled, Task, Reason
  <2>2. <<>> \in Seq(Pending) /\ <<>> \in Seq(Command) /\ <<>> \in Seq(Completion)
    BY EmptySeq
  <2>3. QED
    BY <1>8, <2>1, <2>2 DEF SeeCancel, Never
<1>9. CASE TakeCancel
  <2>1. commands' \in Seq(Command)
    BY <1>9, Entries DEF TakeCancel, Receive
  <2>2. Head(commands) \in Command /\ Head(commands).job \in Job
    BY <1>9, Entries DEF TakeCancel, Receive, Command
  <2>3. queue' \in Seq(Pending)
    BY <1>9, RemoveAtProperties, LenProperties DEF TakeCancel
  <2>4. task' \in [Run -> Task]
    <3>1. \A r \in Run : Cancelled(task[r], "Requested") \in Task
      BY ZenonT(60) DEF Cancelled, Task, Reason
    <3>2. \/ task' = task
          \/ LET r == active[Head(commands).job] IN
               r # NoRun /\ task' = [task EXCEPT ![r] = Cancelled(@, "Requested")]
      BY <1>9 DEF TakeCancel
    <3>3. active[Head(commands).job] \in Run \cup {NoRun}
      BY <2>2
    <3>4. ASSUME NEW r \in Run, task' = [task EXCEPT ![r] = Cancelled(@, "Requested")]
          PROVE  task' \in [Run -> Task]
      BY <3>1, <3>4
    <3>5. QED
      BY <3>2, <3>3, <3>4
  <2>5. pc' = "pump" /\ UNCHANGED <<now, env, completions, engineCancel, lastRun,
                                      todo, config, active, tables, power>>
    BY <1>9 DEF TakeCancel
  <2>6. QED
    BY <2>1, <2>3, <2>4, <2>5
<1>10. CASE TakeRun
  <2>1. Head(commands) \in Command /\ Tail(commands) \in Seq(Command)
    BY <1>10, Entries DEF TakeRun, Receive
  <2>2. Head(commands).job \in Job /\ Head(commands).trigger \in Trigger
    BY <1>10, <2>1 DEF TakeRun, Receive, Command
  <2>3. queue' \in Seq(Pending)
    BY <1>10, <2>2, EnqueueType DEF TakeRun
  <2>4. QED
    BY <1>10, <2>1, <2>3 DEF TakeRun, Receive
<1>11. CASE TakeConfig
  <2>1. Head(commands) \in Command /\ Tail(commands) \in Seq(Command)
    BY <1>11, Entries DEF TakeConfig, Receive
  <2>2. Head(commands).config \in Config
    BY <1>11, <2>1 DEF TakeConfig, Receive, Command
  <2>3. QED
    BY <1>11, <2>1, <2>2, ConfigTypes DEF TakeConfig, Receive
<1>12. CASE TakeCompletion
  <2>1. Head(completions) \in Completion /\ Tail(completions) \in Seq(Completion)
    BY <1>12, Entries DEF TakeCompletion
  <2>2. now + Max1(config.retry[Head(completions).job].after) \in Nat
    BY <2>1, ConfigTypes DEF Completion, Max1
  <2>3. nextFire' \in [Job -> Nat \cup {Never}] /\ reattempts' \in [Job -> Nat]
    <3>1. ConsiderReattempt(Head(completions)) /\ Head(completions).job \in Job
      BY <1>12, <2>1 DEF TakeCompletion, Completion
    <3>2. CASE UNCHANGED nextFire /\ UNCHANGED reattempts
      BY <3>2
    <3>3. CASE /\ UNCHANGED nextFire
               /\ reattempts' = [reattempts EXCEPT ![Head(completions).job] = 0]
      BY <3>1, <3>3
    <3>4. CASE /\ nextFire' = [nextFire EXCEPT ![Head(completions).job] =
                                   now + Max1(config.retry[Head(completions).job].after)]
               /\ reattempts' = [reattempts EXCEPT ![Head(completions).job] = @ + 1]
      BY <2>2, <3>1, <3>4
    <3>5. QED
      BY <3>1, <3>2, <3>3, <3>4 DEF ConsiderReattempt, BringsForward
  <2>4. active' \in [Job -> Run \cup {NoRun}]
    BY <1>12 DEF TakeCompletion, Freed
  <2>5. /\ completions' = Tail(completions) /\ pc' = "pump"
        /\ UNCHANGED <<now, env, commands, engineCancel, task, lastRun,
                       todo, config, queue, known, caughtUp, watchers, power>>
    BY <1>12 DEF TakeCompletion
  <2>6. QED
    BY <2>1, <2>3, <2>4, <2>5
<1>13. CASE TakeTimer
  BY <1>13 DEF TakeTimer, Due, Armed
<1>14. ASSUME NEW j \in Job, FireJob(j)
       PROVE  TypeOK'
  <2>1. queue' \in Seq(Pending)
    BY <1>14, EnqueueType DEF FireJob, Trigger
  <2>2. NextOccurrence(config.schedule[j], now) \in Nat \cup {Never}
    BY ConfigTypes, NextOccurrenceType
  <2>3. QED
    BY <1>14, <2>1, <2>2 DEF FireJob, Rearmed
<1>15. CASE FireDone
  BY <1>15 DEF FireDone
<1>16. QED
  BY <1>1, <1>2, <1>3, <1>4, <1>5, <1>6, <1>7, <1>8, <1>9, <1>10, <1>11,
     <1>12, <1>13, <1>14, <1>15 DEF Loop

\* So does everything around it.
LEMMA TypeRest == TypeOK /\ (Runs \/ Daemon) => TypeOK'
<1> SUFFICES ASSUME TypeOK, Runs \/ Daemon PROVE TypeOK'
  OBVIOUS
<1> USE DEF TypeOK, world, tables, power
<1>1. ASSUME NEW r \in Run, PropagateCancel(r)
      PROVE  TypeOK'
  BY <1>1, ZenonT(60) DEF PropagateCancel, Task, Reason
<1>2. ASSUME NEW r \in Run, NEW outcome \in Outcome, FinishRun(r, outcome)
      PROVE  TypeOK'
  <2>1. task[r] \in Task /\ NoTask \in Task
    BY DEF NoTask, Task, Reason
  <2>2. task[r].job \in Job /\ task[r].started \in Nat
    BY <1>2, <2>1 DEF FinishRun, Task
  <2>3. [run |-> r, job |-> task[r].job, outcome |-> outcome] \in Completion
    BY <2>2 DEF Completion
  <2>4. completions' \in Seq(Completion)
    BY <1>2, <2>3, AppendProperties DEF FinishRun, Handback
  <2>5. task' \in [Run -> Task] /\ lastRun' \in [Job -> Nat \cup {Never}]
    BY <1>2, <2>1, <2>2 DEF FinishRun
  <2>6. UNCHANGED <<now, env, commands, engineCancel,
                    pc, todo, config, queue, active, tables, power>>
    BY <1>2 DEF FinishRun
  <2>7. QED
    BY <2>4, <2>5, <2>6
<1>3. ASSUME NEW c \in Command, Send(c)
      PROVE  TypeOK'
  BY <1>3, AppendProperties DEF Send
<1>4. CASE Request
  BY <1>3, <1>4, InputAssumption DEF Request
<1>5. ASSUME NEW j \in Job, FileChange(j)
      PROVE  TypeOK'
  <2>1. [type |-> "run", job |-> j, trigger |-> "FileChange"] \in Command
    BY DEF Command, Trigger
  <2>2. QED
    BY <1>3, <1>5, <2>1 DEF FileChange
<1>6. ASSUME NEW e \in Environment, SetEnvironment(e)
      PROVE  TypeOK'
  BY <1>6 DEF SetEnvironment
<1>7. CASE Shutdown
  BY <1>7 DEF Shutdown
<1>8. CASE Tick
  BY <1>8 DEF Tick
<1>9. CASE Halted
  BY <1>9 DEF Halted, vars
<1>10. QED
  BY <1>1, <1>2, <1>4, <1>5, <1>6, <1>7, <1>8, <1>9 DEF Runs, Daemon

LEMMA TypeStep == TypeOK /\ [Next]_vars => TypeOK'
<1>1. TypeOK /\ UNCHANGED vars => TypeOK'
  BY DEF TypeOK, vars, world, tables, power
<1>2. QED
  BY <1>1, TypeLoop, TypeRest DEF Next

\* Every value the scheduler holds keeps its type, for any number of jobs,
\* any set of configurations and any bounds.
THEOREM TypeCorrect == Spec => []TypeOK
<1>1. QED
  BY TypeInit, TypeStep, PTL DEF Spec

----------------------------------------------------------------------------
(***************************************************************************)
(* The inductive invariant.  OneRunPerJob says nothing of the queue or of  *)
(* the completions, yet it is their bookkeeping that keeps it: a run is    *)
(* started only when its job's slot is empty, and a slot is emptied only   *)
(* when its run is really over.  IInv states the three places a run id can *)
(* be in (waiting, in flight, on its way back) and keeps them apart.       *)
(***************************************************************************)
Waiting(q) ==
    /\ \A i, k \in DOMAIN q :
         q[i].job = q[k].job \/ q[i].run = q[k].run => i = k
    /\ \A i \in DOMAIN q :
         /\ q[i].run \notin InFlight
         /\ \A j \in ActiveJobs : active[j] # q[i].run /\ j # q[i].job

Returning ==
    /\ \A i, k \in DOMAIN completions : completions[i].run = completions[k].run => i = k
    /\ \A i \in DOMAIN completions :
         /\ active[completions[i].job] = completions[i].run
         /\ completions[i].run \notin InFlight

Forgotten ==
    pc = "stopped" => queue = <<>> /\ completions = <<>> /\ ActiveJobs = {}

IInv ==
    /\ TypeOK
    /\ OneRunPerJob
    /\ SlotAccounting
    /\ Waiting(queue)
    /\ Returning
    /\ Forgotten

LEMMA InvInit == Init => IInv
<1> SUFFICES ASSUME Init PROVE IInv
  OBVIOUS
<1>1. TypeOK
  BY TypeInit
<1>2. InFlight = {} /\ ActiveJobs = {}
  BY SentinelAssumption DEF Init, InFlight, ActiveJobs, NoTask
<1>3. DOMAIN queue = {} /\ DOMAIN completions = {}
  BY EmptySeq DEF Init
<1>4. pc # "stopped"
  BY DEF Init
<1>5. QED
  BY <1>1, <1>2, <1>3, <1>4
     DEF IInv, OneRunPerJob, SlotAccounting, Waiting, Returning, Forgotten

\* Leaving some entries of the queue out disturbs nothing.
LEMMA WaitingShrinks ==
    ASSUME IInv, NEW q \in Seq(Pending),
           NEW f \in [DOMAIN q -> DOMAIN queue],
           \A i, k \in DOMAIN q : f[i] = f[k] => i = k,
           \A i \in DOMAIN q : q[i] = queue[f[i]]
    PROVE  Waiting(q)
BY DEF IInv, Waiting

LEMMA WaitingWithout ==
    ASSUME IInv, NEW i \in DOMAIN queue
    PROVE  Waiting(RemoveAt(queue, i))
<1> DEFINE q == RemoveAt(queue, i)
<1> DEFINE f == [k \in DOMAIN q |-> IF k < i THEN k ELSE k + 1]
<1>1. /\ queue \in Seq(Pending) /\ i \in 1..Len(queue)
      /\ DOMAIN queue = 1..Len(queue) /\ Len(queue) \in Nat
  BY LenProperties DEF IInv, TypeOK
<1>2. q \in Seq(Pending) /\ DOMAIN q = 1..(Len(queue) - 1)
  BY <1>1, RemoveAtProperties DEF RemoveAt
<1>3. f \in [DOMAIN q -> DOMAIN queue]
  BY <1>1, <1>2
<1>4. \A k \in DOMAIN q : q[k] = queue[f[k]]
  BY <1>1 DEF RemoveAt
<1>5. \A k, m \in DOMAIN q : f[k] = f[m] => k = m
  BY <1>1, <1>2
<1> HIDE DEF q, f
<1>6. Waiting(q)
  BY <1>2, <1>3, <1>4, <1>5, WaitingShrinks
<1>7. QED
  BY <1>6 DEF q

LEMMA WaitingTail ==
    ASSUME IInv, queue # <<>>
    PROVE  Waiting(Tail(queue))
<1> DEFINE q == Tail(queue)
<1> DEFINE f == [k \in DOMAIN q |-> k + 1]
<1>1. queue \in Seq(Pending)
  BY DEF IInv, TypeOK
<1>2. /\ q \in Seq(Pending) /\ DOMAIN q = 1..(Len(queue) - 1)
      /\ DOMAIN queue = 1..Len(queue) /\ Len(queue) \in Nat
      /\ \A k \in DOMAIN q : q[k] = queue[k + 1]
  BY <1>1
<1>3. f \in [DOMAIN q -> DOMAIN queue]
  BY <1>2
<1>4. \A k \in DOMAIN q : q[k] = queue[f[k]]
  BY <1>2
<1>5. \A k, m \in DOMAIN q : f[k] = f[m] => k = m
  BY <1>2
<1> HIDE DEF q, f
<1>6. Waiting(q)
  BY <1>2, <1>3, <1>4, <1>5, WaitingShrinks
<1>7. QED
  BY <1>6 DEF q

\* enqueue adds an idle job, under an id nobody holds.
LEMMA WaitingGrows ==
    ASSUME IInv, NEW j \in Job, NEW trigger \in Trigger, Enqueue(j, trigger)
    PROVE  Waiting(queue')
<1>1. CASE queue' = queue
  BY <1>1 DEF IInv, Waiting
<1>2. ASSUME active[j] = NoRun, j \notin QueuedJobs, NEW r \in Run \ UsedRuns,
             queue' = Append(queue, [run |-> r, job |-> j, trigger |-> trigger])
      PROVE  Waiting(queue')
  <2>1. queue \in Seq(Pending) /\ [run |-> r, job |-> j, trigger |-> trigger] \in Pending
    BY DEF IInv, TypeOK, Pending
  <2>2. /\ Len(queue) \in Nat /\ DOMAIN queue = 1..Len(queue)
        /\ DOMAIN queue' = 1..(Len(queue) + 1)
        /\ \A i \in DOMAIN queue : queue'[i] = queue[i]
        /\ queue'[Len(queue) + 1] = [run |-> r, job |-> j, trigger |-> trigger]
    BY <1>2, <2>1
  <2>3. /\ r \notin InFlight
        /\ \A k \in ActiveJobs : active[k] # r /\ k # j
        /\ \A i \in DOMAIN queue : queue[i].run # r /\ queue[i].job # j
    BY <1>2 DEF UsedRuns, QueuedJobs, ActiveJobs
  <2>4. \A i \in DOMAIN queue' : i \in DOMAIN queue \/ i = Len(queue) + 1
    BY <2>2
  <2>5. QED
    BY <2>2, <2>3, <2>4 DEF IInv, Waiting
<1>3. QED
  BY <1>1, <1>2 DEF Enqueue

\* A step that moves no run between the three places keeps the invariant,
\* whatever it does to the queue within Waiting.
LEMMA RunsStay ==
    ASSUME IInv, TypeOK', UNCHANGED <<active, completions>>,
           \A r \in Run : task'[r].job = task[r].job,
           Waiting(queue'),
           \/ pc' = pc /\ queue' = queue
           \/ pc # "stopped" /\ pc' # "stopped"
    PROVE  IInv'
<1>1. InFlight' = InFlight /\ ActiveJobs' = ActiveJobs
  BY DEF InFlight, ActiveJobs
<1>2. OneRunPerJob'
  BY <1>1 DEF IInv, OneRunPerJob, InFlight
<1>3. Waiting(queue)'
  BY <1>1 DEF Waiting
<1>4. Returning'
  BY <1>1 DEF IInv, Returning
<1>5. Forgotten'
  BY <1>1 DEF IInv, Forgotten
<1>6. SlotAccounting'
  <2>1. ASSUME pc' # "stopped", NEW r \in InFlight'
        PROVE  active'[task'[r].job] = r
    BY <1>1, <2>1 DEF IInv, SlotAccounting, InFlight
  <2>2. ASSUME pc' # "stopped", NEW j \in ActiveJobs'
        PROVE  \/ task'[active'[j]].job = j
               \/ \E i \in DOMAIN completions' :
                    completions'[i].run = active'[j] /\ completions'[i].job = j
    <3>1. active[j] \in Run
      BY <1>1, <2>2 DEF IInv, TypeOK, ActiveJobs
    <3>2. QED
      BY <1>1, <2>2, <3>1 DEF IInv, SlotAccounting
  <2>3. QED
    BY <2>1, <2>2 DEF SlotAccounting
<1>7. QED
  BY <1>2, <1>3, <1>4, <1>5, <1>6 DEF IInv

\* A start moves the head of the queue into its job's empty slot.
LEMMA InvStart == IInv /\ TypeOK' /\ PumpStart => IInv'
<1> SUFFICES ASSUME IInv, TypeOK', PumpStart PROVE IInv'
  OBVIOUS
<1> DEFINE p == Head(queue)
<1>1. /\ p \in Pending /\ p = queue[1] /\ 1 \in DOMAIN queue
      /\ Waiting(Tail(queue)) /\ queue' = Tail(queue)
      /\ \A i \in DOMAIN Tail(queue) :
           i + 1 \in DOMAIN queue /\ Tail(queue)[i] = queue[i + 1] /\ i \in Nat
      /\ pc # "stopped" /\ pc' = pc
  <2>1. /\ queue \in Seq(Pending) /\ queue # <<>> /\ queue' = Tail(queue)
        /\ pc = "pump" /\ pc' = pc
    BY DEF IInv, TypeOK, PumpStart, CanPump
  <2>2. /\ p \in Pending /\ p = queue[1]
        /\ Len(queue) \in Nat \ {0} /\ DOMAIN queue = 1..Len(queue)
        /\ DOMAIN Tail(queue) = 1..(Len(queue) - 1)
        /\ \A i \in 1..(Len(queue) - 1) : Tail(queue)[i] = queue[i + 1]
    BY <2>1
  <2>3. Waiting(Tail(queue))
    BY <2>1, WaitingTail
  <2>4. QED
    BY <2>1, <2>2, <2>3
<1>2. p.run \in Run /\ p.job \in Job /\ p.run # NoRun /\ p.job # NoJob
  BY <1>1, SentinelAssumption DEF Pending
<1>3. /\ active[p.job] = NoRun
      /\ active' = [active EXCEPT ![p.job] = p.run]
      /\ completions' = completions
  BY DEF PumpStart, Skipped, PhysicalGate
<1>4. /\ task'[p.run].job = p.job
      /\ \A r \in Run \ {p.run} : task'[r] = task[r]
  BY <1>2 DEF PumpStart, IInv, TypeOK
<1>5. /\ InFlight' = InFlight \cup {p.run}
      /\ ActiveJobs' = ActiveJobs \cup {p.job}
      /\ active'[p.job] = p.run
      /\ \A j \in Job \ {p.job} : active'[j] = active[j]
  BY <1>2, <1>3, <1>4 DEF InFlight, ActiveJobs, IInv, TypeOK
<1>6. /\ p.run \notin InFlight
      /\ \A j \in ActiveJobs : active[j] # p.run /\ j # p.job
  BY <1>1 DEF IInv, Waiting
<1>7. \A r \in InFlight : task[r].job \in ActiveJobs /\ active[task[r].job] = r
  <2>1. ASSUME NEW r \in InFlight
        PROVE  task[r].job \in Job /\ r \in Run
    BY <2>1 DEF InFlight, IInv, TypeOK, Task
  <2>2. QED
    BY <1>1, <2>1, SentinelAssumption DEF IInv, SlotAccounting, ActiveJobs
<1>8. \A i \in DOMAIN completions : completions[i].job \in ActiveJobs
  <2>1. \A i \in DOMAIN completions : completions[i].run \in Run /\ completions[i].job \in Job
    BY Entries DEF IInv, Completion
  <2>2. QED
    BY <2>1, SentinelAssumption DEF IInv, Returning, ActiveJobs
<1> HIDE DEF p
<1>9. SlotAccounting'
  <2>1. ASSUME NEW r \in InFlight'
        PROVE  active'[task'[r].job] = r
    <3>1. CASE r = p.run
      BY <1>4, <1>5, <3>1
    <3>2. CASE r # p.run
      <4>1. r \in InFlight /\ task'[r] = task[r]
        BY <1>4, <1>5, <2>1, <3>2 DEF InFlight
      <4>2. task[r].job \in Job \ {p.job} /\ active[task[r].job] = r
        BY <1>6, <1>7, <4>1 DEF ActiveJobs
      <4>3. QED
        BY <1>5, <4>1, <4>2
    <3>3. QED
      BY <3>1, <3>2
  <2>2. ASSUME NEW j \in ActiveJobs'
        PROVE  \/ task'[active'[j]].job = j
               \/ \E i \in DOMAIN completions' :
                    completions'[i].run = active'[j] /\ completions'[i].job = j
    <3>1. CASE j = p.job
      BY <1>4, <1>5, <3>1
    <3>2. CASE j # p.job
      <4>1. j \in ActiveJobs /\ active'[j] = active[j]
        BY <1>5, <2>2, <3>2 DEF ActiveJobs
      <4>2. active[j] \in Run \ {p.run}
        BY <1>6, <4>1 DEF IInv, TypeOK, ActiveJobs
      <4>3. QED
        BY <1>1, <1>3, <1>4, <4>1, <4>2 DEF IInv, SlotAccounting
    <3>3. QED
      BY <3>1, <3>2
  <2>3. QED
    BY <2>1, <2>2 DEF SlotAccounting
<1>10. OneRunPerJob'
  BY <1>4, <1>5, <1>6, <1>7 DEF OneRunPerJob, InFlight
<1>11. Waiting(queue)'
  <2>1. \A i \in DOMAIN queue' : queue'[i].run # p.run /\ queue'[i].job # p.job
    BY <1>1 DEF IInv, Waiting
  <2>2. QED
    BY <1>1, <1>5, <2>1 DEF Waiting, ActiveJobs
<1>12. Returning'
  BY <1>3, <1>5, <1>6, <1>8 DEF IInv, Returning, ActiveJobs
<1>13. QED
  BY <1>1, <1>9, <1>10, <1>11, <1>12 DEF IInv, Forgotten

\* Leaving the loop forgets the queue, the slots and the completions; the
\* runs in flight stay what they were.
LEMMA InvSeeCancel == IInv /\ TypeOK' /\ SeeCancel => IInv'
<1> SUFFICES ASSUME IInv, TypeOK', SeeCancel PROVE IInv'
  OBVIOUS
<1>1. \A r \in Run : task'[r].job = task[r].job
  <2>1. ASSUME NEW r \in Run
        PROVE  Cancelled(task[r], "Shutdown").job = task[r].job
    BY DEF Cancelled, IInv, TypeOK, Task
  <2>2. QED
    BY <2>1 DEF SeeCancel
<1>2. InFlight' = InFlight /\ ActiveJobs' = {}
  BY <1>1 DEF InFlight, ActiveJobs, SeeCancel
<1>3. OneRunPerJob'
  BY <1>1, <1>2 DEF IInv, OneRunPerJob, InFlight
<1>4. queue' = <<>> /\ completions' = <<>> /\ pc' = "stopped"
  BY DEF SeeCancel
<1>5. DOMAIN queue' = {} /\ DOMAIN completions' = {}
  BY <1>4, EmptySeq
<1>6. QED
  BY <1>2, <1>3, <1>4, <1>5 DEF IInv, SlotAccounting, Waiting, Returning, Forgotten

\* A completion empties the slot of a run that is over.
LEMMA InvTakeCompletion == IInv /\ TypeOK' /\ TakeCompletion => IInv'
<1> SUFFICES ASSUME IInv, TypeOK', TakeCompletion PROVE IInv'
  OBVIOUS
<1> DEFINE c == Head(completions)
<1>1. /\ c \in Completion /\ c = completions[1] /\ 1 \in DOMAIN completions
      /\ completions' = Tail(completions)
      /\ \A i \in DOMAIN Tail(completions) :
           /\ i \in Nat /\ i >= 1 /\ i + 1 \in DOMAIN completions
           /\ Tail(completions)[i] = completions[i + 1]
      /\ \A i \in DOMAIN completions :
           i \in Nat /\ (i # 1 => i - 1 \in DOMAIN Tail(completions))
      /\ pc # "stopped" /\ pc' # "stopped" /\ queue' = queue /\ task' = task
  <2>1. completions \in Seq(Completion) /\ completions # <<>> /\ TypeOK
    BY DEF IInv, TypeOK, TakeCompletion
  <2>2. /\ c \in Completion /\ c = completions[1]
        /\ Len(completions) \in Nat \ {0} /\ DOMAIN completions = 1..Len(completions)
        /\ DOMAIN Tail(completions) = 1..(Len(completions) - 1)
        /\ \A i \in 1..(Len(completions) - 1) : Tail(completions)[i] = completions[i + 1]
    BY <2>1
  <2>3. QED
    BY <2>2 DEF TakeCompletion
<1>2. c.run \in Run /\ c.job \in Job /\ active[c.job] = c.run /\ c.run \notin InFlight
  BY <1>1 DEF Completion, IInv, Returning
<1>3. /\ active'[c.job] = NoRun
      /\ \A j \in Job \ {c.job} : active'[j] = active[j]
  BY <1>2 DEF TakeCompletion, Freed, IInv, TypeOK
<1>4. InFlight' = InFlight /\ ActiveJobs' = ActiveJobs \ {c.job}
  BY <1>1, <1>3 DEF InFlight, ActiveJobs
<1>5. \A i \in DOMAIN completions' :
        completions'[i].job # c.job /\ completions'[i].job \in Job
  <2>1. ASSUME NEW i \in DOMAIN completions'
        PROVE  completions'[i] = completions[i + 1] /\ i + 1 \in DOMAIN completions /\ i + 1 # 1
    BY <1>1, <2>1
  <2>2. \A i \in DOMAIN completions : completions[i].job = c.job => i = 1
    BY <1>1, <1>2 DEF IInv, Returning
  <2>3. \A i \in DOMAIN completions : completions[i].job \in Job
    BY Entries DEF IInv, Completion
  <2>4. QED
    BY <2>1, <2>2, <2>3
<1> HIDE DEF c
<1>6. SlotAccounting'
  <2>1. ASSUME NEW r \in InFlight'
        PROVE  active'[task'[r].job] = r
    <3>1. r \in InFlight /\ active[task[r].job] = r /\ r # c.run /\ task[r].job \in Job
      BY <1>1, <1>2, <1>4, <2>1 DEF IInv, SlotAccounting, InFlight, TypeOK, Task
    <3>2. QED
      BY <1>1, <1>2, <1>3, <3>1
  <2>2. ASSUME NEW j \in ActiveJobs'
        PROVE  \/ task'[active'[j]].job = j
               \/ \E i \in DOMAIN completions' :
                    completions'[i].run = active'[j] /\ completions'[i].job = j
    <3>1. j \in ActiveJobs /\ j # c.job /\ active'[j] = active[j]
      BY <1>3, <1>4, <2>2 DEF ActiveJobs
    <3>2. CASE task[active[j]].job = j
      BY <1>1, <3>1, <3>2
    <3>3. ASSUME NEW i \in DOMAIN completions,
                 completions[i].run = active[j], completions[i].job = j
          PROVE  \E k \in DOMAIN completions' :
                    completions'[k].run = active'[j] /\ completions'[k].job = j
      <4>1. i # 1
        BY <1>1, <3>1, <3>3
      <4>2. i - 1 \in DOMAIN completions' /\ completions'[i - 1] = completions[i]
        BY <1>1, <4>1
      <4>3. QED
        BY <3>1, <3>3, <4>2
    <3>4. QED
      BY <1>1, <3>1, <3>2, <3>3 DEF IInv, SlotAccounting
  <2>3. QED
    BY <2>1, <2>2 DEF SlotAccounting
<1>7. OneRunPerJob'
  BY <1>1, <1>4 DEF IInv, OneRunPerJob
<1>8. Waiting(queue)'
  BY <1>1, <1>3, <1>4 DEF IInv, Waiting, ActiveJobs
<1>9. Returning'
  BY <1>1, <1>3, <1>4, <1>5 DEF IInv, Returning
<1>10. QED
  BY <1>1, <1>6, <1>7, <1>8, <1>9 DEF IInv, Forgotten

\* A run that ends moves from in flight to on its way back; after the loop
\* is gone there is nobody to hand back to.
LEMMA InvFinish ==
    ASSUME IInv, TypeOK', NEW r \in Run, NEW outcome \in Outcome,
           FinishRun(r, outcome)
    PROVE  IInv'
<1> DEFINE c == [run |-> r, job |-> task[r].job, outcome |-> outcome]
<1>1. r \in InFlight /\ task[r].job \in Job
  BY DEF FinishRun, InFlight, IInv, TypeOK, Task
<1>2. task'[r].job = NoJob /\ \A s \in Run \ {r} : task'[s] = task[s]
  BY DEF FinishRun, NoTask, IInv, TypeOK
<1>3. /\ InFlight' = InFlight \ {r} /\ ActiveJobs' = ActiveJobs
      /\ active' = active /\ queue' = queue /\ pc' = pc
  BY <1>2 DEF InFlight, ActiveJobs, FinishRun
<1>4. OneRunPerJob'
  BY <1>2, <1>3 DEF IInv, OneRunPerJob, InFlight
<1>5. Waiting(queue)'
  BY <1>3 DEF IInv, Waiting
<1>6. CASE pc = "stopped"
  <2>1. completions' = completions
    BY <1>6 DEF FinishRun
  <2>2. Returning'
    BY <1>3, <2>1 DEF IInv, Returning
  <2>3. QED
    BY <1>3, <1>4, <1>5, <1>6, <2>1, <2>2 DEF IInv, Forgotten, SlotAccounting
<1>7. CASE pc # "stopped"
  <2>1. completions \in Seq(Completion) /\ c \in Completion
    BY <1>1 DEF IInv, TypeOK, Completion
  <2>2. completions' = Append(completions, c)
    BY <1>7 DEF FinishRun, Handback
  <2>3. /\ Len(completions) \in Nat /\ DOMAIN completions = 1..Len(completions)
        /\ DOMAIN completions' = 1..(Len(completions) + 1)
        /\ \A i \in DOMAIN completions : completions'[i] = completions[i]
        /\ completions'[Len(completions) + 1] = c
    BY <2>1, <2>2
  <2>4. /\ \A i \in DOMAIN completions :
             i \in DOMAIN completions' /\ completions'[i] = completions[i]
        /\ \A i \in DOMAIN completions' :
             \/ i \in DOMAIN completions
             \/ i = Len(completions) + 1 /\ completions'[i] = c
    BY <2>3
  <2>5. active[task[r].job] = r
    BY <1>1, <1>7 DEF IInv, SlotAccounting
  <2>6. \A i \in DOMAIN completions : completions[i].run # r
    BY <1>1 DEF IInv, Returning
  <2>7. Returning'
    <3>1. ASSUME NEW i \in DOMAIN completions'
          PROVE  /\ active'[completions'[i].job] = completions'[i].run
                 /\ completions'[i].run \notin InFlight'
      BY <1>3, <2>4, <2>5, <3>1 DEF IInv, Returning
    <3>2. ASSUME NEW i \in DOMAIN completions', NEW k \in DOMAIN completions',
                 completions'[i].run = completions'[k].run
          PROVE  i = k
      BY <2>4, <2>6, <3>2 DEF IInv, Returning
    <3>3. QED
      BY <3>1, <3>2 DEF Returning
  <2>8. SlotAccounting'
    <3>1. ASSUME NEW s \in InFlight'
          PROVE  active'[task'[s].job] = s
      BY <1>2, <1>3, <1>7, <3>1 DEF IInv, SlotAccounting, InFlight
    <3>2. ASSUME NEW j \in ActiveJobs'
          PROVE  \/ task'[active'[j]].job = j
                 \/ \E i \in DOMAIN completions' :
                      completions'[i].run = active'[j] /\ completions'[i].job = j
      <4>1. j \in ActiveJobs /\ active'[j] = active[j] /\ active[j] \in Run
        BY <1>3, <3>2 DEF IInv, TypeOK, ActiveJobs
      <4>2. CASE active[j] = r /\ task[r].job = j
        <5>1. /\ Len(completions) + 1 \in DOMAIN completions'
              /\ completions'[Len(completions) + 1] = c
          BY <2>3
        <5>2. QED
          BY <4>1, <4>2, <5>1
      <4>3. CASE active[j] # r /\ task[active[j]].job = j
        BY <1>2, <4>1, <4>3
      <4>4. CASE \E i \in DOMAIN completions :
                   completions[i].run = active[j] /\ completions[i].job = j
        BY <2>4, <4>1, <4>4
      <4>5. QED
        BY <1>7, <4>1, <4>2, <4>3, <4>4 DEF IInv, SlotAccounting
    <3>3. QED
      BY <3>1, <3>2 DEF SlotAccounting
  <2>9. QED
    BY <1>3, <1>4, <1>5, <1>7, <2>7, <2>8 DEF IInv, Forgotten
<1>8. QED
  BY <1>6, <1>7

LEMMA InvLoop == IInv /\ TypeOK' /\ Loop => IInv'
<1> SUFFICES ASSUME IInv, TypeOK', Loop PROVE IInv'
  OBVIOUS
<1>1. TypeOK /\ Waiting(queue)
  BY DEF IInv
<1>2. CASE RetainDrop
  <2>1. Waiting(queue')
    BY <1>2, WaitingWithout DEF RetainDrop
  <2>2. QED
    BY <1>2, <2>1, RunsStay DEF RetainDrop, world
<1>3. CASE RetainDone
  BY <1>1, <1>3, RunsStay DEF RetainDone, world
<1>4. ASSUME NEW j \in Job, ResyncJob(j)
      PROVE  IInv'
  <2>1. Waiting(queue')
    BY <1>1, <1>4, WaitingGrows
       DEF ResyncJob, ResyncOnChange, ResyncManual, ResyncInterval, Trigger
  <2>2. QED
    BY <1>4, <2>1, RunsStay DEF ResyncJob, world
<1>5. CASE ResyncDone
  BY <1>1, <1>5, RunsStay DEF ResyncDone, world
<1>6. CASE PumpSkip
  <2>1. Waiting(queue')
    BY <1>6, WaitingTail DEF PumpSkip, CanPump
  <2>2. QED
    BY <1>6, <2>1, RunsStay DEF PumpSkip, CanPump, world
<1>7. CASE PumpStart
  BY <1>7, InvStart
<1>8. CASE PumpDone
  BY <1>1, <1>8, RunsStay DEF PumpDone, world
<1>9. CASE SeeCancel
  BY <1>9, InvSeeCancel
<1>10. CASE TakeCancel
  <2>1. Waiting(queue')
    BY <1>1, <1>10, WaitingWithout DEF TakeCancel
  <2>2. Head(commands).job \in Job
    BY <1>1, <1>10, Entries DEF TakeCancel, Receive, Command
  <2>3. \A r \in Run : task'[r].job = task[r].job
    <3>1. \A r \in Run : Cancelled(task[r], "Requested").job = task[r].job
      BY <1>1 DEF Cancelled, TypeOK, Task
    <3>2. \/ task' = task
          \/ LET r == active[Head(commands).job] IN
               r # NoRun /\ task' = [task EXCEPT ![r] = Cancelled(@, "Requested")]
      BY <1>10 DEF TakeCancel
    <3>3. QED
      BY <1>1, <2>2, <3>1, <3>2 DEF TypeOK
  <2>4. QED
    BY <1>10, <2>1, <2>3, RunsStay DEF TakeCancel, Receive
<1>11. CASE TakeRun
  <2>1. Head(commands).job \in Job /\ Head(commands).trigger \in Trigger
    BY <1>1, <1>11, Entries DEF TakeRun, Receive, Command
  <2>2. Waiting(queue')
    BY <1>11, <2>1, WaitingGrows DEF TakeRun
  <2>3. QED
    BY <1>11, <2>2, RunsStay DEF TakeRun, Receive
<1>12. CASE TakeConfig
  BY <1>1, <1>12, RunsStay DEF TakeConfig, Receive
<1>13. CASE TakeCompletion
  BY <1>13, InvTakeCompletion
<1>14. CASE TakeTimer
  BY <1>1, <1>14, RunsStay DEF TakeTimer, world
<1>15. ASSUME NEW j \in Job, FireJob(j)
       PROVE  IInv'
  <2>1. Waiting(queue')
    BY <1>15, WaitingGrows DEF FireJob, Trigger
  <2>2. QED
    BY <1>15, <2>1, RunsStay DEF FireJob, world
<1>16. CASE FireDone
  BY <1>1, <1>16, RunsStay DEF FireDone, world
<1>17. QED
  BY <1>2, <1>3, <1>4, <1>5, <1>6, <1>7, <1>8, <1>9, <1>10, <1>11, <1>12,
     <1>13, <1>14, <1>15, <1>16 DEF Loop

LEMMA InvRest == IInv /\ TypeOK' /\ (Runs \/ Daemon) => IInv'
<1> SUFFICES ASSUME IInv, TypeOK', Runs \/ Daemon PROVE IInv'
  OBVIOUS
<1>1. TypeOK /\ Waiting(queue)
  BY DEF IInv
<1>2. ASSUME NEW r \in Run, PropagateCancel(r)
      PROVE  IInv'
  <2>1. \A s \in Run : task'[s].job = task[s].job
    BY <1>1, <1>2 DEF PropagateCancel, TypeOK, Task
  <2>2. QED
    BY <1>1, <1>2, <2>1, RunsStay DEF PropagateCancel
<1>3. ASSUME NEW c, Send(c)
      PROVE  IInv'
  BY <1>1, <1>3, RunsStay DEF Send
<1>4. ASSUME NEW e \in Environment, SetEnvironment(e)
      PROVE  IInv'
  BY <1>1, <1>4, RunsStay DEF SetEnvironment
<1>5. CASE Shutdown
  BY <1>1, <1>5, RunsStay DEF Shutdown
<1>6. CASE Tick
  BY <1>1, <1>6, RunsStay DEF Tick
<1>7. CASE Halted
  BY <1>1, <1>7, RunsStay DEF Halted, vars, world
<1>8. CASE Runs
  BY <1>2, <1>8, InvFinish DEF Runs
<1>9. CASE Daemon
  BY <1>3, <1>4, <1>5, <1>6, <1>7, <1>9 DEF Daemon, Request, FileChange
<1>10. QED
  BY <1>8, <1>9

LEMMA InvStep == IInv /\ [Next]_vars => IInv'
<1> SUFFICES ASSUME IInv, [Next]_vars PROVE IInv'
  OBVIOUS
<1>1. TypeOK'
  BY TypeStep DEF IInv
<1>2. CASE UNCHANGED vars
  BY <1>1, <1>2, RunsStay DEF vars, world, IInv
<1>3. QED
  BY <1>1, <1>2, InvLoop, InvRest DEF Next

LEMMA Invariant == Spec => []IInv
BY InvInit, InvStep, PTL DEF Spec

\* Two runs of one job are never in flight together: for any jobs,
\* configurations and commands, through every cancel, edit and shutdown.
THEOREM OneRunPerJobHolds == Spec => []OneRunPerJob
<1>1. IInv => OneRunPerJob
  BY DEF IInv
<1>2. QED
  BY <1>1, Invariant, PTL

\* No slot leaks and none is freed under a run in flight.
THEOREM SlotAccountingHolds == Spec => []SlotAccounting
<1>1. IInv => SlotAccounting
  BY DEF IInv
<1>2. QED
  BY <1>1, Invariant, PTL

\* A job waits at most once and never behind its own run.
THEOREM QueueOnceHolds == Spec => []QueueOnce
<1>1. IInv => QueueOnce
  BY DEF IInv, Waiting, QueueOnce, QueuedJobs
<1>2. QED
  BY <1>1, Invariant, PTL

\* A run id stands for one run in one place.
THEOREM IdsAreFreshHolds == Spec => []IdsAreFresh
<1>1. IInv => IdsAreFresh
  BY DEF IInv, Waiting, Returning, Forgotten, IdsAreFresh
<1>2. QED
  BY <1>1, Invariant, PTL

----------------------------------------------------------------------------
(***************************************************************************)
(* What a step may do to the runs in flight.                               *)
(***************************************************************************)

\* Only these steps write a run's entry.
LEMMA TaskMoves ==
    ASSUME [Next]_vars
    PROVE  \/ task' = task
           \/ PumpStart
           \/ SeeCancel
           \/ TakeCancel
           \/ \E r \in Run : PropagateCancel(r)
           \/ \E r \in Run, outcome \in Outcome : FinishRun(r, outcome)
<1>1. CASE Loop
  BY <1>1 DEF Loop, RetainDrop, RetainDone, ResyncJob, ResyncDone, PumpSkip, PumpDone,
              TakeRun, TakeConfig, TakeCompletion, TakeTimer, FireJob, FireDone, world
<1>2. CASE Runs
  BY <1>2 DEF Runs
<1>3. CASE Daemon
  BY <1>3 DEF Daemon, Request, FileChange, Send, SetEnvironment, Shutdown, Tick,
              Halted, vars, world
<1>4. CASE UNCHANGED vars
  BY <1>4 DEF vars, world
<1> QED
  BY <1>1, <1>2, <1>3, <1>4 DEF Next

\* A Stop for a running job reaches the run that holds the job's slot, if it
\* is still in flight.
LEMMA StopReaches ==
    ASSUME IInv, TakeCancel
    PROVE  LET j == Head(commands).job IN
           /\ Head(commands) = [type |-> "cancel", job |-> j] /\ j \in Job
           /\ \/ task' = task
              \/ /\ active[j] \in Run
                 /\ task' = [task EXCEPT ![active[j]] = Cancelled(@, "Requested")]
           /\ \A r \in InFlight : active[j] = r => task[r].job = j
<1> DEFINE j == Head(commands).job
<1>1. /\ TypeOK /\ pc # "stopped"
      /\ Head(commands) = [type |-> "cancel", job |-> j] /\ j \in Job
  BY Entries DEF IInv, TakeCancel, Receive, Command
<1>2. \/ task' = task
      \/ active[j] # NoRun /\ task' = [task EXCEPT ![active[j]] = Cancelled(@, "Requested")]
  BY DEF TakeCancel
<1>3. active[j] \in Run \cup {NoRun}
  BY <1>1 DEF TypeOK
<1>4. ASSUME NEW r \in InFlight, active[j] = r PROVE task[r].job = j
  <2>1. j \in ActiveJobs
    BY <1>1, <1>4, SentinelAssumption DEF ActiveJobs, InFlight
  <2>2. ~\E i \in DOMAIN completions : completions[i].run = r
    BY DEF IInv, Returning
  <2> QED
    BY <1>1, <1>4, <2>1, <2>2 DEF IInv, SlotAccounting
<1> QED
  BY <1>1, <1>2, <1>3, <1>4

\* Every run in flight holds a slot of its own.
LEMMA SlotsCover ==
    ASSUME IInv, pc # "stopped"
    PROVE  /\ IsFiniteSet(ActiveJobs) /\ IsFiniteSet(InFlight)
           /\ Cardinality(InFlight) <= Cardinality(ActiveJobs)
<1>1. IsFiniteSet(ActiveJobs)
  BY JobAssumption, FS_Subset DEF ActiveJobs
<1> DEFINE f == [r \in InFlight |-> task[r].job]
<1>2. \A r \in InFlight : f[r] \in ActiveJobs
  BY SentinelAssumption DEF IInv, TypeOK, SlotAccounting, ActiveJobs, InFlight, Task
<1>3. \A r, s \in InFlight : f[r] = f[s] => r = s
  BY DEF IInv, OneRunPerJob
<1>4. f \in Injection(InFlight, ActiveJobs)
  BY <1>2, <1>3 DEF Injection, IsInjective
<1> QED
  BY <1>1, <1>4, FS_Injection

\* A start adds one run, and no other step adds any.
LEMMA StartsAdd ==
    ASSUME IInv, [Next]_vars
    PROVE  \/ InFlight' \subseteq InFlight
           \/ PumpStart /\ \E r \in Run : InFlight' \subseteq InFlight \cup {r}
<1>1. TypeOK
  BY DEF IInv
<1>2. CASE task' = task
  BY <1>2 DEF InFlight
<1>3. CASE PumpStart
  BY <1>1, <1>3 DEF PumpStart, InFlight, TypeOK
<1>4. CASE SeeCancel
  <2>1. \A r \in Run : task'[r].job = task[r].job
    BY <1>1, <1>4 DEF SeeCancel, Cancelled, TypeOK, Task
  <2> QED
    BY <2>1 DEF InFlight
<1>5. CASE TakeCancel
  <2>1. \A r \in Run : Cancelled(task[r], "Requested").job = task[r].job
    BY <1>1 DEF Cancelled, TypeOK, Task
  <2>2. \A r \in Run : task'[r].job = task[r].job
    BY <1>1, <1>5, <2>1, StopReaches DEF TypeOK
  <2> QED
    BY <2>2 DEF InFlight
<1>6. ASSUME NEW r \in Run, PropagateCancel(r) PROVE InFlight' \subseteq InFlight
  BY <1>1, <1>6 DEF PropagateCancel, InFlight, TypeOK, Task
<1>7. ASSUME NEW r \in Run, NEW outcome \in Outcome, FinishRun(r, outcome)
      PROVE  InFlight' \subseteq InFlight
  BY <1>1, <1>7 DEF FinishRun, InFlight, TypeOK, NoTask
<1> QED
  BY <1>2, <1>3, <1>4, <1>5, <1>6, <1>7, TaskMoves

\* max_parallel_jobs bounds the runs in flight at every start, for any limit,
\* also one that was lowered under running jobs or set to zero.
THEOREM ParallelLimitHolds == Spec => ParallelLimit
<1> DEFINE Bounded ==
      ~(InFlight' \subseteq InFlight) => Cardinality(InFlight') <= Max1(config.maxParallel)
<1>1. IInv /\ [Next]_vars => Bounded
  <2> SUFFICES ASSUME IInv, [Next]_vars, ~(InFlight' \subseteq InFlight)
               PROVE  Cardinality(InFlight') <= Max1(config.maxParallel)
    OBVIOUS
  <2>1. PICK r \in Run : PumpStart /\ InFlight' \subseteq InFlight \cup {r}
    BY StartsAdd
  <2>2. /\ IsFiniteSet(ActiveJobs) /\ IsFiniteSet(InFlight)
        /\ Cardinality(InFlight) <= Cardinality(ActiveJobs)
    BY <2>1, SlotsCover DEF PumpStart, CanPump
  <2>3. /\ IsFiniteSet(InFlight \cup {r})
        /\ Cardinality(InFlight \cup {r}) <= Cardinality(InFlight) + 1
    <3>1. /\ IsFiniteSet(InFlight \cup {r})
          /\ Cardinality(InFlight \cup {r}) =
               IF r \in InFlight THEN Cardinality(InFlight) ELSE Cardinality(InFlight) + 1
      BY <2>2, FS_AddElement
    <3>2. Cardinality(InFlight) \in Nat
      BY <2>2, FS_CardinalityType
    <3> QED
      BY <3>1, <3>2
  <2>4. IsFiniteSet(InFlight') /\ Cardinality(InFlight') <= Cardinality(InFlight \cup {r})
    BY <2>1, <2>3, FS_Subset
  <2>5. /\ Cardinality(ActiveJobs) \in Nat /\ Cardinality(InFlight) \in Nat
        /\ Cardinality(InFlight') \in Nat /\ Cardinality(InFlight \cup {r}) \in Nat
    BY <2>2, <2>3, <2>4, FS_CardinalityType
  <2>6. config.maxParallel \in Nat
    BY ConfigAssumption DEF IInv, TypeOK, ConfigShape
  <2>7. Cardinality(ActiveJobs) < Max1(config.maxParallel)
    BY <2>1 DEF PumpStart, CanPump, SlotFree
  <2> QED
    BY <2>2, <2>3, <2>4, <2>5, <2>6, <2>7 DEF Max1
<1>2. [][Bounded]_vars <=> ParallelLimit
  BY DEF ParallelLimit
<1> HIDE DEF Bounded
<1> QED
  BY <1>1, <1>2, Invariant, PTL DEF Spec

\* A run keeps the first reason it was cancelled for, and a Stop reaches no
\* run but the one of its job, whatever else happens to the engine.
THEOREM CancelIsIsolatedHolds == Spec => CancelIsIsolated
<1> DEFINE Isolated ==
      \A r \in InFlight : task'[r].cancel # task[r].cancel /\ task'[r] # NoTask =>
         /\ task[r].cancel = "None"
         /\ task'[r].cancel = "Requested" =>
              Head(commands) = [type |-> "cancel", job |-> task[r].job]
<1>1. IInv /\ [Next]_vars => Isolated
  <2> SUFFICES ASSUME IInv, [Next]_vars, NEW r \in InFlight,
                      task'[r].cancel # task[r].cancel, task'[r] # NoTask
               PROVE  /\ task[r].cancel = "None"
                      /\ task'[r].cancel = "Requested" =>
                           Head(commands) = [type |-> "cancel", job |-> task[r].job]
    OBVIOUS
  <2>1. TypeOK /\ r \in Run /\ task[r] \in Task
    BY DEF IInv, TypeOK, InFlight
  <2>2. CASE task' = task
    BY <2>2
  <2>3. CASE PumpStart
    <3>1. Head(queue).run # r /\ Head(queue).run \in Run
      <4>1. queue # <<>> /\ queue \in Seq(Pending)
        BY <2>1, <2>3 DEF PumpStart, CanPump, TypeOK
      <4>2. 1 \in DOMAIN queue /\ Head(queue) = queue[1] /\ Head(queue) \in Pending
        BY <4>1
      <4> QED
        BY <4>2 DEF IInv, Waiting, Pending
    <3> QED
      BY <2>1, <2>3, <3>1 DEF PumpStart, TypeOK
  <2>4. CASE SeeCancel
    BY <2>1, <2>4 DEF SeeCancel, Cancelled, Task
  <2>5. CASE TakeCancel
    <3>1. PICK j \in Job :
            /\ Head(commands) = [type |-> "cancel", job |-> j]
            /\ \/ task' = task
               \/ /\ active[j] \in Run
                  /\ task' = [task EXCEPT ![active[j]] = Cancelled(@, "Requested")]
            /\ active[j] = r => task[r].job = j
      BY <2>5, StopReaches
    <3>2. active[j] = r /\ task'[r] = Cancelled(task[r], "Requested")
      BY <2>1, <3>1 DEF TypeOK
    <3> QED
      BY <2>1, <3>1, <3>2 DEF Cancelled, Task
  <2>6. ASSUME NEW s \in Run, PropagateCancel(s)
        PROVE  task[r].cancel = "None" /\ task'[r].cancel # "Requested"
    BY <2>1, <2>6 DEF PropagateCancel, TypeOK, Task
  <2>7. ASSUME NEW s \in Run, NEW outcome \in Outcome, FinishRun(s, outcome) PROVE FALSE
    BY <2>1, <2>7 DEF FinishRun, TypeOK
  <2> QED
    BY <2>2, <2>3, <2>4, <2>5, <2>6, <2>7, TaskMoves
<1>2. [][Isolated]_vars <=> CancelIsIsolated
  BY DEF CancelIsIsolated
<1> HIDE DEF Isolated
<1> QED
  BY <1>1, <1>2, Invariant, PTL DEF Spec

----------------------------------------------------------------------------
(***************************************************************************)
(* The scheduler implements RunLifecycle: every step is one of the         *)
(* promised life of a run, or a stutter.  The stage of a job is read off   *)
(* the one run in flight for it, so the map needs OneRunPerJob and         *)
(* SlotAccounting at both ends of a step.                                  *)
(***************************************************************************)
Stages == [j \in Job |-> StageOf(j)]

\* The run in flight for a job decides its stage; else the slot does.
LEMMA LiveStage ==
    ASSUME OneRunPerJob, NEW j, NEW r \in InFlight, task[r].job = j
    PROVE  StageOf(j) = IF task[r].cancel = "None" THEN "running" ELSE "stopping"
<1>1. {s \in InFlight : task[s].job = j} = {r}
  BY DEF OneRunPerJob
<1> QED
  BY <1>1 DEF StageOf

LEMMA LiveStageNext ==
    ASSUME OneRunPerJob', NEW j, NEW r \in InFlight', task'[r].job = j
    PROVE  StageOf(j)' = IF task'[r].cancel = "None" THEN "running" ELSE "stopping"
<1>1. {s \in InFlight' : task'[s].job = j} = {r}
  BY DEF OneRunPerJob
<1> QED
  BY <1>1 DEF StageOf

LEMMA DeadStage ==
    ASSUME NEW j, \A s \in InFlight : task[s].job # j
    PROVE  StageOf(j) = IF active[j] # NoRun THEN "ending" ELSE "idle"
<1>1. {s \in InFlight : task[s].job = j} = {}
  OBVIOUS
<1> QED
  BY <1>1 DEF StageOf

LEMMA DeadStageNext ==
    ASSUME NEW j, \A s \in InFlight' : task'[s].job # j
    PROVE  StageOf(j)' = IF active'[j] # NoRun THEN "ending" ELSE "idle"
<1>1. {s \in InFlight' : task'[s].job = j} = {}
  OBVIOUS
<1> QED
  BY <1>1 DEF StageOf

\* A job whose runs and slot a step leaves alone keeps its stage.
LEMMA StageKept ==
    ASSUME IInv, IInv', NEW j \in Job, active'[j] = active[j],
           \A s \in Run : task[s].job = j \/ task'[s].job = j =>
                /\ task'[s].job = task[s].job
                /\ task'[s].cancel = "None" <=> task[s].cancel = "None"
    PROVE  StageOf(j)' = StageOf(j)
<1>1. j # NoJob /\ OneRunPerJob /\ OneRunPerJob'
  BY SentinelAssumption DEF IInv
<1>2. CASE \E r \in InFlight : task[r].job = j
  <2>1. PICK r \in InFlight : task[r].job = j
    BY <1>2
  <2>2. r \in InFlight' /\ task'[r].job = j /\ (task'[r].cancel = "None" <=> task[r].cancel = "None")
    BY <1>1, <2>1 DEF InFlight
  <2> QED
    BY <1>1, <2>1, <2>2, LiveStage, LiveStageNext
<1>3. CASE ~\E r \in InFlight : task[r].job = j
  <2>1. \A s \in InFlight' : task'[s].job # j
    BY <1>1, <1>3 DEF InFlight
  <2> QED
    BY <1>3, <2>1, DeadStage, DeadStageNext
<1> QED
  BY <1>2, <1>3

\* An idle job is one without a run in flight and without a slot.
LEMMA FreeIsIdle ==
    ASSUME IInv, pc # "stopped", NEW j \in Job, active[j] = NoRun
    PROVE  StageOf(j) = "idle"
<1>1. \A s \in InFlight : task[s].job # j
  BY SentinelAssumption DEF IInv, SlotAccounting, InFlight
<1> QED
  BY <1>1, DeadStage

\* The line is the queue without its run ids.
LEMMA LineFacts ==
    ASSUME queue \in Seq(Pending)
    PROVE  /\ LineOf(queue) \in Seq(Job) /\ Len(LineOf(queue)) = Len(queue)
           /\ DOMAIN LineOf(queue) = DOMAIN queue
           /\ \A i \in DOMAIN queue : LineOf(queue)[i] = queue[i].job
<1>1. Len(queue) \in Nat /\ DOMAIN queue = 1..Len(queue)
  BY LenProperties
<1>2. \A i \in 1..Len(queue) : queue[i].job \in Job
  <2>1. \A i \in 1..Len(queue) : queue[i] \in Pending
    BY ElementOfSeq
  <2> QED
    BY <2>1 DEF Pending
<1>3. LineOf(queue) = [i \in 1..Len(queue) |-> queue[i].job]
  BY <1>1 DEF LineOf
<1>4. LineOf(queue) \in Seq(Job) /\ Len(LineOf(queue)) = Len(queue)
  BY <1>1, <1>2, <1>3, IsASeq
<1> QED
  BY <1>1, <1>3, <1>4

LEMMA LineTail ==
    ASSUME queue \in Seq(Pending), queue # <<>>
    PROVE  /\ LineOf(queue) # <<>> /\ Head(LineOf(queue)) = Head(queue).job
           /\ LineOf(Tail(queue)) = Tail(LineOf(queue))
           /\ LineOf(Tail(queue)) = LineOf(RemoveAt(queue, 1))
<1>1. /\ Len(queue) \in Nat \ {0} /\ DOMAIN queue = 1..Len(queue)
      /\ Head(queue) = queue[1]
  BY EmptySeq, LenProperties
<1>2. /\ Tail(queue) \in Seq(Pending) /\ Len(Tail(queue)) = Len(queue) - 1
      /\ DOMAIN Tail(queue) = 1..(Len(queue) - 1)
      /\ \A i \in 1..(Len(queue) - 1) : Tail(queue)[i] = queue[i + 1]
  BY <1>1, HeadTailProperties, LenProperties
<1> DEFINE l == LineOf(queue)
<1>3. /\ l \in Seq(Job) /\ Len(l) = Len(queue) /\ DOMAIN l = 1..Len(queue)
      /\ \A i \in 1..Len(queue) : l[i] = queue[i].job
  BY <1>1, LineFacts
<1> HIDE DEF l
<1>4. l # <<>> /\ Head(l) = l[1]
  BY <1>1, <1>3, EmptySeq
<1>5. /\ Tail(l) \in Seq(Job) /\ Len(Tail(l)) = Len(l) - 1
      /\ DOMAIN Tail(l) = 1..(Len(l) - 1)
      /\ \A i \in 1..(Len(l) - 1) : Tail(l)[i] = l[i + 1]
  BY <1>3, <1>4, HeadTailProperties, LenProperties
<1>6. Tail(l) = [i \in 1..(Len(l) - 1) |-> l[i + 1]]
  <2>1. Tail(l) = [i \in DOMAIN Tail(l) |-> Tail(l)[i]]
    BY <1>5, LenProperties
  <2> QED
    BY <1>5, <2>1
<1>7. LineOf(Tail(queue)) = [i \in 1..(Len(queue) - 1) |-> queue[i + 1].job]
  BY <1>2 DEF LineOf
<1>8. \A i \in 1..(Len(queue) - 1) : i + 1 \in 1..Len(queue)
  BY <1>1
<1>9. LineOf(Tail(queue)) = Tail(l)
  BY <1>3, <1>6, <1>7, <1>8
<1>10. LineOf(Tail(queue)) = LineOf(RemoveAt(queue, 1))
  <2>1. /\ DOMAIN RemoveAt(queue, 1) = 1..(Len(queue) - 1)
        /\ \A i \in 1..(Len(queue) - 1) : RemoveAt(queue, 1)[i] = queue[i + 1]
    BY <1>1, RemoveAtProperties
  <2> QED
    BY <1>7, <2>1 DEF LineOf
<1> QED
  BY <1>1, <1>3, <1>4, <1>9, <1>10 DEF l

LEMMA LineAppend ==
    ASSUME queue \in Seq(Pending), NEW p \in Pending
    PROVE  LineOf(Append(queue, p)) = Append(LineOf(queue), p.job)
<1> DEFINE l == LineOf(queue)
<1>1. /\ l \in Seq(Job) /\ Len(l) = Len(queue) /\ DOMAIN l = 1..Len(queue)
      /\ \A i \in 1..Len(queue) : l[i] = queue[i].job
      /\ Len(queue) \in Nat /\ p.job \in Job
  BY LineFacts, LenProperties DEF Pending
<1> HIDE DEF l
<1> DEFINE q == Append(queue, p)
           m == Append(l, p.job)
<1>2. /\ q \in Seq(Pending) /\ Len(q) = Len(queue) + 1
      /\ \A i \in 1..Len(queue) : q[i] = queue[i]
      /\ q[Len(queue) + 1] = p
  BY AppendProperties
<1>3. /\ m \in Seq(Job) /\ Len(m) = Len(queue) + 1
      /\ \A i \in 1..Len(queue) : m[i] = l[i]
      /\ m[Len(queue) + 1] = p.job
  BY <1>1, AppendProperties
<1> HIDE DEF q, m
<1>4. DOMAIN q = 1..(Len(queue) + 1) /\ DOMAIN m = 1..(Len(queue) + 1)
  BY <1>2, <1>3, LenProperties
<1>5. \A i \in 1..(Len(queue) + 1) : m[i] = q[i].job
  BY <1>1, <1>2, <1>3
<1>6. m = [i \in 1..(Len(queue) + 1) |-> m[i]]
  BY <1>3, <1>4, LenProperties
<1>7. LineOf(q) = [i \in 1..(Len(queue) + 1) |-> q[i].job]
  BY <1>4 DEF LineOf
<1> QED
  BY <1>5, <1>6, <1>7 DEF q, m, l

LEMMA LineRemove ==
    ASSUME queue \in Seq(Pending), NEW i \in DOMAIN queue
    PROVE  LineOf(RemoveAt(queue, i)) = Lifecycle!Without(i)
<1> DEFINE q == RemoveAt(queue, i)
<1>1. Len(queue) \in Nat /\ DOMAIN queue = 1..Len(queue)
  BY LenProperties
<1>2. /\ DOMAIN q = 1..(Len(queue) - 1)
      /\ \A k \in 1..(Len(queue) - 1) : q[k] = IF k < i THEN queue[k] ELSE queue[k + 1]
  BY <1>1, RemoveAtProperties
<1>3. \A k \in 1..(Len(queue) - 1) : k \in DOMAIN queue /\ k + 1 \in DOMAIN queue
  BY <1>1
<1>4. /\ Len(LineOf(queue)) = Len(queue)
      /\ \A k \in DOMAIN queue : LineOf(queue)[k] = queue[k].job
  BY LineFacts
<1> HIDE DEF q
<1>5. LineOf(q) = [k \in 1..(Len(queue) - 1) |-> q[k].job]
  BY <1>2 DEF LineOf
<1>6. Lifecycle!Without(i) =
        [k \in 1..(Len(queue) - 1) |->
           IF k < i THEN LineOf(queue)[k] ELSE LineOf(queue)[k + 1]]
  BY <1>4 DEF Lifecycle!Without
<1>7. \A k \in 1..(Len(queue) - 1) :
         q[k].job = IF k < i THEN LineOf(queue)[k] ELSE LineOf(queue)[k + 1]
  BY <1>2, <1>3, <1>4
<1> QED
  BY <1>5, <1>6, <1>7 DEF q

\* What a step of RunLifecycle is about.
Promised == [Lifecycle!Next]_(Lifecycle!vars)

LEMMA StagesKept ==
    ASSUME IInv, IInv', active' = active,
           \A s \in Run : /\ task'[s].job = task[s].job
                          /\ task'[s].cancel = "None" <=> task[s].cancel = "None"
    PROVE  Stages' = Stages
<1>1. \A j \in Job : StageOf(j)' = StageOf(j)
  BY StageKept
<1> QED
  BY <1>1 DEF Stages

LEMMA StutterStep ==
    ASSUME queue' = queue, Stages' = Stages, pc' = "stopped" <=> pc = "stopped"
    PROVE  Promised
<1>1. LineOf(queue)' = LineOf(queue) /\ ((pc # "stopped")' = (pc # "stopped"))
  OBVIOUS
<1>2. UNCHANGED Lifecycle!vars
  BY <1>1 DEF Lifecycle!vars, Stages
<1> QED
  BY <1>2 DEF Promised

LEMMA LeaveStep ==
    ASSUME IInv, NEW i \in DOMAIN queue, queue' = RemoveAt(queue, i), Stages' = Stages,
           pc' = "stopped" <=> pc = "stopped"
    PROVE  Promised
<1>1. queue \in Seq(Pending)
  BY DEF IInv, TypeOK
<1>2. /\ LineOf(queue)' = Lifecycle!Without(i) /\ i \in DOMAIN LineOf(queue)
      /\ (pc # "stopped")' = (pc # "stopped")
  BY <1>1, LineRemove, LineFacts
<1>3. Lifecycle!Leave(i)
  BY <1>2 DEF Lifecycle!Leave, Stages
<1> QED
  BY <1>2, <1>3 DEF Promised, Lifecycle!Next

LEMMA JoinStep ==
    ASSUME IInv, NEW j \in Job, NEW trigger \in Trigger, Enqueue(j, trigger),
           Stages' = Stages, pc # "stopped", pc' # "stopped"
    PROVE  Promised
<1>1. queue \in Seq(Pending)
  BY DEF IInv, TypeOK
<1>2. CASE queue' = queue
  BY <1>2, StutterStep
<1>3. CASE /\ active[j] = NoRun /\ j \notin QueuedJobs
           /\ \E r \in Run :
                queue' = Append(queue, [run |-> r, job |-> j, trigger |-> trigger])
  <2>1. PICK r \in Run : queue' = Append(queue, [run |-> r, job |-> j, trigger |-> trigger])
    BY <1>3
  <2>2. [run |-> r, job |-> j, trigger |-> trigger] \in Pending
    BY DEF Pending
  <2>3. LineOf(queue)' = Append(LineOf(queue), j)
    BY <1>1, <2>1, <2>2, LineAppend
  <2>4. Stages[j] = "idle"
    BY <1>3, FreeIsIdle DEF Stages
  <2>5. j \notin Lifecycle!Waiting
    BY <1>1, <1>3, LineFacts DEF Lifecycle!Waiting, QueuedJobs
  <2>6. Lifecycle!Accept(j)
    BY <2>3, <2>4, <2>5 DEF Lifecycle!Accept, Stages
  <2> QED
    BY <2>6 DEF Promised, Lifecycle!Next
<1> QED
  BY <1>2, <1>3 DEF Enqueue

\* The run at the front of the queue takes its job's slot.
LEMMA StartStep == ASSUME IInv, IInv', PumpStart PROVE Promised
<1>1. TypeOK /\ queue \in Seq(Pending) /\ queue # <<>>
  BY DEF IInv, TypeOK, PumpStart, CanPump
<1>2. PICK p \in Pending : p = Head(queue)
  BY <1>1, HeadTailProperties
<1>3. p.run \in Run /\ p.job \in Job /\ p.job # NoJob
  BY SentinelAssumption DEF Pending
<1>4. /\ queue' = Tail(queue) /\ pc # "stopped" /\ pc' # "stopped"
      /\ active' = [active EXCEPT ![p.job] = p.run] /\ active[p.job] = NoRun
      /\ task' = [task EXCEPT ![p.run] =
                     [job |-> p.job, started |-> now,
                      cancel |-> IF engineCancel THEN "Shutdown" ELSE "None"]]
  BY <1>2 DEF PumpStart, CanPump, Skipped, PhysicalGate
<1>5. p.run \notin InFlight
  <2>1. 1 \in DOMAIN queue /\ queue[1] = p
    BY <1>1, <1>2, EmptySeq, LenProperties
  <2> QED
    BY <2>1 DEF IInv, Waiting
<1>6. PICK s \in {"running", "stopping"} : s = IF engineCancel THEN "stopping" ELSE "running"
  OBVIOUS
<1>7. Stages[p.job] = "idle"
  BY <1>3, <1>4, FreeIsIdle DEF Stages
<1>8. StageOf(p.job)' = s
  <2>1. /\ p.run \in InFlight' /\ task'[p.run].job = p.job
        /\ task'[p.run].cancel = (IF engineCancel THEN "Shutdown" ELSE "None")
    BY <1>1, <1>3, <1>4 DEF InFlight, TypeOK
  <2>2. OneRunPerJob'
    BY DEF IInv
  <2>3. StageOf(p.job)' = IF task'[p.run].cancel = "None" THEN "running" ELSE "stopping"
    BY <2>1, <2>2, LiveStageNext
  <2> QED
    BY <1>6, <2>1, <2>3
<1>9. ASSUME NEW j \in Job, j # p.job PROVE StageOf(j)' = StageOf(j)
  <2>1. active'[j] = active[j]
    BY <1>1, <1>4, <1>9 DEF TypeOK
  <2>2. task[p.run].job # j /\ task'[p.run].job # j
        /\ \A r \in Run \ {p.run} : task'[r] = task[r]
    BY <1>1, <1>3, <1>4, <1>5, <1>9, SentinelAssumption DEF TypeOK, InFlight
  <2> QED
    BY <2>1, <2>2, StageKept
<1>10. Stages' = [Stages EXCEPT ![p.job] = s]
  BY <1>3, <1>8, <1>9 DEF Stages
<1>11. /\ LineOf(queue) # <<>> /\ Head(LineOf(queue)) = p.job
       /\ LineOf(queue)' = Tail(LineOf(queue))
  BY <1>1, <1>2, <1>4, LineTail
<1>12. Lifecycle!Start
  BY <1>4, <1>7, <1>10, <1>11 DEF Lifecycle!Start, Stages
<1> QED
  BY <1>12 DEF Promised, Lifecycle!Next

LEMMA LineEmpty == LineOf(<<>>) = <<>>
<1> DEFINE f == [i \in 1..0 |-> <<>>[i].job]
<1>1. LineOf(<<>>) = f
  BY EmptySeq DEF LineOf
<1>2. f \in Seq({0}) /\ Len(f) = 0
  <2>1. \A i \in 1..0 : <<>>[i].job \in {0}
    OBVIOUS
  <2> HIDE DEF f
  <2>2. f = [i \in 1..0 |-> <<>>[i].job]
    BY DEF f
  <2> QED
    BY <2>1, <2>2, IsASeq
<1> HIDE DEF f
<1> QED
  BY <1>1, <1>2, EmptySeq

\* A run is told to stop.
LEMMA StopStep ==
    ASSUME IInv, IInv', NEW r \in InFlight, task[r].cancel = "None",
           task'[r].job = task[r].job, task'[r].cancel # "None",
           \A s \in Run \ {r} : task'[s] = task[s],
           UNCHANGED <<active, queue>>, (pc' = "stopped") <=> (pc = "stopped")
    PROVE  Promised
<1>1. PICK j \in Job : task[r].job = j
  BY DEF IInv, TypeOK, InFlight, Task
<1>2. r \in Run /\ r \in InFlight' /\ task'[r].job = j /\ OneRunPerJob /\ OneRunPerJob'
  BY <1>1 DEF InFlight, IInv
<1>3. Stages[j] = "running" /\ StageOf(j)' = "stopping"
  BY <1>1, <1>2, LiveStage, LiveStageNext DEF Stages
<1>4. ASSUME NEW k \in Job, k # j PROVE StageOf(k)' = StageOf(k)
  BY <1>1, <1>2, <1>4, StageKept
<1>5. Stages' = [Stages EXCEPT ![j] = "stopping"]
  BY <1>1, <1>3, <1>4 DEF Stages
<1>6. Lifecycle!Stop(j)
  BY <1>3, <1>5 DEF Lifecycle!Stop, Stages
<1> QED
  BY <1>6 DEF Promised, Lifecycle!Next

\* A run is over; its slot stays taken until its completion is read.
LEMMA EndStep ==
    ASSUME IInv, IInv', NEW r \in Run, NEW outcome \in Outcome, FinishRun(r, outcome)
    PROVE  Promised
<1>1. /\ TypeOK /\ OneRunPerJob /\ task[r].job # NoJob /\ r \in InFlight
      /\ task' = [task EXCEPT ![r] = NoTask] /\ UNCHANGED <<active, queue, pc>>
  BY DEF IInv, FinishRun, InFlight
<1>2. PICK j \in Job : task[r].job = j
  BY <1>1 DEF TypeOK, Task
<1>3. task'[r] = NoTask /\ \A s \in Run \ {r} : task'[s] = task[s]
  BY <1>1 DEF TypeOK
<1>4. \A s \in InFlight' : task'[s].job # j
  BY <1>1, <1>2, <1>3 DEF OneRunPerJob, InFlight, NoTask
<1>5. PICK e \in {"ending", "idle"} : e = IF pc # "stopped" THEN "ending" ELSE "idle"
  OBVIOUS
<1>6. StageOf(j)' = e
  <2>1. CASE pc # "stopped"
    <3>1. active'[j] # NoRun
      BY <1>1, <1>2, <2>1, SentinelAssumption DEF IInv, SlotAccounting
    <3> QED
      BY <1>4, <1>5, <2>1, <3>1, DeadStageNext
  <2>2. CASE pc = "stopped"
    <3>1. active'[j] = NoRun
      BY <1>1, <2>2 DEF IInv, Forgotten, ActiveJobs
    <3> QED
      BY <1>4, <1>5, <2>2, <3>1, DeadStageNext
  <2> QED
    BY <2>1, <2>2
<1>7. Stages[j] \in {"running", "stopping"}
  BY <1>1, <1>2, LiveStage DEF Stages
<1>8. ASSUME NEW k \in Job, k # j PROVE StageOf(k)' = StageOf(k)
  BY <1>1, <1>2, <1>3, <1>8, SentinelAssumption, StageKept DEF NoTask
<1>9. Stages' = [Stages EXCEPT ![j] = e]
  BY <1>6, <1>8 DEF Stages
<1>10. Lifecycle!End(j)
  BY <1>1, <1>5, <1>7, <1>9 DEF Lifecycle!End, Stages
<1> QED
  BY <1>10 DEF Promised, Lifecycle!Next

\* A completion frees the slot of a run that is over.
LEMMA ReleaseStep == ASSUME IInv, IInv', TakeCompletion PROVE Promised
<1>1. TypeOK /\ completions \in Seq(Completion) /\ completions # <<>>
  BY DEF IInv, TypeOK, TakeCompletion
<1>2. PICK c \in Completion : c = Head(completions)
  BY <1>1, HeadTailProperties
<1>3. 1 \in DOMAIN completions /\ completions[1] = c
  BY <1>1, <1>2, EmptySeq, LenProperties
<1>4. c.job \in Job /\ c.run \in Run /\ active[c.job] = c.run /\ c.run \notin InFlight
  BY <1>3 DEF Completion, IInv, Returning
<1>5. /\ task' = task /\ queue' = queue /\ pc # "stopped" /\ pc' # "stopped"
      /\ active' = [active EXCEPT ![c.job] = NoRun]
  BY <1>2 DEF TakeCompletion, Freed
<1>6. \A s \in InFlight : task[s].job # c.job
  BY <1>4, <1>5 DEF IInv, SlotAccounting
<1>7. \A s \in InFlight' : task'[s].job # c.job
  BY <1>5, <1>6 DEF InFlight
<1>8. active[c.job] # NoRun /\ active'[c.job] = NoRun
  BY <1>1, <1>4, <1>5, SentinelAssumption DEF TypeOK
<1>9. Stages[c.job] = "ending" /\ StageOf(c.job)' = "idle"
  BY <1>4, <1>6, <1>7, <1>8, DeadStage, DeadStageNext DEF Stages
<1>10. ASSUME NEW k \in Job, k # c.job PROVE StageOf(k)' = StageOf(k)
  <2>1. active'[k] = active[k]
    BY <1>1, <1>5, <1>10 DEF TypeOK
  <2> QED
    BY <1>5, <2>1, StageKept
<1>11. Stages' = [Stages EXCEPT ![c.job] = "idle"]
  BY <1>4, <1>9, <1>10 DEF Stages
<1>12. Lifecycle!Release(c.job)
  BY <1>5, <1>9, <1>11 DEF Lifecycle!Release, Stages
<1> QED
  BY <1>4, <1>12 DEF Promised, Lifecycle!Next

\* Leaving the loop empties the line and stops everything that runs.
LEMMA CloseStep == ASSUME IInv, IInv', SeeCancel PROVE Promised
<1>1. /\ TypeOK /\ OneRunPerJob /\ OneRunPerJob'
      /\ pc # "stopped" /\ pc' = "stopped" /\ queue' = <<>>
      /\ active' = [j \in Job |-> NoRun]
      /\ task' = [r \in Run |-> IF \E j \in ActiveJobs : active[j] = r
                                 THEN Cancelled(task[r], "Shutdown") ELSE task[r]]
  BY DEF IInv, SeeCancel
<1>2. \A r \in Run : task'[r].job = task[r].job
  BY <1>1 DEF Cancelled, TypeOK, Task
<1>3. InFlight' = InFlight
  BY <1>2 DEF InFlight
<1>4. ASSUME NEW j \in Job
      PROVE  StageOf(j)' = IF StageOf(j) \in {"running", "stopping"} THEN "stopping" ELSE "idle"
  <2>1. CASE \E r \in InFlight : task[r].job = j
    <3>1. PICK r \in InFlight : task[r].job = j
      BY <2>1
    <3>2. active[j] = r /\ j \in ActiveJobs /\ r \in Run
      BY <1>1, <3>1, SentinelAssumption DEF IInv, SlotAccounting, ActiveJobs, InFlight
    <3>3. task'[r] = Cancelled(task[r], "Shutdown")
      BY <1>1, <3>2
    <3>4. task'[r].cancel # "None"
      <4>1. task[r] \in Task /\ task[r].job # NoJob
        BY <1>1, <3>1, <3>2 DEF TypeOK, InFlight
      <4> QED
        BY <3>3, <4>1 DEF Cancelled, Task
    <3>5. r \in InFlight' /\ task'[r].job = j
      BY <1>2, <1>3, <3>1, <3>2
    <3>6. StageOf(j)' = "stopping"
      <4>1. OneRunPerJob' /\ ~(task'[r].cancel = "None")
        BY <1>1, <3>4
      <4>2. StageOf(j)' = IF task'[r].cancel = "None" THEN "running" ELSE "stopping"
        BY <3>5, <4>1, LiveStageNext
      <4> QED
        BY <4>1, <4>2
    <3>7. StageOf(j) \in {"running", "stopping"}
      BY <1>1, <3>1, LiveStage
    <3> QED
      BY <3>6, <3>7
  <2>2. CASE ~\E r \in InFlight : task[r].job = j
    <3>1. \A s \in InFlight' : task'[s].job # j
      BY <1>2, <1>3, <2>2 DEF InFlight
    <3>2. StageOf(j)' = "idle"
      BY <1>1, <3>1, DeadStageNext
    <3>3. StageOf(j) \in {"ending", "idle"}
      BY <2>2, DeadStage
    <3> QED
      BY <3>2, <3>3
  <2> QED
    BY <2>1, <2>2
<1>5. Stages' = [j \in Job |-> IF j \in Lifecycle!Live THEN "stopping" ELSE "idle"]
  BY <1>4 DEF Stages, Lifecycle!Live
<1>6. LineOf(queue)' = <<>>
  BY <1>1, LineEmpty
<1>7. Lifecycle!Close
  BY <1>1, <1>5, <1>6 DEF Lifecycle!Close, Stages
<1> QED
  BY <1>7 DEF Promised, Lifecycle!Next

\* Every step of the scheduler is one that the promise allows.
LEMMA PromiseKept == IInv /\ IInv' /\ [Next]_vars => Promised
<1> SUFFICES ASSUME IInv, IInv', [Next]_vars PROVE Promised
  OBVIOUS
<1>1. TypeOK
  BY DEF IInv
<1>2. ASSUME UNCHANGED <<active, task>> PROVE Stages' = Stages
  BY <1>2, StagesKept
<1>3. ASSUME UNCHANGED <<active, task, queue>>, pc' = "stopped" <=> pc = "stopped"
      PROVE  Promised
  BY <1>2, <1>3, StutterStep
<1>4. CASE RetainDrop
  BY <1>2, <1>4, LeaveStep DEF RetainDrop, world
<1>5. ASSUME NEW j \in Job, ResyncJob(j) PROVE Promised
  <2>1. UNCHANGED <<active, task>> /\ pc # "stopped" /\ pc' # "stopped"
    BY <1>5 DEF ResyncJob, world
  <2>2. CASE queue' = queue
    BY <1>3, <2>1, <2>2
  <2>3. CASE Enqueue(j, "CatchUp")
    BY <1>2, <2>1, <2>3, JoinStep DEF Trigger
  <2> QED
    BY <1>5, <2>2, <2>3 DEF ResyncJob, ResyncOnChange, ResyncManual, ResyncInterval
<1>6. CASE PumpSkip
  <2>1. queue \in Seq(Pending) /\ queue # <<>> /\ queue' = Tail(queue)
        /\ UNCHANGED <<active, task, pc>>
    BY <1>1, <1>6 DEF PumpSkip, CanPump, TypeOK, world
  <2>2. 1 \in DOMAIN queue /\ LineOf(queue)' = Lifecycle!Without(1)
        /\ 1 \in DOMAIN LineOf(queue)
    BY <2>1, EmptySeq, LenProperties, LineTail, LineRemove, LineFacts
  <2>3. Lifecycle!Leave(1)
    BY <1>2, <2>1, <2>2 DEF Lifecycle!Leave, Stages
  <2> QED
    BY <2>2, <2>3 DEF Promised, Lifecycle!Next
<1>7. CASE PumpStart
  BY <1>7, StartStep
<1>8. CASE SeeCancel
  BY <1>8, CloseStep
<1>9. CASE TakeCancel
  <2>1. UNCHANGED active /\ pc # "stopped" /\ pc' # "stopped"
    BY <1>9 DEF TakeCancel, Receive
  <2>2. CASE task' = task
    <3>1. queue' = queue \/ \E i \in DOMAIN queue : queue' = RemoveAt(queue, i)
      BY <1>9 DEF TakeCancel
    <3> QED
      BY <1>2, <1>3, <2>1, <2>2, <3>1, LeaveStep
  <2>3. CASE task' # task
    <3>1. PICK j \in Job :
            /\ active[j] \in Run
            /\ task' = [task EXCEPT ![active[j]] = Cancelled(@, "Requested")]
      BY <1>9, <2>3, StopReaches
    <3>2. queue' = queue
      BY <1>9, <2>3 DEF TakeCancel
    <3>3. PICK r \in Run : r = active[j]
      BY <3>1
    <3>4. /\ task'[r] = Cancelled(task[r], "Requested") /\ task[r] \in Task
          /\ \A s \in Run \ {r} : task'[s] = task[s]
      BY <1>1, <3>1, <3>3 DEF TypeOK
    <3>5. task'[r] # task[r]
      BY <1>1, <2>3, <3>1, <3>3, <3>4 DEF TypeOK
    <3>6. r \in InFlight /\ task[r].cancel = "None"
      BY <3>4, <3>5 DEF Cancelled, InFlight
    <3>7. task'[r].job = task[r].job /\ task'[r].cancel = "Requested"
      BY <3>4, <3>6 DEF Cancelled, Task, InFlight
    <3> QED
      BY <2>1, <3>2, <3>4, <3>6, <3>7, StopStep
  <2> QED
    BY <2>2, <2>3
<1>10. CASE TakeRun
  <2>1. Head(commands).job \in Job /\ Head(commands).trigger \in Trigger
    BY <1>1, <1>10, Entries DEF TakeRun, Receive, Command
  <2>2. UNCHANGED <<active, task>> /\ pc # "stopped" /\ pc' # "stopped"
    BY <1>10 DEF TakeRun, Receive
  <2> QED
    BY <1>2, <1>10, <2>1, <2>2, JoinStep DEF TakeRun
<1>11. CASE TakeCompletion
  BY <1>11, ReleaseStep
<1>12. ASSUME NEW j \in Job, FireJob(j) PROVE Promised
  BY <1>2, <1>12, JoinStep DEF FireJob, Trigger, world
<1>13. CASE RetainDone \/ ResyncDone \/ PumpDone \/ TakeConfig \/ TakeTimer \/ FireDone
  BY <1>3, <1>13 DEF RetainDone, ResyncDone, PumpDone, TakeConfig, Receive, TakeTimer,
                     FireDone, world
<1>14. ASSUME NEW r \in Run, PropagateCancel(r) PROVE Promised
  <2>1. /\ r \in InFlight /\ task[r].cancel = "None" /\ task'[r].cancel # "None"
        /\ task'[r].job = task[r].job /\ \A s \in Run \ {r} : task'[s] = task[s]
        /\ UNCHANGED <<active, queue, pc>>
    BY <1>1, <1>14 DEF PropagateCancel, TypeOK, Task, InFlight
  <2> QED
    BY <2>1, StopStep
<1>15. ASSUME NEW r \in Run, NEW outcome \in Outcome, FinishRun(r, outcome) PROVE Promised
  BY <1>15, EndStep
<1>16. CASE Daemon \/ UNCHANGED vars
  BY <1>3, <1>16 DEF Daemon, Request, FileChange, Send, SetEnvironment, Shutdown, Tick,
                     Halted, vars, world
<1> QED
  BY <1>4, <1>5, <1>6, <1>7, <1>8, <1>9, <1>10, <1>11, <1>12, <1>13, <1>14, <1>15, <1>16
     DEF Next, Loop, Runs

LEMMA PromiseBegins == Init => Lifecycle!Init
<1> SUFFICES ASSUME Init PROVE Lifecycle!Init
  OBVIOUS
<1>1. LineOf(queue) = <<>>
  BY LineEmpty DEF Init
<1>2. \A s \in InFlight : FALSE
  BY DEF Init, InFlight, NoTask
<1>3. \A j \in Job : StageOf(j) = "idle"
  BY <1>2, DeadStage DEF Init
<1> QED
  BY <1>1, <1>3 DEF Init, Lifecycle!Init

\* The scheduler implements the promised life of a run: for any jobs, any
\* configurations and any mix of commands, its steps start runs only from
\* the front of the line, stop one job at a time and close for good.
THEOREM SchedulerImplementsLifecycle == Spec => ImplementsLifecycle
<1>1. IInv /\ IInv' /\ [Next]_vars => [Lifecycle!Next]_(Lifecycle!vars)
  BY PromiseKept DEF Promised
<1> QED
  BY <1>1, PromiseBegins, Invariant, PTL
     DEF Spec, ImplementsLifecycle, Lifecycle!Spec

----------------------------------------------------------------------------
(***************************************************************************)
(* The grid of an interval schedule.                                       *)
(***************************************************************************)
\* What division on the grid of an interval schedule returns.
LEMMA Division ==
    ASSUME NEW e \in Nat \ {0}, NEW t \in Nat
    PROVE  /\ t \div e \in Nat
           /\ t % e \in Nat /\ t % e < e
           /\ t = e * (t \div e) + (t % e)
<1>1. t \div e \in Int /\ t % e \in 0..(e - 1)
  BY SMT
<1>2. t = e * (t \div e) + (t % e)
  BY Z3
<1>3. t \div e \in Nat
  BY SMT
<1> QED
  BY <1>1, <1>2, <1>3

LEMMA Products ==
    ASSUME NEW a \in Nat, NEW b \in Nat, NEW c \in Nat
    PROVE  /\ a * b \in Nat
           /\ a * (b + c) = a * b + a * c /\ (b + c) * a = a * b + a * c
           /\ a * (b + 1) = a * b + a /\ (b + 1) * a = a * b + a
  BY SMT

\* The place of an instant on the grid of an interval.
LEMMA OnTheGrid ==
    ASSUME NEW s \in Schedule, s.kind = "interval", NEW t \in Nat
    PROVE  \E q \in Nat, m \in Nat :
             /\ s.every \in Nat /\ m < s.every /\ t = s.every * q + m
             /\ NextOccurrence(s, t) = s.every * q + s.every
<1>1. s.every \in Nat \ {0}
  BY DEF Schedule
<1>2. PICK e \in Nat \ {0} : e = s.every
  BY <1>1
<1>3. /\ t \div e \in Nat /\ t % e \in Nat /\ t % e < e
      /\ t = e * (t \div e) + (t % e)
  BY Division
<1>4. PICK q \in Nat, m \in Nat : q = t \div e /\ m = t % e
  BY <1>3
<1>5. m < e /\ t = e * q + m
  BY <1>3, <1>4
<1>6. NextOccurrence(s, t) = (q + 1) * e
  BY <1>2, <1>4 DEF NextOccurrence
<1>7. (q + 1) * e = e * q + e
  BY Products
<1> QED
  BY <1>2, <1>5, <1>6, <1>7

\* The next occurrence of an interval lies ahead of the clock, and never
\* moves back while the clock moves on.
LEMMA NextOccurrenceLater ==
    ASSUME NEW s \in Schedule, s.kind = "interval", NEW t \in Nat
    PROVE  NextOccurrence(s, t) \in Nat /\ NextOccurrence(s, t) > t
<1>1. PICK q \in Nat, m \in Nat :
        /\ s.every \in Nat /\ m < s.every /\ t = s.every * q + m
        /\ NextOccurrence(s, t) = s.every * q + s.every
  BY OnTheGrid
<1>2. s.every * q \in Nat
  BY <1>1, Products
<1> QED
  BY <1>1, <1>2

LEMMA NextOccurrenceMoves ==
    ASSUME NEW s \in Schedule, s.kind = "interval", NEW t \in Nat
    PROVE  NextOccurrence(s, t) <= NextOccurrence(s, t + 1)
<1>1. PICK p \in Nat, m \in Nat :
        /\ s.every \in Nat /\ m < s.every /\ t = s.every * p + m
        /\ NextOccurrence(s, t) = s.every * p + s.every
  BY OnTheGrid
<1>2. t + 1 \in Nat
  OBVIOUS
<1>3. PICK q \in Nat, n \in Nat :
        /\ n < s.every /\ t + 1 = s.every * q + n
        /\ NextOccurrence(s, t + 1) = s.every * q + s.every
  BY <1>2, OnTheGrid
<1>4. PICK e \in Nat : e = s.every
  BY <1>1
<1>5. e * p \in Nat /\ e * q \in Nat
  BY Products
<1>6. CASE q < p
  <2>1. PICK d \in Nat : p = (q + 1) + d
    <3>1. p - (q + 1) \in Nat
      BY <1>6
    <3> QED
      BY <3>1
  <2>2. e * p = e * (q + 1) + e * d /\ e * (q + 1) = e * q + e /\ e * d \in Nat
    BY <2>1, Products
  <2> QED
    BY <1>1, <1>3, <1>4, <1>5, <2>2
<1>7. CASE p <= q
  <2>1. PICK d \in Nat : q = p + d
    <3>1. q - p \in Nat
      BY <1>7
    <3> QED
      BY <3>1
  <2>2. e * q = e * p + e * d /\ e * d \in Nat
    BY <2>1, Products
  <2> QED
    BY <1>1, <1>3, <1>4, <1>5, <2>2
<1> QED
  BY <1>6, <1>7

(***************************************************************************)
(* No occurrence is lost.  What the loop knows of a job's schedule decides *)
(* how far ahead it may be armed; resync brings the tables of one job in   *)
(* line with the configuration, and nothing after it undoes that.          *)
(***************************************************************************)
Kept(j) ==
    known[j] # NoSchedule /\ known[j].kind = "interval" /\ nextFire[j] # Never
      => nextFire[j] <= NextOccurrence(known[j], now)

InSync(j) ==
    /\ known[j] = config.schedule[j]
    /\ watchers[j] # Never <=> config.schedule[j].kind = "onchange"
    /\ config.schedule[j].kind = "interval" => nextFire[j] # Never

Dealt == IF pc = "resync" THEN config.jobs \ todo ELSE config.jobs

Settled ==
    /\ pc = "retain" => todo = config.jobs
    /\ pc = "resync" => todo \subseteq config.jobs
    /\ pc \in {"resync", "pump", "select", "fire"} =>
         /\ \A j \in Dealt : InSync(j)
         /\ \A j \in Job \ config.jobs : watchers[j] = Never

Powered ==
    /\ awake = (ActiveJobs # {})
    /\ alarm # Never => Armed # {} /\ alarm = FirstFire - WakeLead

Timed ==
    /\ TypeOK
    /\ \A j \in Job : Kept(j)
    /\ Settled
    /\ pc = "select" => Powered

LEMMA TimedInit == Init => Timed
<1> SUFFICES ASSUME Init PROVE Timed
  OBVIOUS
<1>1. \A j \in Job : Kept(j)
  BY DEF Init, Kept
<1>2. Settled /\ pc # "select"
  BY DEF Init, Settled
<1> QED
  BY <1>1, <1>2, TypeInit DEF Timed

\* Every step but one of the loop leaves the tables alone; the clock may move.
LEMMA TimedRest ==
    ASSUME Timed, TypeOK', now' \in {now, now + 1},
           UNCHANGED <<pc, todo, config, active, tables, power>>
    PROVE  Timed'
<1>1. TypeOK
  BY DEF Timed
<1>2. ASSUME NEW j \in Job PROVE Kept(j)'
  <2> SUFFICES ASSUME known[j] # NoSchedule, known[j].kind = "interval",
                      nextFire[j] # Never
               PROVE  nextFire[j] <= NextOccurrence(known[j], now')
    BY DEF Kept, tables
  <2>1. known[j] \in Schedule /\ now \in Nat /\ nextFire[j] \in Nat
    BY <1>1 DEF TypeOK
  <2>2. nextFire[j] <= NextOccurrence(known[j], now)
    BY DEF Timed, Kept
  <2>3. /\ NextOccurrence(known[j], now) <= NextOccurrence(known[j], now + 1)
        /\ NextOccurrence(known[j], now) \in Nat
        /\ NextOccurrence(known[j], now + 1) \in Nat
    BY <2>1, NextOccurrenceMoves, NextOccurrenceLater
  <2> QED
    BY <2>1, <2>2, <2>3
<1>3. Settled'
  BY DEF Timed, Settled, Dealt, InSync, tables
<1>4. Powered => Powered'
  BY DEF Powered, ActiveJobs, Armed, FirstFire, tables, power
<1> QED
  BY <1>2, <1>3, <1>4 DEF Timed

LEMMA TimedRetain == ASSUME Timed, TypeOK', RetainDone PROVE Timed'
<1>1. /\ TypeOK /\ Settled /\ pc = "retain" /\ pc' = "resync"
      /\ UNCHANGED <<now, todo, config>>
      /\ nextFire' = [j \in Job |-> IF j \in config.jobs THEN nextFire[j] ELSE Never]
      /\ known' = [j \in Job |-> IF j \in config.jobs THEN known[j] ELSE NoSchedule]
      /\ watchers' = [j \in Job |-> IF j \in config.jobs THEN watchers[j] ELSE Never]
  BY DEF Timed, RetainDone, world
<1>2. ASSUME NEW j \in Job PROVE Kept(j)'
  BY <1>1 DEF Timed, Kept
<1>3. todo = config.jobs /\ Dealt' = {}
  BY <1>1 DEF Settled, Dealt
<1>4. Settled'
  BY <1>1, <1>3 DEF Settled
<1> QED
  BY <1>1, <1>2, <1>4 DEF Timed

LEMMA TimedResync ==
    ASSUME Timed, TypeOK', NEW j \in Job, ResyncJob(j)
    PROVE  Timed'
<1> DEFINE s == config.schedule[j]
<1>1. /\ TypeOK /\ Settled /\ pc = "resync" /\ pc' = "resync" /\ j \in todo
      /\ UNCHANGED <<now, config>> /\ todo' = todo \ {j}
      /\ known' = [known EXCEPT ![j] = s]
  BY DEF Timed, ResyncJob, world
<1>2. /\ s \in Schedule /\ s # NoSchedule /\ config.jobs \subseteq Job
      /\ config.sources[j] \in Nat /\ now \in Nat
      /\ s.kind \in {"manual", "onchange", "interval"}
      /\ s.kind = "interval" => NextOccurrence(s, now) \in Nat
  <2>1. config \in Config /\ now \in Nat
    BY <1>1 DEF TypeOK
  <2>2. s \in Schedule /\ config.jobs \subseteq Job /\ config.sources[j] \in Nat
    BY <2>1, ConfigTypes
  <2> QED
    BY <2>1, <2>2, NextOccurrenceLater, SentinelAssumption DEF Schedule
<1> HIDE DEF s
<1>3. \A k \in Job \ {j} :
        /\ nextFire'[k] = nextFire[k] /\ watchers'[k] = watchers[k]
        /\ known'[k] = known[k]
  BY <1>1 DEF TypeOK, ResyncJob, ResyncOnChange, ResyncManual, ResyncInterval
<1>4. known'[j] = s
  BY <1>1 DEF TypeOK
<1>5. Kept(j)' /\ InSync(j)'
  <2>1. CASE ResyncOnChange(j)
    <3>1. s.kind = "onchange" /\ watchers'[j] # Never
      BY <1>1, <1>2, <2>1 DEF ResyncOnChange, TypeOK, Never, s
    <3> QED
      BY <1>1, <1>4, <3>1 DEF Kept, InSync, s
  <2>2. CASE ResyncManual(j)
    <3>1. s.kind = "manual" /\ watchers'[j] = Never
      BY <1>1, <2>2 DEF ResyncManual, TypeOK, s
    <3> QED
      BY <1>1, <1>4, <3>1 DEF Kept, InSync, s
  <2>3. CASE ResyncInterval(j)
    <3>1. s.kind = "interval" /\ watchers'[j] = Never
      BY <1>1, <2>3 DEF ResyncInterval, TypeOK, s
    <3>2. \/ nextFire'[j] = NextOccurrence(s, now)
          \/ known[j] = s /\ nextFire[j] # Never /\ nextFire'[j] = nextFire[j]
      BY <1>1, <2>3 DEF ResyncInterval, TypeOK, s
    <3>3. nextFire'[j] # Never /\ nextFire'[j] <= NextOccurrence(s, now)
      <4>1. CASE nextFire'[j] = NextOccurrence(s, now)
        BY <1>2, <3>1, <4>1 DEF Never
      <4>2. CASE known[j] = s /\ nextFire[j] # Never /\ nextFire'[j] = nextFire[j]
        BY <1>2, <3>1, <4>2 DEF Timed, Kept
      <4> QED
        BY <3>2, <4>1, <4>2
    <3> QED
      BY <1>1, <1>4, <3>1, <3>3 DEF Kept, InSync, s
  <2> QED
    BY <2>1, <2>2, <2>3 DEF ResyncJob
<1>6. ASSUME NEW k \in Job PROVE Kept(k)'
  BY <1>1, <1>3, <1>5 DEF Timed, Kept
<1>7. ASSUME NEW k \in Dealt' PROVE InSync(k)'
  <2>1. k = j \/ (k \in Dealt /\ k \in Job \ {j})
    BY <1>1, <1>2 DEF Dealt
  <2> QED
    BY <1>1, <1>3, <1>5, <2>1 DEF Settled, InSync
<1>8. ASSUME NEW k \in Job \ config.jobs PROVE watchers'[k] = Never
  BY <1>1, <1>3 DEF Settled
<1> QED
  BY <1>1, <1>6, <1>7, <1>8 DEF Timed, Settled

LEMMA TimedFire ==
    ASSUME Timed, TypeOK', NEW j \in Job, FireJob(j)
    PROVE  Timed'
<1>1. /\ TypeOK /\ Settled /\ pc = "fire" /\ pc' = "fire"
      /\ UNCHANGED <<now, config, known, watchers>>
      /\ nextFire' = [nextFire EXCEPT ![j] = Rearmed(j)]
  BY DEF Timed, FireJob, world
<1>2. /\ nextFire'[j] = Rearmed(j)
      /\ \A k \in Job \ {j} : nextFire'[k] = nextFire[k]
  BY <1>1 DEF TypeOK
<1>3. Dealt = config.jobs /\ Dealt' = config.jobs /\ config.jobs \subseteq Job
  BY <1>1, ConfigTypes DEF Dealt, TypeOK
<1>4. Kept(j)' /\ (j \in config.jobs => InSync(j)')
  <2>1. CASE j \in config.jobs
    <3>1. /\ InSync(j) /\ config.schedule[j] \in Schedule /\ now \in Nat
          /\ nextFire'[j] = NextOccurrence(config.schedule[j], now)
      BY <1>1, <1>2, <1>3, <2>1, ConfigTypes DEF Settled, Rearmed, TypeOK
    <3>2. CASE config.schedule[j].kind = "interval"
      <4>1. NextOccurrence(config.schedule[j], now) \in Nat
        BY <3>1, <3>2, NextOccurrenceLater
      <4> QED
        BY <1>1, <3>1, <4>1 DEF Kept, InSync, Never
    <3>3. CASE config.schedule[j].kind # "interval"
      BY <1>1, <3>1, <3>3 DEF Kept, InSync
    <3> QED
      BY <3>2, <3>3
  <2>2. CASE j \notin config.jobs
    BY <1>2, <2>2 DEF Rearmed, Kept
  <2> QED
    BY <2>1, <2>2
<1>5. ASSUME NEW k \in Job PROVE Kept(k)'
  BY <1>1, <1>2, <1>4 DEF Timed, Kept
<1>6. ASSUME NEW k \in config.jobs PROVE InSync(k)'
  BY <1>1, <1>2, <1>3, <1>4 DEF Settled, InSync
<1> QED
  BY <1>1, <1>3, <1>5, <1>6 DEF Timed, Settled

LEMMA TimedCompletion == ASSUME Timed, TypeOK', TakeCompletion PROVE Timed'
<1>1. /\ TypeOK /\ Settled /\ pc = "select" /\ pc' = "pump"
      /\ UNCHANGED <<now, config, known, watchers>>
      /\ completions # <<>> /\ ConsiderReattempt(Head(completions))
  BY DEF Timed, TakeCompletion
<1>2. PICK c \in Completion : c = Head(completions)
  BY <1>1, Entries
<1>3. /\ Dealt = config.jobs /\ Dealt' = config.jobs /\ config.jobs \subseteq Job
      /\ c.job \in Job
  BY <1>1, <1>2, ConfigTypes DEF Dealt, TypeOK, Completion
<1> DEFINE at == now + Max1(config.retry[c.job].after)
<1>4. at \in Nat
  <2>1. PICK n \in Nat : n = config.retry[c.job].after
    BY <1>1, <1>3, ConfigTypes DEF TypeOK
  <2>2. now \in Nat /\ at = now + Max1(n)
    BY <1>1, <2>1 DEF TypeOK
  <2> QED
    BY <2>2 DEF Max1
<1>5. \/ UNCHANGED nextFire
      \/ /\ c.job \in config.jobs /\ nextFire' = [nextFire EXCEPT ![c.job] = at]
         /\ nextFire[c.job] = Never \/ nextFire[c.job] > at
  BY <1>1, <1>2 DEF ConsiderReattempt, BringsForward
<1> HIDE DEF at
<1>6. CASE UNCHANGED nextFire
  BY <1>1, <1>3, <1>6 DEF Timed, Settled, InSync, Kept
<1>7. CASE /\ c.job \in config.jobs /\ nextFire' = [nextFire EXCEPT ![c.job] = at]
           /\ nextFire[c.job] = Never \/ nextFire[c.job] > at
  <2>1. /\ nextFire'[c.job] = at /\ at # Never
        /\ \A k \in Job \ {c.job} : nextFire'[k] = nextFire[k]
    BY <1>1, <1>3, <1>4, <1>7 DEF TypeOK, Never
  <2>2. ASSUME NEW k \in config.jobs PROVE InSync(k)'
    BY <1>1, <1>3, <2>1 DEF Settled, InSync
  <2>3. Kept(c.job)'
    <3> SUFFICES ASSUME known[c.job].kind = "interval"
                 PROVE  at <= NextOccurrence(known[c.job], now)
      BY <1>1, <2>1 DEF Kept
    <3>1. InSync(c.job) /\ config.schedule[c.job] \in Schedule /\ now \in Nat
      BY <1>1, <1>3, <1>7, ConfigTypes DEF Settled, TypeOK
    <3>2. /\ nextFire[c.job] # Never /\ known[c.job] = config.schedule[c.job]
          /\ known[c.job] # NoSchedule /\ nextFire[c.job] \in Nat
          /\ NextOccurrence(known[c.job], now) \in Nat
      BY <1>1, <1>3, <3>1, NextOccurrenceLater, SentinelAssumption DEF InSync, TypeOK
    <3>3. nextFire[c.job] <= NextOccurrence(known[c.job], now)
      BY <1>3, <3>2 DEF Timed, Kept
    <3> QED
      BY <1>4, <1>7, <3>2, <3>3
  <2>4. ASSUME NEW k \in Job PROVE Kept(k)'
    BY <1>1, <2>1, <2>3 DEF Timed, Kept
  <2> QED
    BY <1>1, <1>3, <2>2, <2>4 DEF Timed, Settled
<1> QED
  BY <1>5, <1>6, <1>7

LEMMA TimedStep == Timed /\ [Next]_vars => Timed'
<1> SUFFICES ASSUME Timed, [Next]_vars PROVE Timed'
  OBVIOUS
<1>1. TypeOK /\ TypeOK'
  BY TypeStep DEF Timed
<1>2. CASE RetainDrop \/ PumpSkip
  BY <1>1, <1>2, TimedRest DEF RetainDrop, PumpSkip, world
<1>3. CASE RetainDone
  BY <1>1, <1>3, TimedRetain
<1>4. ASSUME NEW j \in Job, ResyncJob(j) PROVE Timed'
  BY <1>1, <1>4, TimedResync
<1>5. CASE ResyncDone \/ PumpStart \/ TakeCancel \/ TakeRun \/ TakeTimer \/ FireDone
  <2>1. /\ pc \in {"resync", "pump", "select", "fire"} /\ pc' \in {"pump", "fire"}
        /\ UNCHANGED <<now, config, nextFire, known, watchers>>
        /\ pc = "resync" => todo = {}
    BY <1>5 DEF ResyncDone, PumpStart, CanPump, TakeCancel, TakeRun, TakeTimer, FireDone,
                Receive, world, tables
  <2>2. Dealt = config.jobs /\ Dealt' = config.jobs
    BY <2>1 DEF Dealt
  <2> QED
    BY <1>1, <2>1, <2>2 DEF Timed, Settled, InSync, Kept
<1>6. CASE PumpDone
  <2>1. /\ pc = "pump" /\ pc' = "select"
        /\ UNCHANGED <<now, config, active, nextFire, known, watchers>>
        /\ awake' = (ActiveJobs # {}) /\ alarm' = Alarm
    BY <1>6 DEF PumpDone, world, tables
  <2>2. Powered'
    BY <2>1 DEF Powered, Alarm, ActiveJobs, Armed, FirstFire
  <2>3. Dealt = config.jobs /\ Dealt' = config.jobs
    BY <2>1 DEF Dealt
  <2> QED
    BY <1>1, <2>1, <2>2, <2>3 DEF Timed, Settled, InSync, Kept
<1>7. CASE SeeCancel
  BY <1>1, <1>7 DEF SeeCancel, Timed, Settled, Kept
<1>8. CASE TakeConfig
  <2>1. /\ pc' = "retain" /\ todo' = config'.jobs
        /\ UNCHANGED <<now, nextFire, known>>
    BY <1>8 DEF TakeConfig, tables
  <2> QED
    BY <1>1, <2>1 DEF Timed, Settled, Kept
<1>9. CASE TakeCompletion
  BY <1>1, <1>9, TimedCompletion
<1>10. ASSUME NEW j \in Job, FireJob(j) PROVE Timed'
  BY <1>1, <1>10, TimedFire
<1>11. CASE Runs \/ Daemon \/ UNCHANGED vars
  <2>1. /\ now' \in {now, now + 1}
        /\ UNCHANGED <<pc, todo, config, active, tables, power>>
    BY <1>11 DEF Runs, PropagateCancel, FinishRun, Daemon, Request, FileChange, Send,
                 SetEnvironment, Shutdown, Tick, Halted, vars, world
  <2> QED
    BY <1>1, <2>1, TimedRest
<1> QED
  BY <1>2, <1>3, <1>4, <1>5, <1>6, <1>7, <1>8, <1>9, <1>10, <1>11 DEF Next, Loop

\* While the loop waits no occurrence is lost or overslept, the watchers are
\* those of the configuration, and the machine is held awake for the slots
\* taken: for any schedules, edits, re-attempts and late timers.
THEOREM NoOccurrenceLostHolds == Spec => []NoOccurrenceLost
<1>1. Timed => NoOccurrenceLost
  <2> SUFFICES ASSUME Timed, pc = "select" PROVE NoOccurrenceLost
    BY DEF NoOccurrenceLost
  <2>1. config.jobs \subseteq Job /\ Dealt = config.jobs
    BY ConfigTypes DEF Timed, TypeOK, Dealt
  <2>2. /\ \A j \in config.jobs : InSync(j)
        /\ \A j \in Job \ config.jobs : watchers[j] = Never
    BY <2>1 DEF Timed, Settled
  <2>3. ASSUME NEW j \in config.jobs, config.schedule[j].kind = "interval"
        PROVE  j \in Armed /\ nextFire[j] <= NextOccurrence(config.schedule[j], now)
    <3>1. /\ known[j] = config.schedule[j] /\ nextFire[j] # Never /\ j \in Job
          /\ config.schedule[j] # NoSchedule
      BY <2>1, <2>2, <2>3, ConfigTypes, SentinelAssumption DEF InSync, Timed, TypeOK
    <3> QED
      BY <2>3, <3>1 DEF Timed, Kept, Armed
  <2>4. {j \in Job : watchers[j] # Never}
          = {j \in config.jobs : config.schedule[j].kind = "onchange"}
    BY <2>1, <2>2 DEF InSync
  <2> QED
    BY <2>3, <2>4 DEF NoOccurrenceLost, Timed, Powered
<1> QED
  BY <1>1, TimedInit, TimedStep, PTL DEF Spec

----------------------------------------------------------------------------
(***************************************************************************)
(* What liveness rests on.  That a fair loop stops and decides every       *)
(* waiting run is TLC's to say (QueuedIsDecided, ShutdownEnds); here, for  *)
(* every value of the constants, is why: the loop counts down to its end,  *)
(* it sleeps on no run it could start, nobody is overtaken in the queue,   *)
(* and no enqueue waits for an id.                                         *)
(***************************************************************************)

\* How far a part of the loop is from the select that sees the token.
LoopPart(p) ==
    CASE p = "retain" -> 5
      [] p \in {"resync", "fire"} -> 4
      [] p = "pump" -> 3
      [] p = "select" -> 2
      [] p = "stopped" -> 1

\* The next part, or less left of this one: a finite queue or a finite todo.
NearerStop ==
    \/ LoopPart(pc') < LoopPart(pc)
    \/ pc' = pc /\ pc \in {"retain", "pump"} /\ Len(queue') < Len(queue)
    \/ pc' = pc /\ pc \in {"resync", "fire"} /\ todo' \subseteq todo /\ todo' # todo

\* After a shutdown every step of the loop brings it nearer its end, and no
\* other step, of a run or of a handler, takes that back.
StopCountsDown ==
    [][engineCancel =>
         /\ engineCancel'
         /\ Loop => NearerStop
         /\ NearerStop \/ UNCHANGED <<pc, todo, queue>>]_vars

\* The loop that ended starts nothing, and leaves no run untold.
StoppedForGood ==
    [][pc = "stopped" => pc' = "stopped" /\ InFlight' \subseteq InFlight]_vars

\* Whatever is still in flight when the loop has ended was told to stop.
NoRunUntold ==
    pc = "stopped" => \A r \in InFlight : task[r].cancel # "None"

\* The loop never sleeps on a run it has a slot for (no wakeup is lost).
NoIdleSlot == pc = "select" => queue = <<>> \/ ~SlotFree

\* A waiting run is never moved back in the queue.
NobodyOvertakes ==
    [][\A i \in DOMAIN queue, k \in DOMAIN queue' :
         queue'[k] = queue[i] => k <= i]_vars

\* An idle job always finds a run id nobody holds.
IdsToSpare ==
    pc # "stopped" =>
      \A j \in Job : active[j] = NoRun /\ j \notin QueuedJobs => Run \ UsedRuns # {}

\* What a step may do to the queue.
LEMMA QueueMoves ==
    ASSUME [Next]_vars
    PROVE  \/ queue' = queue
           \/ queue' = <<>>
           \/ queue # <<>> /\ queue' = Tail(queue)
           \/ \E i \in DOMAIN queue : queue' = RemoveAt(queue, i)
           \/ \E r \in Run \ UsedRuns : \E j, t :
                queue' = Append(queue, [run |-> r, job |-> j, trigger |-> t])
<1>1. ASSUME NEW j, NEW t, Enqueue(j, t)
      PROVE  \/ queue' = queue
             \/ \E r \in Run \ UsedRuns :
                  queue' = Append(queue, [run |-> r, job |-> j, trigger |-> t])
  BY <1>1 DEF Enqueue
<1>2. ASSUME NEW j \in Job, ResyncJob(j)
      PROVE  \/ queue' = queue
             \/ \E r \in Run \ UsedRuns : \E k, t :
                  queue' = Append(queue, [run |-> r, job |-> k, trigger |-> t])
  <2>1. queue' = queue \/ Enqueue(j, "CatchUp")
    BY <1>2 DEF ResyncJob, ResyncOnChange, ResyncManual, ResyncInterval
  <2> QED
    BY <1>1, <2>1
<1>3. CASE TakeRun \/ \E j \in Job : FireJob(j)
  BY <1>1, <1>3 DEF TakeRun, FireJob
<1>4. CASE RetainDrop \/ TakeCancel
  BY <1>4 DEF RetainDrop, TakeCancel
<1>5. CASE PumpSkip \/ PumpStart \/ SeeCancel
  BY <1>5 DEF PumpSkip, PumpStart, SeeCancel, CanPump
<1>6. CASE RetainDone \/ ResyncDone \/ PumpDone \/ TakeConfig \/ TakeCompletion
           \/ TakeTimer \/ FireDone
  BY <1>6 DEF RetainDone, ResyncDone, PumpDone, TakeConfig, TakeCompletion, TakeTimer,
              FireDone
<1>7. CASE Runs
  BY <1>7 DEF Runs, PropagateCancel, FinishRun
<1>8. CASE Daemon
  BY <1>8 DEF Daemon, Request, FileChange, Send, SetEnvironment, Shutdown, Tick,
              Halted, vars
<1>9. CASE UNCHANGED vars
  BY <1>9 DEF vars
<1> QED
  BY <1>2, <1>3, <1>4, <1>5, <1>6, <1>7, <1>8, <1>9 DEF Next, Loop

\* The runs and the handlers leave the loop where it is.
LEMMA OthersWait ==
    ASSUME Runs \/ Daemon \/ UNCHANGED vars
    PROVE  UNCHANGED <<pc, todo, config, queue, active>>
<1>1. CASE Runs
  BY <1>1 DEF Runs, PropagateCancel, FinishRun
<1>2. CASE Daemon
  BY <1>2 DEF Daemon, Request, FileChange, Send, SetEnvironment, Shutdown, Tick,
              Halted, vars
<1>3. CASE UNCHANGED vars
  BY <1>3 DEF vars
<1> QED
  BY <1>1, <1>2, <1>3

\* The token stays fired.
LEMMA TokenStays ==
    ASSUME [Next]_vars, engineCancel
    PROVE  engineCancel'
<1>1. CASE Loop
  BY <1>1 DEF Loop, RetainDrop, RetainDone, ResyncJob, ResyncDone, PumpSkip, PumpStart,
              PumpDone, SeeCancel, TakeCancel, TakeRun, TakeConfig, TakeCompletion,
              TakeTimer, FireJob, FireDone, world
<1>2. CASE Runs
  BY <1>2 DEF Runs, PropagateCancel, FinishRun
<1>3. CASE Daemon
  BY <1>3 DEF Daemon, Request, FileChange, Send, SetEnvironment, Shutdown, Tick,
              Halted, vars, world
<1> QED
  BY <1>1, <1>2, <1>3 DEF Next, vars, world

LEMMA LoopCounts ==
    ASSUME TypeOK, engineCancel, Loop
    PROVE  NearerStop
<1>1. queue \in Seq(Pending) /\ Len(queue) \in Nat /\ DOMAIN queue = 1..Len(queue)
  BY LenProperties DEF TypeOK
<1>2. CASE RetainDrop
  <2>1. PICK i \in 1..Len(queue) : queue' = RemoveAt(queue, i)
    BY <1>1, <1>2 DEF RetainDrop
  <2>2. Len(queue') < Len(queue)
    BY <1>1, <2>1, RemoveAtProperties
  <2> QED
    BY <1>2, <2>2 DEF RetainDrop, NearerStop
<1>3. CASE RetainDone \/ ResyncDone \/ PumpDone \/ SeeCancel \/ FireDone
  <2>1. /\ LoopPart("retain") = 5 /\ LoopPart("resync") = 4 /\ LoopPart("fire") = 4
        /\ LoopPart("pump") = 3 /\ LoopPart("select") = 2 /\ LoopPart("stopped") = 1
    BY DEF LoopPart
  <2>2. <<pc, pc'>> \in {<<"retain", "resync">>, <<"resync", "pump">>, <<"fire", "pump">>,
                        <<"pump", "select">>, <<"select", "stopped">>}
    BY <1>3 DEF RetainDone, ResyncDone, PumpDone, SeeCancel, FireDone
  <2>3. LoopPart(pc') < LoopPart(pc)
    BY <2>1, <2>2
  <2> QED
    BY <2>3 DEF NearerStop
<1>4. CASE \E j \in Job : ResyncJob(j) \/ FireJob(j)
  BY <1>4 DEF ResyncJob, FireJob, NearerStop
<1>5. CASE PumpSkip \/ PumpStart
  <2>1. queue # <<>> /\ queue' = Tail(queue) /\ pc = "pump" /\ pc' = pc
    BY <1>5 DEF PumpSkip, PumpStart, CanPump
  <2>2. Len(queue') < Len(queue)
    BY <1>1, <2>1
  <2> QED
    BY <2>1, <2>2 DEF NearerStop
<1>6. ~(TakeCancel \/ TakeRun \/ TakeConfig \/ TakeCompletion \/ TakeTimer)
  BY DEF TakeCancel, TakeRun, TakeConfig, TakeCompletion, TakeTimer, Receive
<1> QED
  BY <1>2, <1>3, <1>4, <1>5, <1>6 DEF Loop

\* A shutdown ends the loop in finitely many of its own steps, whatever is
\* queued, configured or asked of it meanwhile.
THEOREM StopCountsDownHolds == Spec => StopCountsDown
<1> DEFINE Counts == engineCancel => /\ engineCancel'
                                     /\ Loop => NearerStop
                                     /\ NearerStop \/ UNCHANGED <<pc, todo, queue>>
<1>1. TypeOK /\ [Next]_vars => Counts
  BY TokenStays, LoopCounts, OthersWait DEF Next
<1>2. [][Counts]_vars <=> StopCountsDown
  BY DEF StopCountsDown
<1> HIDE DEF Counts
<1> QED
  BY <1>1, <1>2, TypeCorrect, PTL DEF Spec

\* A stopped loop takes no step.
LEMMA StoppedStays ==
    ASSUME [Next]_vars, pc = "stopped"
    PROVE  pc' = "stopped" /\ ~Loop
<1>1. ~Loop
  BY DEF Loop, RetainDrop, RetainDone, ResyncJob, ResyncDone, PumpSkip, PumpStart,
         PumpDone, CanPump, SeeCancel, TakeCancel, TakeRun, TakeConfig, TakeCompletion,
         TakeTimer, FireJob, FireDone, Receive
<1> QED
  BY <1>1, OthersWait DEF Next

\* Once the loop has ended it stays so, and the runs in flight only end.
THEOREM StoppedForGoodHolds == Spec => StoppedForGood
<1> DEFINE Ended == pc = "stopped" => pc' = "stopped" /\ InFlight' \subseteq InFlight
<1>1. IInv /\ [Next]_vars => Ended
  BY StartsAdd, StoppedStays DEF PumpStart, CanPump
<1>2. [][Ended]_vars <=> StoppedForGood
  BY DEF StoppedForGood
<1> HIDE DEF Ended
<1> QED
  BY <1>1, <1>2, Invariant, PTL DEF Spec

\* The loop tells every run in flight to stop before it lets go of them.
THEOREM NoRunUntoldHolds == Spec => []NoRunUntold
<1>1. Init => NoRunUntold
  BY DEF Init, NoRunUntold
<1>2. IInv /\ NoRunUntold /\ [Next]_vars => NoRunUntold'
  <2> SUFFICES ASSUME IInv, NoRunUntold, [Next]_vars, pc' = "stopped",
                      NEW r \in Run, task'[r].job # NoJob
               PROVE  task'[r].cancel # "None"
    BY DEF NoRunUntold, InFlight
  <2>1. TypeOK /\ task[r] \in Task
    BY DEF IInv, TypeOK
  <2>2. CASE SeeCancel
    <3>1. task[r].job # NoJob
      BY <2>1, <2>2 DEF SeeCancel, Cancelled, TypeOK, Task
    <3>2. task[r].job \in ActiveJobs /\ active[task[r].job] = r
      BY <2>1, <2>2, <3>1, SentinelAssumption
         DEF IInv, SlotAccounting, InFlight, ActiveJobs, Task, SeeCancel
    <3>3. task'[r] = Cancelled(task[r], "Shutdown")
      BY <2>2, <3>2 DEF SeeCancel
    <3> QED
      BY <2>1, <3>1, <3>3 DEF Cancelled, Task
  <2>3. CASE ~SeeCancel
    <3>1. pc = "stopped" /\ ~Loop
      <4>1. CASE Loop
        BY <2>3, <4>1 DEF Loop, RetainDrop, RetainDone, ResyncJob, ResyncDone, PumpSkip,
              PumpStart, PumpDone, CanPump, TakeCancel, TakeRun, TakeConfig,
              TakeCompletion, TakeTimer, FireJob, FireDone
      <4> QED
        BY <4>1, OthersWait, StoppedStays DEF Next
    <3>2. \/ task' = task
          \/ \E s \in Run : PropagateCancel(s)
          \/ \E s \in Run, outcome \in Outcome : FinishRun(s, outcome)
      BY <3>1, TaskMoves DEF Loop
    <3>3. ASSUME NEW s \in Run, PropagateCancel(s) PROVE task'[r].cancel # "None"
      BY <2>1, <3>1, <3>3 DEF PropagateCancel, TypeOK, Task, NoRunUntold, InFlight
    <3>4. ASSUME NEW s \in Run, NEW outcome \in Outcome, FinishRun(s, outcome)
          PROVE  task'[r].cancel # "None"
      BY <2>1, <3>1, <3>4 DEF FinishRun, TypeOK, NoTask, NoRunUntold, InFlight
    <3> QED
      BY <3>1, <3>2, <3>3, <3>4 DEF NoRunUntold, InFlight
  <2> QED
    BY <2>2, <2>3
<1> QED
  BY <1>1, <1>2, Invariant, PTL DEF Spec

\* Whenever the loop waits, the queue is empty or every slot is taken: for
\* any limit, and after any mix of edits, cancels and completions.
THEOREM NoIdleSlotHolds == Spec => []NoIdleSlot
<1>1. Init => NoIdleSlot
  BY DEF Init, NoIdleSlot
<1>2. NoIdleSlot /\ [Next]_vars => NoIdleSlot'
  <2> SUFFICES ASSUME NoIdleSlot, [Next]_vars, pc' = "select" PROVE NoIdleSlot'
    BY DEF NoIdleSlot
  <2>1. CASE PumpDone
    BY <2>1 DEF PumpDone, NoIdleSlot, SlotFree, ActiveJobs
  <2>2. ~PumpDone => ~Loop
    BY DEF Loop, RetainDrop, RetainDone, ResyncJob, ResyncDone, PumpSkip, PumpStart,
           CanPump, SeeCancel, TakeCancel, TakeRun, TakeConfig, TakeCompletion, TakeTimer,
           FireJob, FireDone
  <2>3. CASE ~Loop
    BY <2>3, OthersWait DEF Next, NoIdleSlot, SlotFree, ActiveJobs
  <2> QED
    BY <2>1, <2>2, <2>3
<1> QED
  BY <1>1, <1>2, PTL DEF Spec

\* First come, first decided: with NoIdleSlot, a waiting run has only the
\* finitely many before it to wait for.
THEOREM NobodyOvertakesHolds == Spec => NobodyOvertakes
<1> DEFINE InOrder == \A i \in DOMAIN queue, k \in DOMAIN queue' :
                        queue'[k] = queue[i] => k <= i
<1>1. IInv /\ [Next]_vars => InOrder
  <2> SUFFICES ASSUME IInv, [Next]_vars, NEW i \in DOMAIN queue,
                      NEW k \in DOMAIN queue', queue'[k] = queue[i]
               PROVE  k <= i
    OBVIOUS
  <2>1. /\ queue \in Seq(Pending) /\ Len(queue) \in Nat
        /\ DOMAIN queue = 1..Len(queue) /\ i \in Nat
    BY LenProperties DEF IInv, TypeOK
  <2>2. \A m \in DOMAIN queue : queue[m] = queue[i] => m = i
    BY DEF IInv, Waiting
  <2>3. CASE queue' = queue
    BY <2>1, <2>2, <2>3
  <2>4. CASE queue' = <<>>
    BY <2>4
  <2>5. CASE queue # <<>> /\ queue' = Tail(queue)
    <3>1. k \in 1..(Len(queue) - 1) /\ queue'[k] = queue[k + 1]
      BY <2>1, <2>5
    <3>2. k + 1 = i
      BY <2>1, <2>2, <3>1
    <3> QED
      BY <3>1, <3>2
  <2>6. ASSUME NEW n \in DOMAIN queue, queue' = RemoveAt(queue, n) PROVE k <= i
    <3>1. /\ k \in 1..(Len(queue) - 1)
          /\ queue'[k] = IF k < n THEN queue[k] ELSE queue[k + 1]
      BY <2>1, <2>6, RemoveAtProperties
    <3>2. i = k \/ i = k + 1
      BY <2>1, <2>2, <3>1
    <3> QED
      BY <3>1, <3>2
  <2>7. ASSUME NEW r \in Run \ UsedRuns, NEW j, NEW t,
               queue' = Append(queue, [run |-> r, job |-> j, trigger |-> t])
        PROVE  k <= i
    <3>1. /\ k \in 1..(Len(queue) + 1)
          /\ k <= Len(queue) => queue'[k] = queue[k]
          /\ k = Len(queue) + 1 => queue'[k].run = r
      BY <2>1, <2>7
    <3>2. queue[i].run # r
      BY DEF UsedRuns
    <3>3. k \in DOMAIN queue /\ queue'[k] = queue[k]
      BY <2>1, <3>1, <3>2
    <3> QED
      BY <2>1, <2>2, <3>3
  <2> QED
    BY <2>3, <2>4, <2>5, <2>6, <2>7, QueueMoves
<1>2. [][InOrder]_vars <=> NobodyOvertakes
  BY DEF NobodyOvertakes
<1> HIDE DEF InOrder
<1> QED
  BY <1>1, <1>2, Invariant, PTL DEF Spec

\* While the loop runs, a job holds at most one id: where it waits, in its
\* slot, or on the way back, which is the same.
LEMMA OneIdPerJob ==
    ASSUME IInv, pc # "stopped"
    PROVE  UsedRuns \subseteq {active[j] : j \in ActiveJobs}
                              \cup {queue[i].run : i \in DOMAIN queue}
<1>1. ASSUME NEW r \in InFlight PROVE \E j \in ActiveJobs : active[j] = r
  BY SentinelAssumption DEF IInv, TypeOK, SlotAccounting, ActiveJobs, InFlight, Task
<1>2. ASSUME NEW i \in DOMAIN completions
      PROVE  \E j \in ActiveJobs : active[j] = completions[i].run
  <2>1. completions[i] \in Completion
    BY Entries DEF IInv
  <2>2. /\ completions[i].job \in Job /\ completions[i].run # NoRun
        /\ active[completions[i].job] = completions[i].run
    BY <2>1, SentinelAssumption DEF Completion, IInv, Returning
  <2> QED
    BY <2>2 DEF ActiveJobs
<1> QED
  BY <1>1, <1>2 DEF UsedRuns

\* A run id set as large as the job set never makes an enqueue wait, which
\* fresh uuids never do either: the instances TLC checks leave nothing out.
THEOREM IdsToSpareHolds == Spec => []IdsToSpare
<1>1. IInv => IdsToSpare
  <2> SUFFICES ASSUME IInv, pc # "stopped", NEW j \in Job, active[j] = NoRun,
                      j \notin QueuedJobs, Run \subseteq UsedRuns
               PROVE  FALSE
    BY DEF IdsToSpare
  <2> DEFINE Busy == ActiveJobs \cup QueuedJobs
  <2> DEFINE IdOf(b) == IF b \in ActiveJobs THEN active[b]
                        ELSE queue[CHOOSE i \in DOMAIN queue : queue[i].job = b].run
  <2> DEFINE f == [b \in Busy |-> IdOf(b)]
  <2> DEFINE Held == {f[b] : b \in Busy}
  <2>1. /\ \A i \in DOMAIN queue : queue[i] \in Pending
        /\ \A i, k \in DOMAIN queue : queue[i].job = queue[k].job => i = k
        /\ \A i \in DOMAIN queue : queue[i].job \notin ActiveJobs
    BY Entries DEF IInv, Waiting
  <2>2. Busy \subseteq Job \ {j}
    BY <2>1 DEF ActiveJobs, QueuedJobs, Pending
  <2>3. ASSUME NEW i \in DOMAIN queue PROVE \E b \in Busy : f[b] = queue[i].run
    <3>1. queue[i].job \in Busy /\ queue[i].job \notin ActiveJobs
      BY <2>1 DEF QueuedJobs
    <3>2. (CHOOSE k \in DOMAIN queue : queue[k].job = queue[i].job) = i
      BY <2>1
    <3> QED
      BY <3>1, <3>2
  <2>4. \A b \in ActiveJobs : f[b] = active[b]
    OBVIOUS
  <2>5. Run \subseteq Held
    <3> HIDE DEF f
    <3>1. /\ {active[b] : b \in ActiveJobs} \subseteq Held
          /\ {queue[i].run : i \in DOMAIN queue} \subseteq Held
      BY <2>3, <2>4
    <3> HIDE DEF Held
    <3> QED
      BY <3>1, OneIdPerJob
  <2>6. /\ IsFiniteSet(Job) /\ IsFiniteSet(Job \ {j})
        /\ Cardinality(Job \ {j}) = Cardinality(Job) - 1
    BY JobAssumption, FS_RemoveElement
  <2>7. IsFiniteSet(Busy) /\ Cardinality(Busy) <= Cardinality(Job \ {j})
    BY <2>2, <2>6, FS_Subset
  <2> HIDE DEF Busy
  <2>8. f \in Surjection(Busy, Held)
    <3>1. f \in [Busy -> Held]
      OBVIOUS
    <3> QED
      BY <3>1 DEF Surjection
  <2> HIDE DEF f, Held
  <2>9. IsFiniteSet(Held) /\ Cardinality(Held) <= Cardinality(Busy)
    BY <2>7, <2>8, FS_Surjection
  <2>10. IsFiniteSet(Run) /\ Cardinality(Run) <= Cardinality(Held)
    BY <2>5, <2>9, FS_Subset
  <2>11. Cardinality(Job) <= Cardinality(Run)
    BY <2>10, IdsAssumption
  <2>12. /\ Cardinality(Job) \in Nat /\ Cardinality(Run) \in Nat
         /\ Cardinality(Held) \in Nat /\ Cardinality(Busy) \in Nat
    BY <2>6, <2>7, <2>9, <2>10, FS_CardinalityType
  <2> QED
    BY <2>6, <2>7, <2>9, <2>10, <2>11, <2>12
<1> QED
  BY <1>1, Invariant, PTL
=============================================================================
