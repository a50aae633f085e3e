------------------------- MODULE SchedulerLifecycle -------------------------
(***************************************************************************)
(* The scheduler implements RunLifecycle.  The line is its queue, the      *)
(* stage of a job is read off the run in flight for it (and off the slot   *)
(* it still holds), and the engine is open until the loop has ended.       *)
(***************************************************************************)
EXTENDS Scheduler

LineOf(q) == [i \in DOMAIN q |-> q[i].job]

StageOf(j) ==
    LET live == {r \in InFlight : task[r].job = j}
    IN  CASE live # {} /\ (\A r \in live : task[r].cancel = "None") -> "running"
          [] live # {} /\ (\E r \in live : task[r].cancel # "None") -> "stopping"
          [] live = {} /\ active[j] # NoRun -> "ending"
          [] live = {} /\ active[j] = NoRun -> "idle"

Lifecycle == INSTANCE RunLifecycle WITH
    line <- LineOf(queue),
    stage <- [j \in Job |-> StageOf(j)],
    open <- (pc # "stopped")

\* Every step of the scheduler is a step of the promised life of a run, or
\* one that the promise does not see (engine/mod.rs invariants 1 and 2).
ImplementsLifecycle == Lifecycle!Spec
=============================================================================
