---------------------------- MODULE RunLifecycle ----------------------------
(***************************************************************************)
(* What the engine promises of a job's runs, seen from outside             *)
(* (crates/core/src/engine/mod.rs, "Concurrency invariants" 1 and 2): a    *)
(* job waits in one line, in the order it was asked for, or runs, or is    *)
(* idle.  A run starts only from the front of the line; a Stop reaches one *)
(* job; once the engine is closed nothing starts and everything that runs  *)
(* has been told to stop.  No clock, no configuration, no mailboxes: the   *)
(* Scheduler module implements this one.                                   *)
(***************************************************************************)
EXTENDS Sequences, Naturals

CONSTANT Job

VARIABLES
    line,     \* the jobs waiting for a slot
    stage,    \* what each job's slot is doing
    open      \* the engine still accepts and starts runs

vars == <<line, stage, open>>

\* "ending": the run is over, its slot not free yet.
Stage == {"idle", "running", "stopping", "ending"}
Live == {j \in Job : stage[j] \in {"running", "stopping"}}
Waiting == {line[i] : i \in DOMAIN line}

Init ==
    /\ line = <<>>
    /\ stage = [j \in Job |-> "idle"]
    /\ open = TRUE

Without(i) == [k \in 1..(Len(line) - 1) |-> IF k < i THEN line[k] ELSE line[k + 1]]

\* A request: only an idle job that does not wait yet joins the line.
Accept(j) ==
    /\ open
    /\ stage[j] = "idle" /\ j \notin Waiting
    /\ line' = Append(line, j)
    /\ UNCHANGED <<stage, open>>

\* Stopped while it waited, deleted, or refused by a gate.
Leave(i) ==
    /\ i \in DOMAIN line
    /\ line' = Without(i)
    /\ UNCHANGED <<stage, open>>

\* A run may be born stopping: the engine is already on its way down.
Start ==
    /\ open
    /\ line # <<>>
    /\ stage[Head(line)] = "idle"
    /\ \E s \in {"running", "stopping"} : stage' = [stage EXCEPT ![Head(line)] = s]
    /\ line' = Tail(line)
    /\ UNCHANGED open

Stop(j) ==
    /\ stage[j] = "running"
    /\ stage' = [stage EXCEPT ![j] = "stopping"]
    /\ UNCHANGED <<line, open>>

End(j) ==
    /\ stage[j] \in {"running", "stopping"}
    /\ stage' = [stage EXCEPT ![j] = IF open THEN "ending" ELSE "idle"]
    /\ UNCHANGED <<line, open>>

Release(j) ==
    /\ stage[j] = "ending"
    /\ stage' = [stage EXCEPT ![j] = "idle"]
    /\ UNCHANGED <<line, open>>

\* Everything that runs is told to stop at once; nobody waits any more.
Close ==
    /\ open
    /\ open' = FALSE
    /\ line' = <<>>
    /\ stage' = [j \in Job |-> IF j \in Live THEN "stopping" ELSE "idle"]

Next ==
    \/ \E j \in Job : Accept(j) \/ Stop(j) \/ End(j) \/ Release(j)
    \/ \E i \in DOMAIN line : Leave(i)
    \/ Start
    \/ Close

Spec == Init /\ [][Next]_vars
=============================================================================
