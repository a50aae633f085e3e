---------------------------- MODULE Replication ----------------------------
(***************************************************************************)
(* Destinations that are filled from another destination                   *)
(* (Destination::replicate_from): what the validator accepts, how a chain  *)
(* is walked to its root (model.rs, config.rs), and in which order a run   *)
(* attempts a job's destinations (runner.rs plan_destinations).            *)
(*                                                                         *)
(* `origin` maps every configured destination to the one it is replicated  *)
(* from, NoDest when it is written from the job's sources; a value outside *)
(* its domain is a link to a destination that is gone.  `listed` is a      *)
(* job's destination list.  Only repositories are modelled: the validator  *)
(* refuses links from and to folder mirrors one by one.                    *)
(***************************************************************************)
EXTENDS SequencesExt

CONSTANTS
    Dest,       \* destination ids, configured or once configured
    NoDest,
    MaxDepth    \* MAX_REPLICATION_DEPTH: hops a chain may have

ASSUME NoDestAssumption == NoDest \notin Dest
ASSUME DepthAssumption == MaxDepth \in Nat \ {0}

Configured(origin) == DOMAIN origin
Replicas(origin) == {d \in Configured(origin) : origin[d] # NoDest}

----------------------------------------------------------------------------
(* Walking a chain up.  Up[k] is the destination k hops above d.           *)
Up(origin, d) ==
    LET up[k \in 0..MaxDepth] ==
          IF k = 0 THEN d
          ELSE IF up[k - 1] \in Configured(origin) THEN origin[up[k - 1]]
          ELSE NoDest
    IN  up

\* How far above d its chain ends in a destination written from the sources;
\* empty for a broken chain, a cycle, or one that is longer than `hops`.
HopsToRoot(origin, d, hops) ==
    {k \in 0..hops : /\ Up(origin, d)[k] \in Configured(origin)
                     /\ origin[Up(origin, d)[k]] = NoDest}

ReplicationChain(origin, d) ==
    LET found == HopsToRoot(origin, d, MaxDepth)
        n == CHOOSE k \in found : TRUE
    IN  IF found = {} THEN <<>>
        ELSE [i \in 1..(n + 1) |-> Up(origin, d)[n + 1 - i]]

ReplicationRoot(origin, d) ==
    LET found == HopsToRoot(origin, d, MaxDepth - 1)
    IN  IF found = {} THEN NoDest ELSE Up(origin, d)[CHOOSE k \in found : TRUE]

\* destination_passphrase: whose passphrase opens d; NoDest is its error for
\* a replica "replicated from a destination that no longer exists".
PassphraseHolder(origin, d) ==
    IF d \in Replicas(origin) THEN ReplicationRoot(origin, d) ELSE d

\* Faulty variant: links are checked one by one, chains are not walked.
ValidLinks(origin) ==
    \A d \in Replicas(origin) :
      origin[d] # d /\ origin[d] \in Configured(origin)

ValidReplication(origin) ==
    \A d \in Replicas(origin) :
      /\ origin[d] # d
      /\ origin[d] \in Configured(origin)
      /\ ReplicationChain(origin, d) # <<>>

ValidWithinJob(origin, listed) ==
    /\ IsInjective(listed)
    /\ \A d \in Range(listed) :
         d \in Replicas(origin) => origin[d] \in Range(listed)

----------------------------------------------------------------------------
(***************************************************************************)
(* plan_destinations: passes over what is left, each placing what does not *)
(* wait for a destination that is still to come; what no pass can place is *)
(* part of a loop and ends the plan, blocked.                              *)
(***************************************************************************)
Entry == [dest: Dest, dependsOn: Nat, blocked: BOOLEAN]   \* 0: no source

PlacedAt(plan, d) == {k \in DOMAIN plan : plan[k].dest = d}

Placeable(origin, listed, plan, d) ==
    \/ origin[d] \in {NoDest, d}
    \/ origin[d] \notin Range(listed)
    \/ PlacedAt(plan, origin[d]) # {}

EntryFor(origin, plan, d) ==
    LET sources == IF origin[d] = d THEN {} ELSE PlacedAt(plan, origin[d])
    IN  [dest |-> d,
         dependsOn |-> IF sources = {} THEN 0 ELSE Max(sources),
         blocked |-> origin[d] # NoDest /\ sources = {}]

\* One destination of a pass: placed, or deferred to the next one.
Place(origin, listed, acc, d) ==
    IF Placeable(origin, listed, acc.plan, d)
      THEN [acc EXCEPT !.plan = Append(@, EntryFor(origin, acc.plan, d))]
      ELSE [acc EXCEPT !.deferred = Append(@, d)]

\* Faulty variant: a replica waits for what an earlier pass has placed.
PassByPass(origin, listed, acc) ==
    LET placeable(d) == Placeable(origin, listed, acc.plan, d)
        now == SelectSeq(acc.deferred, placeable)
    IN  [plan |-> acc.plan \o [i \in DOMAIN now |-> EntryFor(origin, acc.plan, now[i])],
         deferred |-> SelectSeq(acc.deferred, LAMBDA d : ~placeable(d))]

Pass(origin, listed, acc) ==
    LET seen[k \in 0..Len(acc.deferred)] ==
          IF k = 0 THEN [plan |-> acc.plan, deferred |-> <<>>]
          ELSE Place(origin, listed, seen[k - 1], acc.deferred[k])
    IN  seen[Len(acc.deferred)]

\* Faulty variant: a single pass.
PlanInOnePass(origin, listed) ==
    Pass(origin, listed, [plan |-> <<>>, deferred |-> listed]).plan

\* A pass without progress changes nothing, so Len(listed) passes are enough.
PlanPasses(origin, listed) ==
    LET passes[k \in 0..Len(listed)] ==
          IF k = 0 THEN [plan |-> <<>>, deferred |-> listed]
          ELSE Pass(origin, listed, passes[k - 1])
    IN  passes

PlanDestinations(origin, listed) ==
    LET last == PlanPasses(origin, listed)[Len(listed)]
        looped == [i \in DOMAIN last.deferred |->
                     [dest |-> last.deferred[i], dependsOn |-> 0, blocked |-> TRUE]]
    IN  last.plan \o looped
=============================================================================
