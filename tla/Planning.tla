------------------------------ MODULE Planning ------------------------------
(***************************************************************************)
(* The plan a run of a job starts from (runner.rs execute, which calls     *)
(* plan_destinations before anything else), and what it ought to be, said  *)
(* without the algorithm: over the links of the listed destinations.       *)
(***************************************************************************)
EXTENDS Replication, Integers

VARIABLES
    request,    \* what the scheduler asked for
    plan        \* the order its destinations are attempted in

\* The destinations a run may be asked for: enabled and usable ones, all of
\* them configured.  A link may lead to one that is configured no more.
ListShape(q) ==
    /\ q.listed \in Seq(Dest)
    /\ Range(q.listed) \subseteq Configured(q.origin)
    /\ Configured(q.origin) \subseteq Dest
    /\ \A d \in Configured(q.origin) : q.origin[d] \in Dest \cup {NoDest}

----------------------------------------------------------------------------
(* The reference.                                                          *)
\* In or behind a loop: following the links leads on and on.
Looped(q, d) ==
    \E C \in SUBSET Range(q.listed) :
      d \in C /\ \A c \in C : q.origin[c] \in C \ {c}

\* Connected to the job's sources by links between its destinations: in every
\* set that has whatever is filled from the sources or from a member.
Fed(q) ==
    {d \in Range(q.listed) :
       \A F \in SUBSET Range(q.listed) :
         (\A c \in Range(q.listed) : q.origin[c] \in F \cup {NoDest} => c \in F)
           => d \in F}

\* Positions of the list where neither the destination nor any one above it
\* is listed before its source.
InOrder(q, k) ==
    \E P \in SUBSET DOMAIN q.listed :
      /\ k \in P
      /\ \A i \in P : LET d == q.listed[i] IN
           \/ q.origin[d] \in {NoDest, d}
           \/ q.origin[d] \notin Range(q.listed)
           \/ \E h \in P : h < i /\ q.listed[h] = q.origin[d]

----------------------------------------------------------------------------
\* runner.rs:144: every destination the job asked for gets one entry, and a
\* replica waits for exactly its own source, which comes before it.  Blocked
\* are the links to itself, to a destination the job leaves out, and what is
\* in or behind a loop; no other replica loses its source.
SourceGoesFirst ==
    /\ Len(plan) = Len(request.listed)
    /\ {plan[k].dest : k \in DOMAIN plan} = Range(request.listed)
    /\ \A k \in DOMAIN plan : LET d == plan[k].dest IN
         /\ plan[k].dependsOn # 0 =>
              /\ plan[k].dependsOn < k
              /\ plan[plan[k].dependsOn].dest = request.origin[d]
         /\ plan[k].blocked <=> \/ request.origin[d] \notin Range(request.listed) \cup {NoDest}
                                \/ request.origin[d] = d
                                \/ Looped(request, d)
         /\ request.origin[d] # NoDest /\ ~plan[k].blocked => plan[k].dependsOn # 0

\* runner.rs:138: "only a replica listed before its source moves".  Whatever
\* is listed in a workable order is attempted before all that is listed
\* behind it; a job listed in a workable order runs in exactly that order.
OnlyTheUnworkableMove ==
    \A i, j \in DOMAIN request.listed :
      i < j /\ InOrder(request, i) =>
        \E a, b \in DOMAIN plan :
          /\ a < b
          /\ plan[a].dest = request.listed[i]
          /\ plan[b].dest = request.listed[j]

\* What the validator accepts never meets a blocked entry in a run that has
\* every listed destination, and its chain ends in a destination written from
\* the sources, whose passphrase opens it: validation, planning and the lookup
\* of passphrases, three walks written apart, agree.  The longest chain that
\* is accepted is left to RootIsFound.
ValidPlansRun ==
    ValidReplication(request.origin) =>
      /\ ValidWithinJob(request.origin, request.listed) =>
           \A k \in DOMAIN plan : ~plan[k].blocked
      /\ \A d \in Configured(request.origin) :
           LET chain == ReplicationChain(request.origin, d)
           IN  /\ chain # <<>>
               /\ Len(chain) <= MaxDepth =>
                    PassphraseHolder(request.origin, d) = Head(chain)

\* model.rs:199: replication_root finds none only when "the chain is broken
\* (a dangling `replicate_from`) or cyclic", and "a caller holding a validated
\* config may treat `None` as "not a replica"".  It walks one hop less than
\* the validator (model.rs:205 and 223), so this does not hold.
RootIsFound ==
    ValidReplication(request.origin) =>
      \A d \in Replicas(request.origin) : ReplicationRoot(request.origin, d) # NoDest
=============================================================================
