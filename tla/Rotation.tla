------------------------------ MODULE Rotation ------------------------------
(***************************************************************************)
(* Changing the master passphrase (daemon/rekey.rs), and the repositories  *)
(* it leaves on a password that the vault no longer gives.  The vault is   *)
(* rewritten first; a report of what has to move is saved; the scheduler   *)
(* is told to leave those destinations alone; and a background task walks  *)
(* them, trying the new password before the old.  Beside it: creating a    *)
(* repository (handler.rs), everything else that writes the vault, a lock  *)
(* and an unlock, a destination deleted, the daemon stopping anywhere, and *)
(* a copy of the vault put back by hand.                                   *)
(*                                                                         *)
(* kopia may fail at anything, and may have done what it says it did not.  *)
(* Who is told of the new passphrase in memory and in the keychain is in   *)
(* Session.                                                                *)
(***************************************************************************)

EXTENDS VaultFile

CONSTANTS
    Derived,    \* destinations whose password is derived from the master key
    NoRepo,
    MaxChanges, \* bound: other changes of the vault, deletions, restores
    MaxFaults   \* bound: failures of the disk, and ends of the process or a request

ASSUME NoRepoAssumption == NoRepo \notin Derived
ASSUME MoreBoundsAssumption == MaxChanges \in Nat /\ MaxFaults \in Nat

VARIABLES
    repo,       \* the password of each repository; 0: it does not exist
    listed,     \* the destinations of config.json
    report,     \* rekey-migration.json: what it names as not moved yet
    up,         \* the daemon runs
    asked,      \* changes let through, by the generation their passphrase opens
    rot,        \* the rotation that made each generation
    migration,  \* Runtime::migration
    paused,     \* destinations the scheduler was told are disabled
    making,     \* the password with which a repository is being created; 0: it is not
    \* history
    alone,      \* no rotation was committed beside another since all were over
    clean,      \* ... and the last left its report, and no copy was put back since
    changes, faults

vars == <<vaultVars, repo, listed, report, up, asked, rot, migration, paused,
          making, alone, clean, changes, faults>>

history == <<alone, clean, changes, faults>>

Idle == [at |-> "idle"]
Stage == {"committed", "reported", "walk", "old", "change", "verify", "mark",
          "told", "last"}
\* from: the generation it leaves; all: its repositories; left: those not
\* reached yet; moved: those marked as migrated; cur: the one in hand; won:
\* what is to be recorded of it.
Walk == [at: Stage, from: Gen, all: SUBSET Derived, left: SUBSET Derived,
         moved: SUBSET Derived, cur: Derived \cup {NoRepo}, won: BOOLEAN]

TypeOK ==
    /\ VaultTypeOK
    /\ repo \in [Derived -> {0} \cup Gen]
    /\ listed \subseteq Derived
    /\ report \subseteq Derived /\ migration \subseteq Derived /\ paused \subseteq Derived
    /\ up \in BOOLEAN /\ alone \in BOOLEAN /\ clean \in BOOLEAN
    /\ asked \subseteq Gen
    /\ rot \in [Gen -> {Idle} \cup Walk]
    /\ making \in [Derived -> {0} \cup Gen]
    /\ changes \in 0..MaxChanges /\ faults \in 0..MaxFaults
    \* what a rotation has in hand is one of its repositories
    /\ \A g \in Gen : rot[g] # Idle =>
          /\ g <= top
          /\ rot[g].left \cup rot[g].moved \subseteq rot[g].all
          /\ rot[g].left \cap rot[g].moved = {}
          /\ rot[g].at \in {"old", "change", "verify", "mark"} =>
               rot[g].cur \in rot[g].all \ (rot[g].left \cup rot[g].moved)
    /\ ~up => ~opened /\ asked = {} /\ migration = {} /\ paused = {} /\ \A g \in Gen : rot[g] = Idle

Init ==
    /\ VaultInit
    /\ repo \in [Derived -> {0, 1}]
    /\ listed = Derived
    /\ report = {}
    /\ up = TRUE
    /\ asked = {}
    /\ rot = [g \in Gen |-> Idle]
    /\ migration = {} /\ paused = {}
    /\ making = [r \in Derived |-> 0]
    /\ alone = TRUE /\ clean = TRUE /\ changes = 0 /\ faults = 0

At(g, stage) == rot[g] # Idle /\ rot[g].at = stage
Pending(g) == rot[g].all \ rot[g].moved
Fault == faults < MaxFaults /\ faults' = faults + 1
UnderWay == {g \in Gen : rot[g] # Idle}
AtRest == UnderWay = {} /\ migration = {} /\ paused = {}

Goto(g, stage) == rot' = [rot EXCEPT ![g].at = stage]
Leave(g) == rot' = [rot EXCEPT ![g] = Idle]

\* Faulty variant: a destination once disabled stays so.
PushMore == paused' = paused \cup migration

\* push_config: the scheduler gets the configuration with what is pending
\* disabled.
Push == paused' = migration

(***************************************************************************)
(* change_passphrase, up to the walk.                                      *)
(***************************************************************************)

\* Refused while a migration is pending, but not yet while another change is
\* between its commit and its report: that one may wait for a keychain.  The
\* passphrase is checked later, at the vault's lock, so that a request is
\* known by the generation its passphrase opens; one that opens an older
\* vault fails without a trace.  Bound: the last generation is not asked for
\* a change that could not be made.
Ask ==
    /\ up /\ opened /\ migration = {}
    /\ \E g \in file.gen..(MaxGen - 1) : asked' = asked \cup {g}
    /\ UNCHANGED <<vaultVars, repo, listed, report, up, rot, migration, paused,
                   making, history>>

Granted == file.gen \in asked /\ asked' = asked \ {file.gen}

\* change_passphrase_migrating returns what has to be moved.
Commit ==
    /\ Granted
    /\ Rotated(Newest(Copied))
    /\ rot' = [rot EXCEPT ![top + 1] =
                 [at |-> "committed", from |-> file.gen, all |-> listed,
                  left |-> listed, moved |-> {}, cur |-> NoRepo,
                  won |-> FALSE]]
    /\ alone' = AtRest /\ clean' = AtRest
    /\ UNCHANGED <<repo, listed, report, up, migration, paused, making, changes, faults>>

\* The new vault is in place, and the prune that follows fails: the request
\* fails, and with it goes the list of what has to be moved.
CommitUnpruned ==
    /\ Granted
    /\ Fault
    /\ RoomToSpare /\ Rotated(Copied)
    /\ clean' = FALSE
    /\ UNCHANGED <<repo, listed, report, up, rot, migration, paused, making, alone,
                   changes>>

\* A copy or a write failed, or another rotation came first.
CommitFails ==
    /\ \/ Granted /\ Fault /\ NotRotated
       \/ \E g \in asked \ {file.gen} :
             asked' = asked \ {g} /\ UNCHANGED <<faults, vaultVars>>
    /\ UNCHANGED <<repo, listed, report, up, rot, migration, paused, making, alone,
                   clean, changes>>

\* The report, and at once what it suppresses.
WriteReport(g) ==
    /\ At(g, "committed")
    /\ report' = rot[g].all
    /\ IF rot[g].all = {}
         THEN Leave(g) /\ UNCHANGED migration
         ELSE Goto(g, "reported") /\ migration' = rot[g].all
    /\ UNCHANGED <<vaultVars, repo, listed, up, asked, paused, making, history>>

\* The request fails, or its handler is aborted at an await before the
\* report (the keychain asks the user) or after it (the store's lock).  It
\* also fails when the report is written and cannot be hardened.
Abandon(g) ==
    /\ \/ At(g, "committed") /\ report' \in {report, rot[g].all} /\ clean' = FALSE
       \/ At(g, "reported") /\ UNCHANGED <<report, clean>>
    /\ Fault
    /\ Leave(g)
    /\ UNCHANGED <<vaultVars, repo, listed, up, asked, migration, paused,
                   making, alone, changes>>

\* Faulty variant: the walk begins before the scheduler hears of it.
SpawnUnpushed(g) ==
    /\ At(g, "reported")
    /\ Goto(g, "walk")
    /\ UNCHANGED <<vaultVars, repo, listed, report, up, asked, migration, paused,
                   making, history>>

Spawn(g) ==
    /\ At(g, "reported")
    /\ Push
    /\ Goto(g, "walk")
    /\ UNCHANGED <<vaultVars, repo, listed, report, up, asked, migration, making,
                   history>>

(***************************************************************************)
(* migrate_all and migrate_one.                                            *)
(***************************************************************************)
Record(g, won) == rot' = [rot EXCEPT ![g].at = "mark", ![g].won = won]

quiet == <<vaultVars, listed, report, up, asked, migration, paused, making, history>>

\* The new password is tried.  A destination that is gone, or no kopia, is
\* a failure at once.
Probe(g, r) ==
    /\ At(g, "walk") /\ r \in rot[g].left
    /\ \/ \E won \in {w \in BOOLEAN : w => r \in listed /\ repo[r] = g} :
            rot' = [rot EXCEPT ![g].left = @ \ {r}, ![g].cur = r,
                               ![g].at = "mark", ![g].won = won]
       \/ /\ r \in listed
          /\ rot' = [rot EXCEPT ![g].left = @ \ {r}, ![g].cur = r, ![g].at = "old"]
    /\ UNCHANGED <<repo, quiet>>

TryOld(g) ==
    /\ At(g, "old")
    /\ \/ repo[rot[g].cur] = rot[g].from /\ Goto(g, "change")
       \/ Record(g, FALSE)
    /\ UNCHANGED <<repo, quiet>>

\* kopia repository change-password: done or not, and said so or not.
ChangePassword(g) ==
    /\ At(g, "change")
    /\ repo' \in {repo, [repo EXCEPT ![rot[g].cur] = g]}
    /\ Goto(g, "verify") \/ Record(g, FALSE)
    /\ UNCHANGED quiet

\* Faulty variant: kopia is taken at its word.
VerifyTrusting(g) ==
    /\ At(g, "verify")
    /\ Record(g, TRUE)
    /\ UNCHANGED <<repo, quiet>>

Verify(g) ==
    /\ At(g, "verify")
    /\ \E won \in {w \in BOOLEAN : w => repo[rot[g].cur] = g} : Record(g, won)
    /\ UNCHANGED <<repo, quiet>>

\* The report is rewritten, if that works, and the suppression with it.
Mark(g) ==
    /\ At(g, "mark")
    /\ LET moved == IF rot[g].won THEN rot[g].moved \cup {rot[g].cur} ELSE rot[g].moved
           rest == rot[g].all \ moved
       IN  /\ rot' = [rot EXCEPT ![g].moved = moved, ![g].cur = NoRepo, ![g].won = FALSE,
                                 ![g].at = "told"]
           /\ \/ report' = rest /\ UNCHANGED faults
              \/ UNCHANGED report /\ Fault
           /\ migration' = rest
    /\ UNCHANGED <<vaultVars, repo, listed, up, asked, paused, making, alone,
                   clean, changes>>

Told(g) ==
    /\ At(g, "told")
    /\ Push
    /\ Goto(g, "walk")
    /\ UNCHANGED <<vaultVars, repo, listed, report, up, asked, migration, making,
                   history>>

\* Faulty variant: the report goes with the last repository, moved or not.
FinishAnyway(g) ==
    /\ At(g, "walk") /\ rot[g].left = {}
    /\ Goto(g, "last")
    /\ report' = {} /\ migration' = {}
    /\ UNCHANGED <<vaultVars, repo, listed, up, asked, paused, making, history>>

\* Removing the report may fail; a later start removes it then.
Finish(g) ==
    /\ At(g, "walk") /\ rot[g].left = {}
    /\ Goto(g, "last")
    /\ IF Pending(g) = {}
         THEN /\ \/ report' = {} /\ UNCHANGED faults
                 \/ UNCHANGED report /\ Fault
              /\ migration' = {}
         ELSE UNCHANGED <<report, migration, faults>>
    /\ UNCHANGED <<vaultVars, repo, listed, up, asked, paused, making, alone,
                   clean, changes>>

Last(g) ==
    /\ At(g, "last")
    /\ Push
    /\ Leave(g)
    /\ UNCHANGED <<vaultVars, repo, listed, report, up, asked, migration, making,
                   history>>

(***************************************************************************)
(* repo.create: a driver is built with the password the vault gives now,   *)
(* and kopia connects, or creates what is not there.  For a repository     *)
(* that exists this changes nothing, and is left out; one request at a     *)
(* time.                                                                   *)
(***************************************************************************)
Bind(r) ==
    /\ up /\ opened /\ r \in listed /\ repo[r] = 0
    /\ \A s \in Derived : making[s] = 0
    /\ making' = [making EXCEPT ![r] = file.gen]
    /\ UNCHANGED <<vaultVars, repo, listed, report, up, asked, rot, migration, paused,
                   history>>

Make(r) ==
    /\ making[r] # 0
    /\ repo' \in {repo, [repo EXCEPT ![r] = making[r]]}
    /\ making' = [making EXCEPT ![r] = 0]
    /\ UNCHANGED <<vaultVars, listed, report, up, asked, rot, migration, paused, history>>

(***************************************************************************)
(* Everything else.                                                        *)
(***************************************************************************)

\* vault.set_secret, new credentials of a provider, and the like.
ChangeSecret ==
    /\ up /\ opened /\ changes < MaxChanges
    /\ \/ SaveWorks(keys) /\ UNCHANGED faults
       \/ (SaveStumbles(keys) \/ SaveFails(keys)) /\ Fault
    /\ changes' = changes + 1
    /\ UNCHANGED <<top, minted, opened, repo, listed, report, up, asked, rot, migration,
                   paused, making, alone, clean>>

Unlock ==
    /\ up
    /\ Opened
    /\ Push
    /\ UNCHANGED <<repo, listed, report, up, asked, rot, migration, making, history>>

Lock ==
    /\ up /\ opened
    /\ Shut
    /\ UNCHANGED <<repo, listed, report, up, asked, rot, migration, paused, making,
                   history>>

\* dest.delete; the repository is left alone.
Delete(r) ==
    /\ up /\ opened /\ r \in listed /\ changes < MaxChanges
    /\ listed' = listed \ {r}
    /\ changes' = changes + 1
    /\ Push
    /\ UNCHANGED <<vaultVars, repo, report, up, asked, rot, migration, making, alone,
                   clean, faults>>

\* The process ends.  A kopia it had started may still do its work.
Crash ==
    /\ up /\ up' = FALSE
    /\ Fault
    /\ Shut
    /\ repo' \in {repo} \cup {[repo EXCEPT ![rot[g].cur] = g] : g \in {h \in Gen : At(h, "change")}}
                       \cup {[repo EXCEPT ![r] = making[r]] :
                               r \in {s \in Derived : making[s] # 0}}
    /\ clean' = (clean /\ \A g \in Gen : ~At(g, "committed"))
    /\ alone' = TRUE
    /\ asked' = {} /\ migration' = {} /\ paused' = {}
    /\ rot' = [g \in Gen |-> Idle] /\ making' = [r \in Derived |-> 0]
    /\ UNCHANGED <<listed, report, changes>>

\* restore_after_restart, before the scheduler is built.
Start ==
    /\ ~up /\ up' = TRUE
    /\ migration' = report /\ paused' = report
    /\ UNCHANGED <<vaultVars, repo, listed, report, asked, rot, making, history>>

\* vault restore, which wants the daemon stopped.
Restore(i) ==
    /\ ~up /\ changes < MaxChanges
    /\ Replaced(backups[i])
    /\ changes' = changes + 1
    /\ clean' = FALSE
    /\ UNCHANGED <<repo, listed, report, up, asked, rot, migration, paused, making,
                   alone, faults>>

Next ==
    \/ Ask \/ Commit \/ CommitUnpruned \/ CommitFails
    \/ ChangeSecret \/ Unlock \/ Lock \/ Crash \/ Start
    \/ \E g \in Gen :
         \/ WriteReport(g) \/ Abandon(g) \/ Spawn(g)
         \/ TryOld(g) \/ ChangePassword(g) \/ Verify(g) \/ Mark(g) \/ Told(g)
         \/ Finish(g) \/ Last(g)
    \/ \E g \in Gen, r \in Derived : Probe(g, r)
    \/ \E r \in Derived : Bind(r) \/ Make(r) \/ Delete(r)
    \/ \E i \in DOMAIN backups : Restore(i)

Spec == Init /\ [][Next]_vars

(***************************************************************************)
(* Properties.                                                             *)
(***************************************************************************)
Unmoved == {r \in Derived \cap listed : repo[r] \notin {0, file.gen}}

\* The password a repository really has can be worked out from the vault or
\* from a copy of it, whatever failed or stopped in whatever order, unless
\* as many copies as are kept were taken since.
OldKeysHeld ==
    \A r \in Derived : repo[r] # 0 =>
       \/ \E c \in OnDisk : c.gen = repo[r]
       \/ Len(backups) >= Keep

\* A repository still on an old password is named by the report, so that a
\* restart knows of it, and is suppressed while the daemon runs: from the
\* moment the last rotation wrote its report, and unless that one lost it, was
\* committed beside another one, or was undone by a restore.
LeftBehindIsNamed ==
    clean /\ (\A g \in Gen : ~At(g, "committed")) =>
       /\ Unmoved \subseteq report
       /\ up => Unmoved \subseteq migration

\* A walk touches a repository only once the scheduler leaves it alone and a
\* report on disk names it, whatever else pushes a configuration meanwhile;
\* only a second rotation beside the first takes that away.
MovedUnderCover ==
    alone => \A g \in Gen :
       rot[g] # Idle /\ rot[g].at \in {"old", "change", "verify"} =>
          rot[g].cur \in report \cap paused

\* What a rotation has recorded as migrated opens with its password, or with
\* that of a later rotation that moved it on, whatever kopia said of it and
\* however many rotations walk at once: no walk takes a repository back, and
\* the old password is let go only when nothing needs it.
MarkedIsMoved ==
    \A g \in Gen : rot[g] # Idle => \A r \in rot[g].moved : repo[r] >= g

\* Once no rotation is under way the scheduler leaves alone nothing but what
\* the daemon holds for unfinished, and that nothing but what the report
\* names: no backup stays off for a reason that a restart would not show.
\* Two rotations that overlapped may differ from it until the next one.
PausedIsNamed ==
    alone /\ UnderWay = {} => paused \subseteq migration /\ migration \subseteq report
=============================================================================
