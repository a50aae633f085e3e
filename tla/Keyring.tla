------------------------------ MODULE Keyring ------------------------------
(***************************************************************************)
(* The passphrases generated for repositories: made and saved before kopia *)
(* creates the repository that needs one (handler.rs, repo.create), and    *)
(* from then on the only thing that opens it.  Beside it: everything else  *)
(* that writes the vault, a change of the master passphrase, a lock and an *)
(* unlock, the daemon stopping, and a copy put back by hand.               *)
(***************************************************************************)

EXTENDS VaultFile

CONSTANTS
    MaxChanges, \* bound: other changes of the vault, and restores
    MaxFaults   \* bound: failures of the disk, and ends of the process

ASSUME CountAssumption == MaxChanges \in Nat /\ MaxFaults \in Nat

VARIABLES
    repo,       \* the passphrase of each repository; 0: it does not exist
    up,         \* the daemon runs
    ready,      \* repo.create found or saved a passphrase; no driver yet
    making,     \* the passphrase its driver has; 0: none
    \* history
    unsaved,    \* repositories of which the save of a new passphrase failed
    restored,   \* a copy of the vault was put back
    changes, faults

vars == <<vaultVars, repo, up, ready, making, unsaved, restored, changes, faults>>

TypeOK ==
    /\ VaultTypeOK
    /\ repo \in KeyMap /\ making \in KeyMap
    /\ up \in BOOLEAN /\ restored \in BOOLEAN
    /\ ready \subseteq Generated /\ unsaved \subseteq Generated
    /\ changes \in 0..MaxChanges /\ faults \in 0..MaxFaults
    \* nothing opens a repository with a passphrase nobody generated
    /\ \A r \in Generated :
          {repo[r], making[r], keys[r]} \cup {c.keys[r] : c \in OnDisk} \subseteq 0..minted[r]
    /\ ~opened => keys = file.keys /\ ~dirty
    /\ ~up => ~opened

Init ==
    /\ VaultInit
    /\ repo = [r \in Generated |-> 0] /\ making = repo
    /\ up = TRUE /\ ready = {}
    /\ unsaved = {} /\ restored = FALSE /\ changes = 0 /\ faults = 0

Fault == faults < MaxFaults /\ faults' = faults + 1

(***************************************************************************)
(* repo.create.  One request at a time for a repository.                   *)
(***************************************************************************)
Asking(r) == up /\ opened /\ r \notin ready /\ making[r] = 0

\* ensure_repository_passphrase: memory has one.
Ensure(r) ==
    /\ Asking(r) /\ keys[r] # 0
    /\ ready' = ready \cup {r}
    /\ UNCHANGED <<vaultVars, repo, up, making, unsaved, restored, changes, faults>>

\* Faulty variant: the request goes on although the save failed.
EnsureNewRegardless(r) ==
    /\ Asking(r) /\ keys[r] = 0 /\ minted[r] < MaxKey
    /\ minted' = [minted EXCEPT ![r] = @ + 1]
    /\ LET now == [keys EXCEPT ![r] = minted[r] + 1]
       IN  \/ SaveWorks(now) /\ UNCHANGED faults
           \/ (SaveStumbles(now) \/ SaveFails(now)) /\ Fault
    /\ ready' = ready \cup {r}
    /\ UNCHANGED <<top, opened, repo, up, making, unsaved, restored, changes>>

\* None is there: one is generated and saved, or the request fails.
EnsureNew(r) ==
    /\ Asking(r) /\ keys[r] = 0 /\ minted[r] < MaxKey
    /\ minted' = [minted EXCEPT ![r] = @ + 1]
    /\ LET now == [keys EXCEPT ![r] = minted[r] + 1]
       IN  \/ SaveWorks(now) /\ ready' = ready \cup {r} /\ UNCHANGED <<unsaved, faults>>
           \/ SaveStumbles(now) /\ Fault /\ ready' = ready \cup {r} /\ UNCHANGED unsaved
           \/ SaveFails(now) /\ Fault /\ UNCHANGED ready /\ unsaved' = unsaved \cup {r}
    /\ UNCHANGED <<top, opened, repo, up, making, restored, changes>>

\* driver_for takes the store's lock anew: the vault may have been shut, or
\* another passphrase may be there by now.
Bind(r) ==
    /\ r \in ready /\ ready' = ready \ {r}
    /\ making' = [making EXCEPT ![r] = IF opened THEN keys[r] ELSE 0]
    /\ UNCHANGED <<vaultVars, repo, up, unsaved, restored, changes, faults>>

\* kopia connects to what exists, or creates what does not, or fails.
Make(r) ==
    /\ making[r] # 0 /\ making' = [making EXCEPT ![r] = 0]
    /\ repo' \in {repo, [repo EXCEPT ![r] = IF @ = 0 THEN making[r] ELSE @]}
    /\ UNCHANGED <<vaultVars, up, ready, unsaved, restored, changes, faults>>

(***************************************************************************)
(* Everything else.                                                        *)
(***************************************************************************)

\* A secret that is no repository's: saved, and with it whatever memory has.
ChangeSecret ==
    /\ up /\ opened /\ changes < MaxChanges /\ changes' = changes + 1
    /\ \/ SaveWorks(keys) /\ UNCHANGED faults
       \/ (SaveStumbles(keys) \/ SaveFails(keys)) /\ Fault
    /\ UNCHANGED <<top, minted, opened, repo, up, ready, making, unsaved, restored>>

ChangePassphrase ==
    /\ up
    /\ \/ Rotated(Newest(Copied)) /\ UNCHANGED faults
       \/ RoomToSpare /\ Rotated(Copied) /\ Fault
       \/ NotRotated /\ Fault
    /\ UNCHANGED <<repo, up, ready, making, unsaved, restored, changes>>

Unlock ==
    /\ up
    /\ Opened
    /\ UNCHANGED <<repo, up, ready, making, unsaved, restored, changes, faults>>

Lock ==
    /\ opened
    /\ Shut
    /\ UNCHANGED <<repo, up, ready, making, unsaved, restored, changes, faults>>

\* A kopia that was started may still create its repository.
Crash ==
    /\ up /\ up' = FALSE
    /\ Fault
    /\ Shut
    /\ ready' = {} /\ making' = [r \in Generated |-> 0]
    /\ \E done \in SUBSET {r \in Generated : making[r] # 0 /\ repo[r] = 0} :
         repo' = [r \in Generated |-> IF r \in done THEN making[r] ELSE repo[r]]
    /\ UNCHANGED <<unsaved, restored, changes>>

Start ==
    /\ ~up /\ up' = TRUE
    /\ UNCHANGED <<vaultVars, repo, ready, making, unsaved, restored, changes, faults>>

Restore(i) ==
    /\ ~up /\ changes < MaxChanges /\ changes' = changes + 1
    /\ Replaced(backups[i])
    /\ restored' = TRUE
    /\ UNCHANGED <<repo, up, ready, making, unsaved, faults>>

Next ==
    \/ ChangeSecret \/ ChangePassphrase \/ Unlock \/ Lock \/ Crash \/ Start
    \/ \E r \in Generated : Ensure(r) \/ EnsureNew(r) \/ Bind(r) \/ Make(r)
    \/ \E i \in DOMAIN backups : Restore(i)

Spec == Init /\ [][Next]_vars

(***************************************************************************)
(* Properties.                                                             *)
(***************************************************************************)

\* The passphrase of a repository is on disk before the repository is, and
\* stays in the live vault whatever is saved, rotated, locked or interrupted
\* afterwards, until a copy from before it is put back.  The exception is a
\* repository whose passphrase failed to be saved once (KeyIsSaved).
KeyStays ==
    ~restored => \A r \in Generated \ unsaved :
       {repo[r], making[r]} \ {0} \subseteq {file.keys[r]}

\* A restore, too, leaves the passphrase somewhere: in the live vault or in a
\* copy, until as many copies as are kept were taken.
KeyIsSomewhere ==
    \A r \in Generated \ unsaved : repo[r] # 0 =>
       (\E c \in OnDisk : c.keys[r] = repo[r]) \/ Len(backups) >= Keep

\* What handler.rs says of every repository created: its passphrase was
\* generated and saved first.
KeyIsSaved ==
    \A r \in Generated : repo[r] # 0 =>
       (\E c \in OnDisk : c.keys[r] = repo[r]) \/ Len(backups) >= Keep
=============================================================================
