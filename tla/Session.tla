------------------------------- MODULE Session -------------------------------
(***************************************************************************)
(* Opening and shutting the vault (daemon/lifecycle.rs), and every handler *)
(* that touches what opening gives out: the scheduler's gate, the retained *)
(* passphrase, the confirmation, the auto-lock deadline, the passphrase    *)
(* cached with the operating system's keychain (daemon/keychain.rs), and   *)
(* the configuration that the scheduler is told of (handler.rs, commit).   *)
(*                                                                         *)
(* None of it is one critical section.  A handler is a task on a runtime   *)
(* with several threads: anything may come between two of its statements,  *)
(* the transport aborts it at an await after its time-out (ipc/server.rs), *)
(* and the machine may stop at any point.  One action is one statement.    *)
(*                                                                         *)
(* Left out: the runs the lock held back (DaemonRuns), the repositories a  *)
(* rotation moves (Rotation), status broadcasts and events.  A file write  *)
(* of the cache succeeds; the keychain may refuse anything.                *)
(***************************************************************************)

EXTENDS Naturals, FiniteSets

CONSTANTS
    Client,     \* connections, with one request in progress each
    Boot,       \* the daemon's start-up
    Timer,      \* the auto-lock task
    Pass,       \* passphrases
    NoPass,
    MaxBusy     \* operations in progress at a time

ASSUME ActorAssumption ==
    /\ Boot \notin Client /\ Timer \notin Client /\ Boot # Timer
    /\ {"os", "nobody"} \cap (Client \cup {Boot, Timer}) = {}
ASSUME NoPassAssumption == NoPass \notin Pass

Actor == Client \cup {Boot, Timer}

VARIABLES
    \* on disk, or in the keychain
    sealed,     \* the passphrase the vault is sealed under
    setting,    \* settings.use_os_keychain
    sidecar,    \* the passphrase in data/keychain.sbvault
    opener,     \* who has the wrap key that opens the sidecar
    \* in the daemon
    locked,     \* Store: the vault has no keys in memory
    gate,       \* Environment::vault_unlocked, which the scheduler reads
    master,     \* Runtime::master
    confirmed,  \* Runtime::confirmed_until is in the future
    deadline,   \* Runtime::auto_lock_at is set
    heard,      \* the scheduler's configuration is the saved one
    op          \* what each actor is doing

disk == <<sealed, setting, sidecar, opener>>
memory == <<locked, gate, master, confirmed, deadline, heard>>
vars == <<disk, memory, op>>

Kind == {"unlock", "boot", "lock", "stepdown", "rearm", "settings",
         "commit", "rotate"}
Place == {"boot", "takeKey", "openLocal", "open", "read", "openGate", "arm",
          "seal", "putKey", "remember", "confirm", "clone", "push", "shut",
          "closeGate", "forgetMaster", "disarm", "forgetLocal", "dropKey",
          "saved", "unconfirm", "save", "reload", "after", "probe", "getMaster",
          "reseal", "wants", "done", "unread"}

\* alone: no other operation was in progress at any time during this one.
\* fresh: the configuration in hand is the saved one.
\* note:  the setting as last read, then what its change asks for.
Free == [kind |-> "free"]
Op == {Free} \cup [kind: Kind, at: Place, pass: Pass \cup {NoPass},
                   note: {"none", "on", "off"}, fresh: BOOLEAN, alone: BOOLEAN]

Busy == {a \in Actor : op[a] # Free}
At(a, place) == a \in Busy /\ op[a].at = place

TypeOK ==
    /\ sealed \in Pass /\ setting \in BOOLEAN
    /\ sidecar \in Pass \cup {NoPass}
    /\ opener \in Actor \cup {"os", "nobody"}
    /\ locked \in BOOLEAN /\ gate \in BOOLEAN
    /\ master \in Pass \cup {NoPass}
    /\ confirmed \in BOOLEAN /\ deadline \in BOOLEAN /\ heard \in BOOLEAN
    /\ op \in [Actor -> Op]
    \* a wrap key is with whoever is about to hand it over, or handed over
    /\ opener \in Actor => At(opener, "putKey")
    /\ sidecar = NoPass => opener = "nobody"

Note == IF setting THEN "on" ELSE "off"

Room == Cardinality(Busy) < MaxBusy

Started(a, kind, at, pass) ==
    [b \in Actor |->
       IF b = a THEN [kind |-> kind, at |-> at, pass |-> pass, note |-> "none",
                      fresh |-> TRUE, alone |-> Busy \subseteq {a}]
       ELSE IF b \in Busy THEN [op[b] EXCEPT !.alone = FALSE] ELSE Free]

\* The end of an operation is a state of its own only where the properties
\* look at it: when it was alone.
Moved(o, place) ==
    IF place = "done" /\ ~o.alone THEN Free ELSE [o EXCEPT !.at = place]
Goto(a, place) == op' = [op EXCEPT ![a] = Moved(@, place)]
Leave(a) == op' = [op EXCEPT ![a] = Free]

\* A start of the daemon: nothing of its memory is left, and the scheduler
\* is built from the configuration on disk.
Starting ==
    [a \in Actor |->
       IF a = Boot THEN [kind |-> "boot", at |-> "boot", pass |-> NoPass,
                         note |-> "none", fresh |-> TRUE, alone |-> TRUE]
       ELSE Free]

Init ==
    /\ sealed \in Pass /\ setting \in BOOLEAN
    /\ sidecar = NoPass /\ opener = "nobody"
    /\ locked = TRUE /\ gate = FALSE /\ master = NoPass
    /\ confirmed = FALSE /\ deadline = FALSE /\ heard = TRUE
    /\ op = Starting

(***************************************************************************)
(* Requests.  The server is bound after the start-up.  A command that      *)
(* changes the configuration is refused unless somebody is confirmed and   *)
(* the vault is open; unlock, lock, reload and pausing are not.            *)
(***************************************************************************)
Serving(c) == c \notin Busy /\ Boot \notin Busy /\ Room
Permitted == confirmed /\ ~locked

Request(c) ==
    /\ Serving(c)
    /\ \/ \E p \in Pass : op' = Started(c, "unlock", "open", p)
       \/ op' = Started(c, "lock", "shut", NoPass)
       \/ op' = Started(c, "commit", "save", NoPass)
       \/ op' = Started(c, "commit", "reload", NoPass)
       \/ /\ Permitted
          /\ op' = [Started(c, "settings", "save", NoPass) EXCEPT ![c].note = Note]
       \/ Permitted /\ \E p \in Pass : op' = Started(c, "rotate", "reseal", p)
    /\ UNCHANGED <<disk, memory>>

\* The deadline has passed.
TimerDue ==
    /\ Timer \notin Busy /\ deadline /\ Room
    /\ \/ op' = Started(Timer, "rearm", "arm", NoPass)   \* a run is in flight
       \/ op' = Started(Timer, "stepdown", "saved", NoPass)
    /\ UNCHANGED <<disk, memory>>

\* The window of a confirmation is over.  Nothing but a request reads it,
\* as it begins: it may as well end between operations.
Expire ==
    /\ Busy = {}
    /\ confirmed /\ confirmed' = FALSE
    /\ UNCHANGED <<disk, locked, gate, master, deadline, heard, op>>

(***************************************************************************)
(* try_keychain_unlock.  The two halves of the cache must fit; what does   *)
(* not open the vault is discarded.  A key that opens nothing may be in    *)
(* the keychain or not.                                                    *)
(***************************************************************************)
BootStep ==
    /\ At(Boot, "boot")
    /\ Goto(Boot, IF setting THEN "takeKey" ELSE "done")
    /\ UNCHANGED <<disk, memory>>

TakeKey ==
    /\ At(Boot, "takeKey")
    /\ \/ Goto(Boot, "openLocal")
       \/ opener # "os" /\ Goto(Boot, "done")
       \/ Goto(Boot, "unread")
    /\ UNCHANGED <<disk, memory>>

CacheOpens == sidecar # NoPass /\ opener = "os"

OpenLocal ==
    /\ At(Boot, "openLocal")
    /\ op' = IF CacheOpens
               THEN [op EXCEPT ![Boot].at = "open", ![Boot].pass = sidecar]
               ELSE [op EXCEPT ![Boot].at = "forgetLocal"]
    /\ UNCHANGED <<disk, memory>>

\* A vault that is open already is not asked whether the passphrase fits.
\* Faulty variant: the start-up keeps a passphrase that opens nothing.
OpenOrKeep(a) ==
    /\ At(a, "open")
    /\ IF op[a].pass = sealed \/ (op[a].kind = "unlock" /\ ~locked)
         THEN locked' = FALSE /\ Goto(a, "read")
         ELSE /\ IF op[a].kind = "boot" THEN Goto(a, "done") ELSE Leave(a)
              /\ UNCHANGED locked
    /\ UNCHANGED <<disk, gate, master, confirmed, deadline, heard>>
Open(a) ==
    /\ At(a, "open")
    /\ IF op[a].pass = sealed \/ (op[a].kind = "unlock" /\ ~locked)
         THEN locked' = FALSE /\ Goto(a, "read")
         ELSE /\ IF op[a].kind = "boot" THEN Goto(a, "forgetLocal") ELSE Leave(a)
              /\ UNCHANGED locked
    /\ UNCHANGED <<disk, gate, master, confirmed, deadline, heard>>

(***************************************************************************)
(* on_unlocked.                                                            *)
(***************************************************************************)
Read(a) ==
    /\ At(a, "read")
    /\ op' = [op EXCEPT ![a].at = "openGate", ![a].note = Note]
    /\ UNCHANGED <<disk, memory>>

OpenGate(a) ==
    /\ At(a, "openGate")
    /\ gate' = TRUE /\ Goto(a, "arm")
    /\ UNCHANGED <<disk, locked, master, confirmed, deadline, heard>>

\* arm_auto_lock: of an unlock, of new settings, or of a timer put off.
\* Faulty variant: the passphrase is only kept where it is cached.
AfterArmCachedOnly(a) ==
    CASE op[a].kind \in {"unlock", "boot"} ->
           IF op[a].note = "on" THEN "seal" ELSE "clone"
      [] op[a].kind = "settings" /\ op[a].note = "on" -> "getMaster"
      [] op[a].kind = "settings" /\ op[a].note = "off" -> "forgetLocal"
      [] OTHER -> "done"
AfterArm(a) ==
    CASE op[a].kind \in {"unlock", "boot"} ->
           IF op[a].note = "on" THEN "seal" ELSE "remember"
      [] op[a].kind = "settings" /\ op[a].note = "on" -> "getMaster"
      [] op[a].kind = "settings" /\ op[a].note = "off" -> "forgetLocal"
      [] OTHER -> "done"
Arm(a) ==
    /\ At(a, "arm")
    /\ deadline' = TRUE
    /\ op' = [op EXCEPT ![a] =
         Moved([@ EXCEPT !.note = IF op[a].kind = "settings" THEN op[a].note ELSE "none"],
               AfterArm(a))]
    /\ UNCHANGED <<disk, locked, gate, master, confirmed, heard>>

\* Faulty variant: a rotation only overwrites the cache.
AfterRememberKept(a) ==
    CASE op[a].kind = "unlock" -> "confirm"
      [] op[a].kind = "boot" -> "clone"
      [] OTHER -> "wants"
AfterRemember(a) ==
    CASE op[a].kind = "unlock" -> "confirm"
      [] op[a].kind = "boot" -> "clone"
      [] OTHER -> "forgetLocal"
Remember(a) ==
    /\ At(a, "remember")
    /\ master' = op[a].pass /\ Goto(a, AfterRemember(a))
    /\ UNCHANGED <<disk, locked, gate, confirmed, deadline, heard>>

Confirm(a) ==
    /\ At(a, "confirm")
    /\ confirmed' = TRUE /\ Goto(a, "clone")
    /\ UNCHANGED <<disk, locked, gate, master, deadline, heard>>

Clone(a) ==
    /\ At(a, "clone")
    /\ op' = [op EXCEPT ![a].at = "push", ![a].fresh = TRUE]
    /\ UNCHANGED <<disk, memory>>

\* push_config sends the copy in hand, whatever was saved since.
Push(a) ==
    /\ At(a, "push")
    /\ heard' = op[a].fresh
    /\ op' = [op EXCEPT ![a] = Moved([@ EXCEPT !.fresh = TRUE],
                                     IF op[a].kind = "settings" THEN "after" ELSE "done")]
    /\ UNCHANGED <<disk, locked, gate, master, confirmed, deadline>>

(***************************************************************************)
(* keychain::store: a fresh key, the sidecar under it, then the key into   *)
(* the keychain; without its key the sidecar goes again.                   *)
(***************************************************************************)
Seal(a) ==
    /\ At(a, "seal")
    /\ sidecar' = op[a].pass /\ opener' = a
    /\ Goto(a, "putKey")
    /\ UNCHANGED <<sealed, setting, memory>>

\* It takes the place of any other key.
KeyStored(a) ==
    /\ opener' = CASE opener = a -> "os" [] opener = "os" -> "nobody" [] OTHER -> opener
    /\ UNCHANGED sidecar
PutKey(a) ==
    /\ At(a, "putKey")
    /\ \/ KeyStored(a)
       \/ sidecar' = NoPass /\ opener' = "nobody"
    /\ Goto(a, IF op[a].kind \in {"unlock", "boot"} THEN "remember" ELSE "done")
    /\ UNCHANGED <<sealed, setting, memory>>

(***************************************************************************)
(* keychain::forget: the sidecar first, then the key.  lock and the        *)
(* rotation only do it when there is a sidecar (forget_if_cached).         *)
(***************************************************************************)
AfterForget(a) == IF op[a].kind = "rotate" THEN "wants" ELSE "done"
ForgetLocal(a) ==
    /\ At(a, "forgetLocal")
    /\ sidecar' = NoPass /\ opener' = "nobody"
    /\ Goto(a, IF sidecar = NoPass /\ op[a].kind \in {"lock", "rotate"}
                 THEN AfterForget(a) ELSE "dropKey")
    /\ UNCHANGED <<sealed, setting, memory>>

KeyDropped ==
    /\ opener' = IF opener = "os" THEN "nobody" ELSE opener
    /\ UNCHANGED sidecar
DropKey(a) ==
    /\ At(a, "dropKey")
    /\ KeyDropped \/ UNCHANGED <<opener, sidecar>>
    /\ Goto(a, AfterForget(a))
    /\ UNCHANGED <<sealed, setting, memory>>

(***************************************************************************)
(* lock, from a client or from the auto-lock timer; and the timer's other  *)
(* way out, for a machine that saves its passphrase.                       *)
(***************************************************************************)
Saved ==
    /\ At(Timer, "saved")
    /\ op' = IF setting
               THEN [op EXCEPT ![Timer].at = "unconfirm"]
               ELSE [op EXCEPT ![Timer].at = "shut", ![Timer].kind = "lock"]
    /\ UNCHANGED <<disk, memory>>

Unconfirm ==
    /\ At(Timer, "unconfirm")
    /\ confirmed' = FALSE /\ Goto(Timer, "disarm")
    /\ UNCHANGED <<disk, locked, gate, master, deadline, heard>>

Shut(a) ==
    /\ At(a, "shut")
    /\ locked' = TRUE /\ Goto(a, "closeGate")
    /\ UNCHANGED <<disk, gate, master, confirmed, deadline, heard>>

CloseGate(a) ==
    /\ At(a, "closeGate")
    /\ gate' = FALSE /\ Goto(a, "forgetMaster")
    /\ UNCHANGED <<disk, locked, master, confirmed, deadline, heard>>

\* Both tiers go together.
\* Faulty variant: the confirmation outlives the lock.
ForgetMasterOnly(a) ==
    /\ At(a, "forgetMaster")
    /\ master' = NoPass /\ Goto(a, "disarm")
    /\ UNCHANGED <<disk, locked, gate, confirmed, deadline, heard>>
ForgetMaster(a) ==
    /\ At(a, "forgetMaster")
    /\ master' = NoPass /\ confirmed' = FALSE /\ Goto(a, "disarm")
    /\ UNCHANGED <<disk, locked, gate, deadline, heard>>

Disarm(a) ==
    /\ At(a, "disarm")
    /\ deadline' = FALSE
    /\ Goto(a, IF op[a].kind = "lock" THEN "forgetLocal" ELSE "done")
    /\ UNCHANGED <<disk, locked, gate, master, confirmed, heard>>

(***************************************************************************)
(* The configuration: saved under the store's lock, pushed without it.     *)
(* A reload takes whatever somebody wrote into the file.                   *)
(***************************************************************************)
Saving(a) == At(a, "save") \/ At(a, "reload")

\* Faulty variant: the copy to push is taken before the change.
SaveAfterCopy(a) ==
    /\ Saving(a)
    /\ setting' \in IF op[a].kind = "commit" /\ op[a].at = "save" THEN {setting} ELSE BOOLEAN
    /\ heard' = FALSE
    /\ op' = [b \in Actor |->
         IF b = a THEN [op[a] EXCEPT !.at = "push", !.fresh = FALSE]
         ELSE IF At(b, "push") THEN [op[b] EXCEPT !.fresh = FALSE] ELSE op[b]]
    /\ UNCHANGED <<sealed, sidecar, opener, locked, gate, master, confirmed, deadline>>
Save(a) ==
    /\ Saving(a)
    /\ setting' \in IF op[a].kind = "commit" /\ op[a].at = "save" THEN {setting} ELSE BOOLEAN
    /\ heard' = FALSE
    /\ op' = [b \in Actor |->
         IF b = a THEN [op[a] EXCEPT !.at = "push", !.fresh = TRUE]
         ELSE IF At(b, "push") THEN [op[b] EXCEPT !.fresh = FALSE] ELSE op[b]]
    /\ UNCHANGED <<sealed, sidecar, opener, locked, gate, master, confirmed, deadline>>

\* It does not validate, or cannot be written.
Reject(a) == Saving(a) /\ Leave(a) /\ UNCHANGED <<disk, memory>>

\* update_settings reads the setting again and acts on the difference.
After(a) ==
    /\ At(a, "after")
    /\ op' = [op EXCEPT ![a].at = "probe",
                        ![a].note = IF @ = Note THEN "none" ELSE Note]
    /\ UNCHANGED <<disk, memory>>

Probe(a) ==
    /\ At(a, "probe")
    /\ Goto(a, IF ~locked THEN "arm"
               ELSE IF op[a].note = "off" THEN "forgetLocal" ELSE "done")
    /\ UNCHANGED <<disk, memory>>

GetMaster(a) ==
    /\ At(a, "getMaster")
    /\ IF master = NoPass
         THEN Goto(a, "done")
         ELSE op' = [op EXCEPT ![a].at = "seal", ![a].pass = master]
    /\ UNCHANGED <<disk, memory>>

(***************************************************************************)
(* change_passphrase, as far as the session goes.  Whether the current     *)
(* passphrase was typed correctly is a free choice.                        *)
(***************************************************************************)
Reseal(a) ==
    /\ At(a, "reseal") /\ op[a].pass # sealed
    /\ sealed' = op[a].pass /\ Goto(a, "remember")
    /\ UNCHANGED <<setting, sidecar, opener, memory>>

Refuse(a) == At(a, "reseal") /\ Leave(a) /\ UNCHANGED <<disk, memory>>

Wants(a) ==
    /\ At(a, "wants")
    /\ Goto(a, IF setting THEN "seal" ELSE "done")
    /\ UNCHANGED <<disk, memory>>

Finish(a) ==
    /\ At(a, "done") \/ At(a, "unread")
    /\ Leave(a) /\ UNCHANGED <<disk, memory>>

(***************************************************************************)
(* Faults.  An aborted handler goes no further than the await it is at; a  *)
(* keychain call it waits for is a thread of its own and may still be made.*)
(***************************************************************************)
Awaits == {"shut", "read", "clone", "save", "reload", "after", "probe",
           "reseal", "wants"}
Abort(c) ==
    /\ \/ /\ \E place \in Awaits : At(c, place)
          /\ UNCHANGED disk
       \/ /\ At(c, "putKey")
          /\ \/ KeyStored(c)
             \/ /\ opener' = IF opener = c THEN "nobody" ELSE opener
                /\ UNCHANGED sidecar
          /\ UNCHANGED <<sealed, setting>>
       \/ /\ At(c, "dropKey")
          /\ KeyDropped \/ UNCHANGED <<opener, sidecar>>
          /\ UNCHANGED <<sealed, setting>>
    /\ Leave(c)
    /\ UNCHANGED memory

Crash ==
    /\ locked' = TRUE /\ gate' = FALSE /\ master' = NoPass
    /\ confirmed' = FALSE /\ deadline' = FALSE /\ heard' = TRUE
    /\ op' = Starting
    /\ opener' = IF opener = "os" THEN "os" ELSE "nobody"
    /\ UNCHANGED <<sealed, setting, sidecar>>

Step(a) ==
    \/ Open(a) \/ Read(a) \/ OpenGate(a) \/ Arm(a) \/ Remember(a) \/ Confirm(a)
    \/ Clone(a) \/ Push(a) \/ Seal(a) \/ PutKey(a) \/ ForgetLocal(a) \/ DropKey(a)
    \/ Shut(a) \/ CloseGate(a) \/ ForgetMaster(a) \/ Disarm(a)
    \/ Save(a) \/ Reject(a) \/ After(a) \/ Probe(a) \/ GetMaster(a)
    \/ Reseal(a) \/ Refuse(a) \/ Wants(a) \/ Finish(a)

Next ==
    \/ \E c \in Client : Request(c) \/ Abort(c)
    \/ TimerDue \/ Expire \/ Saved \/ Unconfirm
    \/ BootStep \/ TakeKey \/ OpenLocal
    \/ \E a \in Actor : Step(a)
    \/ Crash

Spec == Init /\ [][Next]_vars

(***************************************************************************)
(* Properties.  Whatever aborts, overlaps, crashes and keychain failures   *)
(* came before, an operation that had the daemon to itself leaves all of   *)
(* its consequences in agreement.                                          *)
(***************************************************************************)
Ended(a, kinds) == At(a, "done") /\ op[a].alone /\ op[a].kind \in kinds

\* lifecycle.rs:132, "Lock has to mean locked": no keys, no gate, no
\* passphrase, no confirmation, no deadline, and nothing that re-opens it.
LockIsWhole ==
    \A a \in Actor : Ended(a, {"lock"}) =>
      /\ locked /\ ~gate /\ master = NoPass /\ ~confirmed /\ ~deadline
      /\ ~CacheOpens

\* on_unlocked: keys, gate, deadline and passphrase, the scheduler told.
UnlockIsWhole ==
    \A a \in Actor : Ended(a, {"unlock"}) =>
      /\ ~locked /\ gate /\ deadline /\ master = op[a].pass /\ heard
      /\ setting => (CacheOpens => sidecar = master)

\* try_keychain_unlock: a cache that opens the vault is never discarded
\* unused, and the start-up ends with the vault open or with no cache left
\* that opens anything, unless the keychain could not be read.
StartUpSettles ==
    /\ At(Boot, "forgetLocal") => ~(CacheOpens /\ sidecar = sealed)
    /\ Ended(Boot, {"boot"}) /\ setting =>
         /\ gate = ~locked /\ deadline = ~locked
         /\ CacheOpens => ~locked /\ sidecar = sealed /\ master = sealed
    /\ Boot \in Busy /\ op[Boot].alone => ~confirmed

\* A rotation leaves no cache that holds another passphrase (keychain.rs:58),
\* and a setting switched off leaves none at all (keychain.rs:57).
CacheFollows ==
    \A a \in Actor :
      /\ Ended(a, {"rotate"}) =>
           /\ sealed = op[a].pass /\ master = op[a].pass
           /\ CacheOpens => setting /\ sidecar = sealed
      /\ Ended(a, {"settings"}) =>
           /\ op[a].note = "off" => ~CacheOpens
           /\ op[a].note = "on" /\ CacheOpens => master \in {sidecar, NoPass}
           /\ ~locked => deadline

\* handler.rs:125, "saved but the scheduler never heard about it" is to be
\* impossible.
CommitIsHeard ==
    \A a \in Actor : Ended(a, {"commit", "settings"}) => heard

=============================================================================
