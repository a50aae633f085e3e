------------------------------- MODULE Mirror -------------------------------
(***************************************************************************)
(* The folder mirror (crates/core/src/engine/mirror.rs): a run walks the   *)
(* source on one thread, hands what it finds over a bounded channel, and   *)
(* copies on another what does not look up to date, through a temporary    *)
(* file beside the copy.  The user goes on writing meanwhile; a Stop may   *)
(* come at any moment, a file may be locked, the daemon may die, and two   *)
(* runs may work on one folder (a stopped run that was left behind beside  *)
(* the next one, or two jobs with one destination).                        *)
(*                                                                         *)
(* A file is the sequence of its chunks, each named by the write that left *)
(* it.  `at` is its modification time, in units longer than                *)
(* MTIME_TOLERANCE_SECS: within one unit a file only grows.                *)
(***************************************************************************)
EXTENDS Integers, Sequences

CONSTANTS
    Files,        \* the files of one source
    Runs,         \* MirrorEngine::run calls that may overlap
    Cap,          \* room in the channel between the walk and the copy (256)
    None,         \* no item
    MaxChunks,    \* bound: chunks of a file
    Plays         \* bound: what a behaviour starts with and may do

ASSUME CapAssumption == Cap \in Nat \ {0}

\* A play: the files there are at first, those the user writes to, and how many
\* writes, calls, and troubles (a Stop, a file that fails, a death) it has.
ASSUME PlaysAssumption ==
    /\ MaxChunks \in Nat \ {0}
    /\ Plays \subseteq [files : SUBSET Files, edited : SUBSET Files,
                        writes : Nat, starts : Nat, troubles : Nat]

VARIABLES
    source,      \* the user's files
    mirror,      \* their copies
    temps,       \* temporary files in the mirror: [file, call]
    run,         \* the calls at work
    play, writes, starts, troubles,   \* the play, and what was done of it
    lost         \* (for the properties) temporary files nobody could remove

counters == <<play, writes, starts, troubles>>
vars == <<source, mirror, temps, run, counters, lost>>

Data == Seq(Nat)
File == [there : BOOLEAN, data : Data, at : Nat]
Item == [file : Files, kind : {"file", "warning"}, len : Nat, at : Nat]
Active == {"receive", "open", "read", "rename", "join"}
ASSUME NoneAssumption == None \notin Item

\* `fd` is what a worker reads: the file itself, or, once another file took
\* its name, the data it was opened on.
Call ==
    [stage : Active \cup {"idle", "ok", "cancelled", "failed"}, call : Nat,
     cancel : BOOLEAN, open : BOOLEAN, queue : Seq(Item), item : Item \cup {None},
     buffer : Data, live : BOOLEAN, fd : Data,
     walking : BOOLEAN, left : SUBSET Files,
     warned : SUBSET Files, steady : SUBSET Files, alone : BOOLEAN]

TypeOK ==
    /\ source \in [Files -> File] /\ mirror \in [Files -> File]
    /\ temps \subseteq [file : Files, call : 1..starts]
    /\ run \in [Runs -> Call]
    /\ play \in Plays
    /\ writes \in 0..play.writes /\ starts \in 0..play.starts
    /\ troubles \in 0..play.troubles
    /\ lost \subseteq [file : Files, call : 1..starts]

Idle ==
    [stage |-> "idle", call |-> 0, cancel |-> FALSE, open |-> FALSE,
     queue |-> <<>>, item |-> None, buffer |-> <<>>, live |-> FALSE,
     fd |-> <<>>, walking |-> FALSE, left |-> {},
     warned |-> {}, steady |-> {}, alone |-> FALSE]

Init ==
    /\ play \in Plays
    /\ source = [f \in Files |-> [there |-> f \in play.files, data |-> <<0>>, at |-> 0]]
    /\ mirror = [f \in Files |-> [there |-> FALSE, data |-> <<>>, at |-> 0]]
    /\ temps = {} /\ run = [r \in Runs |-> Idle]
    /\ writes = 0 /\ starts = 0 /\ troubles = 0
    /\ lost = {}

(***************************************************************************)
(* What a call is made of                                                  *)
(***************************************************************************)
Working(r) == run[r].stage \in Active
Temp(r) == [file |-> run[r].item.file, call |-> run[r].call]

\* is_up_to_date: size and modification time.
UpToDate(f, len, at) ==
    mirror[f].there /\ Len(mirror[f].data) = len /\ mirror[f].at = at

\* What the worker sees of its file now.
Seen(r) == IF run[r].live THEN source[run[r].item.file].data ELSE run[r].fd

Trouble == troubles < play.troubles /\ troubles' = troubles + 1
NoTrouble == troubles' = troubles

(***************************************************************************)
(* MirrorEngine::run                                                       *)
(***************************************************************************)
\* A call begins; its source or its folder may be out of reach.
Start(r) ==
    /\ ~Working(r) /\ starts < play.starts
    /\ starts' = starts + 1
    /\ \/ Trouble /\ run' = [run EXCEPT ![r] = [Idle EXCEPT !.stage = "failed"]]
       \/ /\ NoTrouble
          /\ run' = [q \in Runs |->
                CASE q = r ->
                       [Idle EXCEPT !.stage = "receive", !.call = starts + 1,
                          !.open = TRUE, !.walking = TRUE, !.left = {f \in Files : source[f].there},
                          !.steady = {f \in Files : source[f].there},
                          !.alone = \A o \in Runs \ {r} : ~Working(o)]
                  [] q # r /\ Working(q) -> [run[q] EXCEPT !.alone = FALSE]
                  [] OTHER -> run[q]]
    /\ UNCHANGED <<source, mirror, temps, play, writes, lost>>

\* scan takes the next entry and sends it.  What disappeared since the folder
\* was listed is skipped or, like a link and what cannot be read, a warning.  An
\* item beyond Cap is the one the walk stands with in blocking_send: it goes on
\* when there is room, and ends when the receiver is dropped.
Scan(r) ==
    /\ run[r].walking /\ Len(run[r].queue) <= Cap
    /\ \/ /\ run[r].cancel \/ ~run[r].open \/ run[r].left = {}
          /\ run' = [run EXCEPT ![r].walking = FALSE, ![r].left = {}]
          /\ NoTrouble
       \/ /\ ~run[r].cancel /\ run[r].open
          /\ \E f \in run[r].left :
                LET Send(items) ==
                        run' = [run EXCEPT ![r].left = @ \ {f}, ![r].queue = @ \o items]
                IN \/ /\ source[f].there /\ NoTrouble
                      /\ Send(<<[file |-> f, kind |-> "file",
                                 len |-> Len(source[f].data), at |-> source[f].at]>>)
                   \/ ~source[f].there /\ NoTrouble /\ Send(<<>>)
                   \/ Trouble /\ Send(<<[file |-> f, kind |-> "warning", len |-> 0, at |-> 0]>>)
    /\ UNCHANGED <<source, mirror, temps, play, writes, starts, lost>>

\* (mutant) The walk is joined before the receiver is dropped.
LeaveListening(r, warned) ==
    [run[r] EXCEPT !.stage = "join", !.item = None, !.buffer = <<>>,
                   !.warned = warned, !.live = FALSE, !.fd = <<>>]

\* The loop of mirror_one is over: the receiver is dropped.
Leave(r, warned) ==
    [run[r] EXCEPT !.stage = "join", !.open = FALSE, !.queue = <<>>,
                   !.item = None, !.buffer = <<>>, !.warned = warned,
                   !.live = FALSE, !.fd = <<>>]

\* The loop goes on with the next item.
Proceed(r, warned) ==
    [run[r] EXCEPT !.stage = "receive", !.item = None, !.buffer = <<>>,
                   !.warned = warned, !.live = FALSE, !.fd = <<>>]

\* mirror_one receives an item, or learns that the walk is over.
Receive(r) ==
    /\ run[r].stage = "receive"
    /\ \/ /\ run[r].queue # <<>>
          /\ LET item == Head(run[r].queue)
                 got == [run[r] EXCEPT !.queue = Tail(@)]
             IN run' = [run EXCEPT ![r] =
                   IF run[r].cancel THEN Leave(r, run[r].warned)
                   ELSE IF item.kind = "warning"
                        THEN [got EXCEPT !.warned = @ \cup {item.file}]
                   ELSE IF UpToDate(item.file, item.len, item.at) THEN got
                   ELSE [got EXCEPT !.stage = "open", !.item = item]]
       \/ /\ run[r].queue = <<>> /\ ~run[r].walking
          /\ run' = [run EXCEPT ![r] = Leave(r, run[r].warned)]
    /\ UNCHANGED <<source, mirror, temps, counters, lost>>

(***************************************************************************)
(* copy_file_blocking                                                      *)
(***************************************************************************)
\* remove_file works, or its error is discarded and nobody comes back to it.
Sweep(r) ==
    \/ temps' = temps \ {Temp(r)} /\ UNCHANGED lost
    \/ UNCHANGED temps /\ lost' = lost \cup {Temp(r)}

\* A failed copy is a warning, a Stop ends the loop.
Skip(r) == run' = [run EXCEPT ![r] = Proceed(r, @.warned \cup {@.item.file})]
Quit(r) ==
    /\ run[r].cancel
    /\ run' = [run EXCEPT ![r] = Leave(r, @.warned)]
    /\ NoTrouble

\* The temporary file goes with either.
GiveUp(r) == Skip(r) /\ Sweep(r)

\* (mutant) A Stop leaves the temporary file where it is.
AbandonTemp(r) == Quit(r) /\ UNCHANGED <<temps, lost>>
Abandon(r) == Quit(r) /\ Sweep(r)

OpenCopy(r) ==
    /\ run[r].stage = "open"
    /\ \/ Quit(r) /\ UNCHANGED temps
       \/ ~run[r].cancel /\ source[run[r].item.file].there /\ Trouble /\ Skip(r) /\ UNCHANGED temps
       \/ ~run[r].cancel /\ ~source[run[r].item.file].there /\ NoTrouble /\ Skip(r) /\ UNCHANGED temps
       \/ /\ ~run[r].cancel /\ source[run[r].item.file].there /\ NoTrouble
          /\ run' = [run EXCEPT ![r].stage = "read", ![r].live = TRUE]
          /\ temps' = temps \cup {Temp(r)}
    /\ UNCHANGED <<source, mirror, play, writes, starts, lost>>

\* One round of the loop: the next chunk, or the end of the file.
ReadChunk(r) ==
    /\ run[r].stage = "read"
    /\ \/ Abandon(r)
       \/ ~run[r].cancel /\ Trouble /\ GiveUp(r)
       \/ /\ ~run[r].cancel /\ NoTrouble /\ UNCHANGED <<temps, lost>>
          /\ LET next == Len(run[r].buffer) + 1
             IN \/ /\ next <= Len(Seen(r))
                   /\ run' = [run EXCEPT ![r].buffer = Append(@, Seen(r)[next])]
                \/ /\ next > Len(Seen(r))
                   /\ run' = [run EXCEPT ![r].stage = "rename"]
    /\ UNCHANGED <<source, mirror, play, writes, starts>>

\* (mutant) The copy gets the modification time the file has by now.
RenameAsNow(r) ==
    /\ run[r].stage = "rename" /\ NoTrouble
    /\ mirror' = [mirror EXCEPT ![run[r].item.file] =
          [there |-> TRUE, data |-> run[r].buffer, at |-> source[run[r].item.file].at]]
    /\ run' = [run EXCEPT ![r] = Proceed(r, @.warned)]
    /\ temps' = temps \ {Temp(r)}
    /\ UNCHANGED <<source, play, writes, starts, lost>>

\* The copy gets the modification time the walk saw, and takes its place.
Rename(r) ==
    /\ run[r].stage = "rename"
    /\ \/ Trouble /\ GiveUp(r) /\ UNCHANGED mirror
       \/ /\ NoTrouble
          /\ mirror' = [mirror EXCEPT ![run[r].item.file] =
                [there |-> TRUE, data |-> run[r].buffer, at |-> run[r].item.at]]
          /\ run' = [run EXCEPT ![r] = Proceed(r, @.warned)]
          /\ temps' = temps \ {Temp(r)} /\ UNCHANGED lost
    /\ UNCHANGED <<source, play, writes, starts>>

\* (mutant) A call that was stopped ends as if it had seen everything.
JoinUnasked(r) ==
    /\ run[r].stage = "join" /\ ~run[r].walking
    /\ run' = [run EXCEPT ![r].stage = "ok"]
    /\ UNCHANGED <<source, mirror, temps, counters, lost>>

\* The walk is joined, and the token is looked at once more.
Join(r) ==
    /\ run[r].stage = "join" /\ ~run[r].walking
    /\ run' = [run EXCEPT ![r] = IF @.cancel THEN [Idle EXCEPT !.stage = "cancelled"]
                                 ELSE [@ EXCEPT !.stage = "ok"]]
    /\ UNCHANGED <<source, mirror, temps, counters, lost>>

(***************************************************************************)
(* The rest of the world                                                   *)
(***************************************************************************)
\* The token fires: a Stop, a time limit, a shutdown.
Cancel(r) ==
    /\ Working(r) /\ ~run[r].cancel /\ Trouble
    /\ run' = [run EXCEPT ![r].cancel = TRUE]
    /\ UNCHANGED <<source, mirror, temps, play, writes, starts, lost>>

\* The user has touched f; when `swapped`, whoever is reading keeps what it opened.
Touched(f, swapped) ==
    run' = [r \in Runs |->
        [run[r] EXCEPT !.steady = @ \ {f},
            !.live = @ /\ ~(swapped /\ run[r].item.file = f),
            !.fd = IF run[r].live /\ swapped /\ run[r].item.file = f
                   THEN source[f].data ELSE @]]

Write(f, swapped, file) ==
    /\ writes < play.writes /\ writes' = writes + 1
    /\ source' = [source EXCEPT ![f] = file]
    /\ Touched(f, swapped)
    /\ UNCHANGED <<mirror, temps, play, starts, troubles, lost>>

Written(n) == [i \in 1..n |-> writes + 1]

\* The file grows, at once or later.
Grow(f) ==
    /\ source[f].there /\ Len(source[f].data) < MaxChunks
    /\ \E at \in {source[f].at, source[f].at + 1} :
          Write(f, FALSE, [there |-> TRUE, data |-> Append(source[f].data, writes + 1), at |-> at])

\* It is written anew in place, or another file takes its name.
Rewrite(f) ==
    \E n \in 0..MaxChunks, swapped \in BOOLEAN :
        /\ source[f].there \/ swapped
        /\ Write(f, swapped, [there |-> TRUE, data |-> Written(n), at |-> source[f].at + 1])

Remove(f) == source[f].there /\ Write(f, TRUE, [source[f] EXCEPT !.there = FALSE])

\* The daemon dies; the files stay as they are.
Crash ==
    /\ Trouble
    /\ lost' = temps
    /\ run' = [r \in Runs |-> Idle]
    /\ UNCHANGED <<source, mirror, temps, play, writes, starts>>

Copy(r) == Receive(r) \/ OpenCopy(r) \/ ReadChunk(r) \/ Rename(r) \/ Join(r)

Next ==
    \/ \E r \in Runs : Start(r) \/ Scan(r) \/ Copy(r) \/ Cancel(r)
    \/ \E f \in play.edited : Grow(f) \/ Rewrite(f) \/ Remove(f)
    \/ Crash

Spec == Init /\ [][Next]_vars

\* Reads and writes return: both threads go on.
FairSpec == Spec /\ \A r \in Runs : WF_vars(Scan(r)) /\ WF_vars(Copy(r))

(***************************************************************************)
(* Properties                                                              *)
(***************************************************************************)
\* A copy that looks up to date has the content of its source, whatever was
\* written while it was made, stopped, left behind or killed (the temporary
\* file and the walk's modification time in copy_file_blocking are for this).
UpToDateIsSame ==
    \A f \in Files :
        source[f].there /\ UpToDate(f, Len(source[f].data), source[f].at)
            => mirror[f].data = source[f].data

\* A call that worked alone and ended well has an exact copy of every file the
\* user left alone meanwhile, or a warning for it (of which the first hundred
\* name the file).
EndedIsHonest ==
    \A r \in Runs : run[r].stage = "ok" /\ run[r].alone =>
        \A f \in run[r].steady \ run[r].warned :
            mirror[f].there /\ mirror[f].data = source[f].data

\* A temporary file belongs to a copy in progress, unless the daemon died over
\* it or could not remove it: no Stop and no failure forgets one.
TempsAreSwept ==
    \A t \in temps :
        \/ t \in lost
        \/ \E r \in Runs : run[r].stage \in {"read", "rename"} /\ t = Temp(r)

\* A call ends: neither thread waits for the other for ever, though the walk
\* may stand at a full channel when the copy stops listening.
RunEnds == \A r \in Runs : Working(r) ~> ~Working(r)

=============================================================================
