--------------------------- MODULE WatcherProofs ----------------------------
(***************************************************************************)
(* What is proved of a job that runs when its files change, for every      *)
(* debounce, patience and minimum interval.                                *)
(*                                                                         *)
(* The invariant is about the timer: while the task sleeps, what is left   *)
(* of its sleep is what next_wake would answer now, so the two functions   *)
(* of the debouncer that were written apart agree at every instant.        *)
(***************************************************************************)
EXTENDS Watcher, TLAPS

\* What is left to sleep is what the debouncer would say.
SleepIsExact == loop = "wait" => wake = NextWake

\* A change waits for a quiet tree, the patience, or the minimum interval.
Punctual ==
    Pending =>
      \/ (sinceEvent <= Debounce /\ sinceBurst <= Patience)
      \/ (sinceFire # None /\ sinceFire <= MinInterval)

IInv == TypeOK /\ SleepIsExact /\ Punctual

----------------------------------------------------------------------------
(* Ages.                                                                   *)

LEMMA Bounds ==
    /\ Debounce \in Nat /\ MinInterval \in Nat /\ Patience \in Nat
    /\ Oldest \in Nat /\ Patience < Oldest /\ MinInterval < Oldest
    /\ Debounce < Oldest
    /\ None \notin Nat
<1>1. Debounce \in Nat /\ Multiplier \in Nat /\ MinInterval \in Nat /\ None \notin Nat
  BY DebounceAssumption, NoneAssumption
<1>2. Patience \in Nat /\ Debounce <= Patience
  <2>1. PICK m \in Nat : Multiplier = m + 1
    <3>1. Multiplier - 1 \in Nat /\ Multiplier = (Multiplier - 1) + 1
      BY DebounceAssumption
    <3> QED
      BY <3>1
  <2>2. Debounce * m \in Nat
    BY <1>1
  <2>3. Debounce * Multiplier = Debounce * m + Debounce
    BY <1>1, <2>1
  <2> QED
    BY <1>1, <2>2, <2>3 DEF Patience
<1> QED
  BY <1>1, <1>2 DEF Oldest

\* A second makes an age one older, until it makes no difference.
LEMMA OlderAge ==
    ASSUME NEW a \in Age
    PROVE  /\ Older(a) \in Age
           /\ Older(a) = None <=> a = None
           /\ a # None => /\ a \in Nat /\ Older(a) \in Nat /\ Older(a) <= a + 1
                          /\ Older(a) # a + 1 => Older(a) = Oldest /\ a = Oldest
BY Bounds DEF Older, Age

LEMMA AgeNumber ==
    ASSUME NEW a \in Age
    PROVE  a # None <=> a \in Nat
BY Bounds DEF Age

\* The sleep is a number of seconds when there is something to wait for, and
\* it is over exactly when poll fires.
LEMMA WakeOfTypes ==
    ASSUME TypeOK
    PROVE  /\ NextWake \in 0..Oldest \cup {None}
           /\ NextWake = None <=> ~Pending
           /\ NextWake = 0 <=> PollFires
<1>1. /\ sinceEvent # None <=> sinceEvent \in Nat
      /\ sinceBurst # None <=> sinceBurst \in Nat
      /\ sinceFire # None <=> sinceFire \in Nat
      /\ sinceEvent = None <=> sinceBurst = None
  BY AgeNumber DEF TypeOK
<1>2. CASE ~Pending
  BY <1>2, Bounds DEF NextWake, PollFires
<1>3. CASE Pending
  <2> DEFINE quiet == Smaller(Debounce - sinceEvent, Patience - sinceBurst)
             rest == IF TooSoon THEN MinInterval - sinceFire ELSE 0
  <2>1. /\ quiet \in Int /\ quiet <= Patience
        /\ quiet <= 0 <=> Quiet
    BY <1>1, <1>3, Bounds DEF Smaller, Quiet, Pending
  <2>2. /\ rest \in Nat /\ rest <= MinInterval
        /\ rest = 0 <=> ~TooSoon
    BY <1>1, Bounds DEF TooSoon
  <2>3. NextWake = Larger(0, Larger(quiet, rest))
    BY <1>3 DEF NextWake
  <2> HIDE DEF quiet, rest
  <2>4. /\ NextWake \in 0..Oldest
        /\ NextWake = 0 <=> quiet <= 0 /\ rest = 0
    BY <2>1, <2>2, <2>3, Bounds DEF Larger
  <2> QED
    BY <1>3, <2>1, <2>2, <2>4, Bounds DEF PollFires
<1> QED
  BY <1>2, <1>3

\* A second of sleep takes one second off what is left of it.
LEMMA TickShortens ==
    ASSUME TypeOK, NextWake # 0,
           sinceBurst' = Older(sinceBurst), sinceEvent' = Older(sinceEvent),
           sinceFire' = Older(sinceFire)
    PROVE  NextWake' = IF NextWake = None THEN None ELSE NextWake - 1
<1> USE Bounds
<1>1. /\ sinceEvent # None <=> sinceEvent \in Nat
      /\ sinceBurst # None <=> sinceBurst \in Nat
      /\ sinceFire # None <=> sinceFire \in Nat
      /\ sinceEvent = None <=> sinceBurst = None
  BY AgeNumber DEF TypeOK
<1>2. /\ Pending' <=> Pending
      /\ sinceFire' # None <=> sinceFire # None
  BY OlderAge DEF TypeOK, Pending
<1>3. CASE ~Pending
  BY <1>2, <1>3 DEF NextWake
<1>4. CASE Pending
  <2>1. sinceEvent \in Nat /\ sinceBurst \in Nat
    BY <1>1, <1>4 DEF Pending
  <2> DEFINE quiet == Smaller(Debounce - sinceEvent, Patience - sinceBurst)
             rest == IF TooSoon THEN MinInterval - sinceFire ELSE 0
  <2>2. quiet \in Int /\ quiet' \in Int
    BY <2>1, OlderAge, <1>1 DEF TypeOK, Smaller
  <2>3. quiet' = quiet - 1 \/ (quiet <= 0 /\ quiet' <= 0)
    <3>1. /\ sinceEvent' \in Nat /\ sinceBurst' \in Nat
          /\ sinceEvent' = sinceEvent + 1 \/ (sinceEvent' = Oldest /\ sinceEvent = Oldest)
          /\ sinceBurst' = sinceBurst + 1 \/ (sinceBurst' = Oldest /\ sinceBurst = Oldest)
      BY <2>1, <1>1, OlderAge DEF TypeOK
    <3>2. CASE sinceEvent' = sinceEvent + 1 /\ sinceBurst' = sinceBurst + 1
      BY <2>1, <3>1, <3>2 DEF Smaller
    <3>3. CASE sinceBurst = Oldest /\ sinceBurst' = Oldest
      BY <2>1, <3>1, <3>3 DEF Smaller
    <3>4. CASE sinceEvent = Oldest /\ sinceEvent' = Oldest
      BY <2>1, <3>1, <3>4 DEF Smaller
    <3> QED
      BY <3>1, <3>2, <3>3, <3>4
  <2>4. rest \in Nat /\ rest' = IF rest = 0 THEN 0 ELSE rest - 1
    BY <1>1, <1>2, OlderAge DEF TypeOK, TooSoon
  <2>5. NextWake = Larger(0, Larger(quiet, rest)) /\ NextWake' = Larger(0, Larger(quiet', rest'))
    BY <1>2, <1>4 DEF NextWake
  <2> HIDE DEF quiet, rest
  <2>6. NextWake \in Nat /\ NextWake # 0
    BY <2>2, <2>4, <2>5 DEF Larger
  <2>7. NextWake' = NextWake - 1
    BY <2>2, <2>3, <2>4, <2>5, <2>6 DEF Larger
  <2> QED
    BY <2>6, <2>7
<1> QED
  BY <1>3, <1>4

----------------------------------------------------------------------------
(* Steps.                                                                  *)

LEMMA InitHolds == Init => IInv
<1> SUFFICES ASSUME Init PROVE IInv
  OBVIOUS
<1>1. 0 \in 0..MaxRequests /\ None \in Age
  BY BoundAssumption DEF Age
<1>2. TypeOK
  BY <1>1 DEF Init, TypeOK
<1> QED
  BY <1>2 DEF Init, IInv, SleepIsExact, Punctual, Pending

LEMMA TypeStep == TypeOK /\ [Next]_vars => TypeOK'
<1> SUFFICES ASSUME TypeOK, [Next]_vars PROVE TypeOK'
  OBVIOUS
<1> USE DEF TypeOK, debouncer, task, scheduler
<1>0. /\ 0 \in Age /\ None \in Age /\ None # 0 /\ Oldest \in Nat
      /\ MaxRequests \in Nat \ {0}
  BY Bounds, BoundAssumption DEF Age
<1>1. ASSUME NEW held, NEW fate \in {"ignored", "refused", "replaced"}
      PROVE  Fate(held, fate) \in {"read", "held", "ignored", "refused", "replaced"}
  BY DEF Fate
<1>2. CASE Change
  BY <1>2 DEF Change
<1>3. CASE Tick
  <2>1. /\ sinceBurst' \in Age /\ sinceEvent' \in Age /\ sinceFire' \in Age
        /\ (sinceBurst' = None) = (sinceEvent' = None)
    BY <1>3, OlderAge DEF Tick
  <2>2. wake' \in 0..Oldest \cup {None}
    BY <1>3, <1>0 DEF Tick
  <2> QED
    BY <1>3, <2>1, <2>2 DEF Tick
<1>4. CASE Fire
  BY <1>0, <1>4 DEF Fire
<1>5. CASE Wait
  BY <1>5, WakeOfTypes DEF Wait
<1>6. CASE TakeSignal
  BY <1>0, <1>6 DEF TakeSignal, OnEvent
<1>7. CASE WakeUp
  BY <1>7 DEF WakeUp
<1>8. CASE Rebuild
  BY <1>0, <1>1, <1>8 DEF Rebuild
<1>9. CASE TakeRequest
  BY <1>0, <1>1, <1>9 DEF TakeRequest
<1>10. CASE Ask \/ StartRun \/ EndRun
  BY <1>10 DEF Ask, StartRun, EndRun
<1>11. CASE DropRun
  BY <1>1, <1>11 DEF DropRun
<1>12. CASE UNCHANGED vars
  BY <1>12 DEF vars
<1> QED
  BY <1>2, <1>3, <1>4, <1>5, <1>6, <1>7, <1>8, <1>9, <1>10, <1>11, <1>12
     DEF Next, TaskStep

\* Nothing the timer is computed from has changed.
LEMMA TimerKept ==
    ASSUME IInv, UNCHANGED debouncer, loop' = "wait" => loop = "wait" /\ wake' = wake
    PROVE  SleepIsExact' /\ Punctual'
BY DEF IInv, SleepIsExact, Punctual, debouncer, NextWake, Pending, TooSoon

LEMMA TimerStep == IInv /\ [Next]_vars => SleepIsExact' /\ Punctual'
<1> SUFFICES ASSUME IInv, [Next]_vars PROVE SleepIsExact' /\ Punctual'
  OBVIOUS
<1>1. TypeOK /\ SleepIsExact /\ Punctual
  BY DEF IInv
<1>2. CASE Change
  BY <1>2, TimerKept DEF Change
<1>3. CASE Tick
  <2>1. /\ loop = "wait" /\ loop' = loop /\ wake = NextWake /\ wake # 0
        /\ sinceBurst' = Older(sinceBurst) /\ sinceEvent' = Older(sinceEvent)
        /\ sinceFire' = Older(sinceFire)
        /\ wake' = IF wake = None THEN None ELSE wake - 1
    BY <1>1, <1>3 DEF Tick, SleepIsExact
  <2>2. SleepIsExact'
    BY <1>1, <2>1, TickShortens DEF SleepIsExact
  <2>3. Punctual'
    <3> SUFFICES ASSUME Pending'
                 PROVE  \/ (sinceEvent' <= Debounce /\ sinceBurst' <= Patience)
                        \/ (sinceFire' # None /\ sinceFire' <= MinInterval)
      BY DEF Punctual
    <3>1. Pending /\ ~PollFires
      BY <1>1, <2>1, OlderAge, WakeOfTypes DEF Pending, TypeOK
    <3>2. CASE TooSoon
      BY <1>1, <2>1, <3>2, OlderAge, Bounds DEF TooSoon, TypeOK
    <3>3. CASE ~Quiet
      BY <1>1, <2>1, <3>1, <3>3, OlderAge, Bounds DEF Quiet, Pending, TypeOK
    <3> QED
      BY <3>1, <3>2, <3>3 DEF PollFires
  <2> QED
    BY <2>2, <2>3
<1>4. CASE Fire
  BY <1>4 DEF Fire, task, SleepIsExact, Punctual, Pending
<1>5. CASE Wait
  BY <1>1, <1>5
     DEF Wait, SleepIsExact, Punctual, debouncer, NextWake, Pending, TooSoon
<1>6. CASE TakeSignal
  <2>1. loop' = "poll" /\ sinceFire' = sinceFire /\ sinceEvent' = 0
        /\ sinceBurst' = IF sinceBurst = None THEN 0 ELSE sinceBurst
    BY <1>6 DEF TakeSignal, OnEvent
  <2>2. Punctual'
    BY <1>1, <2>1, Bounds DEF Punctual, Pending, TypeOK
  <2> QED
    BY <2>1, <2>2 DEF SleepIsExact
<1>7. CASE WakeUp
  BY <1>7, TimerKept DEF WakeUp
<1>8. CASE Rebuild
  BY <1>8 DEF Rebuild, SleepIsExact, Punctual, Pending
<1>9. CASE TakeRequest \/ Ask \/ StartRun \/ DropRun \/ EndRun
  BY <1>9, TimerKept DEF TakeRequest, Ask, StartRun, DropRun, EndRun, task
<1>10. CASE UNCHANGED vars
  BY <1>10, TimerKept DEF vars, task
<1> QED
  BY <1>2, <1>3, <1>4, <1>5, <1>6, <1>7, <1>8, <1>9, <1>10 DEF Next, TaskStep

LEMMA InvariantHolds == Spec => []IInv
<1>1. IInv /\ [Next]_vars => IInv'
  BY TypeStep, TimerStep DEF IInv
<1> QED
  BY InitHolds, <1>1, PTL DEF Spec

----------------------------------------------------------------------------
(* Theorems.                                                               *)

\* ChangeDebouncer::poll and next_wake agree whatever the debounce, the
\* patience and the minimum interval: the task wakes exactly when poll says
\* yes, and only the minimum interval keeps a change past the patience.
THEOREM DebouncerIsPunctual == Spec => []FiresOnTime
<1>1. IInv => FiresOnTime
  <2> SUFFICES ASSUME IInv PROVE FiresOnTime
    OBVIOUS
  <2>1. loop = "wait" => (wake = 0 <=> PollFires)
    BY WakeOfTypes DEF IInv, SleepIsExact
  <2> QED
    BY <2>1 DEF IInv, Punctual, FiresOnTime
<1> QED
  BY <1>1, InvariantHolds, PTL

\* From the report of a change to the run that reads it, the debouncer, the
\* scheduler's mailbox or its queue holds it, unless its request was ignored
\* or refused, or its watcher replaced.
THEOREM ChangesAreHeld == Spec => []ChangeIsHeld
<1>1. Init => ChangeIsHeld
  BY DEF Init, ChangeIsHeld
<1>2. TypeOK /\ ChangeIsHeld /\ [Next]_vars => ChangeIsHeld'
  <2> SUFFICES ASSUME TypeOK, ChangeIsHeld, Next \/ UNCHANGED vars, change' = "held"
               PROVE  Carried'
    BY DEF ChangeIsHeld
  <2> USE DEF debouncer, task, scheduler, Carried, Pending, ChangeIsHeld
  <2>1. requests \in Nat /\ run \in {"idle", "queued", "running"} /\ None # 0
    BY Bounds, BoundAssumption DEF TypeOK
  <2>2. CASE Change
    BY <2>2 DEF Change
  <2>3. CASE Tick
    BY <2>3, OlderAge DEF Tick, TypeOK
  <2>4. CASE Fire
    BY <2>1, <2>4 DEF Fire
  <2>5. CASE Wait \/ WakeUp
    BY <2>5 DEF Wait, WakeUp
  <2>6. CASE TakeSignal
    BY <2>1, <2>6 DEF TakeSignal, OnEvent
  <2>7. CASE Rebuild
    BY <2>7 DEF Rebuild, Fate
  <2>8. CASE TakeRequest
    BY <2>1, <2>8 DEF TakeRequest, Fate
  <2>9. CASE Ask \/ StartRun \/ EndRun
    BY <2>9 DEF Ask, StartRun, EndRun
  <2>10. CASE DropRun
    BY <2>10 DEF DropRun, Fate
  <2>11. CASE UNCHANGED vars
    BY <2>11 DEF vars
  <2> QED
    BY <2>2, <2>3, <2>4, <2>5, <2>6, <2>7, <2>8, <2>9, <2>10, <2>11 DEF Next, TaskStep
<1>3. IInv => TypeOK
  BY DEF IInv
<1> QED
  BY <1>1, <1>2, <1>3, InvariantHolds, PTL DEF Spec

----------------------------------------------------------------------------
(***************************************************************************)
(* What the end of a burst rests on.  That it ends (ChurnIsSaved) is a     *)
(* matter of fairness; these two are not: whatever changes next, a pending *)
(* change never has longer to wait than it had.                            *)
(***************************************************************************)
\* The longest a pending change can still be kept waiting.
Rest == IF TooSoon THEN MinInterval - sinceFire ELSE 0
Delay == Larger(Larger(0, Patience - sinceBurst), Rest)

\* The task sleeps no longer than that, and poll says yes when it is over.
SleepIsBounded ==
    Pending => /\ loop = "wait" => wake \in 0..Delay
               /\ Delay = 0 => PollFires

\* No change adds to the delay, and each second takes from it.
DelayRunsOut ==
    [][Pending /\ Pending' =>
         /\ Delay' <= Delay
         /\ Tick /\ Delay # 0 => Delay' < Delay]_vars

LEMMA DelayTyped ==
    ASSUME TypeOK, Pending
    PROVE  /\ Rest \in Nat /\ Delay \in Nat
           /\ sinceBurst \in Nat /\ sinceEvent \in Nat
           /\ sinceFire # None => sinceFire \in Nat
<1>1. /\ sinceBurst \in Nat /\ sinceEvent \in Nat
      /\ sinceFire # None => sinceFire \in Nat
  BY AgeNumber DEF TypeOK, Pending
<1>2. Rest \in Nat
  BY <1>1, Bounds DEF Rest, TooSoon
<1> QED
  BY <1>1, <1>2, Bounds DEF Delay, Larger

\* While a change is pending the task sleeps with a timer, for no longer than
\* Delay, and with none left poll says yes.
THEOREM SleepIsAlwaysBounded == Spec => []SleepIsBounded
<1>1. IInv => SleepIsBounded
  <2> SUFFICES ASSUME IInv, Pending
               PROVE  /\ loop = "wait" => wake \in 0..Delay
                      /\ Delay = 0 => PollFires
    BY DEF SleepIsBounded
  <2>1. /\ Rest \in Nat /\ Delay \in Nat
        /\ sinceBurst \in Nat /\ sinceEvent \in Nat
        /\ sinceFire # None => sinceFire \in Nat
    BY DelayTyped DEF IInv
  <2>2. NextWake \in 0..Delay
    <3> DEFINE quiet == Smaller(Debounce - sinceEvent, Patience - sinceBurst)
    <3>1. NextWake = Larger(0, Larger(quiet, Rest))
      BY DEF NextWake, Rest
    <3>2. quiet \in Int /\ quiet <= Patience - sinceBurst /\ Patience - sinceBurst \in Int
      BY <2>1, Bounds DEF Smaller
    <3> HIDE DEF quiet
    <3> QED
      BY <2>1, <3>1, <3>2 DEF Delay, Larger
  <2>3. loop = "wait" => wake = NextWake
    BY DEF IInv, SleepIsExact
  <2>4. Delay = 0 => PollFires
    <3>1. NextWake = 0 <=> PollFires
      BY WakeOfTypes DEF IInv
    <3> QED
      BY <2>2, <3>1
  <2> QED
    BY <2>2, <2>3, <2>4
<1> QED
  BY <1>1, InvariantHolds, PTL

\* New events keep the burst they belong to: they postpone a backup by quiet,
\* never beyond what it could have waited anyway, and each second of the clock
\* shortens that (watcher.rs ChangeDebouncer::on_event, poll).
THEOREM DelayAlwaysRunsOut == Spec => DelayRunsOut
<1>1. ASSUME TypeOK, TypeOK', [Next]_vars, Pending, Pending'
      PROVE  /\ Delay' <= Delay
             /\ Tick /\ Delay # 0 => Delay' < Delay
  <2>1. /\ Rest \in Nat /\ Delay \in Nat
        /\ sinceBurst \in Nat /\ sinceEvent \in Nat
        /\ sinceFire # None => sinceFire \in Nat
    BY <1>1, DelayTyped
  <2>2. CASE sinceBurst' = sinceBurst /\ sinceFire' = sinceFire /\ ~Tick
    BY <2>1, <2>2 DEF Delay, Rest, TooSoon
  <2>3. CASE Tick
    <3> USE Bounds
    <3>1. /\ sinceBurst' \in Nat
          /\ sinceBurst' = sinceBurst + 1 \/ (sinceBurst' = sinceBurst /\ sinceBurst = Oldest)
      BY <1>1, <2>1, <2>3, OlderAge DEF Tick, TypeOK
    <3>2. Rest' = IF Rest = 0 THEN 0 ELSE Rest - 1
      <4>1. CASE sinceFire = None
        BY <1>1, <2>3, <4>1, OlderAge DEF Tick, TypeOK, Rest, TooSoon
      <4>2. CASE sinceFire # None
        <5>1. /\ sinceFire' \in Nat /\ sinceFire' # None
              /\ sinceFire' = sinceFire + 1 \/ (sinceFire' = sinceFire /\ sinceFire = Oldest)
          BY <1>1, <2>1, <2>3, <4>2, OlderAge DEF Tick, TypeOK
        <5> QED
          BY <2>1, <4>2, <5>1 DEF Rest, TooSoon
      <4> QED
        BY <4>1, <4>2
    <3> DEFINE left == Larger(0, Patience - sinceBurst)
    <3>3. left \in Nat /\ left' = IF left = 0 THEN 0 ELSE left - 1
      <4>1. left' = Larger(0, Patience - sinceBurst')
        OBVIOUS
      <4>2. CASE sinceBurst' = sinceBurst + 1
        BY <2>1, <4>1, <4>2 DEF Larger
      <4>3. CASE sinceBurst' = sinceBurst /\ sinceBurst = Oldest
        BY <2>1, <4>1, <4>3 DEF Larger
      <4> QED
        BY <3>1, <4>2, <4>3
    <3>4. Delay = Larger(left, Rest) /\ Delay' = Larger(left', Rest')
      BY DEF Delay
    <3> HIDE DEF left
    <3> QED
      BY <2>1, <3>2, <3>3, <3>4 DEF Larger
  <2>4. CASE Fire \/ Rebuild
    BY <1>1, <2>4 DEF Fire, Rebuild, Pending
  <2>5. CASE TakeSignal
    <3>1. sinceBurst' = sinceBurst /\ sinceFire' = sinceFire
      BY <1>1, <2>5 DEF TakeSignal, OnEvent, Pending, TypeOK
    <3>2. ~Tick
      BY <2>5 DEF TakeSignal, Tick
    <3> QED
      BY <2>2, <3>1, <3>2
  <2>6. CASE \/ Change \/ Wait \/ WakeUp \/ TakeRequest \/ Ask \/ StartRun \/ DropRun
             \/ EndRun \/ UNCHANGED vars
    <3>1. sinceBurst' = sinceBurst /\ sinceFire' = sinceFire
      BY <2>6 DEF Change, Wait, WakeUp, TakeRequest, Ask, StartRun, DropRun, EndRun, vars,
                  debouncer
    <3> QED
      BY <2>2, <2>3, <3>1
  <2> QED
    BY <1>1, <2>3, <2>4, <2>5, <2>6 DEF Next, TaskStep
<1>2. TypeOK /\ TypeOK' /\ [Next]_vars =>
        (Pending /\ Pending' => /\ Delay' <= Delay
                                /\ Tick /\ Delay # 0 => Delay' < Delay)
  BY <1>1
<1>3. IInv => TypeOK
  BY DEF IInv
<1> QED
  BY <1>2, <1>3, InvariantHolds, PTL DEF Spec, DelayRunsOut
=============================================================================
