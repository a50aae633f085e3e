-------------------------- MODULE DaemonRunsProofs --------------------------
(***************************************************************************)
(* What is proved of the daemon's knowledge of the engine's runs, for any  *)
(* number of jobs, runs and clients and any capacity of the channel.       *)
(*                                                                         *)
(* The invariant orders the channel: an event that shows a run as live is  *)
(* of a run that still is, or another event that retires it comes later.   *)
(* Overwriting takes the oldest event, so it never breaks that order.      *)
(***************************************************************************)
EXTENDS DaemonRuns, SequenceTheorems, TLAPS

Busy == {"queued"} \cup InFlight
Unended == {"queued", "dropped"} \cup InFlight
Begins == {"queued", "started"}
Ends == {"finished", "locked", "refused"}
Kinds == Begins \cup Ends

\* A run was drawn for a job; what is shown as live was drawn.
Drawn ==
    /\ \A r \in Run : stage[r] # "new" => jobOf[r] \in Job
    /\ \A r \in active : stage[r] # "new"

\* A job has one run that waits or runs.
OneAtATime ==
    \A r, q \in RunsAt(Busy) : jobOf[r] = jobOf[q] => r = q

\* What the events in the channel say is so, or a later one takes it back.
Told(i) ==
    /\ channel[i].kind \in Begins =>
         \/ stage[channel[i].run] \in Unended
         \/ \E k \in DOMAIN channel :
              i < k /\ channel[k].run = channel[i].run /\ channel[k].kind \in Ends
    /\ channel[i].kind = "finished" =>
         stage[channel[i].run] = "over" /\ channel[i].run \in history
    /\ channel[i].kind \in {"locked", "refused"} => stage[channel[i].run] = "skipped"
Heard == \A i \in DOMAIN channel : Told(i)

\* Nothing was announced before somebody listens.
Unheard == pump = Off => channel = <<>>

\* A job that is owed a run has none that waits or runs.
OwedIsIdle ==
    \A r \in owed : stage[r] \in {"skipped", "past"} /\ jobOf[r] \notin BusyJobs

\* Memory has what the disk and each copy on its way there have, and each of
\* them has what the pump is done with: an older copy may be written last.
Saved ==
    /\ durable \subseteq disk /\ disk \subseteq history
    /\ pump.at = "save" => pump.run \in history
    /\ pump.at = "write" => /\ durable \cup {pump.run} \subseteq pump.copy
                            /\ pump.copy \subseteq history
    /\ main.at = "save" => durable \subseteq main.copy
    /\ main.at \in {"save", "saved"} => main.copy \subseteq history
    /\ main.at = "saved" /\ main.kept =>
         /\ main.copy \subseteq disk
         /\ pump.at = "write" => main.copy \subseteq pump.copy

\* What an earlier life of the daemon recorded is in every copy: a record of
\* one of its runs was made before it ended or never is.
PastIsSaved ==
    /\ pump.at = "record" => stage[pump.run] = "skipped"
    /\ \A r \in RunsAt({"past"}) \cap history :
         /\ r \in disk
         /\ pump.at = "write" => r \in pump.copy
         /\ main.at = "save" => r \in main.copy

IInv ==
    /\ TypeOK /\ Drawn /\ OneAtATime /\ Heard /\ Unheard /\ OwedIsIdle /\ Saved
    /\ PastIsSaved /\ RunningIsTracked /\ ActiveIsCurrent /\ SkippedIsRemembered

\* What SkippedIsRemembered says of one run.
Kept(q) ==
    \/ Remembered(q) \/ jobOf[q] \in cutOff
    \/ stage[q] = "past" /\ q \in disk

----------------------------------------------------------------------------
(* The channel.                                                            *)

LEMMA ChannelLen ==
    ASSUME TypeOK
    PROVE  /\ Len(channel) \in Nat /\ DOMAIN channel = 1..Len(channel)
           /\ \A i \in DOMAIN channel :
                channel[i] \in Event /\ channel[i].run \in Run /\ channel[i].kind \in Kinds
<1>1. channel \in Seq(Event)
  BY DEF TypeOK
<1>2. Len(channel) \in Nat /\ DOMAIN channel = 1..Len(channel)
  BY <1>1, LenProperties
<1>3. \A i \in DOMAIN channel : channel[i] \in Event
  BY <1>1, <1>2, ElementOfSeq
<1> QED
  BY <1>2, <1>3 DEF Event, Kinds, Begins, Ends

\* The channel with its last event new, and its first one dropped or not.
Sent(d, kind, r) ==
    /\ channel' \in Seq(Event) /\ Len(channel') = Len(channel) + 1 - d
    /\ \A i \in 1..(Len(channel) - d) : channel'[i] = channel[i + d]
    /\ channel'[Len(channel')] = [kind |-> kind, run |-> r]
    /\ d = 1 => Len(channel) > 0 /\ channel[1].run \in missed'

LEMMA Emission ==
    ASSUME TypeOK, NEW kind \in Kinds, NEW r \in Run, Emit(kind, r)
    PROVE  /\ channel' \in Seq(Event) /\ Len(channel') <= Capacity /\ lagging' \in BOOLEAN
           /\ missed \subseteq missed' /\ missed' \subseteq Run
           /\ \/ pump = Off /\ channel' = channel /\ r \in missed'
              \/ \E d \in {0, 1} : Sent(d, kind, r)
<1> DEFINE new == [kind |-> kind, run |-> r]
<1>1. /\ channel \in Seq(Event) /\ Len(channel) \in Nat /\ Len(channel) <= Capacity
      /\ new \in Event /\ Capacity \in Nat \ {0} /\ missed \subseteq Run /\ lagging \in BOOLEAN
  BY ChannelLen, CapacityAssumption DEF TypeOK, Event, Kinds, Begins, Ends
<1>4. CASE pump = Off
  BY <1>1, <1>4 DEF Emit
<1>2. CASE pump # Off /\ Len(channel) < Capacity
  <2>1. channel' = Append(channel, new) /\ UNCHANGED <<lagging, missed>>
    BY <1>2 DEF Emit
  <2>2. /\ channel' \in Seq(Event) /\ Len(channel') = Len(channel) + 1
        /\ \A i \in 1..Len(channel) : channel'[i] = channel[i]
        /\ channel'[Len(channel) + 1] = new
    BY <1>1, <2>1, AppendProperties
  <2>3. Sent(0, kind, r)
    BY <1>1, <2>2 DEF Sent
  <2> QED
    BY <1>1, <1>2, <2>1, <2>2, <2>3 DEF Sent
<1>3. CASE pump # Off /\ ~(Len(channel) < Capacity)
  <2>1. /\ channel' = Append(Tail(channel), new) /\ lagging' = TRUE
        /\ missed' = missed \cup {Head(channel).run}
    BY <1>3 DEF Emit
  <2>2. channel # <<>> /\ Len(channel) > 0
    BY <1>1, <1>3
  <2>3. /\ Tail(channel) \in Seq(Event) /\ Len(Tail(channel)) = Len(channel) - 1
        /\ \A i \in 1..Len(Tail(channel)) : Tail(channel)[i] = channel[i + 1]
        /\ Head(channel) = channel[1] /\ Head(channel) \in Event
    BY <1>1, <2>2, HeadTailProperties
  <2> DEFINE rest == Tail(channel)
  <2> HIDE DEF rest
  <2>4. /\ channel' \in Seq(Event) /\ Len(channel') = Len(rest) + 1
        /\ \A i \in 1..Len(rest) : channel'[i] = rest[i]
        /\ channel'[Len(rest) + 1] = new
    BY <1>1, <2>1, <2>3, AppendProperties DEF rest
  <2>5. Sent(1, kind, r)
    BY <1>1, <2>1, <2>2, <2>3, <2>4 DEF Sent, rest
  <2>6. Head(channel).run \in Run
    BY <2>3 DEF Event
  <2> QED
    BY <1>1, <1>3, <2>1, <2>3, <2>4, <2>5, <2>6 DEF rest
<1> QED
  BY <1>2, <1>3, <1>4

LEMMA Reception ==
    ASSUME TypeOK, NEW kind \in Kinds, NEW r \in Run, Receive(kind, r)
    PROVE  /\ Len(channel) > 0 /\ channel[1] = [kind |-> kind, run |-> r]
           /\ channel' \in Seq(Event) /\ Len(channel') = Len(channel) - 1
           /\ Len(channel') <= Capacity
           /\ \A i \in 1..Len(channel') : channel'[i] = channel[i + 1]
<1>1. channel \in Seq(Event) /\ Len(channel) \in Nat /\ Len(channel) <= Capacity
      /\ Capacity \in Nat
  BY ChannelLen, CapacityAssumption DEF TypeOK
<1>2. channel # <<>> /\ Head(channel) = [kind |-> kind, run |-> r] /\ channel' = Tail(channel)
  BY DEF Receive
<1>3. Len(channel) > 0 /\ Head(channel) = channel[1]
  BY <1>1, <1>2
<1>4. /\ Tail(channel) \in Seq(Event) /\ Len(Tail(channel)) = Len(channel) - 1
      /\ \A i \in 1..Len(Tail(channel)) : Tail(channel)[i] = channel[i + 1]
  BY <1>1, <1>2, HeadTailProperties
<1> QED
  BY <1>1, <1>2, <1>3, <1>4

\* The domain of the next channel, when it is one.
LEMMA NextDomain ==
    ASSUME channel' \in Seq(Event)
    PROVE  Len(channel') \in Nat /\ DOMAIN channel' = 1..Len(channel')
BY LenProperties

\* What was announced still is, or its run is known to be missed.
LEMMA EmitAnnounces ==
    ASSUME TypeOK, NEW kind \in Kinds, NEW r \in Run, Emit(kind, r),
           NEW kinds, NEW q
    PROVE  /\ kind \in kinds => Announced(kinds, r)' \/ r \in missed'
           /\ Announced(kinds, q) => Announced(kinds, q)' \/ q \in missed'
<1>0. CASE channel' = channel /\ r \in missed'
  BY <1>0 DEF Announced
<1> SUFFICES ASSUME \E d \in {0, 1} : Sent(d, kind, r)
             PROVE  /\ kind \in kinds => Announced(kinds, r)'
                    /\ Announced(kinds, q) => Announced(kinds, q)' \/ q \in missed'
  BY <1>0, Emission
<1>1. PICK d \in {0, 1} : Sent(d, kind, r)
  OBVIOUS
<1>2. /\ Len(channel) \in Nat /\ DOMAIN channel = 1..Len(channel)
      /\ Len(channel') \in Nat /\ DOMAIN channel' = 1..Len(channel')
  BY <1>1, ChannelLen, NextDomain DEF Sent
<1>3. ASSUME kind \in kinds PROVE Announced(kinds, r)'
  <2>1. Len(channel') \in DOMAIN channel'
    BY <1>1, <1>2 DEF Sent
  <2> QED
    BY <1>1, <1>3, <2>1 DEF Announced, Sent
<1>4. ASSUME Announced(kinds, q) PROVE Announced(kinds, q)' \/ q \in missed'
  <2>1. PICK i \in DOMAIN channel : channel[i].run = q /\ channel[i].kind \in kinds
    BY <1>4 DEF Announced
  <2>2. CASE i > d
    <3>1. i - d \in 1..(Len(channel) - d) /\ (i - d) + d = i
      BY <1>2, <2>1, <2>2
    <3>2. i - d \in DOMAIN channel' /\ channel'[i - d] = channel[i]
      BY <1>1, <1>2, <3>1 DEF Sent
    <3> QED
      BY <2>1, <3>2 DEF Announced
  <2>3. CASE i <= d
    BY <1>1, <1>2, <2>1, <2>3 DEF Sent
  <2> QED
    BY <1>2, <2>2, <2>3
<1> QED
  BY <1>3, <1>4

LEMMA ReceiveAnnounces ==
    ASSUME TypeOK, NEW kind \in Kinds, NEW r \in Run, Receive(kind, r),
           NEW kinds, NEW q, Announced(kinds, q)
    PROVE  Announced(kinds, q)' \/ (q = r /\ kind \in kinds)
<1>1. /\ Len(channel) \in Nat /\ DOMAIN channel = 1..Len(channel)
      /\ Len(channel') \in Nat /\ DOMAIN channel' = 1..Len(channel')
      /\ Len(channel) > 0 /\ channel[1] = [kind |-> kind, run |-> r]
      /\ Len(channel') = Len(channel) - 1
      /\ \A i \in 1..Len(channel') : channel'[i] = channel[i + 1]
  BY Reception, ChannelLen, NextDomain
<1>2. PICK i \in DOMAIN channel : channel[i].run = q /\ channel[i].kind \in kinds
  BY DEF Announced
<1>3. CASE i = 1
  BY <1>1, <1>2, <1>3
<1>4. CASE i # 1
  <2>1. i - 1 \in DOMAIN channel' /\ channel'[i - 1] = channel[(i - 1) + 1] /\ (i - 1) + 1 = i
    BY <1>1, <1>2, <1>4
  <2> QED
    BY <1>2, <2>1 DEF Announced
<1> QED
  BY <1>3, <1>4

\* What the channel says stays true when one run moves on and says so.
LEMMA EmitHeard ==
    ASSUME TypeOK, Heard, Unheard, NEW kind \in Kinds, NEW r \in Run, NEW s, Emit(kind, r),
           stage' = [stage EXCEPT ![r] = s], stage[r] \in {"new"} \cup Unended,
           history \subseteq history',
           kind \in Begins => s \in Unended,
           kind = "finished" => s = "over" /\ r \in history',
           kind \in {"locked", "refused"} => s = "skipped"
    PROVE  Heard'
<1>0. CASE pump = Off /\ channel' = channel
  BY <1>0 DEF Heard, Unheard
<1> SUFFICES ASSUME \E d \in {0, 1} : Sent(d, kind, r) PROVE Heard'
  BY <1>0, Emission
<1>1. PICK d \in {0, 1} : Sent(d, kind, r)
  OBVIOUS
<1>2. /\ Len(channel) \in Nat /\ DOMAIN channel = 1..Len(channel)
      /\ Len(channel') \in Nat /\ DOMAIN channel' = 1..Len(channel')
      /\ \A i \in DOMAIN channel : channel[i].run \in Run /\ channel[i].kind \in Kinds
  BY <1>1, ChannelLen, NextDomain DEF Sent
<1>3. stage'[r] = s /\ \A q \in Run \ {r} : stage'[q] = stage[q]
  BY DEF TypeOK
<1>4. "new" \notin Unended /\ "over" \notin Unended /\ "skipped" \notin Unended
  BY DEF Unended, InFlight
<1> SUFFICES ASSUME NEW i \in DOMAIN channel' PROVE Told(i)'
  BY DEF Heard
<1>5. CASE i = Len(channel')
  <2>1. channel'[i].kind = kind /\ channel'[i].run = r
    BY <1>1, <1>5 DEF Sent
  <2> QED
    BY <1>3, <2>1 DEF Told
<1>6. CASE i # Len(channel')
  <2>1. /\ i \in Nat /\ i + d \in DOMAIN channel /\ channel'[i] = channel[i + d]
    <3>1. i \in 1..(Len(channel) - d) /\ i + d \in 1..Len(channel)
      BY <1>1, <1>2, <1>6 DEF Sent
    <3> QED
      BY <1>1, <1>2, <3>1 DEF Sent
  <2> DEFINE e == channel[i + d]
  <2>2. Told(i + d) /\ e.run \in Run /\ e.kind \in Kinds
    BY <1>2, <2>1 DEF Heard
  <2>3. CASE e.run = r
    <3>1. e.kind \in Begins
      BY <1>4, <2>2, <2>3 DEF Told, Kinds, Ends
    <3>2. CASE kind \in Begins
      BY <1>3, <2>1, <2>3, <3>1, <3>2 DEF Told, Begins
    <3>3. CASE kind \in Ends
      <4>1. /\ Len(channel') \in DOMAIN channel' /\ i < Len(channel')
            /\ channel'[Len(channel')].run = r /\ channel'[Len(channel')].kind \in Ends
        BY <1>1, <1>2, <1>6, <3>3 DEF Sent
      <4> QED
        BY <2>1, <2>3, <3>1, <4>1 DEF Told, Begins
    <3> QED
      BY <3>2, <3>3 DEF Kinds
  <2>4. CASE e.run # r
    <3>1. stage'[e.run] = stage[e.run]
      BY <1>3, <2>2, <2>4
    <3>2. ASSUME e.kind \in Begins, stage[e.run] \notin Unended
          PROVE  \E k \in DOMAIN channel' :
                   i < k /\ channel'[k].run = e.run /\ channel'[k].kind \in Ends
      <4>1. PICK k \in DOMAIN channel :
              i + d < k /\ channel[k].run = e.run /\ channel[k].kind \in Ends
        BY <2>2, <3>2 DEF Told
      <4>2. k - d \in 1..(Len(channel) - d) /\ (k - d) + d = k /\ i < k - d
        <5>1. k \in 1..Len(channel) /\ i \in Nat /\ d \in {0, 1} /\ Len(channel) \in Nat /\ i + d < k
          BY <1>2, <2>1, <4>1
        <5>2. i >= 1
          BY <1>2
        <5> QED
          BY <5>1, <5>2
      <4>3. channel'[k - d] = channel[k] /\ k - d \in DOMAIN channel'
        <5>1. channel'[k - d] = channel[(k - d) + d]
          BY <1>1, <4>2 DEF Sent
        <5>2. k - d \in 1..Len(channel')
          BY <1>1, <1>2, <4>2 DEF Sent
        <5> QED
          BY <1>2, <4>2, <5>1, <5>2
      <4> QED
        BY <4>1, <4>2, <4>3
    <3> HIDE DEF e
    <3>3. channel'[i] = e /\ channel[i + d] = e
      BY <2>1 DEF e
    <3> QED
      BY <2>2, <3>1, <3>2, <3>3 DEF Told
  <2> QED
    BY <2>3, <2>4
<1> QED
  BY <1>5, <1>6

LEMMA ReceiveHeard ==
    ASSUME TypeOK, Heard, NEW kind \in Kinds, NEW r \in Run, Receive(kind, r),
           history' = history
    PROVE  Heard'
<1>1. /\ Len(channel) \in Nat /\ DOMAIN channel = 1..Len(channel)
      /\ Len(channel') \in Nat /\ DOMAIN channel' = 1..Len(channel')
      /\ Len(channel') = Len(channel) - 1 /\ stage' = stage
      /\ \A i \in 1..Len(channel') : channel'[i] = channel[i + 1]
  BY Reception, ChannelLen, NextDomain DEF Receive
<1> SUFFICES ASSUME NEW i \in DOMAIN channel' PROVE Told(i)'
  BY DEF Heard
<1> DEFINE e == channel[i + 1]
<1>2. i \in Nat /\ i + 1 \in DOMAIN channel /\ channel'[i] = e /\ Told(i + 1)
  BY <1>1 DEF Heard
<1>3. ASSUME e.kind \in Begins, stage[e.run] \notin Unended
      PROVE  \E k \in DOMAIN channel' :
               i < k /\ channel'[k].run = e.run /\ channel'[k].kind \in Ends
  <2>1. PICK k \in DOMAIN channel :
          i + 1 < k /\ channel[k].run = e.run /\ channel[k].kind \in Ends
    BY <1>2, <1>3 DEF Told
  <2>2. k - 1 \in DOMAIN channel' /\ (k - 1) + 1 = k /\ i < k - 1
    BY <1>1, <1>2, <2>1
  <2>3. channel'[k - 1] = channel[k]
    BY <1>1, <2>2
  <2> QED
    BY <2>1, <2>2, <2>3
<1> HIDE DEF e
<1>4. channel[i + 1] = e
  BY DEF e
<1> QED
  BY <1>1, <1>2, <1>3, <1>4 DEF Told

----------------------------------------------------------------------------
(* Types.                                                                  *)

LEMMA EventTypes ==
    /\ \A kind \in Kinds, r \in Run : [kind |-> kind, run |-> r] \in Event
    /\ {"queued", "started", "finished", "locked", "refused"} \subseteq Kinds
BY DEF Event, Kinds, Begins, Ends

\* An accepted run is a new one.
Accept(j, r) ==
    /\ j \notin BusyJobs /\ r \in Run /\ stage[r] = "new"
    /\ jobOf' = [jobOf EXCEPT ![r] = j]
    /\ stage' = [stage EXCEPT ![r] = "queued"]
    /\ Emit("queued", r)
    /\ owed' = {q \in owed : jobOf[q] # j} /\ cutOff' = cutOff \ {j}
    /\ stops' = stops

LEMMA EnqueueAccepts ==
    ASSUME NEW j, Enqueue(j)
    PROVE  \E r \in Run : Accept(j, r)
BY DEF Enqueue, Accept, RunsAt

EngineTypes ==
    /\ jobOf \in [Run -> Job \cup {NoJob}] /\ stage \in [Run -> Stage]
    /\ channel \in Seq(Event) /\ Len(channel) <= Capacity
    /\ lagging \in BOOLEAN /\ missed \subseteq Run /\ owed \subseteq Run
    /\ cutOff \subseteq Job

LEMMA AcceptTypes ==
    ASSUME TypeOK, NEW j \in Job, NEW r, Accept(j, r)
    PROVE  EngineTypes' /\ stops' = stops
<1>1. /\ Len(channel') <= Capacity /\ lagging' \in BOOLEAN /\ missed' \subseteq Run
      /\ channel' \in Seq(Event)
  BY Emission, EventTypes DEF Accept
<1>2. "queued" \in Stage
  BY DEF Stage
<1> QED
  BY <1>1, <1>2 DEF Accept, EngineTypes, TypeOK

LEMMA EmitTypes ==
    ASSUME TypeOK, NEW kind \in Kinds, NEW r \in Run, NEW s \in Stage, Emit(kind, r),
           jobOf' = jobOf, stage' = [stage EXCEPT ![r] = s], owed' \subseteq owed \cup {r},
           cutOff' = cutOff
    PROVE  EngineTypes'
<1>1. /\ Len(channel') <= Capacity /\ lagging' \in BOOLEAN /\ missed' \subseteq Run
      /\ channel' \in Seq(Event)
  BY Emission
<1> QED
  BY <1>1 DEF EngineTypes, TypeOK

\* Where the pump stands tells what it holds.
LEMMA PumpTypes ==
    ASSUME pump \in Pump
    PROVE  /\ pump.at \in {"record", "save", "write"} => pump.run \in Run
           /\ pump.at = "write" => pump.copy \subseteq Run
           /\ pump.at = "record" => [pump EXCEPT !.at = "save"] = [at |-> "save", run |-> pump.run]
BY DEF Pump, Idle, Off

LEMMA OpTypes ==
    ASSUME TypeOK, NEW c \in Client
    PROVE  op[c].at = "requeue" => op[c].jobs \subseteq Job
BY DEF TypeOK, Op, Free

LEMMA TypeStep == IInv /\ [Next]_vars => TypeOK'
<1> SUFFICES ASSUME IInv, [Next]_vars PROVE TypeOK'
  OBVIOUS
<1>0. TypeOK /\ Drawn /\ EngineTypes
  BY DEF IInv, TypeOK, EngineTypes
<1>1. ASSUME EngineTypes', stops' \subseteq Job, catchUp' \subseteq Job,
             active' \subseteq Run, history' \subseteq Run, disk' \subseteq Run,
             pump' \in Pump, gate' \in BOOLEAN, blocked' \subseteq Job,
             op' \in [Client -> Op], durable' \subseteq Run,
             up' \in BOOLEAN, main' \in Main
      PROVE  TypeOK'
  BY <1>1 DEF TypeOK, EngineTypes
<1>2. /\ stops \subseteq Job /\ catchUp \subseteq Job
      /\ active \subseteq Run /\ history \subseteq Run /\ disk \subseteq Run
      /\ pump \in Pump /\ gate \in BOOLEAN /\ blocked \subseteq Job
      /\ op \in [Client -> Op] /\ durable \subseteq Run
      /\ up \in BOOLEAN /\ main \in Main
  BY <1>0 DEF TypeOK
<1>3. /\ Idle \in Pump /\ Off \in Pump /\ Free \in Op /\ [at |-> "opened"] \in Op
      /\ \A jobs \in SUBSET Job : [at |-> "requeue", jobs |-> jobs] \in Op
      /\ \A r \in Run : [at |-> "save", run |-> r] \in Pump /\ [at |-> "record", run |-> r] \in Pump
      /\ \A r \in Run, copy \in SUBSET Run :
           [at |-> "write", run |-> r, copy |-> copy] \in Pump
      /\ Serving \in Main /\ [at |-> "wait"] \in Main /\ [at |-> "close"] \in Main
      /\ \A copy \in SUBSET Run :
           /\ [at |-> "save", copy |-> copy] \in Main
           /\ \A b \in BOOLEAN :
                [at |-> "saved", copy |-> copy, kept |-> b] \in Main
  BY DEF Pump, Op, Main, Idle, Off, Free, Serving
<1>4. ASSUME UNCHANGED <<jobOf, stage, channel, lagging, missed, owed, cutOff>> PROVE EngineTypes'
  BY <1>0, <1>4 DEF EngineTypes
<1> USE DEF engine, daemon, exit, vault, ghosts
<1>5. CASE Due
  <2>1. PICK j \in Job : Enqueue(j)
    BY <1>5 DEF Due
  <2> QED
    BY <1>0, <1>1, <1>2, <1>5, <2>1, EnqueueAccepts, AcceptTypes DEF Due
<1>6. ASSUME NEW j \in Job, CatchUp(j) PROVE TypeOK'
  <2>1. EngineTypes' /\ stops' = stops
    <3>1. CASE Enqueue(j)
      BY <1>0, <3>1, EnqueueAccepts, AcceptTypes
    <3>2. CASE ~Enqueue(j)
      BY <1>4, <1>6, <3>2 DEF CatchUp
    <3> QED
      BY <3>1, <3>2
  <2> QED
    BY <1>1, <1>2, <1>6, <2>1 DEF CatchUp
<1>7. ASSUME NEW c \in Client, NEW j \in Job, Requeue(c, j) PROVE TypeOK'
  <2>1. EngineTypes' /\ stops' = stops /\ catchUp' = catchUp
    <3>1. CASE Enqueue(j) /\ UNCHANGED catchUp
      BY <1>0, <3>1, EnqueueAccepts, AcceptTypes
    <3>2. CASE UNCHANGED <<engine, missed, owed, cutOff>>
      BY <1>4, <3>2
    <3> QED
      BY <1>7, <3>1, <3>2 DEF Requeue
  <2>2. op' \in [Client -> Op]
    <3>1. op[c].at = "requeue" /\ op[c] \in Op
      BY <1>2, <1>7 DEF Requeue, At
    <3>2. [op[c] EXCEPT !.jobs = @ \ {j}] \in Op
      BY <3>1 DEF Op, Free
    <3>3. op' = [op EXCEPT ![c] = [op[c] EXCEPT !.jobs = @ \ {j}]]
      BY <1>2, <1>7 DEF Requeue
    <3> QED
      BY <1>2, <3>2, <3>3
  <2> QED
    BY <1>1, <1>2, <1>7, <2>1, <2>2 DEF Requeue
<1>8. ASSUME NEW r \in Run, Refuse(r) PROVE TypeOK'
  <2>1. EngineTypes'
    <3>1. PICK kind \in {"locked", "refused"} : Emit(kind, r)
      BY <1>8 DEF Refuse
    <3>2. "skipped" \in Stage /\ owed' \subseteq owed \cup {r} /\ kind \in Kinds
      BY <1>8, EventTypes DEF Refuse, Stage
    <3> QED
      BY <1>0, <1>8, <3>1, <3>2, EmitTypes DEF Refuse
  <2> QED
    BY <1>1, <1>2, <1>8, <2>1 DEF Refuse
<1>9. ASSUME NEW r \in Run, Start(r) PROVE TypeOK'
  <2>1. EngineTypes'
    BY <1>0, <1>9, EmitTypes, EventTypes DEF Start, Stage
  <2> QED
    BY <1>1, <1>2, <1>9, <2>1 DEF Start
<1>10. ASSUME NEW r \in Run, Finish(r) PROVE TypeOK'
  <2>1. EngineTypes'
    BY <1>0, <1>10, EmitTypes, EventTypes DEF Finish, Stage
  <2> QED
    BY <1>1, <1>2, <1>10, <2>1 DEF Finish
<1>11. ASSUME NEW j \in Job, Cancel(j) PROVE TypeOK'
  <2>1. stage' \in [Run -> Stage]
    BY <1>0, <1>11 DEF Cancel, TypeOK, Stage
  <2>2. EngineTypes'
    BY <1>0, <1>11, <2>1 DEF Cancel, EngineTypes
  <2> QED
    BY <1>1, <1>2, <1>11, <2>2 DEF Cancel
<1>12. CASE NoticeLag
  <2>1. EngineTypes'
    BY <1>0, <1>12 DEF NoticeLag, EngineTypes
  <2> QED
    BY <1>1, <1>2, <1>12, <2>1 DEF NoticeLag
<1>13. ASSUME NEW r \in Run, NEW kind \in Kinds, Receive(kind, r),
              active' \in {active \cup {r}, active \ {r}}, UNCHANGED <<history, disk>>,
              pump' \in {Idle, [at |-> "save", run |-> r], [at |-> "record", run |-> r], pump},
              blocked' \in {blocked, blocked \cup {jobOf[r]}}
       PROVE  TypeOK'
  <2>1. EngineTypes'
    BY <1>0, <1>13, Reception DEF Receive, EngineTypes
  <2>2. jobOf[r] \in Job
    <3>1. 1 \in DOMAIN channel /\ channel[1].run = r /\ Told(1) /\ channel[1].kind \in Kinds
      <4>1. Len(channel) > 0 /\ channel[1] = [kind |-> kind, run |-> r]
        BY <1>0, <1>13, Reception
      <4>2. 1 \in DOMAIN channel
        BY <1>0, <4>1, ChannelLen
      <4> QED
        BY <1>13, <4>1, <4>2 DEF IInv, Heard
    <3>2. ASSUME NEW k \in DOMAIN channel, channel[k].run = r, channel[k].kind \in Ends
          PROVE  stage[r] \in {"over", "skipped"}
      <4>1. Told(k)
        BY <3>2 DEF IInv, Heard
      <4> QED
        BY <3>2, <4>1 DEF Told, Ends
    <3>3. stage[r] \in {"over", "skipped"} \cup Unended
      BY <3>1, <3>2 DEF Told, Kinds, Ends
    <3> QED
      BY <1>0, <3>3 DEF Drawn, Unended, InFlight
  <2>3. pump' \in Pump
    BY <1>2, <1>3, <1>13
  <2> QED
    BY <1>1, <1>2, <1>13, <2>1, <2>2, <2>3 DEF Receive
<1>14. ASSUME NEW r \in Run, OnLive(r) PROVE TypeOK'
  BY <1>13, <1>14, EventTypes DEF OnLive
<1>15. ASSUME NEW r \in Run, OnFinished(r) PROVE TypeOK'
  BY <1>13, <1>15, EventTypes DEF OnFinished
<1>16. ASSUME NEW r \in Run, OnRefused(r) PROVE TypeOK'
  BY <1>13, <1>16, EventTypes DEF OnRefused, Retire
<1>17. ASSUME NEW r \in Run, OnLocked(r) PROVE TypeOK'
  BY <1>13, <1>17, EventTypes DEF OnLocked, Retire
<1>18. CASE RecordSkip
  BY <1>1, <1>2, <1>3, <1>4, <1>18, PumpTypes DEF RecordSkip
<1>19. CASE CopyState
  BY <1>1, <1>2, <1>3, <1>4, <1>19, PumpTypes DEF CopyState
<1>20. CASE WriteState
  BY <1>1, <1>2, <1>3, <1>4, <1>20, PumpTypes DEF WriteState
<1>21. ASSUME NEW r \in Run, StopRun(r) PROVE TypeOK'
  <2>1. jobOf[r] \in Job
    BY <1>0, <1>21 DEF StopRun, Drawn
  <2> QED
    BY <1>1, <1>2, <1>4, <1>21, <2>1 DEF StopRun
<1>22. ASSUME NEW c \in Client, OpenGate(c) PROVE TypeOK'
  BY <1>1, <1>2, <1>3, <1>4, <1>22 DEF OpenGate
<1>23. ASSUME NEW c \in Client, TakeBlocked(c) PROVE TypeOK'
  BY <1>1, <1>2, <1>3, <1>4, <1>23 DEF TakeBlocked
<1>24. ASSUME NEW c \in Client, Opened(c) PROVE TypeOK'
  BY <1>1, <1>2, <1>3, <1>4, <1>24 DEF Opened
<1>25. CASE CloseGate
  BY <1>1, <1>2, <1>4, <1>25 DEF CloseGate
<1>26. CASE Crash
  <2>1. EngineTypes'
    <3>1. <<>> \in Seq(Event) /\ Len(<<>>) <= Capacity
      BY EmptySeq, CapacityAssumption
    <3> QED
      BY <1>0, <1>26, <3>1 DEF Crash, EngineTypes, Stage
  <2>2. catchUp' \subseteq Job
    BY <1>0, <1>26 DEF Crash, MissedJobs, IInv, OwedIsIdle, Drawn, TypeOK
  <2> QED
    BY <1>1, <1>2, <1>3, <1>26, <2>1, <2>2 DEF Crash, LoadState
<1>27. CASE AskStop
  <2>1. stops' \subseteq Job
    BY <1>0, <1>2, <1>27 DEF AskStop, Drawn
  <2> QED
    BY <1>1, <1>2, <1>3, <1>4, <1>27, <2>1 DEF AskStop
<1>28. CASE FinishRuns
  BY <1>1, <1>2, <1>3, <1>4, <1>28 DEF FinishRuns
<1>29. CASE EngineStops
  <2>1. stage' \in [Run -> Stage]
    BY <1>0, <1>29 DEF EngineStops, TypeOK, Stage
  <2>2. EngineTypes'
    BY <1>0, <1>29, <2>1 DEF EngineStops, EngineTypes
  <2> QED
    BY <1>1, <1>2, <1>29, <2>2 DEF EngineStops
<1>30. CASE LastCopy
  BY <1>1, <1>2, <1>3, <1>4, <1>30 DEF LastCopy
<1>31. CASE LastWrite
  <2>1. main.copy \subseteq Run /\ Overtaken \in BOOLEAN
        /\ (pump.at = "write" => pump.copy \subseteq Run)
    BY <1>2, <1>31, PumpTypes DEF LastWrite, Main, Serving, Overtaken
  <2>2. main' \in Main
    BY <1>3, <1>31, <2>1 DEF LastWrite
  <2> QED
    BY <1>1, <1>2, <1>4, <1>31, <2>1, <2>2 DEF LastWrite
<1>33. CASE Attach
  BY <1>1, <1>2, <1>3, <1>4, <1>33 DEF Attach
<1>34. ASSUME NEW c \in Client, Abort(c) PROVE TypeOK'
  <2>1. cutOff' \subseteq Job
    BY <1>0, <1>34, OpTypes DEF Abort, At, TypeOK
  <2>2. EngineTypes'
    BY <1>0, <1>34, <2>1 DEF Abort, EngineTypes
  <2> QED
    BY <1>1, <1>2, <1>3, <1>34, <2>2 DEF Abort
<1>32. CASE UNCHANGED vars
  BY <1>1, <1>2, <1>4, <1>32 DEF vars
<1> QED
  BY <1>5, <1>6, <1>7, <1>8, <1>9, <1>10, <1>11, <1>12, <1>14, <1>15, <1>16, <1>17,
     <1>18, <1>19, <1>20, <1>21, <1>22, <1>23, <1>24, <1>25, <1>26, <1>27, <1>28, <1>29,
     <1>30, <1>31, <1>32, <1>33, <1>34
     DEF Next, PumpStep, StopStep

----------------------------------------------------------------------------
(* Steps.                                                                  *)

\* What does not depend on the disk.
Knowledge ==
    /\ Drawn /\ OneAtATime /\ Heard /\ OwedIsIdle
    /\ RunningIsTracked /\ ActiveIsCurrent

\* A job some place remembers to ask for again, or an aborted unlock lost.
Waiting(j) ==
    \/ j \in blocked \cup catchUp \cup cutOff
    \/ \E c \in Client : At(c, "requeue") /\ j \in op[c].jobs

\* A step that only moves what is remembered does not touch the rest.
LEMMA EngineStill ==
    ASSUME IInv, UNCHANGED <<jobOf, stage, channel, missed, owed, active>>,
           history \subseteq history'
    PROVE  Knowledge'
<1>1. Drawn' /\ OneAtATime'
  BY DEF IInv, Drawn, OneAtATime, RunsAt
<1>2. Heard'
  BY DEF IInv, Heard, Told
<1>3. OwedIsIdle'
  BY DEF IInv, OwedIsIdle, BusyJobs, RunsAt
<1>4. RunningIsTracked' /\ ActiveIsCurrent'
  BY DEF IInv, RunningIsTracked, ActiveIsCurrent, Announced, RunsAt
<1> QED
  BY <1>1, <1>2, <1>3, <1>4 DEF Knowledge

\* What is recorded now is of a run of this life of the daemon.
Grows ==
    /\ history \subseteq history' /\ \A q \in history' \ history : stage[q] # "past"
    /\ \A q \in Run : stage'[q] = "past" <=> stage[q] = "past"
    /\ \A q \in Run : stage[q] = "skipped" => stage'[q] = "skipped"

LEMMA SavedStill ==
    ASSUME IInv, UNCHANGED <<disk, pump, main, durable>>, Grows
    PROVE  Saved' /\ PastIsSaved'
<1>1. Saved'
  BY DEF IInv, Saved, Grows
<1>2. pump.at = "record" => pump.run \in Run
  BY PumpTypes DEF IInv, TypeOK
<1>3. PastIsSaved'
  BY <1>2 DEF IInv, PastIsSaved, Grows, RunsAt
<1> QED
  BY <1>1, <1>3

\* A run of an earlier life that is on disk stays there.
PastStays == \A q \in Run : stage[q] = "past" /\ q \in disk => q \in disk'

\* What a run is owed is remembered as long as its places keep it.
LEMMA StillRemembered ==
    ASSUME SkippedIsRemembered, up, NEW q \in owed, jobOf'[q] = jobOf[q],
           NEW j, j = jobOf[q], Waiting(j) => Waiting(j)',
           missed \subseteq missed',
           Announced({"locked"}, q) => Announced({"locked"}, q)' \/ q \in missed',
           stage[q] = "past" /\ q \in disk => stage'[q] = "past" /\ q \in disk'
    PROVE  Kept(q)'
BY DEF SkippedIsRemembered, Kept, Remembered, Waiting

\* A step that leaves the runs and the channel alone, and in which no place
\* lets go of a job that is owed a run.
LEMMA StillOwed ==
    ASSUME IInv, UNCHANGED <<jobOf, stage, channel, missed, owed>>, PastStays, up' => up,
           \A j : up /\ Waiting(j) /\ j \notin BusyJobs => Waiting(j)'
    PROVE  SkippedIsRemembered'
<1> SUFFICES ASSUME up, NEW q \in owed
             PROVE  Kept(q)'
  BY DEF SkippedIsRemembered, Kept
<1>0. PICK j : j = jobOf[q]
  OBVIOUS
<1>1. j \notin BusyJobs
  BY <1>0 DEF IInv, OwedIsIdle
<1>2. Announced({"locked"}, q) => Announced({"locked"}, q)'
  BY DEF Announced
<1>3. /\ jobOf'[q] = jobOf[q] /\ missed \subseteq missed' /\ SkippedIsRemembered
      /\ stage[q] = "past" /\ q \in disk => stage'[q] = "past" /\ q \in disk'
  BY DEF IInv, PastStays, TypeOK
<1> QED
  BY <1>0, <1>1, <1>2, <1>3, StillRemembered

\* A new run of an idle job.
LEMMA AcceptKeeps ==
    ASSUME IInv, NEW j \in Job, NEW r, Accept(j, r), UNCHANGED <<active, history>>
    PROVE  Knowledge'
<1>1. /\ TypeOK /\ Drawn /\ OneAtATime /\ Heard /\ Unheard /\ OwedIsIdle
      /\ RunningIsTracked /\ ActiveIsCurrent
  BY DEF IInv
<1>2. /\ r \in Run /\ stage[r] = "new" /\ j \notin BusyJobs
      /\ stage'[r] = "queued" /\ jobOf'[r] = j
      /\ \A q \in Run \ {r} : stage'[q] = stage[q] /\ jobOf'[q] = jobOf[q]
      /\ owed' = {q \in owed : jobOf[q] # j}
  BY <1>1 DEF Accept, TypeOK
<1>3. /\ RunsAt(Busy)' = RunsAt(Busy) \cup {r} /\ r \notin RunsAt(Busy)
      /\ RunsAt(InFlight)' = RunsAt(InFlight)
  BY <1>2 DEF RunsAt, Busy, InFlight
<1>4. "queued" \in Kinds /\ "queued" \in Begins /\ "queued" \in Unended
      /\ "queued" \notin Ends
  BY DEF Kinds, Begins, Ends, Unended
<1>5. Drawn'
  BY <1>1, <1>2 DEF Drawn, TypeOK
<1>6. OneAtATime'
  <2>1. \A q \in RunsAt(Busy) : jobOf[q] # j /\ jobOf'[q] = jobOf[q]
    BY <1>2, <1>3 DEF BusyJobs, Busy, RunsAt
  <2> QED
    BY <1>1, <1>2, <1>3, <2>1 DEF OneAtATime
<1>7. Heard'
  BY <1>1, <1>2, <1>4, EmitHeard DEF Accept, Begins
<1>8. OwedIsIdle'
  <2> SUFFICES ASSUME NEW q \in owed'
               PROVE  stage'[q] \in {"skipped", "past"} /\ jobOf'[q] \notin BusyJobs'
    BY DEF OwedIsIdle
  <2>1. /\ q \in owed /\ q \in Run /\ jobOf[q] # j /\ stage[q] \in {"skipped", "past"}
        /\ jobOf[q] \notin BusyJobs
    BY <1>1, <1>2 DEF OwedIsIdle, TypeOK
  <2>2. q # r
    BY <1>2, <2>1
  <2>3. BusyJobs' = BusyJobs \cup {j}
    BY <1>2, <1>3 DEF BusyJobs, Busy, RunsAt
  <2> QED
    BY <1>2, <2>1, <2>2, <2>3
<1>9. RunningIsTracked'
  <2> SUFFICES ASSUME NEW q \in RunsAt(InFlight) \ missed'
               PROVE  q \in active' \/ Announced({"queued", "started"}, q)'
    BY <1>3 DEF RunningIsTracked
  <2>1. q \notin missed
    BY <1>1, <1>2, <1>4, Emission DEF Accept
  <2>2. q \in active \/ Announced({"queued", "started"}, q)
    BY <1>1, <2>1 DEF RunningIsTracked
  <2> QED
    BY <1>1, <1>2, <1>4, <2>2, EmitAnnounces DEF Accept
<1>10. ActiveIsCurrent'
  <2> SUFFICES ASSUME NEW q \in active \ missed'
               PROVE  \/ stage'[q] \in {"queued", "dropped"} \cup InFlight
                      \/ Announced({"finished", "locked", "refused"}, q)'
    BY DEF ActiveIsCurrent
  <2>1. q \notin missed /\ q \in Run
    BY <1>1, <1>2, <1>4, Emission DEF Accept, TypeOK
  <2>2. \/ stage[q] \in {"queued", "dropped"} \cup InFlight
        \/ Announced({"finished", "locked", "refused"}, q)
    BY <1>1, <2>1 DEF ActiveIsCurrent
  <2>3. q # r
    BY <1>1, <1>2 DEF Drawn
  <2> QED
    BY <1>1, <1>2, <1>4, <2>1, <2>2, <2>3, EmitAnnounces DEF Accept
<1> QED
  BY <1>5, <1>6, <1>7, <1>8, <1>9, <1>10 DEF Knowledge

\* The job it is of is owed nothing any more.
LEMMA AcceptRemembers ==
    ASSUME IInv, NEW j \in Job, NEW r, Accept(j, r), disk' = disk, up' => up,
           \A k : Waiting(k) /\ k # j => Waiting(k)'
    PROVE  SkippedIsRemembered'
<1> SUFFICES ASSUME up, NEW q \in owed'
             PROVE  Kept(q)'
  BY DEF SkippedIsRemembered, Kept
<1>1. /\ TypeOK /\ q \in owed /\ q \in Run /\ jobOf[q] # j /\ stage[q] \in {"skipped", "past"}
      /\ r \in Run /\ stage[r] = "new" /\ Emit("queued", r)
  BY DEF IInv, Accept, OwedIsIdle, TypeOK
<1>2. jobOf'[q] = jobOf[q] /\ stage'[q] = stage[q]
  BY <1>1 DEF Accept, TypeOK
<1>3. /\ missed \subseteq missed'
      /\ Announced({"locked"}, q) => Announced({"locked"}, q)' \/ q \in missed'
  BY <1>1, EventTypes, Emission, EmitAnnounces
<1>4. PICK k : k = jobOf[q]
  OBVIOUS
<1>5. /\ Waiting(k) => Waiting(k)'
      /\ stage[q] = "past" /\ q \in disk => stage'[q] = "past" /\ q \in disk'
  BY <1>1, <1>2, <1>4
<1>6. SkippedIsRemembered
  BY DEF IInv
<1> QED
  BY <1>1, <1>2, <1>3, <1>4, <1>5, <1>6, StillRemembered

\* A run that waits or runs moves on, and the engine says so.
LEMMA MoveKeeps ==
    ASSUME IInv, NEW kind \in Kinds, NEW r \in Run, NEW s,
           stage[r] \in Busy, Emit(kind, r), jobOf' = jobOf, active' = active,
           stage' = [stage EXCEPT ![r] = s], history \subseteq history',
           \/ kind = "started" /\ s = "running"
           \/ kind = "finished" /\ s = "over" /\ r \in history'
           \/ kind \in {"locked", "refused"} /\ s = "skipped",
           owed' \subseteq owed \cup {r}, r \in owed' => kind = "locked"
    PROVE  Knowledge'
<1>1. /\ TypeOK /\ Drawn /\ OneAtATime /\ Heard /\ Unheard /\ OwedIsIdle
      /\ RunningIsTracked /\ ActiveIsCurrent
  BY DEF IInv
<1>2. stage'[r] = s /\ \A q \in Run \ {r} : stage'[q] = stage[q]
  BY <1>1 DEF TypeOK
<1>3. /\ stage[r] # "new" /\ stage[r] \in Unended /\ s # "new"
      /\ r \in RunsAt(Busy) /\ RunsAt(Busy)' \subseteq RunsAt(Busy)
      /\ kind \in Begins => kind = "started" /\ s \in InFlight /\ s \in Unended
      /\ s \in Busy => kind = "started"
      /\ kind \notin Ends => s \in Unended
      /\ s \in InFlight => kind \in Begins
  BY <1>2 DEF Busy, Unended, RunsAt, InFlight, Begins, Ends, Kinds
<1>4. \A q \in Run : q \notin missed' => q \notin missed
  BY <1>1, Emission
<1>5. Drawn'
  BY <1>1, <1>2, <1>3 DEF Drawn, TypeOK
<1>6. OneAtATime'
  BY <1>1, <1>3 DEF OneAtATime
<1>7. Heard'
  BY <1>1, <1>3, EmitHeard
<1>8. OwedIsIdle'
  <2> SUFFICES ASSUME NEW q \in owed'
               PROVE  stage'[q] \in {"skipped", "past"} /\ jobOf[q] \notin BusyJobs'
    BY DEF OwedIsIdle
  <2>1. BusyJobs' \subseteq BusyJobs
    BY <1>3 DEF BusyJobs, Busy
  <2>2. CASE q = r
    <3>1. kind = "locked" /\ s = "skipped" /\ r \notin RunsAt(Busy)'
      BY <1>2, <2>2 DEF Busy, InFlight, RunsAt
    <3>2. jobOf[r] \notin BusyJobs'
      BY <1>1, <1>3, <3>1 DEF OneAtATime, BusyJobs, Busy
    <3> QED
      BY <1>2, <2>2, <3>1, <3>2
  <2>3. CASE q # r
    BY <1>1, <1>2, <2>1, <2>3 DEF OwedIsIdle, TypeOK
  <2> QED
    BY <2>2, <2>3
<1>9. RunningIsTracked'
  <2> SUFFICES ASSUME NEW q \in Run, stage'[q] \in InFlight, q \notin missed'
               PROVE  q \in active \/ Announced({"queued", "started"}, q)'
    BY DEF RunningIsTracked, RunsAt
  <2>1. CASE q = r
    <3>1. kind \in {"queued", "started"}
      BY <1>2, <1>3, <2>1 DEF Begins
    <3> QED
      BY <1>1, <2>1, <3>1, EmitAnnounces
  <2>2. CASE q # r
    <3>1. q \in active \/ Announced({"queued", "started"}, q)
      BY <1>1, <1>2, <1>4, <2>2 DEF RunningIsTracked, RunsAt
    <3> QED
      BY <1>1, <3>1, EmitAnnounces
  <2> QED
    BY <2>1, <2>2
<1>10. ActiveIsCurrent'
  <2> SUFFICES ASSUME NEW q \in active, q \notin missed'
               PROVE  stage'[q] \in Unended \/ Announced(Ends, q)'
    BY DEF ActiveIsCurrent, Unended, Ends
  <2>1. q \in Run /\ q \notin missed
    BY <1>1, <1>4 DEF TypeOK
  <2>2. CASE q = r
    BY <1>1, <1>2, <1>3, <2>2, EmitAnnounces
  <2>3. CASE q # r
    <3>1. stage[q] \in Unended \/ Announced(Ends, q)
      BY <1>1, <2>1 DEF ActiveIsCurrent, Unended, Ends
    <3> QED
      BY <1>1, <1>2, <2>1, <2>3, <3>1, EmitAnnounces
  <2> QED
    BY <2>2, <2>3
<1> QED
  BY <1>5, <1>6, <1>7, <1>8, <1>9, <1>10 DEF Knowledge

LEMMA MoveRemembers ==
    ASSUME IInv, NEW kind \in Kinds, NEW r \in Run, NEW s,
           stage[r] \in Busy, Emit(kind, r), jobOf' = jobOf,
           stage' = [stage EXCEPT ![r] = s],
           UNCHANGED <<disk, blocked, catchUp, op, cutOff>>, up' => up,
           owed' \subseteq owed \cup {r}, r \in owed' => kind = "locked"
    PROVE  SkippedIsRemembered'
<1> SUFFICES ASSUME up, NEW q \in owed'
             PROVE  Kept(q)'
  BY DEF SkippedIsRemembered, Kept
<1>1. TypeOK
  BY DEF IInv
<1>2. CASE q = r
  <2>1. Announced({"locked"}, r)' \/ r \in missed'
    BY <1>1, <1>2, EmitAnnounces
  <2> QED
    BY <1>2, <2>1 DEF Kept, Remembered
<1>3. CASE q # r
  <2>1. q \in owed /\ q \in Run
    BY <1>1, <1>3 DEF TypeOK
  <2>2. jobOf'[q] = jobOf[q] /\ stage'[q] = stage[q]
    BY <1>1, <1>3, <2>1 DEF TypeOK
  <2>3. /\ missed \subseteq missed'
        /\ Announced({"locked"}, q) => Announced({"locked"}, q)' \/ q \in missed'
    BY <1>1, Emission, EmitAnnounces
  <2>4. PICK j : j = jobOf[q]
    OBVIOUS
  <2>5. Waiting(j) => Waiting(j)'
    BY DEF Waiting, At
  <2>6. SkippedIsRemembered /\ (stage[q] = "past" /\ q \in disk => stage'[q] = "past" /\ q \in disk')
    BY <2>2 DEF IInv
  <2> QED
    BY <2>1, <2>2, <2>3, <2>4, <2>5, <2>6, StillRemembered
<1> QED
  BY <1>2, <1>3

\* The pump takes an event.
LEMMA ReceiveKeeps ==
    ASSUME IInv, NEW kind \in Kinds, NEW r \in Run, Receive(kind, r),
           UNCHANGED <<history, disk, exit>>,
           active' = IF kind \in Begins THEN active \cup {r} ELSE active \ {r},
           blocked \subseteq blocked', kind = "locked" => jobOf[r] \in blocked',
           pump'.at = "save" => kind = "finished" /\ pump'.run = r,
           pump'.at = "record" => kind \in {"locked", "refused"} /\ pump'.run = r,
           pump'.at # "write"
    PROVE  Knowledge' /\ Saved' /\ PastIsSaved' /\ SkippedIsRemembered'
<1>1. /\ TypeOK /\ Drawn /\ OneAtATime /\ Heard /\ OwedIsIdle /\ Saved /\ PastIsSaved
      /\ RunningIsTracked /\ ActiveIsCurrent /\ SkippedIsRemembered
  BY DEF IInv
<1>2. UNCHANGED <<jobOf, stage, catchUp, op, up, main, missed, durable, owed, cutOff>>
  BY DEF Receive, exit, ghosts
<1>3. 1 \in DOMAIN channel /\ channel[1] = [kind |-> kind, run |-> r]
  <2>1. Len(channel) > 0 /\ channel[1] = [kind |-> kind, run |-> r]
    BY <1>1, Reception
  <2> QED
    BY <1>1, <2>1, ChannelLen
<1>4. Told(1)
  BY <1>1, <1>3 DEF Heard
<1>5. kind \in Ends => stage[r] \in {"over", "skipped"}
  BY <1>3, <1>4 DEF Told, Ends
<1>6. \A k \in DOMAIN channel :
         channel[k].run = r /\ channel[k].kind \in Ends => stage[r] \in {"over", "skipped"}
  BY <1>1 DEF Heard, Told, Ends
<1>7. stage[r] # "new"
  BY <1>3, <1>4, <1>5, <1>6 DEF Told, Kinds, Unended, InFlight
<1>8. Drawn'
  BY <1>1, <1>2, <1>7 DEF Drawn
<1>9. OneAtATime'
  BY <1>1, <1>2 DEF OneAtATime, RunsAt
<1>10. Heard'
  BY <1>1, ReceiveHeard
<1>11. OwedIsIdle'
  BY <1>1, <1>2 DEF OwedIsIdle, BusyJobs, RunsAt
<1>12. Saved' /\ PastIsSaved'
  <2>1. Saved'
    BY <1>1, <1>2, <1>3, <1>4 DEF Saved, Told
  <2>2. pump'.at = "record" => stage[r] = "skipped"
    BY <1>3, <1>4 DEF Told
  <2> QED
    BY <1>1, <1>2, <2>1, <2>2 DEF PastIsSaved, RunsAt
<1>13. RunningIsTracked'
  <2> SUFFICES ASSUME NEW q \in Run, stage[q] \in InFlight, q \notin missed
               PROVE  q \in active' \/ Announced(Begins, q)'
    BY <1>2 DEF RunningIsTracked, RunsAt, Begins
  <2>1. q \in active \/ Announced(Begins, q)
    BY <1>1 DEF RunningIsTracked, RunsAt, Begins
  <2>2. CASE q \in active
    <3>1. kind \in Ends => q # r
      BY <1>5 DEF InFlight
    <3> QED
      BY <2>2, <3>1 DEF Kinds
  <2>3. CASE Announced(Begins, q)
    <3>1. Announced(Begins, q)' \/ (q = r /\ kind \in Begins)
      BY <1>1, <2>3, ReceiveAnnounces
    <3> QED
      BY <3>1
  <2> QED
    BY <2>1, <2>2, <2>3
<1>14. ActiveIsCurrent'
  <2> SUFFICES ASSUME NEW q \in active', q \notin missed
               PROVE  stage[q] \in Unended \/ Announced(Ends, q)'
    BY <1>2 DEF ActiveIsCurrent, Unended, Ends
  <2>1. CASE q = r
    <3>1. kind \in Begins
      BY <2>1
    <3>2. CASE stage[r] \notin Unended
      <4>1. Announced(Ends, r)
        BY <1>3, <1>4, <3>1, <3>2 DEF Told, Announced
      <4>2. kind \notin Ends
        BY <3>1 DEF Begins, Ends
      <4> QED
        BY <1>1, <2>1, <4>1, <4>2, ReceiveAnnounces
    <3> QED
      BY <2>1, <3>2
  <2>2. CASE q # r
    <3>1. stage[q] \in Unended \/ Announced(Ends, q)
      BY <1>1, <2>2 DEF ActiveIsCurrent, Unended, Ends
    <3> QED
      BY <1>1, <2>2, <3>1, ReceiveAnnounces
  <2> QED
    BY <2>1, <2>2
<1>15. SkippedIsRemembered'
  <2> SUFFICES ASSUME up, NEW q \in owed
               PROVE  Kept(q)'
    BY <1>2 DEF SkippedIsRemembered, Kept
  <2>1. CASE kind = "locked" /\ q = r
    BY <1>2, <2>1 DEF Kept, Remembered
  <2>2. CASE ~(kind = "locked" /\ q = r)
    <3>1. Announced({"locked"}, q) => Announced({"locked"}, q)'
      BY <1>1, <2>2, ReceiveAnnounces
    <3>2. PICK j : j = jobOf[q]
      OBVIOUS
    <3>3. Waiting(j) => Waiting(j)'
      BY <1>2 DEF Waiting, At
    <3>4. /\ jobOf'[q] = jobOf[q] /\ missed \subseteq missed'
          /\ stage[q] = "past" /\ q \in disk => stage'[q] = "past" /\ q \in disk'
      BY <1>2
    <3> QED
      BY <1>1, <3>1, <3>2, <3>3, <3>4, StillRemembered
  <2> QED
    BY <2>1, <2>2
<1> QED
  BY <1>8, <1>9, <1>10, <1>11, <1>12, <1>13, <1>14, <1>15 DEF Knowledge

\* Runs that waited leave the queue without a word, others are told to stop.
LEMMA CancelKeeps ==
    ASSUME IInv,
           \A q \in Run :
              \/ stage'[q] = stage[q]
              \/ stage[q] = "running" /\ stage'[q] = "stopping"
              \/ stage[q] = "queued" /\ stage'[q] = "dropped",
           UNCHANGED <<jobOf, catchUp, channel, main, active, history, disk, pump, blocked,
                       op, missed, durable, owed, cutOff>>,
           up' => up
    PROVE  Knowledge' /\ Saved' /\ PastIsSaved' /\ SkippedIsRemembered'
<1>1. /\ TypeOK /\ Drawn /\ OneAtATime /\ Heard /\ OwedIsIdle
      /\ RunningIsTracked /\ ActiveIsCurrent /\ SkippedIsRemembered
  BY DEF IInv
<1>2. UNCHANGED <<jobOf, catchUp, channel, active, history, disk, pump, blocked, op,
                  missed, durable, owed, cutOff>>
  OBVIOUS
<1>3. \A q \in Run :
        \/ stage'[q] = stage[q]
        \/ stage[q] = "running" /\ stage'[q] = "stopping"
        \/ stage[q] = "queued" /\ stage'[q] = "dropped"
  OBVIOUS
<1>4. /\ RunsAt(Busy)' \subseteq RunsAt(Busy)
      /\ \A q \in Run : stage'[q] \in InFlight => stage[q] \in InFlight
      /\ \A q \in Run : stage[q] \in Unended => stage'[q] \in Unended
      /\ \A q \in Run : stage'[q] = "new" <=> stage[q] = "new"
      /\ \A q \in Run : stage[q] \in {"over", "skipped", "past"} => stage'[q] = stage[q]
  BY <1>3 DEF RunsAt, Busy, InFlight, Unended
<1>5. Drawn'
  BY <1>1, <1>2, <1>4 DEF Drawn, TypeOK
<1>6. OneAtATime'
  BY <1>1, <1>2, <1>4 DEF OneAtATime
<1>7. Heard'
  <2> SUFFICES ASSUME NEW i \in DOMAIN channel PROVE Told(i)'
    BY <1>2 DEF Heard
  <2>1. Told(i) /\ channel[i].run \in Run
    BY <1>1, ChannelLen DEF Heard
  <2> QED
    BY <1>2, <1>4, <2>1 DEF Told
<1>8. OwedIsIdle'
  <2>1. BusyJobs' \subseteq BusyJobs
    BY <1>2, <1>4 DEF BusyJobs, Busy
  <2> QED
    BY <1>1, <1>2, <1>4, <2>1 DEF OwedIsIdle, TypeOK
<1>9. RunningIsTracked'
  BY <1>1, <1>2, <1>4 DEF RunningIsTracked, RunsAt, Announced
<1>10. ActiveIsCurrent'
  BY <1>1, <1>2, <1>4 DEF ActiveIsCurrent, Unended, Announced, TypeOK
<1>11. SkippedIsRemembered'
  <2> SUFFICES ASSUME up, NEW q \in owed
               PROVE  Kept(q)'
    BY <1>2 DEF SkippedIsRemembered, Kept
  <2>1. Remembered(q) => Remembered(q)'
    BY <1>2 DEF Remembered, Announced, At
  <2> QED
    BY <1>1, <1>2, <1>4, <2>1 DEF SkippedIsRemembered, Kept, TypeOK
<1>12. Grows
  BY <1>1, <1>2, <1>3 DEF Grows
<1> QED
  BY <1>5, <1>6, <1>7, <1>8, <1>9, <1>10, <1>11, <1>12, SavedStill DEF Knowledge

LEMMA CrashKeeps ==
    ASSUME IInv, Crash
    PROVE  Knowledge' /\ Saved' /\ PastIsSaved' /\ SkippedIsRemembered'
<1>1. /\ TypeOK /\ Drawn /\ OwedIsIdle /\ Saved
  BY DEF IInv
<1>2. /\ UNCHANGED <<jobOf, disk, durable, owed>>
      /\ channel' = <<>> /\ active' = {} /\ history' = disk /\ pump'.at = "off" /\ main'.at = "up"
      /\ catchUp' = {jobOf[q] : q \in owed \ disk}
  BY DEF Crash, LoadState, Off, Serving, MissedJobs
<1>3. \A q \in Run : stage'[q] = IF stage[q] = "new" THEN "new" ELSE "past"
  BY DEF Crash
<1>4. RunsAt(Busy)' = {} /\ RunsAt(InFlight)' = {} /\ BusyJobs' = {}
  BY <1>3 DEF RunsAt, Busy, InFlight, BusyJobs
<1>5. DOMAIN channel' = {}
  BY <1>2
<1>6. \A q \in owed : stage'[q] = "past"
  BY <1>1, <1>3 DEF OwedIsIdle, TypeOK
<1>7. Drawn' /\ OneAtATime'
  BY <1>1, <1>2, <1>3, <1>4 DEF Drawn, OneAtATime
<1>8. Heard'
  BY <1>5 DEF Heard
<1>9. OwedIsIdle'
  BY <1>2, <1>4, <1>6 DEF OwedIsIdle
<1>10. RunningIsTracked' /\ ActiveIsCurrent'
  BY <1>2, <1>4 DEF RunningIsTracked, ActiveIsCurrent
<1>11. Saved' /\ PastIsSaved'
  BY <1>1, <1>2 DEF Saved, PastIsSaved
<1>12. SkippedIsRemembered'
  BY <1>2, <1>6 DEF SkippedIsRemembered, Remembered
<1> QED
  BY <1>7, <1>8, <1>9, <1>10, <1>11, <1>12 DEF Knowledge

LEMMA InitHolds == Init => IInv
<1> SUFFICES ASSUME Init PROVE IInv
  OBVIOUS
<1>1. <<>> \in Seq(Event) /\ Len(<<>>) <= Capacity
  BY EmptySeq, CapacityAssumption
<1>2. TypeOK
  BY <1>1 DEF Init, TypeOK, Stage, Pump, Op, Main, Serving
<1>3. RunsAt(Busy) = {} /\ RunsAt(InFlight) = {}
  BY DEF Init, RunsAt, Busy, InFlight
<1>4. Drawn /\ OneAtATime /\ Heard /\ Unheard /\ OwedIsIdle
  BY <1>3 DEF Init, Drawn, OneAtATime, Heard, Unheard, OwedIsIdle
<1>5. Saved /\ PastIsSaved
  BY DEF Init, Saved, PastIsSaved, Off, Serving
<1>6. RunningIsTracked /\ ActiveIsCurrent /\ SkippedIsRemembered
  BY <1>3 DEF Init, RunningIsTracked, ActiveIsCurrent, SkippedIsRemembered
<1> QED
  BY <1>2, <1>4, <1>5, <1>6 DEF IInv

\* The invariant without the types and Unheard.
Preserved == Knowledge /\ Saved /\ PastIsSaved /\ SkippedIsRemembered

LEMMA KnowledgeStep == IInv /\ [Next]_vars => Preserved'
<1> SUFFICES ASSUME IInv, [Next]_vars PROVE Preserved'
  OBVIOUS
<1>0. TypeOK /\ Saved /\ PastIsSaved
  BY DEF IInv
<1>1. ASSUME UNCHANGED <<jobOf, stage, channel, missed, owed, active, history, disk, pump, main,
                         durable>>,
             up' => up, \A j : up /\ Waiting(j) /\ j \notin BusyJobs => Waiting(j)'
      PROVE  Preserved'
  BY <1>1, EngineStill, SavedStill, StillOwed DEF Grows, PastStays, Preserved
<1>2. ASSUME UNCHANGED <<blocked, catchUp, op, cutOff>> PROVE \A j : Waiting(j) => Waiting(j)'
  BY <1>2 DEF Waiting, At
<1>3. ASSUME NEW j \in Job, Enqueue(j), UNCHANGED <<active, history, disk, pump, main, up, durable>>,
             \A k : Waiting(k) /\ k # j => Waiting(k)'
      PROVE  Preserved'
  <2>1. PICK r \in Run : Accept(j, r)
    BY <1>3, EnqueueAccepts
  <2>2. Grows
    BY <1>0, <1>3, <2>1 DEF Accept, Grows, TypeOK
  <2> QED
    BY <1>3, <2>1, <2>2, AcceptKeeps, AcceptRemembers, SavedStill DEF Preserved
<1> USE DEF engine, daemon, exit, vault, ghosts
<1>5. CASE Due
  <2>1. PICK j \in Job : Enqueue(j)
    BY <1>5 DEF Due
  <2>2. \A k : Waiting(k) /\ k # j => Waiting(k)'
    BY <1>5, <2>1 DEF Due, Enqueue, Waiting, At
  <2> QED
    BY <1>3, <1>5, <2>1, <2>2 DEF Due
<1>6. ASSUME NEW j \in Job, CatchUp(j)
      PROVE  Preserved'
  <2>1. \A k : Waiting(k) /\ k # j => Waiting(k)'
    BY <1>6 DEF CatchUp, Enqueue, Waiting, At
  <2>2. CASE Enqueue(j)
    BY <1>3, <1>6, <2>1, <2>2 DEF CatchUp
  <2>3. CASE ~Enqueue(j)
    BY <1>1, <1>6, <2>1, <2>3 DEF CatchUp
  <2> QED
    BY <2>2, <2>3
<1>7. ASSUME NEW c \in Client, NEW j \in Job, Requeue(c, j)
      PROVE  Preserved'
  <2>1. /\ op[c].at = "requeue" /\ op' = [op EXCEPT ![c].jobs = @ \ {j}]
        /\ blocked' = blocked /\ catchUp' = catchUp /\ cutOff \ {j} \subseteq cutOff'
    BY <1>7 DEF Requeue, Enqueue, At
  <2>2. \A d \in Client : At(d, "requeue") =>
           At(d, "requeue")' /\ op[d].jobs \ {j} \subseteq op'[d].jobs
    <3>1. op \in [Client -> Op]
      BY <1>0 DEF TypeOK
    <3>2. op[c] \in [at: {"requeue"}, jobs: SUBSET Job]
      BY <2>1, <3>1 DEF Op, Free
    <3> QED
      BY <2>1, <3>1, <3>2 DEF At
  <2>3. \A k : Waiting(k) /\ k # j => Waiting(k)'
    BY <2>1, <2>2 DEF Waiting
  <2>4. CASE Enqueue(j)
    BY <1>3, <1>7, <2>3, <2>4 DEF Requeue
  <2>5. CASE ~Enqueue(j)
    BY <1>1, <1>7, <2>3, <2>5 DEF Requeue
  <2> QED
    BY <2>4, <2>5
<1>8. ASSUME NEW r \in Run, Refuse(r)
      PROVE  Preserved'
  <2>1. PICK kind \in {"locked", "refused"} :
           /\ Emit(kind, r) /\ owed' \subseteq owed \cup {r}
           /\ r \in owed' => kind = "locked" \/ r \in owed
    BY <1>8 DEF Refuse
  <2>2. /\ stage[r] = "queued" /\ stage' = [stage EXCEPT ![r] = "skipped"]
        /\ UNCHANGED <<jobOf, catchUp, active, history, disk, pump, blocked, op, up, main, durable,
                      cutOff>>
    BY <1>8 DEF Refuse
  <2>3. r \notin owed /\ stage[r] \in Busy /\ kind \in Kinds
    BY <2>2, EventTypes DEF IInv, OwedIsIdle, Busy
  <2>4. r \in owed' => kind = "locked"
    BY <2>1, <2>3
  <2>5. Knowledge'
    BY <2>1, <2>2, <2>3, <2>4, MoveKeeps
  <2>6. SkippedIsRemembered'
    BY <2>1, <2>2, <2>3, <2>4, MoveRemembers
  <2>7. Grows
    BY <1>0, <2>2 DEF Grows, TypeOK
  <2> QED
    BY <2>2, <2>5, <2>6, <2>7, SavedStill DEF Preserved
<1>9. ASSUME NEW r \in Run, NEW kind \in {"started", "finished"}, NEW s, Emit(kind, r),
             stage[r] \in Busy, stage' = [stage EXCEPT ![r] = s],
             \/ kind = "started" /\ s = "running"
             \/ kind = "finished" /\ s = "over" /\ r \in history',
             history' \in {history, history \cup {r}},
             UNCHANGED <<jobOf, catchUp, active, disk, pump, blocked, op, up, main, durable, owed,
                       cutOff>>
      PROVE  Preserved'
  <2>1. r \notin owed
    BY <1>9 DEF IInv, OwedIsIdle, Busy, InFlight
  <2>2. kind \in Kinds /\ owed' \subseteq owed \cup {r} /\ r \notin owed'
    BY <1>9, <2>1, EventTypes
  <2>3. Knowledge'
    BY <1>9, <2>2, MoveKeeps
  <2>5. Grows
    BY <1>0, <1>9 DEF Grows, TypeOK, Busy, InFlight
  <2>4. SkippedIsRemembered'
    BY <1>9, <2>2, MoveRemembers
  <2> QED
    BY <1>9, <2>3, <2>4, <2>5, SavedStill DEF Preserved
<1>10. ASSUME NEW r \in Run, Start(r)
       PROVE  Preserved'
  BY <1>9, <1>10 DEF Start, Busy
<1>11. ASSUME NEW r \in Run, Finish(r)
       PROVE  Preserved'
  BY <1>9, <1>11 DEF Finish, Busy
<1>12. ASSUME NEW j \in Job, Cancel(j)
       PROVE  Preserved'
  <2>1. \A q \in Run :
           \/ stage'[q] = stage[q]
           \/ stage[q] = "running" /\ stage'[q] = "stopping"
           \/ stage[q] = "queued" /\ stage'[q] = "dropped"
    BY <1>12 DEF Cancel
  <2> QED
    BY <1>12, <2>1, CancelKeeps DEF Cancel, Preserved
<1>13. CASE NoticeLag
  BY <1>1, <1>2, <1>13 DEF NoticeLag
<1>14. ASSUME NEW r \in Run, OnLive(r)
       PROVE  Preserved'
  <2>1. PICK kind \in {"queued", "started"} : Receive(kind, r)
    BY <1>14 DEF OnLive
  <2>2. kind \in Kinds /\ kind \in Begins /\ pump' = Idle
    BY <1>14, <2>1, EventTypes DEF OnLive, Receive, Begins
  <2> QED
    BY <1>14, <2>1, <2>2, ReceiveKeeps DEF OnLive, Idle, Receive, Preserved
<1>15. ASSUME NEW r \in Run, OnFinished(r)
       PROVE  Preserved'
  BY <1>15, ReceiveKeeps, EventTypes DEF OnFinished, Begins, Receive, Preserved
<1>16. ASSUME NEW r \in Run, NEW kind \in {"locked", "refused"}, NEW recorded,
              Receive(kind, r), Retire(r, recorded), blocked \subseteq blocked',
              kind = "locked" => jobOf[r] \in blocked'
       PROVE  Preserved'
  <2>1. /\ active' = active \ {r} /\ UNCHANGED <<history, disk>>
        /\ pump' \in {[at |-> "record", run |-> r], [at |-> "recv"]}
    BY <1>16 DEF Retire, Idle
  <2> QED
    BY <1>16, <2>1, ReceiveKeeps, EventTypes DEF Begins, Receive, Preserved
<1>17. ASSUME NEW r \in Run, OnRefused(r)
       PROVE  Preserved'
  BY <1>16, <1>17 DEF OnRefused
<1>18. ASSUME NEW r \in Run, OnLocked(r)
       PROVE  Preserved'
  BY <1>16, <1>18 DEF OnLocked
<1>19. ASSUME RecordSkip \/ CopyState \/ WriteState \/ LastCopy \/ LastWrite
       PROVE  Preserved'
  <2>1. /\ UNCHANGED <<jobOf, stage, channel, missed, owed, active, blocked, catchUp, op, up,
                     cutOff>>
        /\ history \subseteq history' /\ pump \in Pump
    BY <1>0, <1>19 DEF RecordSkip, CopyState, WriteState, LastCopy, LastWrite, TypeOK
  <2>2. PastStays /\ Saved' /\ PastIsSaved'
    <3>1. CASE RecordSkip
      BY <1>0, <2>1, <3>1, PumpTypes DEF RecordSkip, Saved, PastIsSaved, PastStays, RunsAt
    <3>2. CASE CopyState
      BY <1>0, <2>1, <3>2 DEF CopyState, Saved, PastIsSaved, PastStays, RunsAt
    <3>3. CASE WriteState
      BY <1>0, <2>1, <3>3 DEF WriteState, Idle, Saved, PastIsSaved, PastStays, RunsAt
    <3>4. CASE LastCopy
      BY <1>0, <2>1, <3>4 DEF LastCopy, Saved, PastIsSaved, PastStays, RunsAt
    <3>5. CASE LastWrite
      <4>1. CASE /\ UNCHANGED <<disk, durable>>
                 /\ main' = [at |-> "saved", copy |-> main.copy, kept |-> FALSE]
        BY <1>0, <2>1, <3>5, <4>1 DEF LastWrite, Saved, PastIsSaved, PastStays, RunsAt
      <4>2. CASE /\ disk' = main.copy
                 /\ durable' = durable \cup
                      {r \in main.copy : pump.at = "write" => r \in pump.copy}
                 /\ main' = [at |-> "saved", copy |-> main.copy, kept |-> ~Overtaken]
        <5>1. main'.at = "saved" /\ main'.copy = main.copy /\ (main'.kept <=> ~Overtaken)
          BY <4>2
        <5>2. pump' = pump /\ history' = history /\ main.at = "save"
          BY <3>5 DEF LastWrite
        <5>3. Saved'
          BY <1>0, <4>2, <5>1, <5>2 DEF Saved, Overtaken
        <5>4. PastIsSaved' /\ PastStays
          BY <1>0, <2>1, <4>2, <5>1, <5>2 DEF PastIsSaved, PastStays, RunsAt, Saved, TypeOK
        <5> QED
          BY <5>3, <5>4
      <4> QED
        BY <3>5, <4>1, <4>2 DEF LastWrite
    <3> QED
      BY <1>19, <3>1, <3>2, <3>3, <3>4, <3>5
  <2> QED
    BY <1>2, <2>1, <2>2, EngineStill, StillOwed DEF Preserved
<1>20. ASSUME NEW r \in Run, StopRun(r)
       PROVE  Preserved'
  BY <1>1, <1>2, <1>20 DEF StopRun
<1>21. ASSUME NEW c \in Client, NEW o, op' = [op EXCEPT ![c] = o],
              \A j : j \in blocked => j \in blocked' \/ (o.at = "requeue" /\ j \in o.jobs),
              At(c, "requeue") => op[c].jobs = {},
              UNCHANGED <<engine, daemon, exit, ghosts>>
       PROVE  Preserved'
  <2>1. op'[c] = o /\ \A d \in Client \ {c} : op'[d] = op[d]
    BY <1>0, <1>21 DEF TypeOK
  <2>2. \A j : Waiting(j) => Waiting(j)'
    BY <1>21, <2>1 DEF Waiting, At
  <2> QED
    BY <1>1, <1>21, <2>2
<1>22. ASSUME NEW c \in Client, OpenGate(c) \/ TakeBlocked(c) \/ Opened(c)
       PROVE  Preserved'
  <2>1. CASE OpenGate(c)
    BY <1>21, <2>1 DEF OpenGate, At
  <2>2. CASE TakeBlocked(c)
    BY <1>21, <2>2 DEF TakeBlocked, At
  <2>3. CASE Opened(c)
    BY <1>21, <2>3 DEF Opened, At
  <2> QED
    BY <1>22, <2>1, <2>2, <2>3
<1>28. ASSUME NEW c \in Client, Abort(c)
       PROVE  Preserved'
  <2>1. op'[c] = Free /\ \A d \in Client \ {c} : op'[d] = op[d]
    BY <1>0, <1>28 DEF Abort, TypeOK
  <2>2. \A j : Waiting(j) => Waiting(j)'
    BY <1>28, <2>1 DEF Abort, Waiting, At
  <2> QED
    BY <1>1, <1>28, <2>2 DEF Abort
<1>29. CASE Attach
  <2>1. /\ UNCHANGED <<jobOf, stage, channel, missed, owed, active, history, disk, main, durable,
                       blocked, catchUp, op, cutOff, up>>
        /\ pump'.at = "recv"
    BY <1>29 DEF Attach, Idle
  <2>2. Saved' /\ PastIsSaved'
    BY <1>0, <2>1 DEF Saved, PastIsSaved, RunsAt
  <2> QED
    BY <1>2, <2>1, <2>2, EngineStill, StillOwed DEF PastStays, Preserved
<1>23. CASE CloseGate
  BY <1>1, <1>2, <1>23 DEF CloseGate
<1>24. CASE Crash
  BY <1>24, CrashKeeps DEF Preserved
<1>25. CASE UNCHANGED vars
  BY <1>1, <1>2, <1>25 DEF vars
<1>26. ASSUME AskStop \/ FinishRuns
       PROVE  Preserved'
  <2>1. UNCHANGED <<jobOf, stage, channel, lagging, up, missed, owed, daemon, vault, durable, catchUp, cutOff>>
    BY <1>26 DEF AskStop, FinishRuns
  <2>2. main.at \in {"up", "wait"} /\ main'.at \in {"wait", "close"}
    BY <1>26 DEF AskStop, FinishRuns, Serving
  <2>3. Saved' /\ PastIsSaved'
    BY <1>0, <2>1, <2>2 DEF Saved, PastIsSaved, RunsAt
  <2> QED
    BY <1>2, <2>1, <2>3, EngineStill, StillOwed DEF PastStays, Preserved
<1>27. CASE EngineStops
  <2>1. \A q \in Run :
           \/ stage'[q] = stage[q]
           \/ stage[q] = "running" /\ stage'[q] = "stopping"
           \/ stage[q] = "queued" /\ stage'[q] = "dropped"
    BY <1>27 DEF EngineStops
  <2> QED
    BY <1>27, <2>1, CancelKeeps DEF EngineStops, Preserved
<1> QED
  BY <1>5, <1>6, <1>7, <1>8, <1>10, <1>11, <1>12, <1>13, <1>14, <1>15, <1>17, <1>18,
     <1>19, <1>20, <1>22, <1>23, <1>24, <1>25, <1>26, <1>27, <1>28, <1>29 DEF Next, PumpStep, StopStep

\* The channel stays empty until the pump listens, and from then on it does.
LEMMA UnheardStep == TypeOK /\ Unheard /\ [Next]_vars => Unheard'
<1> SUFFICES ASSUME TypeOK, Unheard, [Next]_vars PROVE Unheard'
  OBVIOUS
<1> USE DEF engine, daemon, exit, vault, ghosts
<1>1. ASSUME pump' = pump, channel' = channel PROVE Unheard'
  BY <1>1 DEF Unheard
<1>2. ASSUME pump'.at # "off" PROVE Unheard'
  BY <1>2 DEF Unheard, Off
<1>3. ASSUME pump' = pump, NEW kind \in Kinds, NEW r \in Run, Emit(kind, r) PROVE Unheard'
  BY <1>3 DEF Unheard, Emit
<1>4. ASSUME pump' = pump, NEW j, Enqueue(j) PROVE Unheard'
  BY <1>3, <1>4, EnqueueAccepts, EventTypes DEF Accept
<1>5. CASE Due \/ \E j \in Job : CatchUp(j)
  BY <1>1, <1>4, <1>5 DEF Due, CatchUp
<1>6. CASE \E c \in Client, j \in Job : Requeue(c, j)
  BY <1>1, <1>4, <1>6 DEF Requeue
<1>7. CASE \E r \in Run : Refuse(r) \/ Start(r) \/ Finish(r)
  BY <1>3, <1>7, EventTypes DEF Refuse, Start, Finish
<1>8. CASE \/ \E j \in Job : Cancel(j)
           \/ \E r \in Run : StopRun(r)
           \/ \E c \in Client : OpenGate(c) \/ TakeBlocked(c) \/ Opened(c) \/ Abort(c)
           \/ CloseGate \/ StopStep
  BY <1>1, <1>8 DEF Cancel, StopRun, OpenGate, TakeBlocked, Opened, Abort, CloseGate, StopStep,
     AskStop, FinishRuns, EngineStops, LastCopy, LastWrite
<1>9. CASE Attach \/ WriteState
  BY <1>2, <1>9 DEF Attach, WriteState, Idle
<1>10. CASE NoticeLag
  BY <1>1, <1>10 DEF NoticeLag
<1>11. CASE RecordSkip \/ CopyState
  BY <1>2, <1>11, PumpTypes DEF RecordSkip, CopyState, TypeOK
<1>12. ASSUME NEW r \in Run, OnLive(r) \/ OnFinished(r) \/ OnRefused(r) \/ OnLocked(r)
       PROVE  Unheard'
  BY <1>2, <1>12 DEF OnLive, OnFinished, OnRefused, OnLocked, Receive, Retire, Idle
<1>13. CASE Crash
  BY <1>13 DEF Crash, Unheard
<1>14. CASE UNCHANGED vars
  BY <1>1, <1>14 DEF vars
<1> QED
  BY <1>5, <1>6, <1>7, <1>8, <1>9, <1>10, <1>11, <1>12, <1>13, <1>14 DEF Next, PumpStep

LEMMA InvariantHolds == Spec => []IInv
<1>1. IInv /\ [Next]_vars => IInv'
  BY TypeStep, KnowledgeStep, UnheardStep DEF IInv, Preserved, Knowledge
<1> QED
  BY InitHolds, <1>1, PTL DEF Spec

----------------------------------------------------------------------------
(* Theorems.                                                               *)

\* The daemon's list of runs, its history, the channel and what clients hold
\* have their types, however many events are overwritten.
THEOREM DaemonTypeCorrect == Spec => []TypeOK
<1>1. IInv => TypeOK
  BY DEF IInv
<1> QED
  BY <1>1, InvariantHolds, PTL

\* A run in flight is in Runtime::active, or the event that puts it there is
\* in the channel, unless the channel overwrote one of its events.
THEOREM RunsInFlightAreTracked == Spec => []RunningIsTracked
<1>1. IInv => RunningIsTracked
  BY DEF IInv
<1> QED
  BY <1>1, InvariantHolds, PTL

\* What Runtime::active shows is live, or the event that retires it is in the
\* channel, but for a run stopped in the queue and one with an event lost.
THEOREM ActiveRunsAreCurrent == Spec => []ActiveIsCurrent
<1>1. IInv => ActiveIsCurrent
  BY DEF IInv
<1> QED
  BY <1>1, InvariantHolds, PTL

\* A run that a save has put in state.json, while no other save was about to
\* write a copy without it, stays in the history and in state.json, whichever
\* saves fail and however often the daemon crashes.
THEOREM HandledRunsAreDurable == Spec => []HandledIsDurable
<1>1. IInv => HandledIsDurable
  BY DEF IInv, Saved, HandledIsDurable
<1> QED
  BY <1>1, InvariantHolds, PTL

\* When the save of an orderly stop works, what the history held is in
\* state.json, though the pump goes on saving and its saves may fail: only an
\* older copy it was writing undoes that.
THEOREM StopsAreSaved == Spec => []StopIsSaved
<1>1. IInv => StopIsSaved
  BY DEF IInv, Saved, StopIsSaved
<1> QED
  BY <1>1, InvariantHolds, PTL

\* A job whose run the lock refused is asked for again by whoever opens the
\* vault or by the next start, but for an event the pump lost or did not listen
\* for yet, an unlock that was aborted with the job in its hands, and a
\* recorded skip.
THEOREM LockedOutJobsAreRemembered == Spec => []SkippedIsRemembered
<1>1. IInv => SkippedIsRemembered
  BY DEF IInv
<1> QED
  BY <1>1, InvariantHolds, PTL
=============================================================================
