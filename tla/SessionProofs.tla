--------------------------- MODULE SessionProofs ---------------------------
(***************************************************************************)
(* What an operation that has the daemon to itself leaves behind, for any  *)
(* number of connections, passphrases and operations at a time.            *)
(*                                                                         *)
(* The properties look at the end of an operation; the invariant follows   *)
(* it.  Script says, for each kind of operation, which of its consequences *)
(* are there at each of its places.  It need only say so of an operation   *)
(* that is alone, and while one is alone nobody else acts (Alone).         *)
(***************************************************************************)

EXTENDS Session, TLAPS

Record == [kind: Kind, at: Place, pass: Pass \cup {NoPass},
           note: {"none", "on", "off"}, fresh: BOOLEAN, alone: BOOLEAN]

\* One that is alone is the only one.
Alone == \A a \in Busy : op[a].alone => Busy = {a}

\* Places of the start-up before and after it opened the vault.
Before == {"boot", "takeKey", "openLocal", "open", "read", "openGate", "arm",
           "forgetLocal", "dropKey", "unread"}
Later == {"seal", "putKey", "remember", "clone", "push", "done"}

\* What a place says of the operation that is there.
Fit(a) ==
    /\ op[a].kind = "boot" <=> a = Boot
    /\ a = Boot => op[a].at \in Before \cup Later
    /\ op[a].at \in {"reseal", "wants"} => op[a].kind = "rotate"
    /\ op[a].at = "remember" => op[a].kind \in {"unlock", "boot", "rotate"}
    /\ op[a].at = "seal" \/ op[a].kind \in {"unlock", "rotate"} => op[a].pass \in Pass
    /\ a = Boot /\ op[a].at \in {"open", "read", "openGate", "arm"} => op[a].pass \in Pass
Fits == \A a \in Busy : Fit(a)

\* Until it arms the auto-lock, nothing can come between the start-up.
Early ==
    Boot \in Busy /\ op[Boot].at \in Before => op[Boot].alone /\ ~deadline

LockScript(a) == op[a].kind = "lock" =>
    /\ op[a].at \in {"shut", "closeGate", "forgetMaster", "disarm", "forgetLocal",
                     "dropKey", "done"}
    /\ op[a].at # "shut" => locked
    /\ op[a].at \notin {"shut", "closeGate"} => ~gate
    /\ op[a].at \in {"disarm", "forgetLocal", "dropKey", "done"} =>
         master = NoPass /\ ~confirmed
    /\ op[a].at \in {"forgetLocal", "dropKey", "done"} => ~deadline
    /\ op[a].at \in {"dropKey", "done"} => sidecar = NoPass

UnlockScript(a) == op[a].kind = "unlock" =>
    /\ op[a].at \in {"open", "read", "openGate", "arm", "seal", "putKey", "remember",
                     "confirm", "clone", "push", "done"}
    /\ op[a].at # "open" => ~locked
    /\ op[a].at \notin {"open", "read", "openGate"} => gate
    /\ op[a].at \notin {"open", "read", "openGate", "arm"} => deadline
    /\ op[a].at \in {"openGate", "arm"} => op[a].note = Note
    /\ op[a].at \notin {"open", "read", "openGate", "arm", "seal"} =>
         (setting /\ CacheOpens => sidecar = op[a].pass)
    /\ op[a].at = "putKey" => sidecar = op[a].pass
    /\ op[a].at \in {"confirm", "clone", "push", "done"} => master = op[a].pass
    /\ op[a].at = "push" => op[a].fresh
    /\ op[a].at = "done" => heard

BootScript(a) == op[a].kind = "boot" =>
    /\ ~confirmed
    /\ op[a].at \in {"boot", "takeKey", "openLocal", "open", "forgetLocal", "dropKey",
                     "unread"} => locked /\ ~gate /\ ~deadline
    /\ op[a].at = "open" => sidecar = op[a].pass
    /\ op[a].at = "forgetLocal" => ~(CacheOpens /\ sidecar = sealed)
    /\ op[a].at = "dropKey" => sidecar = NoPass
    /\ op[a].at \in {"read", "openGate", "arm"} \cup (Later \ {"done"}) =>
         ~locked /\ op[a].pass = sealed
    /\ op[a].at \in {"openGate", "arm"} => op[a].note = Note
    /\ op[a].at \in {"arm"} \cup (Later \ {"done"}) => gate
    /\ op[a].at \in Later \ {"done"} => deadline
    /\ op[a].at = "putKey" => sidecar = op[a].pass
    /\ op[a].at \in {"remember", "clone", "push"} =>
         (setting /\ CacheOpens => sidecar = sealed)
    /\ op[a].at \in {"clone", "push"} => master = op[a].pass
    /\ op[a].at = "done" /\ setting =>
         /\ gate = ~locked /\ deadline = ~locked
         /\ CacheOpens => ~locked /\ sidecar = sealed /\ master = sealed

CommitScript(a) == op[a].kind = "commit" =>
    /\ op[a].at \in {"save", "reload", "push", "done"}
    /\ op[a].at = "push" => op[a].fresh
    /\ op[a].at = "done" => heard

SettingsScript(a) == op[a].kind = "settings" =>
    /\ op[a].at \in {"save", "push", "after", "probe", "arm", "getMaster", "seal",
                     "putKey", "forgetLocal", "dropKey", "done"}
    /\ ~locked
    /\ op[a].at = "push" => op[a].fresh
    /\ op[a].at \notin {"save", "push"} => heard
    /\ op[a].at \in {"getMaster", "seal", "putKey", "forgetLocal", "dropKey", "done"} =>
         deadline
    /\ op[a].at \in {"getMaster", "seal", "putKey"} => op[a].note = "on"
    /\ op[a].at \in {"forgetLocal", "dropKey"} => op[a].note = "off"
    /\ op[a].at \in {"seal", "putKey"} => op[a].pass = master
    /\ op[a].at = "putKey" => sidecar = op[a].pass
    /\ op[a].at = "dropKey" => sidecar = NoPass
    /\ op[a].at = "done" /\ op[a].note = "off" => sidecar = NoPass
    /\ op[a].at = "done" /\ op[a].note = "on" /\ CacheOpens => master \in {sidecar, NoPass}

RotateScript(a) == op[a].kind = "rotate" =>
    /\ op[a].at \in {"reseal", "remember", "forgetLocal", "dropKey", "wants", "seal",
                     "putKey", "done"}
    /\ op[a].at # "reseal" => sealed = op[a].pass
    /\ op[a].at \notin {"reseal", "remember"} => master = op[a].pass
    /\ op[a].at \in {"dropKey", "wants"} => sidecar = NoPass
    /\ op[a].at \in {"seal", "putKey"} => setting
    /\ op[a].at = "putKey" => sidecar = op[a].pass
    /\ op[a].at = "done" /\ CacheOpens => setting /\ sidecar = sealed

Script(a) ==
    /\ LockScript(a) /\ UnlockScript(a) /\ BootScript(a)
    /\ CommitScript(a) /\ SettingsScript(a) /\ RotateScript(a)
Scripts == \A a \in Busy : op[a].alone => Script(a)

IInv == TypeOK /\ Alone /\ Fits /\ Early /\ Scripts

----------------------------------------------------------------------------
(* A step of one operation disturbs nobody who is alone.                   *)

LEMMA Records ==
  ASSUME NEW o \in Op
  PROVE  /\ o # Free <=> o \in Record
         /\ o # Free => o.kind \in Kind /\ o.kind # "free"
<1>1. Free \notin Record
  <2>1. Free.kind = "free" /\ \A r \in Record : r.kind \in Kind
    BY DEF Free, Record
  <2>2. "free" \notin Kind
    BY DEF Kind
  <2> QED
    BY <2>1, <2>2
<1>2. Op = {Free} \cup Record
  BY DEF Op, Record
<1>3. \A r \in Record : r.kind \in Kind /\ r.kind # "free"
  BY DEF Record, Kind
<1> QED
  BY <1>1, <1>2, <1>3

\* What everybody else is doing is what they were doing, but for the
\* configuration they hold.
Same(b) ==
    /\ op'[b] = Free <=> op[b] = Free
    /\ op'[b].kind = op[b].kind /\ op'[b].at = op[b].at
    /\ op'[b].pass = op[b].pass /\ op'[b].alone = op[b].alone

LEMMA Acting ==
  ASSUME IInv, NEW a \in Actor, a \in Busy,
         op' \in [Actor -> Op],
         \A b \in Actor \ {a} : Same(b),
         a \in Busy' => /\ op'[a].alone = op[a].alone
                        /\ Fit(a)'
                        /\ op'[a].alone => Script(a)'
                        /\ a = Boot /\ op'[a].at \in Before => op[a].alone /\ ~deadline'
  PROVE  Alone' /\ Fits' /\ Early' /\ Scripts'
<1>1. \A b \in Actor \ {a} : b \in Busy' <=> b \in Busy
  BY DEF Same, Busy
<1>2. \A b \in Busy' \ {a} : ~op[b].alone /\ ~op'[b].alone
  BY <1>1 DEF IInv, Alone, Busy, Same
<1>3. Alone'
  <2>1. a \in Busy' /\ op'[a].alone => Busy' = {a}
    BY <1>1 DEF IInv, Alone, Busy
  <2> QED
    BY <2>1, <1>2 DEF Alone, Busy
<1>4. Fits'
  <2>1. ASSUME NEW b \in Busy' PROVE Fit(b)'
    <3>1. CASE b = a
      BY <3>1, <2>1
    <3>2. CASE b # a
      <4>1. b \in Busy /\ Same(b)
        BY <3>2, <2>1, <1>1 DEF Busy
      <4>2. Fit(b)
        BY <4>1 DEF IInv, Fits
      <4> QED
        BY <4>1, <4>2 DEF Fit, Same
    <3> QED
      BY <3>1, <3>2
  <2> QED
    BY <2>1 DEF Fits
<1>5. Early'
  <2>1. CASE a = Boot
    BY <2>1 DEF Early
  <2>2. CASE a # Boot
    BY <2>2, <1>1 DEF Early, IInv, Same, Alone, Actor
  <2> QED
    BY <2>1, <2>2
<1>6. Scripts'
  BY <1>2 DEF Scripts
<1> QED
  BY <1>3, <1>4, <1>5, <1>6

LEMMA Moving ==
  ASSUME TypeOK, NEW a \in Actor, NEW r \in Op, op' = [op EXCEPT ![a] = r]
  PROVE  /\ op' \in [Actor -> Op] /\ op'[a] = r
         /\ \A b \in Actor \ {a} : Same(b)
BY DEF TypeOK, Same

LEMMA Placing ==
  ASSUME NEW o \in Record, NEW p \in Place
  PROVE  /\ Moved(o, p) \in Op
         /\ Moved(o, p) # Free =>
              /\ Moved(o, p).at = p /\ Moved(o, p).kind = o.kind
              /\ Moved(o, p).pass = o.pass /\ Moved(o, p).note = o.note
              /\ Moved(o, p).fresh = o.fresh /\ Moved(o, p).alone = o.alone
         /\ p # "done" => Moved(o, p) # Free
<1>1. [o EXCEPT !.at = p] \in Record
  BY DEF Record
<1>2. Free \in Op /\ Record \subseteq Op
  BY DEF Op, Record
<1>3. /\ Moved(o, p) \in {Free, [o EXCEPT !.at = p]}
      /\ p # "done" => Moved(o, p) = [o EXCEPT !.at = p]
  BY DEF Moved
<1>4. /\ [o EXCEPT !.at = p].at = p /\ [o EXCEPT !.at = p].kind = o.kind
      /\ [o EXCEPT !.at = p].pass = o.pass /\ [o EXCEPT !.at = p].note = o.note
      /\ [o EXCEPT !.at = p].fresh = o.fresh /\ [o EXCEPT !.at = p].alone = o.alone
  BY DEF Record
<1> QED
  BY <1>1, <1>2, <1>3, <1>4, Records

\* Who acts, and what its next place leaves of it.
LEMMA Standing ==
  ASSUME TypeOK, NEW a \in Actor, NEW p, At(a, p)
  PROVE  /\ a \in Busy /\ op[a] \in Record /\ op[a].at = p
         /\ p # "putKey" => opener # a
<1>1. a \in Busy /\ op[a].at = p /\ op[a] \in Op /\ op[a] # Free
  BY DEF At, Busy, TypeOK
<1>2. op[a] \in Record
  BY <1>1, Records
<1>3. opener = a => op[a].at = "putKey"
  BY DEF TypeOK, At
<1> QED
  BY <1>1, <1>2, <1>3

Kept(a) == /\ op'[a].kind = op[a].kind /\ op'[a].pass = op[a].pass
           /\ op'[a].note = op[a].note /\ op'[a].fresh = op[a].fresh
           /\ op'[a].alone = op[a].alone

LEMMA Landing ==
  ASSUME TypeOK, NEW a \in Busy, NEW o \in Record, NEW p \in Place,
         op' = [op EXCEPT ![a] = Moved(o, p)]
  PROVE  /\ op' \in [Actor -> Op]
         /\ \A b \in Actor \ {a} : Same(b)
         /\ a \in Busy' =>
              /\ op'[a].at = p /\ op'[a].kind = o.kind
              /\ op'[a].pass = o.pass /\ op'[a].note = o.note
              /\ op'[a].fresh = o.fresh /\ op'[a].alone = o.alone
         /\ p # "done" => a \in Busy'
<1>1. a \in Actor /\ Moved(o, p) \in Op
  BY Placing DEF Busy
<1>2. /\ op' \in [Actor -> Op] /\ op'[a] = Moved(o, p)
      /\ \A b \in Actor \ {a} : Same(b)
  BY <1>1, Moving
<1> QED
  BY <1>1, <1>2, Placing DEF Busy

LEMMA Going ==
  ASSUME TypeOK, NEW a \in Busy, NEW p \in Place, Goto(a, p)
  PROVE  /\ op' \in [Actor -> Op]
         /\ \A b \in Actor \ {a} : Same(b)
         /\ a \in Busy' => op'[a].at = p /\ Kept(a)
         /\ p # "done" => a \in Busy'
<1>1. op[a] \in Record
  BY Records DEF Busy, TypeOK
<1>2. op' = [op EXCEPT ![a] = Moved(op[a], p)]
  BY DEF Goto
<1>3. /\ op' \in [Actor -> Op]
      /\ \A b \in Actor \ {a} : Same(b)
      /\ a \in Busy' =>
           /\ op'[a].at = p /\ op'[a].kind = op[a].kind
           /\ op'[a].pass = op[a].pass /\ op'[a].note = op[a].note
           /\ op'[a].fresh = op[a].fresh /\ op'[a].alone = op[a].alone
      /\ p # "done" => a \in Busy'
  BY <1>1, <1>2, Landing
<1> QED
  BY <1>3 DEF Kept

LEMMA Leaving ==
  ASSUME TypeOK, NEW a \in Busy, Leave(a)
  PROVE  /\ op' \in [Actor -> Op] /\ a \notin Busy'
         /\ \A b \in Actor \ {a} : Same(b)
<1>1. a \in Actor /\ Free \in Op
  BY DEF Busy, Op
<1>2. op' \in [Actor -> Op] /\ op'[a] = Free /\ \A b \in Actor \ {a} : Same(b)
  BY <1>1, Moving DEF Leave
<1> QED
  BY <1>2 DEF Busy

\* The wrap key stays with whoever has it.
LEMMA Holding ==
  ASSUME TypeOK, NEW a \in Actor, \A b \in Actor \ {a} : Same(b),
         opener' \in Actor \ {a} => opener' = opener,
         opener' = a => a \in Busy' /\ op'[a].at = "putKey"
  PROVE  opener' \in Actor => At(opener, "putKey")'
BY DEF TypeOK, At, Same, Busy

----------------------------------------------------------------------------
(* One lemma for each step of an operation.                                *)

\* The types of what is not an operation.
Typed ==
    /\ sealed \in Pass /\ setting \in BOOLEAN
    /\ sidecar \in Pass \cup {NoPass}
    /\ opener \in Actor \cup {"os", "nobody"}
    /\ locked \in BOOLEAN /\ gate \in BOOLEAN
    /\ master \in Pass \cup {NoPass}
    /\ confirmed \in BOOLEAN /\ deadline \in BOOLEAN /\ heard \in BOOLEAN
    /\ sidecar = NoPass => opener = "nobody"

LEMMA TypeIsParts ==
  TypeOK <=> Typed /\ op \in [Actor -> Op] /\ (opener \in Actor => At(opener, "putKey"))
BY DEF TypeOK, Typed

\* What has to be shown of a step of an operation.
LEMMA Keeping ==
  ASSUME IInv, NEW a \in Busy, Typed',
         op' \in [Actor -> Op], \A b \in Actor \ {a} : Same(b),
         opener' \in Actor \ {a} => opener' = opener,
         opener' = a => a \in Busy' /\ op'[a].at = "putKey",
         a \in Busy' => /\ op'[a].alone = op[a].alone
                        /\ Fit(a)'
                        /\ op'[a].alone => Script(a)'
                        /\ a = Boot /\ op'[a].at \in Before => op[a].alone /\ ~deadline'
  PROVE  IInv'
<1>1. a \in Actor
  BY DEF Busy
<1>2. TypeOK /\ TypeOK'
  BY <1>1, Holding DEF IInv, TypeOK, Typed
<1> QED
  BY <1>1, <1>2, Acting DEF IInv

LEMMA OpenGateKeeps ==
  ASSUME IInv, NEW a \in Actor, OpenGate(a)
  PROVE  IInv'
<1>1. /\ a \in Busy /\ op[a] \in Record /\ op[a].at = "openGate" /\ TypeOK /\ opener # a
      /\ Typed /\ Fit(a) /\ (op[a].alone => Script(a))
  BY Standing, TypeIsParts DEF OpenGate, IInv, Fits, Scripts
<1>2. /\ op' \in [Actor -> Op] /\ \A b \in Actor \ {a} : Same(b)
      /\ a \in Busy' => op'[a].at = "arm" /\ Kept(a)
  BY <1>1, Going DEF OpenGate, Place
<1>3. Typed' /\ (opener' \in Actor => opener' = opener)
  BY <1>1, ActorAssumption DEF OpenGate, Typed, Record, Fit, Actor, disk, memory
<1>4. a \in Busy' => /\ op'[a].alone = op[a].alone
                     /\ Fit(a)'
                     /\ a = Boot /\ op'[a].at \in Before => op[a].alone /\ ~deadline'
  BY <1>1, <1>2 DEF OpenGate, IInv, Early, Fit, Kept, Before, Later, disk, memory
<1>5. a \in Busy' /\ op'[a].alone => Script(a)'
  BY <1>1, <1>2 DEF OpenGate, IInv, Fit, Kept, Script, LockScript, UnlockScript, BootScript, CommitScript, SettingsScript, RotateScript, Note, CacheOpens, Before, Later, Typed, disk, memory
<1> QED
  BY <1>1, <1>2, <1>3, <1>4, <1>5, Keeping

LEMMA RememberKeeps ==
  ASSUME IInv, NEW a \in Actor, Remember(a)
  PROVE  IInv'
<1>1. /\ a \in Busy /\ op[a] \in Record /\ op[a].at = "remember" /\ TypeOK /\ opener # a
      /\ Typed /\ Fit(a) /\ (op[a].alone => Script(a))
  BY Standing, TypeIsParts DEF Remember, IInv, Fits, Scripts
<1>2. /\ op' \in [Actor -> Op] /\ \A b \in Actor \ {a} : Same(b)
      /\ a \in Busy' => op'[a].at = AfterRemember(a) /\ Kept(a)
  BY <1>1, Going DEF Remember, AfterRemember, Place
<1>3. Typed' /\ (opener' \in Actor => opener' = opener)
  BY <1>1, ActorAssumption DEF Remember, AfterRemember, Typed, Record, Fit, Actor, disk, memory
<1>4. a \in Busy' => /\ op'[a].alone = op[a].alone
                     /\ Fit(a)'
                     /\ a = Boot /\ op'[a].at \in Before => op[a].alone /\ ~deadline'
  BY <1>1, <1>2 DEF Remember, AfterRemember, IInv, Early, Fit, Kept, Before, Later, disk, memory
<1>5. a \in Busy' /\ op'[a].alone => Script(a)'
  BY <1>1, <1>2 DEF Remember, AfterRemember, IInv, Fit, Kept, Script, LockScript, UnlockScript, BootScript, CommitScript, SettingsScript, RotateScript, Note, CacheOpens, Before, Later, Typed, disk, memory
<1> QED
  BY <1>1, <1>2, <1>3, <1>4, <1>5, Keeping

LEMMA ConfirmKeeps ==
  ASSUME IInv, NEW a \in Actor, Confirm(a)
  PROVE  IInv'
<1>1. /\ a \in Busy /\ op[a] \in Record /\ op[a].at = "confirm" /\ TypeOK /\ opener # a
      /\ Typed /\ Fit(a) /\ (op[a].alone => Script(a))
  BY Standing, TypeIsParts DEF Confirm, IInv, Fits, Scripts
<1>2. /\ op' \in [Actor -> Op] /\ \A b \in Actor \ {a} : Same(b)
      /\ a \in Busy' => op'[a].at = "clone" /\ Kept(a)
  BY <1>1, Going DEF Confirm, Place
<1>3. Typed' /\ (opener' \in Actor => opener' = opener)
  BY <1>1, ActorAssumption DEF Confirm, Typed, Record, Fit, Actor, disk, memory
<1>4. a \in Busy' => /\ op'[a].alone = op[a].alone
                     /\ Fit(a)'
                     /\ a = Boot /\ op'[a].at \in Before => op[a].alone /\ ~deadline'
  BY <1>1, <1>2 DEF Confirm, IInv, Early, Fit, Kept, Before, Later, disk, memory
<1>5. a \in Busy' /\ op'[a].alone => Script(a)'
  BY <1>1, <1>2 DEF Confirm, IInv, Fit, Kept, Script, LockScript, UnlockScript, BootScript, CommitScript, SettingsScript, RotateScript, Note, CacheOpens, Before, Later, Typed, disk, memory
<1> QED
  BY <1>1, <1>2, <1>3, <1>4, <1>5, Keeping

LEMMA ShutKeeps ==
  ASSUME IInv, NEW a \in Actor, Shut(a)
  PROVE  IInv'
<1>1. /\ a \in Busy /\ op[a] \in Record /\ op[a].at = "shut" /\ TypeOK /\ opener # a
      /\ Typed /\ Fit(a) /\ (op[a].alone => Script(a))
  BY Standing, TypeIsParts DEF Shut, IInv, Fits, Scripts
<1>2. /\ op' \in [Actor -> Op] /\ \A b \in Actor \ {a} : Same(b)
      /\ a \in Busy' => op'[a].at = "closeGate" /\ Kept(a)
  BY <1>1, Going DEF Shut, Place
<1>3. Typed' /\ (opener' \in Actor => opener' = opener)
  BY <1>1, ActorAssumption DEF Shut, Typed, Record, Fit, Actor, disk, memory
<1>4. a \in Busy' => /\ op'[a].alone = op[a].alone
                     /\ Fit(a)'
                     /\ a = Boot /\ op'[a].at \in Before => op[a].alone /\ ~deadline'
  BY <1>1, <1>2 DEF Shut, IInv, Early, Fit, Kept, Before, Later, disk, memory
<1>5. a \in Busy' /\ op'[a].alone => Script(a)'
  BY <1>1, <1>2 DEF Shut, IInv, Fit, Kept, Script, LockScript, UnlockScript, BootScript, CommitScript, SettingsScript, RotateScript, Note, CacheOpens, Before, Later, Typed, disk, memory
<1> QED
  BY <1>1, <1>2, <1>3, <1>4, <1>5, Keeping

LEMMA CloseGateKeeps ==
  ASSUME IInv, NEW a \in Actor, CloseGate(a)
  PROVE  IInv'
<1>1. /\ a \in Busy /\ op[a] \in Record /\ op[a].at = "closeGate" /\ TypeOK /\ opener # a
      /\ Typed /\ Fit(a) /\ (op[a].alone => Script(a))
  BY Standing, TypeIsParts DEF CloseGate, IInv, Fits, Scripts
<1>2. /\ op' \in [Actor -> Op] /\ \A b \in Actor \ {a} : Same(b)
      /\ a \in Busy' => op'[a].at = "forgetMaster" /\ Kept(a)
  BY <1>1, Going DEF CloseGate, Place
<1>3. Typed' /\ (opener' \in Actor => opener' = opener)
  BY <1>1, ActorAssumption DEF CloseGate, Typed, Record, Fit, Actor, disk, memory
<1>4. a \in Busy' => /\ op'[a].alone = op[a].alone
                     /\ Fit(a)'
                     /\ a = Boot /\ op'[a].at \in Before => op[a].alone /\ ~deadline'
  BY <1>1, <1>2 DEF CloseGate, IInv, Early, Fit, Kept, Before, Later, disk, memory
<1>5. a \in Busy' /\ op'[a].alone => Script(a)'
  BY <1>1, <1>2 DEF CloseGate, IInv, Fit, Kept, Script, LockScript, UnlockScript, BootScript, CommitScript, SettingsScript, RotateScript, Note, CacheOpens, Before, Later, Typed, disk, memory
<1> QED
  BY <1>1, <1>2, <1>3, <1>4, <1>5, Keeping

LEMMA ForgetMasterKeeps ==
  ASSUME IInv, NEW a \in Actor, ForgetMaster(a)
  PROVE  IInv'
<1>1. /\ a \in Busy /\ op[a] \in Record /\ op[a].at = "forgetMaster" /\ TypeOK /\ opener # a
      /\ Typed /\ Fit(a) /\ (op[a].alone => Script(a))
  BY Standing, TypeIsParts DEF ForgetMaster, IInv, Fits, Scripts
<1>2. /\ op' \in [Actor -> Op] /\ \A b \in Actor \ {a} : Same(b)
      /\ a \in Busy' => op'[a].at = "disarm" /\ Kept(a)
  BY <1>1, Going DEF ForgetMaster, Place
<1>3. Typed' /\ (opener' \in Actor => opener' = opener)
  BY <1>1, ActorAssumption DEF ForgetMaster, Typed, Record, Fit, Actor, disk, memory
<1>4. a \in Busy' => /\ op'[a].alone = op[a].alone
                     /\ Fit(a)'
                     /\ a = Boot /\ op'[a].at \in Before => op[a].alone /\ ~deadline'
  BY <1>1, <1>2 DEF ForgetMaster, IInv, Early, Fit, Kept, Before, Later, disk, memory
<1>5. a \in Busy' /\ op'[a].alone => Script(a)'
  BY <1>1, <1>2 DEF ForgetMaster, IInv, Fit, Kept, Script, LockScript, UnlockScript, BootScript, CommitScript, SettingsScript, RotateScript, Note, CacheOpens, Before, Later, Typed, disk, memory
<1> QED
  BY <1>1, <1>2, <1>3, <1>4, <1>5, Keeping

LEMMA DisarmKeeps ==
  ASSUME IInv, NEW a \in Actor, Disarm(a)
  PROVE  IInv'
<1>1. /\ a \in Busy /\ op[a] \in Record /\ op[a].at = "disarm" /\ TypeOK /\ opener # a
      /\ Typed /\ Fit(a) /\ (op[a].alone => Script(a))
  BY Standing, TypeIsParts DEF Disarm, IInv, Fits, Scripts
<1>2. /\ op' \in [Actor -> Op] /\ \A b \in Actor \ {a} : Same(b)
      /\ a \in Busy' => op'[a].at = (IF op[a].kind = "lock" THEN "forgetLocal" ELSE "done") /\ Kept(a)
  BY <1>1, Going DEF Disarm, Place
<1>3. Typed' /\ (opener' \in Actor => opener' = opener)
  BY <1>1, ActorAssumption DEF Disarm, Typed, Record, Fit, Actor, disk, memory
<1>4. a \in Busy' => /\ op'[a].alone = op[a].alone
                     /\ Fit(a)'
                     /\ a = Boot /\ op'[a].at \in Before => op[a].alone /\ ~deadline'
  BY <1>1, <1>2 DEF Disarm, IInv, Early, Fit, Kept, Before, Later, disk, memory
<1>5. a \in Busy' /\ op'[a].alone => Script(a)'
  BY <1>1, <1>2 DEF Disarm, IInv, Fit, Kept, Script, LockScript, UnlockScript, BootScript, CommitScript, SettingsScript, RotateScript, Note, CacheOpens, Before, Later, Typed, disk, memory
<1> QED
  BY <1>1, <1>2, <1>3, <1>4, <1>5, Keeping

LEMMA ProbeKeeps ==
  ASSUME IInv, NEW a \in Actor, Probe(a)
  PROVE  IInv'
<1>1. /\ a \in Busy /\ op[a] \in Record /\ op[a].at = "probe" /\ TypeOK /\ opener # a
      /\ Typed /\ Fit(a) /\ (op[a].alone => Script(a))
  BY Standing, TypeIsParts DEF Probe, IInv, Fits, Scripts
<1>2. /\ op' \in [Actor -> Op] /\ \A b \in Actor \ {a} : Same(b)
      /\ a \in Busy' => op'[a].at = (IF ~locked THEN "arm" ELSE IF op[a].note = "off" THEN "forgetLocal" ELSE "done") /\ Kept(a)
  BY <1>1, Going DEF Probe, Place
<1>3. Typed' /\ (opener' \in Actor => opener' = opener)
  BY <1>1, ActorAssumption DEF Probe, Typed, Record, Fit, Actor, disk, memory
<1>4. a \in Busy' => /\ op'[a].alone = op[a].alone
                     /\ Fit(a)'
                     /\ a = Boot /\ op'[a].at \in Before => op[a].alone /\ ~deadline'
  BY <1>1, <1>2 DEF Probe, IInv, Early, Fit, Kept, Before, Later, disk, memory
<1>5. a \in Busy' /\ op'[a].alone => Script(a)'
  BY <1>1, <1>2 DEF Probe, IInv, Fit, Kept, Script, LockScript, UnlockScript, BootScript, CommitScript, SettingsScript, RotateScript, Note, CacheOpens, Before, Later, Typed, disk, memory
<1> QED
  BY <1>1, <1>2, <1>3, <1>4, <1>5, Keeping

LEMMA WantsKeeps ==
  ASSUME IInv, NEW a \in Actor, Wants(a)
  PROVE  IInv'
<1>1. /\ a \in Busy /\ op[a] \in Record /\ op[a].at = "wants" /\ TypeOK /\ opener # a
      /\ Typed /\ Fit(a) /\ (op[a].alone => Script(a))
  BY Standing, TypeIsParts DEF Wants, IInv, Fits, Scripts
<1>2. /\ op' \in [Actor -> Op] /\ \A b \in Actor \ {a} : Same(b)
      /\ a \in Busy' => op'[a].at = (IF setting THEN "seal" ELSE "done") /\ Kept(a)
  BY <1>1, Going DEF Wants, Place
<1>3. Typed' /\ (opener' \in Actor => opener' = opener)
  BY <1>1, ActorAssumption DEF Wants, Typed, Record, Fit, Actor, disk, memory
<1>4. a \in Busy' => /\ op'[a].alone = op[a].alone
                     /\ Fit(a)'
                     /\ a = Boot /\ op'[a].at \in Before => op[a].alone /\ ~deadline'
  BY <1>1, <1>2 DEF Wants, IInv, Early, Fit, Kept, Before, Later, disk, memory
<1>5. a \in Busy' /\ op'[a].alone => Script(a)'
  BY <1>1, <1>2 DEF Wants, IInv, Fit, Kept, Script, LockScript, UnlockScript, BootScript, CommitScript, SettingsScript, RotateScript, Note, CacheOpens, Before, Later, Typed, disk, memory
<1> QED
  BY <1>1, <1>2, <1>3, <1>4, <1>5, Keeping

LEMMA ResealKeeps ==
  ASSUME IInv, NEW a \in Actor, Reseal(a)
  PROVE  IInv'
<1>1. /\ a \in Busy /\ op[a] \in Record /\ op[a].at = "reseal" /\ TypeOK /\ opener # a
      /\ Typed /\ Fit(a) /\ (op[a].alone => Script(a))
  BY Standing, TypeIsParts DEF Reseal, IInv, Fits, Scripts
<1>2. /\ op' \in [Actor -> Op] /\ \A b \in Actor \ {a} : Same(b)
      /\ a \in Busy' => op'[a].at = "remember" /\ Kept(a)
  BY <1>1, Going DEF Reseal, Place
<1>3. Typed' /\ (opener' \in Actor => opener' = opener)
  BY <1>1, ActorAssumption DEF Reseal, Typed, Record, Fit, Actor, disk, memory
<1>4. a \in Busy' => /\ op'[a].alone = op[a].alone
                     /\ Fit(a)'
                     /\ a = Boot /\ op'[a].at \in Before => op[a].alone /\ ~deadline'
  BY <1>1, <1>2 DEF Reseal, IInv, Early, Fit, Kept, Before, Later, disk, memory
<1>5. a \in Busy' /\ op'[a].alone => Script(a)'
  BY <1>1, <1>2 DEF Reseal, IInv, Fit, Kept, Script, LockScript, UnlockScript, BootScript, CommitScript, SettingsScript, RotateScript, Note, CacheOpens, Before, Later, Typed, disk, memory
<1> QED
  BY <1>1, <1>2, <1>3, <1>4, <1>5, Keeping

LEMMA ForgetLocalKeeps ==
  ASSUME IInv, NEW a \in Actor, ForgetLocal(a)
  PROVE  IInv'
<1>1. /\ a \in Busy /\ op[a] \in Record /\ op[a].at = "forgetLocal" /\ TypeOK /\ opener # a
      /\ Typed /\ Fit(a) /\ (op[a].alone => Script(a))
  BY Standing, TypeIsParts DEF ForgetLocal, IInv, Fits, Scripts
<1>2. /\ op' \in [Actor -> Op] /\ \A b \in Actor \ {a} : Same(b)
      /\ a \in Busy' => op'[a].at = (IF sidecar = NoPass /\ op[a].kind \in {"lock", "rotate"} THEN AfterForget(a) ELSE "dropKey") /\ Kept(a)
  BY <1>1, Going DEF ForgetLocal, AfterForget, Place
<1>3. Typed' /\ (opener' \in Actor => opener' = opener)
  BY <1>1, ActorAssumption DEF ForgetLocal, AfterForget, Typed, Record, Fit, Actor, disk, memory
<1>4. a \in Busy' => /\ op'[a].alone = op[a].alone
                     /\ Fit(a)'
                     /\ a = Boot /\ op'[a].at \in Before => op[a].alone /\ ~deadline'
  BY <1>1, <1>2 DEF ForgetLocal, AfterForget, IInv, Early, Fit, Kept, Before, Later, disk, memory
<1>5. a \in Busy' /\ op'[a].alone => Script(a)'
  BY <1>1, <1>2 DEF ForgetLocal, AfterForget, IInv, Fit, Kept, Script, LockScript, UnlockScript, BootScript, CommitScript, SettingsScript, RotateScript, Note, CacheOpens, Before, Later, Typed, disk, memory
<1> QED
  BY <1>1, <1>2, <1>3, <1>4, <1>5, Keeping

LEMMA DropKeyKeeps ==
  ASSUME IInv, NEW a \in Actor, DropKey(a)
  PROVE  IInv'
<1>1. /\ a \in Busy /\ op[a] \in Record /\ op[a].at = "dropKey" /\ TypeOK /\ opener # a
      /\ Typed /\ Fit(a) /\ (op[a].alone => Script(a))
  BY Standing, TypeIsParts DEF DropKey, IInv, Fits, Scripts
<1>2. /\ op' \in [Actor -> Op] /\ \A b \in Actor \ {a} : Same(b)
      /\ a \in Busy' => op'[a].at = AfterForget(a) /\ Kept(a)
  BY <1>1, Going DEF DropKey, AfterForget, KeyDropped, Place
<1>3. Typed' /\ (opener' \in Actor => opener' = opener)
  BY <1>1, ActorAssumption DEF DropKey, AfterForget, KeyDropped, Typed, Record, Fit, Actor, disk, memory
<1>4. a \in Busy' => /\ op'[a].alone = op[a].alone
                     /\ Fit(a)'
                     /\ a = Boot /\ op'[a].at \in Before => op[a].alone /\ ~deadline'
  BY <1>1, <1>2 DEF DropKey, AfterForget, KeyDropped, IInv, Early, Fit, Kept, Before, Later, disk, memory
<1>5. a \in Busy' /\ op'[a].alone => Script(a)'
  BY <1>1, <1>2 DEF DropKey, AfterForget, KeyDropped, IInv, Fit, Kept, Script, LockScript, UnlockScript, BootScript, CommitScript, SettingsScript, RotateScript, Note, CacheOpens, Before, Later, Typed, disk, memory
<1> QED
  BY <1>1, <1>2, <1>3, <1>4, <1>5, Keeping

LEMMA ReadKeeps ==
  ASSUME IInv, NEW a \in Actor, Read(a)
  PROVE  IInv'
<1>1. /\ a \in Busy /\ op[a] \in Record /\ op[a].at = "read" /\ TypeOK /\ opener # a
      /\ Typed /\ Fit(a) /\ (op[a].alone => Script(a))
  BY Standing, TypeIsParts DEF Read, IInv, Fits, Scripts
<1>2. [op[a] EXCEPT !.at = "openGate", !.note = Note] \in Record
  BY <1>1 DEF Record, Place, Note, Typed
<1>3. /\ op' = [op EXCEPT ![a] = [op[a] EXCEPT !.at = "openGate", !.note = Note]]
      /\ [op[a] EXCEPT !.at = "openGate", !.note = Note] \in Op
  BY <1>1, <1>2 DEF Read, Op, Record
<1>4. /\ op' \in [Actor -> Op] /\ op'[a] = [op[a] EXCEPT !.at = "openGate", !.note = Note]
      /\ \A b \in Actor \ {a} : Same(b)
  BY <1>1, <1>3, Moving DEF Busy
<1>5. op'[a].at = "openGate" /\ op'[a].kind = op[a].kind /\ op'[a].pass = op[a].pass /\ op'[a].note = Note /\ op'[a].fresh = op[a].fresh /\ op'[a].alone = op[a].alone
  BY <1>1, <1>4 DEF Record
<1>6. Typed' /\ (opener' \in Actor => opener' = opener)
  BY <1>1, ActorAssumption DEF Read, Typed, Record, Fit, Actor, disk, memory
<1>7. a \in Busy' => /\ op'[a].alone = op[a].alone
                     /\ Fit(a)'
                     /\ a = Boot /\ op'[a].at \in Before => op[a].alone /\ ~deadline'
  BY <1>1, <1>5 DEF Read, IInv, Early, Fit, Before, Later, disk, memory
<1>8. a \in Busy' /\ op'[a].alone => Script(a)'
  BY <1>1, <1>5 DEF Read, IInv, Fit, Script, LockScript, UnlockScript, BootScript, CommitScript, SettingsScript, RotateScript, Note, CacheOpens, Before, Later, Typed, disk, memory
<1> QED
  BY <1>1, <1>4, <1>5, <1>6, <1>7, <1>8, Keeping

LEMMA CloneKeeps ==
  ASSUME IInv, NEW a \in Actor, Clone(a)
  PROVE  IInv'
<1>1. /\ a \in Busy /\ op[a] \in Record /\ op[a].at = "clone" /\ TypeOK /\ opener # a
      /\ Typed /\ Fit(a) /\ (op[a].alone => Script(a))
  BY Standing, TypeIsParts DEF Clone, IInv, Fits, Scripts
<1>2. [op[a] EXCEPT !.at = "push", !.fresh = TRUE] \in Record
  BY <1>1 DEF Record, Place, Note, Typed
<1>3. /\ op' = [op EXCEPT ![a] = [op[a] EXCEPT !.at = "push", !.fresh = TRUE]]
      /\ [op[a] EXCEPT !.at = "push", !.fresh = TRUE] \in Op
  BY <1>1, <1>2 DEF Clone, Op, Record
<1>4. /\ op' \in [Actor -> Op] /\ op'[a] = [op[a] EXCEPT !.at = "push", !.fresh = TRUE]
      /\ \A b \in Actor \ {a} : Same(b)
  BY <1>1, <1>3, Moving DEF Busy
<1>5. op'[a].at = "push" /\ op'[a].kind = op[a].kind /\ op'[a].pass = op[a].pass /\ op'[a].note = op[a].note /\ op'[a].fresh = TRUE /\ op'[a].alone = op[a].alone
  BY <1>1, <1>4 DEF Record
<1>6. Typed' /\ (opener' \in Actor => opener' = opener)
  BY <1>1, ActorAssumption DEF Clone, Typed, Record, Fit, Actor, disk, memory
<1>7. a \in Busy' => /\ op'[a].alone = op[a].alone
                     /\ Fit(a)'
                     /\ a = Boot /\ op'[a].at \in Before => op[a].alone /\ ~deadline'
  BY <1>1, <1>5 DEF Clone, IInv, Early, Fit, Before, Later, disk, memory
<1>8. a \in Busy' /\ op'[a].alone => Script(a)'
  BY <1>1, <1>5 DEF Clone, IInv, Fit, Script, LockScript, UnlockScript, BootScript, CommitScript, SettingsScript, RotateScript, Note, CacheOpens, Before, Later, Typed, disk, memory
<1> QED
  BY <1>1, <1>4, <1>5, <1>6, <1>7, <1>8, Keeping

LEMMA AfterKeeps ==
  ASSUME IInv, NEW a \in Actor, After(a)
  PROVE  IInv'
<1>1. /\ a \in Busy /\ op[a] \in Record /\ op[a].at = "after" /\ TypeOK /\ opener # a
      /\ Typed /\ Fit(a) /\ (op[a].alone => Script(a))
  BY Standing, TypeIsParts DEF After, IInv, Fits, Scripts
<1>2. [op[a] EXCEPT !.at = "probe", !.note = IF @ = Note THEN "none" ELSE Note] \in Record
  BY <1>1 DEF Record, Place, Note, Typed
<1>3. /\ op' = [op EXCEPT ![a] = [op[a] EXCEPT !.at = "probe", !.note = IF @ = Note THEN "none" ELSE Note]]
      /\ [op[a] EXCEPT !.at = "probe", !.note = IF @ = Note THEN "none" ELSE Note] \in Op
  BY <1>1, <1>2 DEF After, Op, Record
<1>4. /\ op' \in [Actor -> Op] /\ op'[a] = [op[a] EXCEPT !.at = "probe", !.note = IF @ = Note THEN "none" ELSE Note]
      /\ \A b \in Actor \ {a} : Same(b)
  BY <1>1, <1>3, Moving DEF Busy
<1>5. op'[a].at = "probe" /\ op'[a].kind = op[a].kind /\ op'[a].pass = op[a].pass /\ op'[a].note = (IF op[a].note = Note THEN "none" ELSE Note) /\ op'[a].fresh = op[a].fresh /\ op'[a].alone = op[a].alone
  BY <1>1, <1>4 DEF Record
<1>6. Typed' /\ (opener' \in Actor => opener' = opener)
  BY <1>1, ActorAssumption DEF After, Typed, Record, Fit, Actor, disk, memory
<1>7. a \in Busy' => /\ op'[a].alone = op[a].alone
                     /\ Fit(a)'
                     /\ a = Boot /\ op'[a].at \in Before => op[a].alone /\ ~deadline'
  BY <1>1, <1>5 DEF After, IInv, Early, Fit, Before, Later, disk, memory
<1>8. a \in Busy' /\ op'[a].alone => Script(a)'
  BY <1>1, <1>5 DEF After, IInv, Fit, Script, LockScript, UnlockScript, BootScript, CommitScript, SettingsScript, RotateScript, Note, CacheOpens, Before, Later, Typed, disk, memory
<1> QED
  BY <1>1, <1>4, <1>5, <1>6, <1>7, <1>8, Keeping

LEMMA RejectKeeps ==
  ASSUME IInv, NEW a \in Actor, Reject(a)
  PROVE  IInv'
<1>1. a \in Busy /\ Typed /\ TypeOK /\ opener # a /\ Leave(a) /\ UNCHANGED <<disk, memory>>
  BY Standing, TypeIsParts DEF Reject, Saving, IInv
<1>2. op' \in [Actor -> Op] /\ a \notin Busy' /\ \A b \in Actor \ {a} : Same(b)
  BY <1>1, Leaving
<1>3. Typed' /\ opener' = opener
  BY <1>1 DEF Typed, disk, memory
<1> QED
  BY <1>1, <1>2, <1>3, Keeping

LEMMA RefuseKeeps ==
  ASSUME IInv, NEW a \in Actor, Refuse(a)
  PROVE  IInv'
<1>1. a \in Busy /\ Typed /\ TypeOK /\ opener # a /\ Leave(a) /\ UNCHANGED <<disk, memory>>
  BY Standing, TypeIsParts DEF Refuse, IInv
<1>2. op' \in [Actor -> Op] /\ a \notin Busy' /\ \A b \in Actor \ {a} : Same(b)
  BY <1>1, Leaving
<1>3. Typed' /\ opener' = opener
  BY <1>1 DEF Typed, disk, memory
<1> QED
  BY <1>1, <1>2, <1>3, Keeping

LEMMA FinishKeeps ==
  ASSUME IInv, NEW a \in Actor, Finish(a)
  PROVE  IInv'
<1>1. a \in Busy /\ Typed /\ TypeOK /\ opener # a /\ Leave(a) /\ UNCHANGED <<disk, memory>>
  BY Standing, TypeIsParts DEF Finish, IInv
<1>2. op' \in [Actor -> Op] /\ a \notin Busy' /\ \A b \in Actor \ {a} : Same(b)
  BY <1>1, Leaving
<1>3. Typed' /\ opener' = opener
  BY <1>1 DEF Typed, disk, memory
<1> QED
  BY <1>1, <1>2, <1>3, Keeping

LEMMA OpenKeeps ==
  ASSUME IInv, NEW a \in Actor, Open(a)
  PROVE  IInv'
<1>1. /\ a \in Busy /\ op[a] \in Record /\ op[a].at = "open" /\ TypeOK /\ opener # a
      /\ Typed /\ Fit(a) /\ (op[a].alone => Script(a))
  BY Standing, TypeIsParts DEF Open, IInv, Fits, Scripts
<1>2. /\ op' \in [Actor -> Op] /\ \A b \in Actor \ {a} : Same(b)
      /\ a \in Busy' => /\ Kept(a)
                        /\ \/ /\ op'[a].at = "read" /\ locked' = FALSE
                              /\ op[a].pass = sealed \/ op[a].kind = "unlock"
                           \/ /\ op'[a].at = "forgetLocal" /\ op[a].kind = "boot"
                              /\ op[a].pass # sealed /\ locked' = locked
  <2>1. CASE op[a].pass = sealed \/ (op[a].kind = "unlock" /\ ~locked)
    <3>1. Goto(a, "read") /\ locked' = FALSE
      BY <2>1 DEF Open
    <3> QED
      BY <1>1, <2>1, <3>1, Going DEF Place
  <2>2. CASE ~(op[a].pass = sealed \/ (op[a].kind = "unlock" /\ ~locked)) /\ op[a].kind = "boot"
    <3>1. Goto(a, "forgetLocal") /\ locked' = locked
      BY <2>2 DEF Open
    <3> QED
      BY <1>1, <2>2, <3>1, Going DEF Place
  <2>3. CASE ~(op[a].pass = sealed \/ (op[a].kind = "unlock" /\ ~locked)) /\ op[a].kind # "boot"
    BY <1>1, <2>3, Leaving DEF Open
  <2> QED
    BY <2>1, <2>2, <2>3
<1>3. Typed' /\ opener' = opener /\ UNCHANGED <<disk, gate, master, confirmed, deadline, heard>>
  BY <1>1 DEF Open, Typed, disk
<1>4. a \in Busy' => /\ op'[a].alone = op[a].alone
                     /\ Fit(a)'
                     /\ a = Boot /\ op'[a].at \in Before => op[a].alone /\ ~deadline'
  BY <1>1, <1>2, <1>3 DEF disk, IInv, Early, Fit, Kept, Before, Later, disk, memory
<1>5. a \in Busy' /\ op'[a].alone => Script(a)'
  <2> SUFFICES ASSUME a \in Busy', op'[a].alone
               PROVE  Script(a)'
    OBVIOUS
  <2>1. /\ op'[a].kind = op[a].kind /\ op'[a].pass = op[a].pass
        /\ UNCHANGED <<sealed, setting, sidecar, opener, gate, master, confirmed, deadline, heard>>
        /\ LockScript(a) /\ UnlockScript(a) /\ BootScript(a)
        /\ CommitScript(a) /\ SettingsScript(a) /\ RotateScript(a)
    BY <1>1, <1>2, <1>3 DEF Kept, Script, disk
  <2>2. /\ op'[a].at \in {"read", "forgetLocal"} 
        /\ op[a].kind \notin {"lock", "commit", "settings", "rotate"}
        /\ op'[a].at = "read" => ~locked' /\ (op[a].kind = "boot" => op[a].pass = sealed)
        /\ op'[a].at = "forgetLocal" =>
             op[a].kind = "boot" /\ op[a].pass # sealed /\ locked' = locked
    <3>1. op[a].kind \notin {"lock", "commit", "settings", "rotate"}
      BY <1>1, <2>1 DEF LockScript, CommitScript, SettingsScript, RotateScript
    <3> QED
      BY <1>2, <3>1
  <2>3. UnlockScript(a)'
    BY <1>1, <2>1, <2>2 DEF UnlockScript
  <2>4. BootScript(a)'
    <3>1. CASE op[a].kind # "boot"
      BY <2>1, <3>1 DEF BootScript
    <3>2. CASE op[a].kind = "boot"
      <4>1. /\ ~confirmed /\ locked /\ ~gate /\ ~deadline /\ sidecar = op[a].pass
        BY <1>1, <2>1, <3>2 DEF BootScript
      <4>2. op'[a].at = "forgetLocal" => ~(CacheOpens' /\ sidecar' = sealed')
        BY <2>1, <2>2, <4>1
      <4> QED
        BY <2>1, <2>2, <3>2, <4>1, <4>2 DEF BootScript, Later
    <3> QED
      BY <3>1, <3>2
  <2>5. LockScript(a)' /\ CommitScript(a)' /\ SettingsScript(a)' /\ RotateScript(a)'
    BY <2>1, <2>2 DEF LockScript, CommitScript, SettingsScript, RotateScript
  <2> QED
    BY <2>3, <2>4, <2>5 DEF Script
<1> QED
  BY <1>1, <1>2, <1>3, <1>4, <1>5, Keeping

LEMMA ArmKeeps ==
  ASSUME IInv, NEW a \in Actor, Arm(a)
  PROVE  IInv'
<1>1. /\ a \in Busy /\ op[a] \in Record /\ op[a].at = "arm" /\ TypeOK /\ opener # a
      /\ Typed /\ Fit(a) /\ (op[a].alone => Script(a))
  BY Standing, TypeIsParts DEF Arm, IInv, Fits, Scripts
<1> DEFINE o == [op[a] EXCEPT !.note = IF op[a].kind = "settings" THEN op[a].note ELSE "none"]
<1>2. /\ o \in Record /\ AfterArm(a) \in Place
      /\ o.kind = op[a].kind /\ o.pass = op[a].pass /\ o.fresh = op[a].fresh
      /\ o.alone = op[a].alone /\ (op[a].kind = "settings" => o.note = op[a].note)
  BY <1>1 DEF Record, AfterArm, Place
<1>3. op' = [op EXCEPT ![a] = Moved(o, AfterArm(a))]
  BY <1>1 DEF Arm
<1> HIDE DEF o
<1>4. /\ op' \in [Actor -> Op] /\ \A b \in Actor \ {a} : Same(b)
      /\ a \in Busy' =>
           /\ op'[a].at = AfterArm(a) /\ op'[a].kind = op[a].kind
           /\ op'[a].pass = op[a].pass /\ op'[a].alone = op[a].alone
           /\ op[a].kind = "settings" => op'[a].note = op[a].note
  BY <1>1, <1>2, <1>3, Landing
<1>5. Typed' /\ opener' = opener /\ deadline' = TRUE
      /\ UNCHANGED <<disk, locked, gate, master, confirmed, heard>>
  BY <1>1 DEF Arm, Typed, disk
<1>6. a \in Busy' => /\ op'[a].alone = op[a].alone
                     /\ Fit(a)'
                     /\ a = Boot /\ op'[a].at \in Before => op[a].alone /\ ~deadline'
  BY <1>1, <1>4, <1>5 DEF AfterArm, disk, IInv, Early, Fit, Kept, Before, Later, disk, memory
<1>7. a \in Busy' /\ op'[a].alone => Script(a)'
  BY <1>1, <1>4, <1>5 DEF AfterArm, disk, IInv, Fit, Kept, Script, LockScript, UnlockScript, BootScript, CommitScript, SettingsScript, RotateScript, Note, CacheOpens, Before, Later, Typed, disk, memory
<1> QED
  BY <1>1, <1>4, <1>5, <1>6, <1>7, Keeping

LEMMA PushKeeps ==
  ASSUME IInv, NEW a \in Actor, Push(a)
  PROVE  IInv'
<1>1. /\ a \in Busy /\ op[a] \in Record /\ op[a].at = "push" /\ TypeOK /\ opener # a
      /\ Typed /\ Fit(a) /\ (op[a].alone => Script(a))
  BY Standing, TypeIsParts DEF Push, IInv, Fits, Scripts
<1> DEFINE o == [op[a] EXCEPT !.fresh = TRUE]
           p == IF op[a].kind = "settings" THEN "after" ELSE "done"
<1>2. /\ o \in Record /\ p \in Place
      /\ o.kind = op[a].kind /\ o.pass = op[a].pass /\ o.note = op[a].note
      /\ o.alone = op[a].alone
  BY <1>1 DEF Record, Place
<1>3. op' = [op EXCEPT ![a] = Moved(o, p)]
  BY <1>1 DEF Push
<1> HIDE DEF o, p
<1>4. /\ op' \in [Actor -> Op] /\ \A b \in Actor \ {a} : Same(b)
      /\ a \in Busy' =>
           /\ op'[a].at = p /\ op'[a].kind = op[a].kind /\ op'[a].note = op[a].note
           /\ op'[a].pass = op[a].pass /\ op'[a].alone = op[a].alone
  BY ZenonT(60), <1>1, <1>2, <1>3, Landing
<1>p. p = IF op[a].kind = "settings" THEN "after" ELSE "done"
  BY DEF p
<1>5. Typed' /\ opener' = opener /\ heard' = op[a].fresh
      /\ UNCHANGED <<disk, locked, gate, master, confirmed, deadline>>
  BY <1>1 DEF Push, Typed, disk, Record
<1>6. a \in Busy' => /\ op'[a].alone = op[a].alone
                     /\ Fit(a)'
                     /\ a = Boot /\ op'[a].at \in Before => op[a].alone /\ ~deadline'
  BY <1>1, <1>4, <1>5, <1>p DEF disk, IInv, Early, Fit, Kept, Before, Later, disk, memory
<1>7. a \in Busy' /\ op'[a].alone => Script(a)'
  BY <1>1, <1>4, <1>5, <1>p DEF disk, IInv, Fit, Kept, Script, LockScript, UnlockScript, BootScript, CommitScript, SettingsScript, RotateScript, Note, CacheOpens, Before, Later, Typed, disk, memory
<1> QED
  BY <1>1, <1>4, <1>5, <1>6, <1>7, Keeping

LEMMA SealKeeps ==
  ASSUME IInv, NEW a \in Actor, Seal(a)
  PROVE  IInv'
<1>1. /\ a \in Busy /\ op[a] \in Record /\ op[a].at = "seal" /\ TypeOK /\ opener # a
      /\ Typed /\ Fit(a) /\ (op[a].alone => Script(a))
  BY Standing, TypeIsParts DEF Seal, IInv, Fits, Scripts
<1>2. /\ op' \in [Actor -> Op] /\ \A b \in Actor \ {a} : Same(b)
      /\ a \in Busy' /\ op'[a].at = "putKey" /\ Kept(a)
  BY <1>1, Going DEF Seal, Place
<1>3. Typed' /\ opener' = a
  BY <1>1, NoPassAssumption DEF Seal, Typed, Fit, memory
<1>4. a \in Busy' => /\ op'[a].alone = op[a].alone
                     /\ Fit(a)'
                     /\ a = Boot /\ op'[a].at \in Before => op[a].alone /\ ~deadline'
  BY <1>1, <1>2 DEF Seal, IInv, Early, Fit, Kept, Before, Later, disk, memory
<1>5. a \in Busy' /\ op'[a].alone => Script(a)'
  BY <1>1, <1>2 DEF Seal, IInv, Fit, Kept, Script, LockScript, UnlockScript, BootScript, CommitScript, SettingsScript, RotateScript, Note, CacheOpens, Before, Later, Typed, disk, memory
<1> QED
  BY <1>1, <1>2, <1>3, <1>4, <1>5, Keeping

LEMMA PutKeyKeeps ==
  ASSUME IInv, NEW a \in Actor, PutKey(a)
  PROVE  IInv'
<1>1. /\ a \in Busy /\ op[a] \in Record /\ op[a].at = "putKey" /\ TypeOK
      /\ Typed /\ Fit(a) /\ (op[a].alone => Script(a))
  BY Standing, TypeIsParts DEF PutKey, IInv, Fits, Scripts
<1>2. /\ op' \in [Actor -> Op] /\ \A b \in Actor \ {a} : Same(b)
      /\ a \in Busy' => /\ Kept(a)
                        /\ op'[a].at = IF op[a].kind \in {"unlock", "boot"}
                                         THEN "remember" ELSE "done"
  BY <1>1, Going DEF PutKey, Place
<1>3. /\ Typed' /\ opener' # a /\ (opener' \in Actor => opener' = opener)
      /\ sidecar' \in {sidecar, NoPass} /\ UNCHANGED <<sealed, setting, memory>>
  BY <1>1, ActorAssumption DEF PutKey, KeyStored, Typed, Actor, memory
<1>4. a \in Busy' => /\ op'[a].alone = op[a].alone
                     /\ Fit(a)'
                     /\ a = Boot /\ op'[a].at \in Before => op[a].alone /\ ~deadline'
  BY <1>1, <1>2, <1>3 DEF memory, IInv, Early, Fit, Kept, Before, Later, disk, memory
<1>5. a \in Busy' /\ op'[a].alone => Script(a)'
  BY <1>1, <1>2, <1>3 DEF memory, IInv, Fit, Kept, Script, LockScript, UnlockScript, BootScript, CommitScript, SettingsScript, RotateScript, Note, CacheOpens, Before, Later, Typed, disk, memory
<1> QED
  BY <1>1, <1>2, <1>3, <1>4, <1>5, Keeping

LEMMA GetMasterKeeps ==
  ASSUME IInv, NEW a \in Actor, GetMaster(a)
  PROVE  IInv'
<1>1. /\ a \in Busy /\ op[a] \in Record /\ op[a].at = "getMaster" /\ TypeOK /\ opener # a
      /\ Typed /\ Fit(a) /\ (op[a].alone => Script(a))
  BY Standing, TypeIsParts DEF GetMaster, IInv, Fits, Scripts
<1>2. CASE master = NoPass
  <2>1. /\ op' \in [Actor -> Op] /\ \A b \in Actor \ {a} : Same(b)
        /\ a \in Busy' => op'[a].at = "done" /\ Kept(a)
    BY <1>1, <1>2, Going DEF GetMaster, Place
  <2>2. Typed' /\ opener' = opener /\ UNCHANGED <<disk, memory>>
    BY <1>1 DEF GetMaster, Typed, disk, memory
  <2>3. a \in Busy' => /\ op'[a].alone = op[a].alone
                       /\ Fit(a)'
                       /\ a = Boot /\ op'[a].at \in Before => op[a].alone /\ ~deadline'
    BY <1>1, <2>1, <2>2 DEF IInv, Early, Fit, Kept, Before, Later, disk, memory
  <2>4. a \in Busy' /\ op'[a].alone => Script(a)'
    BY <1>1, <1>2, <2>1, <2>2 DEF Fit, Kept, Script, LockScript, UnlockScript, BootScript, CommitScript, SettingsScript, RotateScript, Note, CacheOpens, Before, Later, Typed, disk, memory
  <2> QED
    BY <1>1, <2>1, <2>2, <2>3, <2>4, Keeping
<1>3. CASE master # NoPass
  <2> DEFINE o == [op[a] EXCEPT !.at = "seal", !.pass = master]
  <2>1. o \in Record /\ o \in Op /\ op' = [op EXCEPT ![a] = o]
    BY <1>1, <1>3 DEF GetMaster, Record, Op, Place, Typed
  <2>2. o.at = "seal" /\ o.pass = master /\ o.kind = op[a].kind
        /\ o.note = op[a].note /\ o.alone = op[a].alone
    BY <1>1 DEF Record
  <2> HIDE DEF o
  <2>3. /\ op' \in [Actor -> Op] /\ op'[a] = o /\ \A b \in Actor \ {a} : Same(b)
    BY <1>1, <2>1, Moving DEF Busy
  <2>4. Typed' /\ opener' = opener /\ UNCHANGED <<disk, memory>>
    BY <1>1 DEF GetMaster, Typed, disk, memory
  <2>5. /\ op'[a].alone = op[a].alone
        /\ Fit(a)'
        /\ a = Boot /\ op'[a].at \in Before => op[a].alone /\ ~deadline'
    BY <1>1, <1>3, <2>2, <2>3, <2>4 DEF IInv, Early, Fit, Before, Later, Typed, disk, memory
  <2>6. op'[a].alone => Script(a)'
    BY <1>1, <1>3, <2>2, <2>3, <2>4 DEF Fit, Script, LockScript, UnlockScript, BootScript, CommitScript, SettingsScript, RotateScript, Note, CacheOpens, Before, Later, Typed, disk, memory
  <2> QED
    BY <1>1, <2>3, <2>4, <2>5, <2>6, Keeping
<1> QED
  BY <1>2, <1>3

LEMMA BootStepKeeps ==
  ASSUME IInv, BootStep
  PROVE  IInv'
<1>1. /\ Boot \in Busy /\ op[Boot].at = "boot" /\ TypeOK /\ opener # Boot
      /\ Typed /\ Fit(Boot) /\ (op[Boot].alone => Script(Boot))
  BY Standing, TypeIsParts DEF BootStep, IInv, Fits, Scripts, Actor
<1>2. /\ op' \in [Actor -> Op] /\ \A b \in Actor \ {Boot} : Same(b)
      /\ Boot \in Busy' => /\ op'[Boot].at = IF setting THEN "takeKey" ELSE "done"
                           /\ Kept(Boot)
  BY <1>1, Going DEF BootStep, Place
<1>3. Typed' /\ opener' = opener /\ UNCHANGED <<disk, memory>>
  BY <1>1 DEF BootStep, Typed, disk, memory
<1>4. Boot \in Busy' => /\ op'[Boot].alone = op[Boot].alone
                        /\ Fit(Boot)'
                        /\ op'[Boot].at \in Before => op[Boot].alone /\ ~deadline'
  BY <1>1, <1>2, <1>3 DEF IInv, Early, Fit, Kept, Before, Later, memory
<1>5. Boot \in Busy' /\ op'[Boot].alone => Script(Boot)'
  BY <1>1, <1>2, <1>3 DEF Fit, Kept, Script, LockScript, UnlockScript, BootScript,
     CommitScript, SettingsScript, RotateScript, Note, CacheOpens, Before, Later,
     Typed, disk, memory
<1> QED
  BY <1>1, <1>2, <1>3, <1>4, <1>5, Keeping

LEMMA TakeKeyKeeps ==
  ASSUME IInv, TakeKey
  PROVE  IInv'
<1>1. /\ Boot \in Busy /\ op[Boot].at = "takeKey" /\ TypeOK /\ opener # Boot
      /\ Typed /\ Fit(Boot) /\ (op[Boot].alone => Script(Boot))
  BY Standing, TypeIsParts DEF TakeKey, IInv, Fits, Scripts, Actor
<1>2. /\ op' \in [Actor -> Op] /\ \A b \in Actor \ {Boot} : Same(b)
      /\ Boot \in Busy' => /\ op'[Boot].at \in {"openLocal", "done", "unread"}
                           /\ op'[Boot].at = "done" => opener # "os"
                           /\ Kept(Boot)
  <2>1. CASE Goto(Boot, "openLocal")
    BY <1>1, <2>1, Going DEF Place
  <2>2. CASE opener # "os" /\ Goto(Boot, "done")
    BY <1>1, <2>2, Going DEF Place
  <2>3. CASE Goto(Boot, "unread")
    BY <1>1, <2>3, Going DEF Place
  <2> QED
    BY <2>1, <2>2, <2>3 DEF TakeKey
<1>3. Typed' /\ opener' = opener /\ UNCHANGED <<disk, memory>>
  BY <1>1 DEF TakeKey, Typed, disk, memory
<1>4. Boot \in Busy' => /\ op'[Boot].alone = op[Boot].alone
                        /\ Fit(Boot)'
                        /\ op'[Boot].at \in Before => op[Boot].alone /\ ~deadline'
  BY <1>1, <1>2, <1>3 DEF IInv, Early, Fit, Kept, Before, Later, memory
<1>5. Boot \in Busy' /\ op'[Boot].alone => Script(Boot)'
  BY <1>1, <1>2, <1>3 DEF Fit, Kept, Script, LockScript, UnlockScript, BootScript,
     CommitScript, SettingsScript, RotateScript, Note, CacheOpens, Before, Later,
     Typed, disk, memory
<1> QED
  BY <1>1, <1>2, <1>3, <1>4, <1>5, Keeping

LEMMA OpenLocalKeeps ==
  ASSUME IInv, OpenLocal
  PROVE  IInv'
<1>1. /\ Boot \in Busy /\ op[Boot] \in Record /\ op[Boot].at = "openLocal" /\ TypeOK
      /\ opener # Boot /\ Typed /\ Fit(Boot) /\ (op[Boot].alone => Script(Boot))
  BY Standing, TypeIsParts DEF OpenLocal, IInv, Fits, Scripts, Actor
<1> DEFINE o == IF CacheOpens THEN [op[Boot] EXCEPT !.at = "open", !.pass = sidecar]
                ELSE [op[Boot] EXCEPT !.at = "forgetLocal"]
<1>2. o \in Record /\ o \in Op /\ op' = [op EXCEPT ![Boot] = o]
  BY <1>1 DEF OpenLocal, Record, Op, Place, Typed
<1>3. /\ o.kind = op[Boot].kind /\ o.alone = op[Boot].alone
      /\ \/ CacheOpens /\ o.at = "open" /\ o.pass = sidecar /\ sidecar \in Pass
         \/ ~CacheOpens /\ o.at = "forgetLocal" /\ o.pass = op[Boot].pass
  BY <1>1 DEF Record, CacheOpens, Typed
<1> HIDE DEF o
<1>4. /\ op' \in [Actor -> Op] /\ op'[Boot] = o /\ \A b \in Actor \ {Boot} : Same(b)
  BY <1>1, <1>2, Moving DEF Busy
<1>5. Typed' /\ opener' = opener /\ UNCHANGED <<disk, memory>>
  BY <1>1 DEF OpenLocal, Typed, disk, memory
<1>6. /\ op'[Boot].alone = op[Boot].alone
      /\ Fit(Boot)'
      /\ op'[Boot].at \in Before => op[Boot].alone /\ ~deadline'
  BY <1>1, <1>3, <1>4, <1>5 DEF IInv, Early, Fit, Before, Later, memory
<1>7. op'[Boot].alone => Script(Boot)'
  BY <1>1, <1>3, <1>4, <1>5 DEF Fit, Script, LockScript, UnlockScript, BootScript,
     CommitScript, SettingsScript, RotateScript, Note, CacheOpens, Before, Later,
     Typed, disk, memory
<1> QED
  BY <1>1, <1>4, <1>5, <1>6, <1>7, Keeping

LEMMA SavedKeeps ==
  ASSUME IInv, Saved
  PROVE  IInv'
<1>1. /\ Timer \in Busy /\ op[Timer] \in Record /\ op[Timer].at = "saved" /\ TypeOK
      /\ opener # Timer /\ Typed /\ Fit(Timer) /\ (op[Timer].alone => Script(Timer))
  BY Standing, TypeIsParts DEF Saved, IInv, Fits, Scripts, Actor
<1> DEFINE o == IF setting THEN [op[Timer] EXCEPT !.at = "unconfirm"]
                ELSE [op[Timer] EXCEPT !.at = "shut", !.kind = "lock"]
<1>2. o \in Record /\ o \in Op /\ op' = [op EXCEPT ![Timer] = o]
  BY <1>1 DEF Saved, Record, Op, Place, Kind, Typed
<1>3. /\ o.pass = op[Timer].pass /\ o.alone = op[Timer].alone
      /\ \/ o.at = "unconfirm" /\ o.kind = op[Timer].kind
         \/ o.at = "shut" /\ o.kind = "lock"
  BY <1>1 DEF Record
<1> HIDE DEF o
<1>4. /\ op' \in [Actor -> Op] /\ op'[Timer] = o /\ \A b \in Actor \ {Timer} : Same(b)
  BY <1>1, <1>2, Moving DEF Busy
<1>5. Typed' /\ opener' = opener
  BY <1>1 DEF Saved, Typed, disk, memory
<1>6. op'[Timer].alone = op[Timer].alone /\ Fit(Timer)'
  BY <1>1, <1>3, <1>4, ActorAssumption DEF Fit, Before, Later
<1>7. op'[Timer].alone => Script(Timer)'
  BY <1>1, <1>3, <1>4 DEF Fit, Script, LockScript, UnlockScript, BootScript,
     CommitScript, SettingsScript, RotateScript, Note, CacheOpens, Before, Later,
     Typed, disk, memory
<1> QED
  BY <1>1, <1>4, <1>5, <1>6, <1>7, Keeping, ActorAssumption

LEMMA UnconfirmKeeps ==
  ASSUME IInv, Unconfirm
  PROVE  IInv'
<1>1. /\ Timer \in Busy /\ op[Timer].at = "unconfirm" /\ TypeOK
      /\ opener # Timer /\ Typed /\ Fit(Timer) /\ (op[Timer].alone => Script(Timer))
  BY Standing, TypeIsParts DEF Unconfirm, IInv, Fits, Scripts, Actor
<1>2. /\ op' \in [Actor -> Op] /\ \A b \in Actor \ {Timer} : Same(b)
      /\ Timer \in Busy' => op'[Timer].at = "disarm" /\ Kept(Timer)
  BY <1>1, Going DEF Unconfirm, Place
<1>3. Typed' /\ opener' = opener
  BY <1>1 DEF Unconfirm, Typed, disk
<1>4. Timer \in Busy' => op'[Timer].alone = op[Timer].alone /\ Fit(Timer)'
  BY <1>1, <1>2, ActorAssumption DEF Fit, Kept, Before, Later
<1>5. Timer \in Busy' /\ op'[Timer].alone => Script(Timer)'
  BY <1>1, <1>2 DEF Fit, Kept, Script, LockScript, UnlockScript, BootScript,
     CommitScript, SettingsScript, RotateScript, Note, CacheOpens, Before, Later,
     Typed, disk, memory
<1> QED
  BY <1>1, <1>2, <1>3, <1>4, <1>5, Keeping, ActorAssumption

LEMMA SaveKeeps ==
  ASSUME IInv, NEW a \in Actor, Save(a)
  PROVE  IInv'
<1>1. /\ a \in Busy /\ op[a] \in Record /\ op[a].at \in {"save", "reload"} /\ TypeOK
      /\ opener # a /\ Typed /\ Fit(a) /\ (op[a].alone => Script(a))
  BY Standing, TypeIsParts DEF Save, Saving, IInv, Fits, Scripts
<1> DEFINE o == [op[a] EXCEPT !.at = "push", !.fresh = TRUE]
<1>2. /\ o \in Op /\ o.at = "push" /\ o.kind = op[a].kind /\ o.pass = op[a].pass
      /\ o.note = op[a].note /\ o.fresh = TRUE /\ o.alone = op[a].alone
  BY <1>1 DEF Record, Op, Place
<1>3. ASSUME NEW b \in Actor \ {a}
      PROVE  /\ op'[b] \in Op /\ Same(b)
  <2>1. CASE At(b, "push")
    <3>1. op[b] \in Record
      BY <1>1, <2>1, Standing
    <3>2. op'[b] = [op[b] EXCEPT !.fresh = FALSE]
      BY <2>1 DEF Save
    <3>3. [op[b] EXCEPT !.fresh = FALSE] \in Record
      BY <3>1 DEF Record
    <3>4. Record \subseteq Op
      BY DEF Op, Record
    <3> QED
      BY <3>1, <3>2, <3>3, <3>4, Records DEF Same, Record
  <2>2. CASE ~At(b, "push")
    BY <1>1, <2>2 DEF Save, Same, TypeOK
  <2> QED
    BY <2>1, <2>2
<1>4. op'[a] = o /\ op' \in [Actor -> Op]
  BY <1>2, <1>3 DEF Save
<1> HIDE DEF o
<1>5. Typed' /\ opener' = opener /\ heard' = FALSE
      /\ UNCHANGED <<sealed, sidecar, opener, locked, gate, master, confirmed, deadline>>
  BY <1>1 DEF Save, Typed
<1>6. a # Boot
  BY <1>1 DEF Fit, Before, Later
<1>7. op'[a].alone = op[a].alone /\ Fit(a)'
  BY <1>1, <1>2, <1>4, <1>6 DEF Fit
<1>8. op'[a].alone => Script(a)'
  BY <1>1, <1>2, <1>4, <1>5 DEF Fit, Script, LockScript, UnlockScript, BootScript,
     CommitScript, SettingsScript, RotateScript, Note, CacheOpens, Before, Later,
     Typed, disk, memory
<1> QED
  BY <1>1, <1>3, <1>4, <1>5, <1>6, <1>7, <1>8, Keeping

LEMMA AbortKeeps ==
  ASSUME IInv, NEW c \in Client, Abort(c)
  PROVE  IInv'
<1>1. c \in Actor /\ TypeOK /\ Typed
  BY TypeIsParts DEF Actor, IInv
<1>2. c \in Busy /\ Typed' /\ opener' # c /\ (opener' \in Actor => opener' = opener)
  <2>1. CASE (\E place \in Awaits : At(c, place)) /\ UNCHANGED disk
    <3>1. PICK place \in Awaits : At(c, place)
      BY <2>1
    <3>2. c \in Busy /\ opener # c
      BY <1>1, <3>1, Standing DEF Awaits
    <3> QED
      BY <1>1, <2>1, <3>2 DEF Abort, Typed, disk, memory
  <2>2. CASE /\ At(c, "putKey")
             /\ \/ KeyStored(c)
                \/ /\ opener' = IF opener = c THEN "nobody" ELSE opener
                   /\ UNCHANGED sidecar
             /\ UNCHANGED <<sealed, setting>>
    <3>1. opener' # c /\ (opener' \in Actor => opener' = opener)
          /\ opener' \in Actor \cup {"os", "nobody"} /\ UNCHANGED sidecar
          /\ (opener = "nobody" => opener' = "nobody")
      BY <1>1, <2>2, ActorAssumption DEF KeyStored, Typed, Actor
    <3> QED
      BY <1>1, <2>2, <3>1, Standing DEF Abort, Typed, memory
  <2>3. CASE /\ At(c, "dropKey")
             /\ KeyDropped \/ UNCHANGED <<opener, sidecar>>
             /\ UNCHANGED <<sealed, setting>>
    <3>1. c \in Busy /\ opener # c
      BY <1>1, <2>3, Standing
    <3>2. opener' # c /\ (opener' \in Actor => opener' = opener)
          /\ opener' \in Actor \cup {"os", "nobody"} /\ UNCHANGED sidecar
          /\ (opener = "nobody" => opener' = "nobody")
      BY <1>1, <2>3, <3>1, ActorAssumption DEF KeyDropped, Typed, Actor
    <3> QED
      BY <1>1, <2>3, <3>1, <3>2 DEF Abort, Typed, memory
  <2> QED
    BY <2>1, <2>2, <2>3 DEF Abort
<1>3. op' \in [Actor -> Op] /\ c \notin Busy' /\ \A b \in Actor \ {c} : Same(b)
  BY <1>1, <1>2, Leaving DEF Abort
<1> QED
  BY <1>1, <1>2, <1>3, Keeping

----------------------------------------------------------------------------
(* Beginnings.                                                             *)

\* Whoever begins is alone only if nobody was there, and nobody who was
\* there is alone any longer.
LEMMA Beginning ==
  ASSUME IInv, NEW a \in Actor, a \notin Busy, UNCHANGED <<disk, memory>>,
         NEW r \in Record, r.alone <=> Busy \subseteq {a},
         op' = [b \in Actor |-> IF b = a THEN r
                  ELSE IF b \in Busy THEN [op[b] EXCEPT !.alone = FALSE] ELSE Free],
         a # Boot, Boot \in Busy => op[Boot].at \notin Before,
         Fit(a)', r.alone => Script(a)'
  PROVE  IInv'
<1>1. TypeOK /\ Typed
  BY TypeIsParts DEF IInv
<1>2. Record \subseteq Op /\ Free \in Op
  BY DEF Op, Record
<1>3. \A b \in Busy : op[b] \in Record
  BY <1>1, Records DEF Busy, TypeOK
<1>4. ASSUME NEW b \in Busy
      PROVE  /\ b # a /\ op'[b] \in Record /\ op'[b].alone = FALSE
             /\ op'[b].kind = op[b].kind /\ op'[b].at = op[b].at
             /\ op'[b].pass = op[b].pass
  <2>1. b # a /\ op'[b] = [op[b] EXCEPT !.alone = FALSE]
    BY DEF Busy
  <2>2. op[b] \in Record
    BY <1>3
  <2> DEFINE o == op[b]
  <2>3. o \in Record => /\ [o EXCEPT !.alone = FALSE] \in Record
                        /\ [o EXCEPT !.alone = FALSE].alone = FALSE
                        /\ [o EXCEPT !.alone = FALSE].kind = o.kind
                        /\ [o EXCEPT !.alone = FALSE].at = o.at
                        /\ [o EXCEPT !.alone = FALSE].pass = o.pass
    <3> HIDE DEF o
    <3> QED
      BY DEF Record
  <2> QED
    BY <2>1, <2>2, <2>3
<1>5. op'[a] = r /\ op' \in [Actor -> Op]
  BY <1>2, <1>3, <1>4 DEF Busy
<1>6. Busy' = Busy \cup {a}
  <2>1. \A b \in Actor : b \in Busy' <=> b \in Busy \/ b = a
    BY <1>2, <1>4, <1>5, Records DEF Busy
  <2> QED
    BY <2>1 DEF Busy
<1>7. Typed' /\ opener' = opener
  BY <1>1 DEF Typed, disk, memory
<1>8. opener' \in Actor => At(opener, "putKey")'
  BY <1>1, <1>4, <1>6, <1>7 DEF TypeOK, At
<1>9. TypeOK'
  BY <1>5, <1>7, <1>8 DEF TypeOK, Typed
<1>10. Alone'
  BY <1>4, <1>5, <1>6 DEF Alone
<1>11. Fits'
  <2>1. ASSUME NEW b \in Busy PROVE Fit(b)'
    <3>1. Fit(b) /\ op'[b].kind = op[b].kind /\ op'[b].at = op[b].at
          /\ op'[b].pass = op[b].pass
      BY <1>4 DEF IInv, Fits
    <3> QED
      BY <3>1 DEF Fit
  <2> QED
    BY <1>6, <2>1 DEF Fits
<1>12. Early'
  BY <1>4, <1>6 DEF Early
<1>13. Scripts'
  BY <1>4, <1>5, <1>6 DEF Scripts
<1> QED
  BY <1>9, <1>10, <1>11, <1>12, <1>13 DEF IInv

LEMMA Opening ==
  ASSUME IInv, NEW a \in Actor, a \notin Busy, UNCHANGED <<disk, memory>>,
         NEW kind \in Kind, NEW at \in Place, NEW pass \in Pass \cup {NoPass},
         NEW note \in {"none", "on", "off"},
         op' = [Started(a, kind, at, pass) EXCEPT ![a].note = note],
         a # Boot, Boot \in Busy => op[Boot].at \notin Before,
         \/ kind = "unlock" /\ at = "open" /\ pass \in Pass
         \/ kind = "rotate" /\ at = "reseal" /\ pass \in Pass
         \/ kind = "lock" /\ at = "shut"
         \/ kind = "commit" /\ at \in {"save", "reload"}
         \/ kind = "settings" /\ at = "save" /\ ~locked
         \/ kind = "rearm" /\ at = "arm"
         \/ kind = "stepdown" /\ at = "saved"
  PROVE  IInv'
<1> DEFINE q == [kind |-> kind, at |-> at, pass |-> pass, note |-> "none",
                 fresh |-> TRUE, alone |-> Busy \subseteq {a}]
           r == [q EXCEPT !.note = note]
           F == Started(a, kind, at, pass)
<1>1. q \in Record /\ q.kind = kind /\ q.at = at /\ q.pass = pass
      /\ (q.alone <=> Busy \subseteq {a})
  BY DEF Record
<1>2. F = [b \in Actor |-> IF b = a THEN q
             ELSE IF b \in Busy THEN [op[b] EXCEPT !.alone = FALSE] ELSE Free]
  BY DEF Started
<1>3. op' = [F EXCEPT ![a] = [F[a] EXCEPT !.note = note]]
  OBVIOUS
<1> HIDE DEF q, F
<1>4. r \in Record /\ r.kind = kind /\ r.at = at /\ r.pass = pass
      /\ (r.alone <=> Busy \subseteq {a})
  BY <1>1 DEF Record
<1>5. F[a] = q
  BY <1>2
<1>6. op' = [F EXCEPT ![a] = r]
  BY <1>3, <1>5
<1> HIDE DEF r
<1>7. op' = [b \in Actor |-> IF b = a THEN r
               ELSE IF b \in Busy THEN [op[b] EXCEPT !.alone = FALSE] ELSE Free]
  BY <1>2, <1>6
<1>8. op'[a].kind = kind /\ op'[a].at = at /\ op'[a].pass = pass
  BY <1>4, <1>7
<1>9. Fit(a)'
  BY <1>8 DEF Fit
<1>10. Script(a)'
  BY <1>8 DEF Script, LockScript, UnlockScript, BootScript, CommitScript,
     SettingsScript, RotateScript, memory
<1> QED
  BY <1>4, <1>7, <1>9, <1>10, Beginning

\* A note that is "none" anyway.
LEMMA NoNote ==
  ASSUME NEW a \in Actor, NEW kind, NEW at, NEW pass
  PROVE  Started(a, kind, at, pass) =
         [Started(a, kind, at, pass) EXCEPT ![a].note = "none"]
BY DEF Started

LEMMA RequestKeeps ==
  ASSUME IInv, NEW c \in Client, Request(c)
  PROVE  IInv'
<1>1. c \in Actor /\ c \notin Busy /\ Boot \notin Busy /\ c # Boot
      /\ UNCHANGED <<disk, memory>> /\ Note \in {"none", "on", "off"}
  BY ActorAssumption DEF Request, Serving, Actor, Note
<1>2. CASE \E p \in Pass : op' = Started(c, "unlock", "open", p)
  BY <1>1, <1>2, NoNote, Opening DEF Kind, Place
<1>3. CASE op' = Started(c, "lock", "shut", NoPass)
  BY <1>1, <1>3, NoNote, Opening DEF Kind, Place
<1>4. CASE op' = Started(c, "commit", "save", NoPass)
  BY <1>1, <1>4, NoNote, Opening DEF Kind, Place
<1>5. CASE op' = Started(c, "commit", "reload", NoPass)
  BY <1>1, <1>5, NoNote, Opening DEF Kind, Place
<1>6. CASE /\ Permitted
           /\ op' = [Started(c, "settings", "save", NoPass) EXCEPT ![c].note = Note]
  BY ZenonT(60), <1>1, <1>6, Opening DEF Kind, Place, Permitted
<1>7. CASE Permitted /\ \E p \in Pass : op' = Started(c, "rotate", "reseal", p)
  BY <1>1, <1>7, NoNote, Opening DEF Kind, Place
<1> QED
  BY <1>2, <1>3, <1>4, <1>5, <1>6, <1>7 DEF Request

LEMMA TimerDueKeeps ==
  ASSUME IInv, TimerDue
  PROVE  IInv'
<1>1. Timer \in Actor /\ Timer \notin Busy /\ Timer # Boot /\ UNCHANGED <<disk, memory>>
      /\ (Boot \in Busy => op[Boot].at \notin Before)
  BY ActorAssumption DEF TimerDue, Actor, IInv, Early
<1>2. CASE op' = Started(Timer, "rearm", "arm", NoPass)
  BY <1>1, <1>2, NoNote, Opening DEF Kind, Place
<1>3. CASE op' = Started(Timer, "stepdown", "saved", NoPass)
  BY <1>1, <1>3, NoNote, Opening DEF Kind, Place
<1> QED
  BY <1>2, <1>3 DEF TimerDue

LEMMA ExpireKeeps ==
  ASSUME IInv, Expire
  PROVE  IInv'
<1>1. Busy = {} /\ Busy' = {} /\ op' = op /\ opener' = opener
  BY DEF Expire, Busy, disk
<1>2. TypeOK'
  BY <1>1 DEF IInv, TypeOK, Expire, disk, At
<1> QED
  BY <1>1, <1>2 DEF IInv, Alone, Fits, Early, Scripts

LEMMA StartingIs ==
  /\ Starting \in [Actor -> Op]
  /\ Starting[Boot] = [kind |-> "boot", at |-> "boot", pass |-> NoPass,
                       note |-> "none", fresh |-> TRUE, alone |-> TRUE]
  /\ Starting[Boot] # Free
  /\ \A a \in Actor \ {Boot} : Starting[a] = Free
<1> DEFINE r == [kind |-> "boot", at |-> "boot", pass |-> NoPass,
                 note |-> "none", fresh |-> TRUE, alone |-> TRUE]
<1>1. r \in Record
  BY DEF Record, Kind, Place
<1>2. Record \subseteq Op /\ Free \in Op
  BY DEF Op, Record
<1>3. r # Free
  BY <1>1, <1>2, Records
<1>4. Boot \in Actor
  BY DEF Actor
<1>5. Starting = [a \in Actor |-> IF a = Boot THEN r ELSE Free]
  BY DEF Starting
<1> HIDE DEF r
<1>6. Starting \in [Actor -> Op] /\ Starting[Boot] = r
      /\ \A a \in Actor \ {Boot} : Starting[a] = Free
  BY <1>1, <1>2, <1>4, <1>5
<1> QED
  BY <1>3, <1>6 DEF r

LEMMA CrashKeeps ==
  ASSUME IInv, Crash
  PROVE  IInv'
<1>1. op' = Starting /\ Boot \in Actor
  BY DEF Crash, Actor
<1>2. Busy' = {Boot}
  BY <1>1, StartingIs DEF Busy
<1>3. op'[Boot].kind = "boot" /\ op'[Boot].at = "boot" /\ op'[Boot].alone
  BY <1>1, StartingIs
<1>4. TypeOK'
  <2>1. op' \in [Actor -> Op]
    BY <1>1, StartingIs
  <2>2. opener' \in {"os", "nobody"} /\ opener' \notin Actor
    BY ActorAssumption DEF Crash, Actor
  <2> QED
    BY <2>1, <2>2 DEF IInv, TypeOK, Crash
<1>5. Alone' /\ Fits'
  BY <1>2, <1>3 DEF Alone, Fits, Fit, Before
<1>6. Early' /\ Scripts'
  BY <1>2, <1>3 DEF Crash, Early, Scripts, Script, LockScript, UnlockScript, BootScript,
     CommitScript, SettingsScript, RotateScript, Later
<1> QED
  BY <1>4, <1>5, <1>6 DEF IInv

LEMMA InitHolds ==
  ASSUME Init
  PROVE  IInv
<1>1. op = Starting /\ Boot \in Actor
  BY DEF Init, Actor
<1>2. Busy = {Boot}
  BY <1>1, StartingIs DEF Busy
<1>3. op[Boot].kind = "boot" /\ op[Boot].at = "boot" /\ op[Boot].alone
  BY <1>1, StartingIs
<1>4. TypeOK
  BY <1>1, StartingIs, ActorAssumption DEF Init, TypeOK, Actor
<1>5. Alone /\ Fits
  BY <1>2, <1>3 DEF Alone, Fits, Fit, Before
<1>6. Early /\ Scripts
  BY <1>2, <1>3 DEF Init, Early, Scripts, Script, LockScript, UnlockScript, BootScript,
     CommitScript, SettingsScript, RotateScript, Later
<1> QED
  BY <1>4, <1>5, <1>6 DEF IInv

LEMMA StutterKeeps ==
  ASSUME IInv, UNCHANGED vars
  PROVE  IInv'
<1>1. UNCHANGED <<disk, memory, op>>
  BY DEF vars
<1>2. Busy' = Busy /\ \A a, p : At(a, p)' <=> At(a, p)
  BY <1>1 DEF Busy, At
<1>3. TypeOK' /\ Alone' /\ Fits' /\ Early'
  BY <1>1, <1>2 DEF IInv, TypeOK, Alone, Fits, Fit, Early, disk, memory
<1>4. \A a : Script(a)' <=> Script(a)
  BY <1>1 DEF Script, LockScript, UnlockScript, BootScript,
     CommitScript, SettingsScript, RotateScript, Note, CacheOpens, Before, Later,
     Typed, disk, memory
<1> QED
  BY <1>1, <1>2, <1>3, <1>4 DEF IInv, Scripts

LEMMA StepKeeps ==
  ASSUME IInv, NEW a \in Actor, Step(a)
  PROVE  IInv'
BY OpenKeeps, ReadKeeps, OpenGateKeeps, ArmKeeps, RememberKeeps, ConfirmKeeps,
   CloneKeeps, PushKeeps, SealKeeps, PutKeyKeeps, ForgetLocalKeeps, DropKeyKeeps,
   ShutKeeps, CloseGateKeeps, ForgetMasterKeeps, DisarmKeeps, SaveKeeps, RejectKeeps,
   AfterKeeps, ProbeKeeps, GetMasterKeeps, ResealKeeps, RefuseKeeps, WantsKeeps,
   FinishKeeps
DEF Step

LEMMA NextKeeps ==
  ASSUME IInv, [Next]_vars
  PROVE  IInv'
<1>1. CASE UNCHANGED vars
  BY <1>1, StutterKeeps
<1>2. CASE \E c \in Client : Request(c) \/ Abort(c)
  BY <1>2, RequestKeeps, AbortKeeps
<1>3. CASE TimerDue \/ Expire \/ Saved \/ Unconfirm
  BY <1>3, TimerDueKeeps, ExpireKeeps, SavedKeeps, UnconfirmKeeps
<1>4. CASE BootStep \/ TakeKey \/ OpenLocal
  BY <1>4, BootStepKeeps, TakeKeyKeeps, OpenLocalKeeps
<1>5. CASE \E a \in Actor : Step(a)
  BY <1>5, StepKeeps
<1>6. CASE Crash
  BY <1>6, CrashKeeps
<1> QED
  BY <1>1, <1>2, <1>3, <1>4, <1>5, <1>6 DEF Next

LEMMA Invariance == Spec => []IInv
<1>1. Init => IInv
  BY InitHolds
<1>2. IInv /\ [Next]_vars => IInv'
  BY NextKeeps
<1> QED
  BY <1>1, <1>2, PTL DEF Spec

----------------------------------------------------------------------------
(* What the daemon promises of each kind of operation.                     *)

\* The state has its type, and a wrap key that is under way belongs to an
\* operation that is about to hand it to the keychain (keychain::store).
THEOREM SessionTypeCorrect == Spec => []TypeOK
<1>1. IInv => TypeOK
  BY DEF IInv
<1> QED
  BY <1>1, Invariance, PTL

\* lock (lifecycle.rs) that nothing overlapped leaves nothing open and
\* nothing that opens it again.
THEOREM LockIsWholeAlways == Spec => []LockIsWhole
<1>1. IInv => LockIsWhole
  <2> SUFFICES ASSUME IInv, NEW a \in Actor, Ended(a, {"lock"})
               PROVE  /\ locked /\ ~gate /\ master = NoPass /\ ~confirmed /\ ~deadline
                      /\ ~CacheOpens
    BY DEF LockIsWhole
  <2>1. LockScript(a) /\ op[a].kind = "lock" /\ op[a].at = "done"
    BY DEF IInv, Scripts, Script, Ended, At
  <2> QED
    BY <2>1 DEF LockScript, CacheOpens
<1> QED
  BY <1>1, Invariance, PTL

\* unlock_with (handler.rs) and on_unlocked (lifecycle.rs): keys, gate,
\* deadline, retained and cached passphrase agree.
THEOREM UnlockIsWholeAlways == Spec => []UnlockIsWhole
<1>1. IInv => UnlockIsWhole
  <2> SUFFICES ASSUME IInv, NEW a \in Actor, Ended(a, {"unlock"})
               PROVE  /\ ~locked /\ gate /\ deadline /\ master = op[a].pass /\ heard
                      /\ setting => (CacheOpens => sidecar = master)
    BY DEF UnlockIsWhole
  <2>1. UnlockScript(a) /\ op[a].kind = "unlock" /\ op[a].at = "done"
    BY DEF IInv, Scripts, Script, Ended, At
  <2> QED
    BY <2>1 DEF UnlockScript
<1> QED
  BY <1>1, Invariance, PTL

\* try_keychain_unlock (lifecycle.rs) discards no cache that opens the
\* vault, and ends open or with no cache left that opens anything.
THEOREM StartUpAlwaysSettles == Spec => []StartUpSettles
<1>1. IInv => StartUpSettles
  <2> SUFFICES ASSUME IInv
               PROVE  StartUpSettles
    OBVIOUS
  <2>1. Boot \in Busy /\ op[Boot].alone => BootScript(Boot) /\ op[Boot].kind = "boot"
    BY DEF IInv, Scripts, Script, Fits, Fit
  <2>2. At(Boot, "forgetLocal") => op[Boot].alone
    BY DEF IInv, Early, At, Before
  <2> QED
    BY <2>1, <2>2 DEF StartUpSettles, BootScript, Ended, At
<1> QED
  BY <1>1, Invariance, PTL

\* change_passphrase and update_settings (handler.rs) leave no cache of
\* another passphrase, or none at all.
THEOREM CacheAlwaysFollows == Spec => []CacheFollows
<1>1. IInv => CacheFollows
  <2> SUFFICES ASSUME IInv, NEW a \in Actor
               PROVE  /\ Ended(a, {"rotate"}) =>
                           /\ sealed = op[a].pass /\ master = op[a].pass
                           /\ CacheOpens => setting /\ sidecar = sealed
                      /\ Ended(a, {"settings"}) =>
                           /\ op[a].note = "off" => ~CacheOpens
                           /\ op[a].note = "on" /\ CacheOpens => master \in {sidecar, NoPass}
                           /\ ~locked => deadline
    BY DEF CacheFollows
  <2>1. CASE Ended(a, {"rotate"})
    <3>1. RotateScript(a) /\ op[a].kind = "rotate" /\ op[a].at = "done"
      BY <2>1 DEF IInv, Scripts, Script, Ended, At
    <3> QED
      BY <3>1 DEF RotateScript, Ended
  <2>2. CASE Ended(a, {"settings"})
    <3>1. SettingsScript(a) /\ op[a].kind = "settings" /\ op[a].at = "done"
      BY <2>2 DEF IInv, Scripts, Script, Ended, At
    <3> QED
      BY <3>1 DEF SettingsScript, Ended, CacheOpens
  <2> QED
    BY <2>1, <2>2
<1> QED
  BY <1>1, Invariance, PTL

\* commit (handler.rs): the scheduler has the configuration that was saved.
THEOREM CommitsAreHeard == Spec => []CommitIsHeard
<1>1. IInv => CommitIsHeard
  <2> SUFFICES ASSUME IInv, NEW a \in Actor, Ended(a, {"commit", "settings"})
               PROVE  heard
    BY DEF CommitIsHeard
  <2>1. CommitScript(a) /\ SettingsScript(a) /\ op[a].kind \in {"commit", "settings"}
        /\ op[a].at = "done"
    BY DEF IInv, Scripts, Script, Ended, At
  <2> QED
    BY <2>1 DEF CommitScript, SettingsScript
<1> QED
  BY <1>1, Invariance, PTL

=============================================================================
