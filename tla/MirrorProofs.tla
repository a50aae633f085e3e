---------------------------- MODULE MirrorProofs ----------------------------
(***************************************************************************)
(* The mirror's safety, for any number of files and of overlapping calls.  *)
(*                                                                         *)
(* Two modification times tell everything: while a file still has the one  *)
(* an item was scanned with, it has only grown since, so what a worker     *)
(* holds of it is its beginning (Reads, MirrorFits).  Of a file the user   *)
(* leaves alone, every item is current (Steady), and a call that works     *)
(* alone has it somewhere between the walk and the mirror (Covered).       *)
(***************************************************************************)
EXTENDS Mirror, TLAPS

Items(q) == {q[k] : k \in 1..Len(q)}

\* s is the beginning of t.
Begins(s, t) == Len(s) <= Len(t) /\ \A k \in 1..Len(s) : s[k] = t[k]

\* A copy is no younger than its source, and of the same age only its beginning.
MirrorFits(src, mir) ==
    \A f \in Files : mir[f].there =>
        /\ mir[f].at <= src[f].at
        /\ mir[f].at = src[f].at => Begins(mir[f].data, src[f].data)

Holding(c) == c.stage \in {"open", "read", "rename"}
Current(i, src) == i.at = src[i.file].at /\ i.len = Len(src[i.file].data)
Same(f, src, mir) ==
    mir[f].there /\ mir[f].data = src[f].data /\ mir[f].at = src[f].at

\* Where a call stands.
Shape(c) ==
    /\ Holding(c) => c.item \in Item
    /\ c.live => c.stage \in {"read", "rename"}
    /\ c.stage \in {"receive", "open"} => c.buffer = <<>>
    /\ ~c.walking => c.left = {}
    /\ c.stage \in {"receive", "open", "read", "rename"} => c.open
    /\ c.stage = "join" /\ ~c.cancel => ~c.walking
    /\ c.stage \notin {"receive", "open", "read", "rename"} => c.queue = <<>>
    /\ c.stage \notin Active => ~c.walking

\* What was scanned is no younger than the file.
Aged(c, src) ==
    /\ \A i \in Items(c.queue) : i.kind = "file" => i.at <= src[i.file].at
    /\ Holding(c) => c.item.at <= src[c.item.file].at

\* What was read of a file that has kept its age is its beginning.
Reads(c, src) ==
    c.stage \in {"read", "rename"} /\ c.item.at = src[c.item.file].at =>
        /\ Begins(c.buffer, src[c.item.file].data)
        /\ ~c.live => Begins(c.fd, src[c.item.file].data)

\* What a call knows of the files the user has left alone.
Steady(c, src) ==
    \A f \in c.steady :
        /\ src[f].there
        /\ \A i \in Items(c.queue) : i.kind = "file" /\ i.file = f => Current(i, src)
        /\ Holding(c) /\ c.item.file = f => Current(c.item, src)
        /\ c.stage \in {"read", "rename"} /\ c.item.file = f => c.live
        /\ c.stage = "rename" /\ c.item.file = f => c.buffer = src[f].data

\* Those of a call that works alone are on their way, or there.
Covered(c, src, mir) ==
    c.alone /\ c.stage \in Active \cup {"ok"} /\ (c.cancel => c.stage = "ok") =>
        \A f \in c.steady \ c.warned :
            \/ f \in c.left
            \/ \E i \in Items(c.queue) : i.file = f
            \/ Holding(c) /\ c.item.file = f
            \/ Same(f, src, mir)

Fine(c, src, mir) ==
    Shape(c) /\ Aged(c, src) /\ Reads(c, src) /\ Steady(c, src) /\ Covered(c, src, mir)

\* Whoever is alone is; who comes later knows what an ended call knew.
Apart(r, q) ==
    r # q /\ run[r].alone /\ run[q].stage \in Active =>
        /\ run[r].stage \notin Active
        /\ run[r].stage = "ok" => run[r].steady \subseteq run[q].steady

Numbered(r) == run[r].stage \in Active => run[r].call \in 1..starts

IInv ==
    /\ TypeOK
    /\ MirrorFits(source, mirror)
    /\ \A r \in Runs : Fine(run[r], source, mirror) /\ Numbered(r)
    /\ \A r, q \in Runs : Apart(r, q)
    /\ TempsAreSwept

(***************************************************************************)
(* Sequences                                                               *)
(***************************************************************************)
LEMMA ItemsTail ==
    ASSUME NEW q \in Seq(Item), q # <<>>
    PROVE  /\ Head(q) \in Item /\ Tail(q) \in Seq(Item)
           /\ Items(q) = {Head(q)} \cup Items(Tail(q))
<1>1. /\ Head(q) = q[1] /\ Head(q) \in Item
      /\ Tail(q) \in Seq(Item) /\ Len(q) \in Nat \ {0} /\ Len(Tail(q)) = Len(q) - 1
      /\ \A k \in 1..Len(q) - 1 : Tail(q)[k] = q[k + 1]
  OBVIOUS
<1>2. ASSUME NEW k \in 1..Len(q), k # 1 PROVE q[k] \in Items(Tail(q))
  <2>1. k - 1 \in 1..Len(Tail(q)) /\ Tail(q)[k - 1] = q[k]
    BY <1>1, <1>2
  <2>2. QED BY <2>1 DEF Items
<1>3. Items(q) \subseteq {Head(q)} \cup Items(Tail(q))
  BY <1>1, <1>2 DEF Items
<1>4. ASSUME NEW k \in 1..Len(Tail(q)) PROVE Tail(q)[k] \in Items(q)
  <2>1. k + 1 \in 1..Len(q) /\ Tail(q)[k] = q[k + 1]
    BY <1>1
  <2>2. QED BY <2>1 DEF Items
<1>5. Head(q) \in Items(q)
  BY <1>1 DEF Items
<1>6. QED BY <1>1, <1>3, <1>4, <1>5 DEF Items

LEMMA ItemsMore ==
    ASSUME NEW q \in Seq(Item), NEW i \in Item
    PROVE  q \o <<i>> \in Seq(Item) /\ Items(q \o <<i>>) = Items(q) \cup {i}
<1> DEFINE n == q \o <<i>>
<1>1. /\ n \in Seq(Item) /\ Len(n) = Len(q) + 1 /\ n[Len(q) + 1] = i
      /\ Len(q) \in Nat /\ \A k \in 1..Len(q) : n[k] = q[k]
  OBVIOUS
<1>2. Items(n) \subseteq Items(q) \cup {i}
  <2>1. ASSUME NEW k \in 1..Len(n) PROVE n[k] \in Items(q) \cup {i}
    BY <1>1 DEF Items
  <2>2. QED BY <2>1 DEF Items
<1>3. Items(q) \cup {i} \subseteq Items(n)
  <2>1. ASSUME NEW k \in 1..Len(q) PROVE q[k] \in Items(n)
    <3>1. k \in 1..Len(n) /\ n[k] = q[k] BY <1>1
    <3>2. QED BY <3>1 DEF Items
  <2>2. i \in Items(n)
    <3>1. Len(n) \in 1..Len(n) /\ n[Len(n)] = i BY <1>1
    <3>2. QED BY <3>1 DEF Items
  <2>3. QED BY <2>1, <2>2 DEF Items
<1>4. QED BY <1>1, <1>2, <1>3

LEMMA ItemsTyped ==
    ASSUME NEW q \in Seq(Item) PROVE Items(q) \subseteq Item
BY DEF Items

LEMMA ItemsNone == Items(<<>>) = {}
BY DEF Items

LEMMA BeginsMore ==
    ASSUME NEW s \in Data, NEW t \in Data, Begins(s, t), Len(s) + 1 <= Len(t)
    PROVE  /\ Append(s, t[Len(s) + 1]) \in Data
           /\ Begins(Append(s, t[Len(s) + 1]), t)
<1> DEFINE n == Append(s, t[Len(s) + 1])
<1>1. Len(s) \in Nat /\ Len(t) \in Nat /\ t[Len(s) + 1] \in Nat
  BY DEF Data
<1>2. /\ n \in Data /\ Len(n) = Len(s) + 1 /\ n[Len(s) + 1] = t[Len(s) + 1]
      /\ \A k \in 1..Len(s) : n[k] = s[k]
  BY <1>1 DEF Data
<1>3. QED BY <1>1, <1>2 DEF Begins

LEMMA BeginsWhole ==
    ASSUME NEW s \in Data, NEW t \in Data, Begins(s, t), Len(t) <= Len(s)
    PROVE  s = t
<1>1. Len(s) = Len(t) /\ Len(s) \in Nat /\ \A k \in 1..Len(s) : s[k] = t[k]
  BY DEF Begins, Data
<1>2. QED BY <1>1 DEF Data

LEMMA BeginsGrown ==
    ASSUME NEW s \in Data, NEW t \in Data, NEW x \in Nat, Begins(s, t)
    PROVE  Append(t, x) \in Data /\ Begins(s, Append(t, x))
<1>1. /\ Append(t, x) \in Data /\ Len(Append(t, x)) = Len(t) + 1
      /\ Len(s) \in Nat /\ Len(t) \in Nat
      /\ \A k \in 1..Len(t) : Append(t, x)[k] = t[k]
  BY DEF Data
<1>2. QED BY <1>1 DEF Begins

LEMMA BeginsSelf == ASSUME NEW s \in Data PROVE Begins(s, s) /\ Begins(<<>>, s)
BY DEF Begins, Data

(***************************************************************************)
(* Steps of one call                                                       *)
(***************************************************************************)
\* What TypeOK says of one call.
LEMMA CallTyped ==
    ASSUME TypeOK, NEW r \in Runs PROVE run[r] \in Call
BY DEF TypeOK

\* A step of r alone keeps what is said of pairs of calls.
LEMMA OneCall ==
    ASSUME IInv, NEW r \in Runs, NEW c, run' = [run EXCEPT ![r] = c],
           starts' = starts, c.alone => run[r].alone,
           c.stage \in Active \cup {"ok"} => run[r].stage \in Active,
           c.stage \in Active \cup {"ok"} => c.steady = run[r].steady,
           c.stage \in Active => c.call = run[r].call
    PROVE  /\ \A q \in Runs : Numbered(q)'
           /\ \A p, q \in Runs : Apart(p, q)'
<1>1. run'[r] = c /\ \A q \in Runs : q # r => run'[q] = run[q]
  BY DEF IInv, TypeOK
<1>2. ASSUME NEW q \in Runs PROVE Numbered(q)'
  BY <1>1 DEF Numbered, IInv
<1>3. ASSUME NEW p \in Runs, NEW q \in Runs PROVE Apart(p, q)'
  <2>1. Apart(p, q) /\ Apart(r, q) BY DEF IInv
  <2>2. CASE p # r /\ q # r BY <1>1, <2>1, <2>2 DEF Apart
  <2>3. CASE p = r /\ q # r
    BY <1>1, <2>1, <2>3 DEF Apart, Active
  <2>4. CASE p # r /\ q = r
    BY <1>1, <2>1, <2>4 DEF Apart, Active
  <2>5. CASE p = r /\ q = r BY <2>5 DEF Apart
  <2>6. QED BY <2>2, <2>3, <2>4, <2>5
<1>4. QED BY <1>2, <1>3

\* The calls other than r are as they were.
LEMMA OthersFine ==
    ASSUME IInv, NEW r \in Runs, NEW c \in Call, run' = [run EXCEPT ![r] = c],
           source' = source, MirrorFits(source, mirror'), Fine(c, source, mirror'),
           \A q \in Runs \ {r} : Fine(run[q], source, mirror')
    PROVE  /\ \A q \in Runs : Fine(run'[q], source', mirror')
           /\ MirrorFits(source', mirror')
           /\ run' \in [Runs -> Call] /\ run'[r] = c
BY DEF IInv, TypeOK

\* What a step of r must show to keep the invariant.
LEMMA OneStepAndMirror ==
    ASSUME IInv, NEW r \in Runs, NEW c \in Call, run' = [run EXCEPT ![r] = c],
           source' = source, starts' = starts,
           lost \subseteq lost', lost' \subseteq [file : Files, call : 1..starts],
           mirror' \in [Files -> File], MirrorFits(source, mirror'),
           play' = play, writes' = writes, troubles' \in 0..play.troubles,
           Fine(c, source, mirror'), c.alone => run[r].alone,
           \A q \in Runs \ {r} : Fine(run[q], source, mirror'),
           c.stage \in Active \cup {"ok"} => run[r].stage \in Active,
           c.stage \in Active \cup {"ok"} => c.steady = run[r].steady,
           c.stage \in Active => c.call = run[r].call,
           \A t \in temps' :
              \/ t \in temps /\ t # Temp(r)
              \/ t \in temps /\ run[r].stage \notin {"read", "rename"}
              \/ /\ c.stage \in {"read", "rename"} /\ c.item \in Item
                 /\ t = [file |-> c.item.file, call |-> c.call]
              \/ t \in lost'
    PROVE  IInv'
<1>1. /\ \A q \in Runs : Fine(run'[q], source', mirror')
      /\ MirrorFits(source', mirror')
      /\ run' \in [Runs -> Call] /\ run'[r] = c
  BY OthersFine
<1>2. (\A q \in Runs : Numbered(q)') /\ (\A p, q \in Runs : Apart(p, q)')
  BY OneCall
<1>3. temps' \subseteq [file : Files, call : 1..starts]
  <2>1. SUFFICES ASSUME NEW t \in temps' PROVE t \in [file : Files, call : 1..starts]
    OBVIOUS
  <2>2. CASE t \in temps BY <2>2 DEF IInv, TypeOK
  <2>3. CASE /\ c.stage \in {"read", "rename"} /\ c.item \in Item
             /\ t = [file |-> c.item.file, call |-> c.call]
    <3>1. c.call \in 1..starts BY <1>1, <1>2, <2>3 DEF Numbered, Active
    <3>2. c.item.file \in Files BY <2>3 DEF Item
    <3>3. QED BY <2>3, <3>1, <3>2
  <2>4. CASE t \in lost' BY <2>4
  <2>5. QED BY <2>2, <2>3, <2>4
<1>4. TempsAreSwept'
  <2>1. SUFFICES ASSUME NEW t \in temps'
                 PROVE  \/ t \in lost'
                        \/ \E q \in Runs : /\ run'[q].stage \in {"read", "rename"}
                                           /\ t = Temp(q)'
    BY DEF TempsAreSwept
  <2>2. CASE /\ c.stage \in {"read", "rename"}
             /\ t = [file |-> c.item.file, call |-> c.call]
    BY <1>1, <2>2 DEF Temp
  <2>3. CASE t \in temps /\ (t # Temp(r) \/ run[r].stage \notin {"read", "rename"})
    <3>1. CASE t \in lost BY <3>1
    <3>2. CASE \E q \in Runs : run[q].stage \in {"read", "rename"} /\ t = Temp(q)
      <4>1. PICK q \in Runs : run[q].stage \in {"read", "rename"} /\ t = Temp(q)
        BY <3>2
      <4>2. q # r BY <2>3, <4>1
      <4>3. run'[q] = run[q] BY <4>2 DEF IInv, TypeOK
      <4>4. QED BY <4>1, <4>3 DEF Temp
    <3>3. QED BY <2>3, <3>1, <3>2 DEF IInv, TempsAreSwept
  <2>4. CASE t \in lost' BY <2>4
  <2>5. QED BY <2>2, <2>3, <2>4
<1>5. TypeOK'
  BY <1>1, <1>3 DEF IInv, TypeOK
<1>6. QED BY <1>1, <1>2, <1>4, <1>5 DEF IInv

\* The same of a step that leaves the mirror alone.
LEMMA OneStep ==
    ASSUME IInv, NEW r \in Runs, NEW c \in Call, run' = [run EXCEPT ![r] = c],
           source' = source, mirror' = mirror, starts' = starts,
           lost \subseteq lost', lost' \subseteq [file : Files, call : 1..starts],
           play' = play, writes' = writes, troubles' \in 0..play.troubles,
           Fine(c, source, mirror), c.alone => run[r].alone,
           c.stage \in Active \cup {"ok"} => run[r].stage \in Active,
           c.stage \in Active \cup {"ok"} => c.steady = run[r].steady,
           c.stage \in Active => c.call = run[r].call,
           \A t \in temps' :
              \/ t \in temps /\ t # Temp(r)
              \/ t \in temps /\ run[r].stage \notin {"read", "rename"}
              \/ /\ c.stage \in {"read", "rename"} /\ c.item \in Item
                 /\ t = [file |-> c.item.file, call |-> c.call]
              \/ t \in lost'
    PROVE  IInv'
<1>1. /\ mirror' \in [Files -> File] /\ MirrorFits(source, mirror')
      /\ Fine(c, source, mirror')
      /\ \A q \in Runs \ {r} : Fine(run[q], source, mirror')
  BY DEF IInv, TypeOK
<1>2. QED BY <1>1, OneStepAndMirror

\* What is lost are temporary files.
LEMMA LostTyped ==
    ASSUME IInv, lost' = lost
    PROVE  lost \subseteq lost' /\ lost' \subseteq [file : Files, call : 1..starts]
BY DEF IInv, TypeOK

\* A walk that ends, or that is told to.
LEMMA WalkEnds ==
    ASSUME IInv, NEW r \in Runs, NEW c, c = [run[r] EXCEPT !.walking = FALSE, !.left = {}],
           run[r].cancel \/ ~run[r].open \/ run[r].left = {}
    PROVE  c \in Call /\ Fine(c, source, mirror)
<1>1. run[r] \in Call /\ Fine(run[r], source, mirror)
  BY CallTyped DEF IInv
<1>2. /\ c \in Call /\ c.walking = FALSE /\ c.left = {}
      /\ c.stage = run[r].stage /\ c.item = run[r].item /\ c.queue = run[r].queue
      /\ c.live = run[r].live /\ c.open = run[r].open /\ c.cancel = run[r].cancel
      /\ c.buffer = run[r].buffer /\ c.fd = run[r].fd /\ c.alone = run[r].alone
      /\ c.steady = run[r].steady /\ c.warned = run[r].warned
  BY <1>1 DEF Call
<1>3. Shape(c) /\ Aged(c, source) /\ Reads(c, source) /\ Steady(c, source)
  BY <1>1, <1>2 DEF Fine, Shape, Aged, Reads, Steady, Holding
<1>4. Covered(c, source, mirror)
  <2>1. CASE run[r].cancel
    BY <1>1, <1>2, <2>1 DEF Fine, Shape, Covered, Holding, Active
  <2>2. CASE ~run[r].open /\ ~run[r].cancel
    BY <1>1, <1>2, <2>2 DEF Fine, Shape, Covered, Holding, Active
  <2>3. CASE run[r].left = {}
    BY <1>1, <1>2, <2>3 DEF Fine, Covered, Holding
  <2>4. QED BY <2>1, <2>2, <2>3
<1>5. QED BY <1>2, <1>3, <1>4 DEF Fine

LEMMA SameTrouble == ASSUME TypeOK, Trouble \/ NoTrouble PROVE troubles' \in 0..play.troubles
BY PlaysAssumption DEF TypeOK, Trouble, NoTrouble

\* A walk that sends the items q of the entry f.
LEMMA WalkFinds ==
    ASSUME IInv, NEW r \in Runs, NEW f \in run[r].left, NEW i \in Item, NEW c,
           i.file = f, i.kind = "file" => source[f].there /\ Current(i, source),
           run[r].walking, ~run[r].cancel, run[r].open,
           c = [run[r] EXCEPT !.left = @ \ {f}, !.queue = @ \o <<i>>]
    PROVE  c \in Call /\ Fine(c, source, mirror)
<1>1. run[r] \in Call /\ Fine(run[r], source, mirror) /\ run[r].queue \in Seq(Item)
  BY CallTyped DEF IInv, Call
<1>2. /\ run[r].queue \o <<i>> \in Seq(Item)
      /\ Items(run[r].queue \o <<i>>) = Items(run[r].queue) \cup {i}
  BY <1>1, ItemsMore
<1>3. /\ c \in Call /\ c.walking = run[r].walking /\ c.left = run[r].left \ {f}
      /\ c.stage = run[r].stage /\ c.item = run[r].item
      /\ Items(c.queue) = Items(run[r].queue) \cup {i}
      /\ c.live = run[r].live /\ c.open = run[r].open /\ c.cancel = run[r].cancel
      /\ c.buffer = run[r].buffer /\ c.fd = run[r].fd /\ c.alone = run[r].alone
      /\ c.steady = run[r].steady /\ c.warned = run[r].warned
  BY <1>1, <1>2 DEF Call
<1>4. Shape(c)
  BY <1>1, <1>3 DEF Fine, Shape, Holding, Active
<1>5. i.kind = "file" => i.at <= source[i.file].at
  <2>1. f \in Files /\ source[f] \in File BY <1>1 DEF IInv, TypeOK, Call
  <2>2. QED BY <2>1 DEF Current, File
<1>6. Aged(c, source) BY <1>1, <1>3, <1>5 DEF Fine, Aged, Holding
<1>7. Reads(c, source) BY <1>1, <1>3 DEF Fine, Reads
<1>8. Steady(c, source) BY <1>1, <1>3 DEF Fine, Steady, Holding
<1>9. Covered(c, source, mirror) BY <1>1, <1>3 DEF Fine, Covered, Holding
<1>10. QED BY <1>3, <1>4, <1>6, <1>7, <1>8, <1>9 DEF Fine

LEMMA ScanStep == ASSUME IInv, NEW r \in Runs, Scan(r) PROVE IInv'
<1>1. /\ run[r] \in Call /\ TypeOK /\ Fine(run[r], source, mirror)
      /\ run[r].left \subseteq Files
  BY CallTyped DEF IInv, Call
<1>2. troubles' \in 0..play.troubles /\ run[r].walking
  BY <1>1, SameTrouble DEF Scan
<1>9. /\ UNCHANGED <<source, mirror, temps, play, writes, starts, lost>>
      /\ lost \subseteq lost' /\ lost' \subseteq [file : Files, call : 1..starts]
  BY LostTyped DEF Scan
<1>3. run[r].stage \in Active BY <1>1, <1>2 DEF Fine, Shape
<1>4. CASE run' = [run EXCEPT ![r].walking = FALSE, ![r].left = {}]
           /\ (run[r].cancel \/ ~run[r].open \/ run[r].left = {})
  <2> DEFINE c == [run[r] EXCEPT !.walking = FALSE, !.left = {}]
  <2>1. run' = [run EXCEPT ![r] = c] BY <1>4
  <2>2. c \in Call /\ Fine(c, source, mirror) BY <1>4, WalkEnds
  <2>3. /\ c.alone = run[r].alone /\ c.stage = run[r].stage /\ c.call = run[r].call
        /\ c.steady = run[r].steady /\ c.item = run[r].item
    BY <1>1 DEF Call
  <2> HIDE DEF c
  <2>4. \A t \in temps' :
           \/ t \in temps /\ t # Temp(r)
           \/ t \in temps /\ run[r].stage \notin {"read", "rename"}
           \/ /\ c.stage \in {"read", "rename"} /\ c.item \in Item
              /\ t = [file |-> c.item.file, call |-> c.call]
    BY <1>1, <2>3 DEF Scan, Temp, Fine, Shape, Holding
  <2>5. QED BY <1>2, <1>3, <2>1, <2>2, <2>3, <2>4, <1>9, OneStep
<1>5. CASE /\ ~run[r].cancel /\ run[r].open
           /\ \E f \in run[r].left : ~source[f].there /\
                run' = [run EXCEPT ![r].left = @ \ {f}, ![r].queue = @ \o <<>>]
  <2>1. PICK f \in run[r].left : ~source[f].there /\
             run' = [run EXCEPT ![r].left = @ \ {f}, ![r].queue = @ \o <<>>]
    BY <1>5
  <2> DEFINE c == [run[r] EXCEPT !.left = @ \ {f}]
  <2>2. run[r].queue \o <<>> = run[r].queue BY <1>1 DEF Call
  <2>3. run' = [run EXCEPT ![r] = c] BY <1>1, <2>1, <2>2 DEF Call
  <2>4. /\ c \in Call /\ c.walking = run[r].walking /\ c.left = run[r].left \ {f}
        /\ c.stage = run[r].stage /\ c.item = run[r].item /\ c.queue = run[r].queue
        /\ c.live = run[r].live /\ c.open = run[r].open /\ c.cancel = run[r].cancel
        /\ c.buffer = run[r].buffer /\ c.fd = run[r].fd /\ c.alone = run[r].alone
        /\ c.steady = run[r].steady /\ c.warned = run[r].warned /\ c.call = run[r].call
    BY <1>1 DEF Call
  <2> HIDE DEF c
  <2>5. f \notin run[r].steady BY <1>1, <2>1 DEF Fine, Steady
  <2>6. Shape(c) /\ Aged(c, source) /\ Reads(c, source) /\ Steady(c, source)
    BY <1>1, <1>2, <2>4 DEF Fine, Shape, Aged, Reads, Steady, Holding
  <2>7. Covered(c, source, mirror)
    BY <1>1, <2>4, <2>5 DEF Fine, Covered, Holding
  <2>8. \A t \in temps' :
           \/ t \in temps /\ t # Temp(r)
           \/ t \in temps /\ run[r].stage \notin {"read", "rename"}
           \/ /\ c.stage \in {"read", "rename"} /\ c.item \in Item
              /\ t = [file |-> c.item.file, call |-> c.call]
    BY <1>1, <2>4 DEF Scan, Temp, Fine, Shape, Holding
  <2>9. Fine(c, source, mirror) BY <2>6, <2>7 DEF Fine
  <2>10. QED BY <1>2, <1>3, <2>3, <2>4, <2>8, <2>9, <1>9, OneStep
<1>6. CASE /\ ~run[r].cancel /\ run[r].open
           /\ \E f \in run[r].left : \E i \in Item :
                /\ i.file = f
                /\ i.kind = "file" => source[f].there /\ Current(i, source)
                /\ run' = [run EXCEPT ![r].left = @ \ {f}, ![r].queue = @ \o <<i>>]
  <2>1. PICK f \in run[r].left, i \in Item :
                /\ i.file = f
                /\ i.kind = "file" => source[f].there /\ Current(i, source)
                /\ run' = [run EXCEPT ![r].left = @ \ {f}, ![r].queue = @ \o <<i>>]
    BY <1>6
  <2> DEFINE c == [run[r] EXCEPT !.left = @ \ {f}, !.queue = @ \o <<i>>]
  <2>2. run' = [run EXCEPT ![r] = c] BY <2>1
  <2>3. c \in Call /\ Fine(c, source, mirror) BY <1>2, <1>6, <2>1, WalkFinds
  <2>4. /\ c.alone = run[r].alone /\ c.stage = run[r].stage /\ c.call = run[r].call
        /\ c.steady = run[r].steady /\ c.item = run[r].item
    BY <1>1 DEF Call
  <2> HIDE DEF c
  <2>5. \A t \in temps' :
           \/ t \in temps /\ t # Temp(r)
           \/ t \in temps /\ run[r].stage \notin {"read", "rename"}
           \/ /\ c.stage \in {"read", "rename"} /\ c.item \in Item
              /\ t = [file |-> c.item.file, call |-> c.call]
    BY <1>1, <2>4 DEF Scan, Temp, Fine, Shape, Holding
  <2>6. QED BY <1>2, <1>3, <2>2, <2>3, <2>4, <2>5, <1>9, OneStep
<1>7. ASSUME NEW f \in run[r].left
      PROVE  LET i == [file |-> f, kind |-> "file",
                       len |-> Len(source[f].data), at |-> source[f].at]
                 w == [file |-> f, kind |-> "warning", len |-> 0, at |-> 0]
             IN  /\ i \in Item /\ i.file = f /\ Current(i, source)
                 /\ w \in Item /\ w.file = f /\ w.kind # "file"
  BY <1>1 DEF TypeOK, File, Data, Item, Current
<1>8. QED BY ZenonT(60), <1>4, <1>5, <1>6, <1>7 DEF Scan

\* The loop is left: stopped, or because there is nothing more to come.
LEMMA LeaveFine ==
    ASSUME IInv, NEW r \in Runs, NEW c, c = Leave(r, run[r].warned),
           run[r].cancel \/ (/\ run[r].stage = "receive" /\ run[r].queue = <<>>
                             /\ ~run[r].walking)
    PROVE  /\ c \in Call /\ Fine(c, source, mirror)
           /\ c.stage = "join" /\ c.alone = run[r].alone /\ c.call = run[r].call
           /\ c.steady = run[r].steady
<1>1. run[r] \in Call /\ Fine(run[r], source, mirror)
  BY CallTyped DEF IInv
<1>2. /\ c \in Call /\ c.walking = run[r].walking /\ c.left = run[r].left
      /\ c.stage = "join" /\ c.queue = <<>> /\ c.live = FALSE
      /\ c.cancel = run[r].cancel /\ c.alone = run[r].alone /\ c.call = run[r].call
      /\ c.steady = run[r].steady /\ c.warned = run[r].warned
  <2>1. <<>> \in Seq(Item) /\ <<>> \in Data BY DEF Data
  <2>2. c \in Call BY <1>1, <2>1 DEF Leave, Call, Active
  <2>3. QED BY ZenonT(60), <1>1, <2>2 DEF Leave, Call
<1>3. Shape(c) /\ Aged(c, source) /\ Reads(c, source) /\ Steady(c, source)
  BY <1>1, <1>2, ItemsNone DEF Fine, Shape, Aged, Reads, Steady, Holding, Active
<1>4. Covered(c, source, mirror)
  BY <1>1, <1>2, ItemsNone DEF Fine, Shape, Covered, Holding, Active
<1>5. QED BY <1>2, <1>3, <1>4 DEF Fine

\* The loop goes on after an item that was copied or warned about.
LEMMA ProceedFine ==
    ASSUME TypeOK, NEW r \in Runs, NEW mir,
           NEW W \in SUBSET Files, NEW c, c = Proceed(r, W),
           Fine(run[r], source, mirror), Holding(run[r]),
           run[r].warned \subseteq W,
           \A f \in run[r].steady \ W :
              Same(f, source, mirror) \/ f = run[r].item.file => Same(f, source, mir)
    PROVE  /\ c \in Call /\ Fine(c, source, mir)
           /\ c.stage = "receive" /\ c.alone = run[r].alone /\ c.call = run[r].call
           /\ c.steady = run[r].steady
<1>1. run[r] \in Call
  BY CallTyped
<1>2. /\ c \in Call /\ c.walking = run[r].walking /\ c.left = run[r].left
      /\ c.stage = "receive" /\ c.queue = run[r].queue /\ c.live = FALSE
      /\ c.open = run[r].open /\ c.buffer = <<>>
      /\ c.cancel = run[r].cancel /\ c.alone = run[r].alone /\ c.call = run[r].call
      /\ c.steady = run[r].steady /\ c.warned = W
  <2>1. <<>> \in Data BY DEF Data
  <2>2. c \in Call BY <1>1, <2>1 DEF Proceed, Call, Active
  <2>3. QED BY <1>1, <2>2 DEF Proceed, Call
<1>3. Shape(c) /\ Aged(c, source) /\ Reads(c, source) /\ Steady(c, source)
  BY <1>1, <1>2 DEF Fine, Shape, Aged, Reads, Steady, Holding, Active
<1>4. Covered(c, source, mir)
  <2>1. SUFFICES ASSUME c.alone, ~c.cancel, NEW f \in c.steady \ W
                 PROVE  \/ f \in c.left
                        \/ \E i \in Items(c.queue) : i.file = f
                        \/ Same(f, source, mir)
    BY <1>2 DEF Covered
  <2>2. f \in Files /\ f \in run[r].steady \ run[r].warned BY <1>1, <1>2, <2>1 DEF Call
  <2>3. \/ f \in run[r].left
        \/ \E i \in Items(run[r].queue) : i.file = f
        \/ run[r].item.file = f
        \/ Same(f, source, mirror)
    BY <1>2, <2>1, <2>2 DEF Fine, Covered, Holding, Active
  <2>4. f \in run[r].steady \ W BY <2>1, <2>2
  <2>5. CASE run[r].item.file = f BY <2>2, <2>4, <2>5
  <2>6. CASE Same(f, source, mirror) BY <2>4, <2>6
  <2>7. QED BY <1>2, <2>3, <2>5, <2>6
<1>5. QED BY <1>2, <1>3, <1>4 DEF Fine

\* What happens to the temporary file, if there is one.
Swept(r) ==
    /\ lost \subseteq lost' /\ lost' \subseteq [file : Files, call : 1..starts]
    /\ \A t \in temps' :
          \/ t \in temps /\ t # Temp(r)
          \/ t \in temps /\ run[r].stage \notin {"read", "rename"}
          \/ t \in lost'

\* A worker that reads or renames has its temporary file.
LEMMA SweepIsSwept ==
    ASSUME IInv, NEW r \in Runs, run[r].stage \in {"read", "rename"}, Sweep(r)
    PROVE  Swept(r)
<1>1. CASE temps' = temps \ {Temp(r)} /\ UNCHANGED lost BY <1>1 DEF Swept, IInv, TypeOK
<1>2. CASE UNCHANGED temps /\ lost' = lost \cup {Temp(r)}
  <2>1. lost \subseteq [file : Files, call : 1..starts] BY DEF IInv, TypeOK
  <2>2. run[r].item.file \in Files /\ run[r].call \in 1..starts
    BY DEF IInv, Fine, Shape, Holding, Numbered, Active, Item
  <2>3. QED BY <1>2, <2>1, <2>2 DEF Swept, Temp
<1>3. QED BY <1>1, <1>2 DEF Sweep

\* A file that is stepped over.
LEMMA SkipStep ==
    ASSUME IInv, NEW r \in Runs, Holding(run[r]), Skip(r), Swept(r), Trouble \/ NoTrouble,
           UNCHANGED <<source, mirror, play, writes, starts>>
    PROVE  IInv'
<1> DEFINE W == run[r].warned \cup {run[r].item.file}
           c == Proceed(r, W)
<1>1. /\ TypeOK /\ run[r] \in Call /\ Fine(run[r], source, mirror)
      /\ run[r].item \in Item
  BY CallTyped DEF IInv, Fine, Shape
<1>2. W \in SUBSET Files BY <1>1 DEF Call, Item
<1>w. \A f \in run[r].steady \ W :
         Same(f, source, mirror) \/ f = run[r].item.file => Same(f, source, mirror)
  OBVIOUS
<1>3. /\ c \in Call /\ Fine(c, source, mirror)
      /\ c.stage = "receive" /\ c.alone = run[r].alone /\ c.call = run[r].call
      /\ c.steady = run[r].steady
  BY <1>1, <1>2, <1>w, ProceedFine
<1>4. run' = [run EXCEPT ![r] = c] BY <1>1 DEF Skip, TypeOK
<1>5. troubles' \in 0..play.troubles BY <1>1, SameTrouble
<1>6. run[r].stage \in Active BY DEF Holding, Active
<1> HIDE DEF c
<1>7. QED BY <1>3, <1>4, <1>5, <1>6, OneStep DEF Swept

\* A copy that is stopped.
LEMMA QuitStep ==
    ASSUME IInv, NEW r \in Runs, Holding(run[r]), Quit(r), Swept(r),
           UNCHANGED <<source, mirror, play, writes, starts>>
    PROVE  IInv'
<1> DEFINE c == Leave(r, run[r].warned)
<1>1. TypeOK BY DEF IInv
<1>2. run' = [run EXCEPT ![r] = c] BY <1>1 DEF Quit, TypeOK
<1>3. /\ c \in Call /\ Fine(c, source, mirror)
      /\ c.stage = "join" /\ c.alone = run[r].alone /\ c.call = run[r].call
      /\ c.steady = run[r].steady
  BY LeaveFine DEF Quit
<1>4. troubles' \in 0..play.troubles BY <1>1, SameTrouble DEF Quit
<1>5. run[r].stage \in Active BY DEF Holding, Active
<1> HIDE DEF c
<1>6. QED BY <1>2, <1>3, <1>4, <1>5, OneStep DEF Swept

\* An item that looks up to date, of a file left alone, is the same.
LEMMA FoundSame ==
    ASSUME IInv, NEW i \in Item, UpToDate(i.file, i.len, i.at), Current(i, source)
    PROVE  Same(i.file, source, mirror)
<1>1. i.file \in Files BY DEF Item
<1>2. /\ mirror[i.file].there /\ mirror[i.file].at = source[i.file].at
      /\ Len(mirror[i.file].data) = Len(source[i.file].data)
  BY DEF UpToDate, Current
<1>3. mirror[i.file].data \in Data /\ source[i.file].data \in Data
  BY <1>1 DEF IInv, TypeOK, File
<1>4. Begins(mirror[i.file].data, source[i.file].data)
  BY <1>1, <1>2 DEF IInv, MirrorFits
<1>5. Len(source[i.file].data) <= Len(mirror[i.file].data)
  BY <1>2, <1>3 DEF Data
<1>6. QED BY <1>2, <1>3, <1>4, <1>5, BeginsWhole DEF Same

\* What becomes of a call that takes the item i.
Taken(r, i, c) ==
    \/ /\ i.kind = "warning"
       /\ c = [run[r] EXCEPT !.queue = Tail(@), !.warned = @ \cup {i.file}]
    \/ /\ i.kind # "warning" /\ UpToDate(i.file, i.len, i.at)
       /\ c = [run[r] EXCEPT !.queue = Tail(@)]
    \/ /\ i.kind # "warning" /\ ~UpToDate(i.file, i.len, i.at)
       /\ c = [run[r] EXCEPT !.queue = Tail(@), !.stage = "open", !.item = i]

\* An item is taken from the queue: it is warned about, it is there, or copied.
LEMMA TakeFine ==
    ASSUME IInv, NEW r \in Runs, run[r].stage = "receive", run[r].queue # <<>>,
           ~run[r].cancel, NEW i, i = Head(run[r].queue), NEW c,
           Taken(r, i, c)
    PROVE  /\ c \in Call /\ Fine(c, source, mirror)
           /\ c.stage \in {"receive", "open"} /\ c.alone = run[r].alone
           /\ c.call = run[r].call /\ c.steady = run[r].steady
<1>1. run[r] \in Call /\ Fine(run[r], source, mirror) /\ run[r].queue \in Seq(Item)
  BY CallTyped DEF IInv, Call
<1>2. /\ i \in Item /\ Tail(run[r].queue) \in Seq(Item)
      /\ Items(run[r].queue) = {i} \cup Items(Tail(run[r].queue))
  BY <1>1, ItemsTail
<1>3. /\ i.file \in Files
      /\ i.kind # "warning" => i.kind = "file" /\ i.at <= source[i.file].at
      /\ i.kind # "warning" /\ i.file \in run[r].steady => Current(i, source)
  BY <1>1, <1>2 DEF Fine, Aged, Steady, Item
<1>4. /\ c \in Call /\ c.walking = run[r].walking /\ c.left = run[r].left
      /\ c.queue = Tail(run[r].queue)
      /\ c.live = run[r].live /\ c.open = run[r].open /\ c.cancel = run[r].cancel
      /\ c.alone = run[r].alone
      /\ c.steady = run[r].steady /\ c.call = run[r].call /\ c.buffer = run[r].buffer
      /\ c.warned = IF i.kind = "warning" THEN run[r].warned \cup {i.file} ELSE run[r].warned
      /\ \/ c.stage = "receive" /\ (i.kind = "warning" \/ UpToDate(i.file, i.len, i.at))
         \/ c.stage = "open" /\ c.item = i /\ i.kind = "file"
  <2> USE DEF Taken
  <2>1. CASE i.kind = "warning"
    <3>1. c = [run[r] EXCEPT !.queue = Tail(@), !.warned = @ \cup {i.file}] BY <2>1
    <3>2. run[r].warned \cup {i.file} \in SUBSET Files BY <1>1, <1>3 DEF Call
    <3>3. c \in Call BY <1>1, <1>2, <3>1, <3>2 DEF Call
    <3>4. QED BY <1>1, <2>1, <3>1, <3>3 DEF Call
  <2>2. CASE i.kind # "warning" /\ UpToDate(i.file, i.len, i.at)
    BY <1>1, <1>2, <1>3, <2>2 DEF Call, Active
  <2>3. CASE i.kind # "warning" /\ ~UpToDate(i.file, i.len, i.at)
    BY <1>1, <1>2, <1>3, <2>3 DEF Call, Active
  <2>4. QED BY <2>1, <2>2, <2>3
<1>5. Shape(c)
  BY <1>1, <1>2, <1>4 DEF Fine, Shape, Holding, Active
<1>6. Aged(c, source) BY <1>1, <1>2, <1>3, <1>4 DEF Fine, Aged, Holding
<1>7. Reads(c, source) BY <1>4 DEF Reads
<1>8. Steady(c, source)
  BY <1>1, <1>2, <1>3, <1>4 DEF Fine, Steady, Holding
<1>9. Covered(c, source, mirror)
  <2>1. SUFFICES ASSUME c.alone, NEW f \in c.steady \ c.warned
                 PROVE  \/ f \in c.left
                        \/ \E j \in Items(c.queue) : j.file = f
                        \/ Holding(c) /\ c.item.file = f
                        \/ Same(f, source, mirror)
    BY DEF Covered
  <2>2. f \in run[r].steady \ run[r].warned BY <1>4, <2>1
  <2>3. \/ f \in run[r].left
        \/ \E j \in Items(run[r].queue) : j.file = f
        \/ Same(f, source, mirror)
    BY <1>1, <1>4, <2>1, <2>2 DEF Fine, Covered, Holding, Active
  <2>4. CASE f = i.file
    <3>1. i.kind # "warning" BY <1>4, <2>1, <2>4
    <3>2. CASE c.stage = "open" BY <1>4, <2>4, <3>2 DEF Holding
    <3>3. CASE UpToDate(i.file, i.len, i.at)
      BY <1>2, <1>3, <2>2, <2>4, <3>1, <3>3, FoundSame
    <3>4. QED BY <1>4, <3>1, <3>2, <3>3
  <2>5. CASE f # i.file BY <1>2, <1>4, <2>3, <2>5
  <2>6. QED BY <2>4, <2>5
<1>10. QED BY <1>4, <1>5, <1>6, <1>7, <1>8, <1>9 DEF Fine

LEMMA ReceiveStep == ASSUME IInv, NEW r \in Runs, Receive(r) PROVE IInv'
<1>1. /\ TypeOK /\ run[r].stage = "receive" /\ run[r].stage \in Active
      /\ troubles' \in 0..play.troubles /\ UNCHANGED <<source, mirror, temps, counters, lost>>
  BY DEF Receive, IInv, TypeOK, counters, Active
<1>2. ASSUME NEW c \in Call, run' = [run EXCEPT ![r] = c], Fine(c, source, mirror),
             c.stage \in {"receive", "open", "join"}, c.alone = run[r].alone,
             c.call = run[r].call, c.steady = run[r].steady
      PROVE  IInv'
  BY <1>1, <1>2, OneStep, LostTyped DEF counters
<1>3. CASE run[r].queue # <<>> /\ ~run[r].cancel
  <2>1. PICK i : i = Head(run[r].queue) OBVIOUS
  <2>2. PICK c : run' = [run EXCEPT ![r] = c] /\ Taken(r, i, c)
    <3>1. run[r] \in Call BY <1>1, CallTyped
    <3>2. QED BY <1>3, <2>1, <3>1 DEF Receive, Call, Taken
  <2>3. /\ c \in Call /\ Fine(c, source, mirror)
        /\ c.stage \in {"receive", "open"} /\ c.alone = run[r].alone
        /\ c.call = run[r].call /\ c.steady = run[r].steady
    BY <1>1, <1>3, <2>1, <2>2, TakeFine
  <2>4. QED BY <1>2, <2>2, <2>3
<1>4. CASE run' = [run EXCEPT ![r] = Leave(r, run[r].warned)]
           /\ (run[r].cancel \/ (run[r].queue = <<>> /\ ~run[r].walking))
  <2> DEFINE c == Leave(r, run[r].warned)
  <2>1. /\ c \in Call /\ Fine(c, source, mirror)
        /\ c.stage = "join" /\ c.alone = run[r].alone /\ c.call = run[r].call
        /\ c.steady = run[r].steady
    BY <1>1, <1>4, LeaveFine
  <2>2. run' = [run EXCEPT ![r] = c] BY <1>4
  <2> HIDE DEF c
  <2>3. QED BY <1>2, <2>1, <2>2
<1>5. QED BY <1>3, <1>4 DEF Receive

LEMMA BeginsTrans ==
    ASSUME NEW s \in Data, NEW t \in Data, NEW u \in Data, Begins(s, t), Begins(t, u)
    PROVE  Begins(s, u)
<1>1. Len(s) \in Nat /\ Len(t) \in Nat /\ Len(u) \in Nat BY DEF Data
<1>2. Len(s) =< Len(t) /\ Len(t) =< Len(u) BY DEF Begins
<1>3. ASSUME NEW k \in 1..Len(s) PROVE s[k] = u[k]
  <2>1. k \in 1..Len(t) BY <1>1, <1>2
  <2>2. s[k] = t[k] /\ t[k] = u[k] BY <2>1 DEF Begins
  <2>3. QED BY <2>2
<1>4. Len(s) =< Len(u) BY <1>1, <1>2
<1>5. QED BY <1>3, <1>4 DEF Begins

LEMMA OpenStep == ASSUME IInv, NEW r \in Runs, OpenCopy(r) PROVE IInv'
<1>1. /\ TypeOK /\ run[r] \in Call /\ Fine(run[r], source, mirror)
      /\ Holding(run[r]) /\ run[r].item \in Item /\ run[r].stage = "open"
      /\ run[r].stage \in Active /\ run[r].item.file \in Files
      /\ UNCHANGED <<source, mirror, play, writes, starts, lost>>
      /\ lost \subseteq [file : Files, call : 1..starts]
  BY CallTyped DEF IInv, TypeOK, OpenCopy, Fine, Shape, Holding, Active, Item
<1>6. UNCHANGED temps => Swept(r) BY <1>1 DEF Swept
<1>2. CASE Quit(r) /\ UNCHANGED temps BY <1>1, <1>2, <1>6, QuitStep
<1>3. CASE (Trouble \/ NoTrouble) /\ Skip(r) /\ UNCHANGED temps BY <1>1, <1>3, <1>6, SkipStep
<1>4. CASE /\ ~run[r].cancel /\ NoTrouble
           /\ run' = [run EXCEPT ![r].stage = "read", ![r].live = TRUE]
           /\ temps' = temps \cup {Temp(r)}
  <2> DEFINE c == [run[r] EXCEPT !.stage = "read", !.live = TRUE]
  <2>1. run' = [run EXCEPT ![r] = c] BY <1>4
  <2>2. /\ c \in Call /\ c.walking = run[r].walking /\ c.left = run[r].left
        /\ c.stage = "read" /\ c.item = run[r].item /\ c.queue = run[r].queue
        /\ c.live = TRUE /\ c.open = run[r].open /\ c.cancel = run[r].cancel
        /\ c.buffer = run[r].buffer /\ c.alone = run[r].alone
        /\ c.steady = run[r].steady /\ c.warned = run[r].warned /\ c.call = run[r].call
    BY <1>1 DEF Call, Active
  <2> HIDE DEF c
  <2>3. Begins(c.buffer, source[c.item.file].data)
    <3>1. c.buffer = <<>> BY <1>1, <2>2 DEF Fine, Shape
    <3>2. source[c.item.file].data \in Data BY <1>1, <2>2 DEF TypeOK, File
    <3>3. QED BY <3>1, <3>2, BeginsSelf
  <2>4. Shape(c) BY <1>1, <2>2 DEF Fine, Shape, Holding, Active
  <2>5. Aged(c, source) /\ Reads(c, source) BY <1>1, <2>2, <2>3 DEF Fine, Aged, Reads, Holding
  <2>6. Steady(c, source) BY <1>1, <2>2 DEF Fine, Steady, Holding
  <2>7. Covered(c, source, mirror) BY <1>1, <2>2 DEF Fine, Covered, Holding, Active
  <2>8. Fine(c, source, mirror) BY <2>4, <2>5, <2>6, <2>7 DEF Fine
  <2>9. troubles' \in 0..play.troubles BY <1>1, <1>4, SameTrouble
  <2>10. \A t \in temps' :
           \/ t \in temps /\ t # Temp(r)
           \/ t \in temps /\ run[r].stage \notin {"read", "rename"}
           \/ /\ c.stage \in {"read", "rename"} /\ c.item \in Item
              /\ t = [file |-> c.item.file, call |-> c.call]
    BY <1>1, <1>4, <2>2 DEF Temp
  <2>11. QED BY <1>1, <2>1, <2>2, <2>8, <2>9, <2>10, OneStep
<1>5. QED BY <1>2, <1>3, <1>4 DEF OpenCopy

\* What is read next continues the beginning of a file that has kept its age.
LEMMA SeenFits ==
    ASSUME IInv, NEW r \in Runs, run[r].stage = "read"
    PROVE  /\ Seen(r) \in Data
           /\ run[r].item.at = source[run[r].item.file].at =>
                Begins(Seen(r), source[run[r].item.file].data)
<1>1. /\ run[r] \in Call /\ Fine(run[r], source, mirror)
      /\ run[r].item \in Item /\ run[r].item.file \in Files
  BY CallTyped DEF IInv, Fine, Shape, Holding, Item
<1>2. source[run[r].item.file].data \in Data /\ run[r].fd \in Data
  BY <1>1 DEF IInv, TypeOK, File, Call
<1>3. CASE run[r].live BY <1>2, <1>3, BeginsSelf DEF Seen
<1>4. CASE ~run[r].live BY <1>1, <1>2, <1>4 DEF Seen, Fine, Reads
<1>5. QED BY <1>3, <1>4

LEMMA ReadStep == ASSUME IInv, NEW r \in Runs, ReadChunk(r) PROVE IInv'
<1>1. /\ TypeOK /\ run[r] \in Call /\ Fine(run[r], source, mirror)
      /\ Holding(run[r]) /\ run[r].item \in Item /\ run[r].stage = "read"
      /\ run[r].stage \in Active /\ run[r].item.file \in Files
      /\ UNCHANGED <<source, mirror, play, writes, starts>>
      /\ lost \subseteq [file : Files, call : 1..starts]
  BY CallTyped DEF IInv, TypeOK, ReadChunk, Fine, Shape, Holding, Active, Item
<1> DEFINE src == source[run[r].item.file]
           next == Len(run[r].buffer) + 1
<1>2. /\ Seen(r) \in Data /\ run[r].buffer \in Data /\ src.data \in Data
      /\ run[r].item.at = src.at =>
           Begins(Seen(r), src.data) /\ Begins(run[r].buffer, src.data)
  BY <1>1, SeenFits DEF Fine, Reads, TypeOK, Call, File
<1>3. ASSUME NEW c \in Call, run' = [run EXCEPT ![r] = c], NoTrouble, UNCHANGED <<temps, lost>>,
             c.walking = run[r].walking, c.left = run[r].left,
             c.stage \in {"read", "rename"}, c.item = run[r].item, c.queue = run[r].queue,
             c.live = run[r].live, c.open = run[r].open, c.cancel = run[r].cancel,
             c.fd = run[r].fd, c.alone = run[r].alone, c.steady = run[r].steady,
             c.warned = run[r].warned, c.call = run[r].call,
             c.item.at = src.at => Begins(c.buffer, src.data),
             c.stage = "rename" /\ c.item.file \in c.steady => c.buffer = src.data
      PROVE  IInv'
  <2>1. Shape(c) BY <1>1, <1>3 DEF Fine, Shape, Holding, Active
  <2>2. Aged(c, source) /\ Reads(c, source) BY <1>1, <1>3 DEF Fine, Aged, Reads, Holding
  <2>3. Steady(c, source) BY <1>1, <1>3 DEF Fine, Steady, Holding
  <2>4. Covered(c, source, mirror) BY <1>1, <1>3 DEF Fine, Covered, Holding, Active
  <2>5. Fine(c, source, mirror) BY <2>1, <2>2, <2>3, <2>4 DEF Fine
  <2>6. troubles' \in 0..play.troubles BY <1>1, <1>3, SameTrouble
  <2>7. \A t \in temps' :
           \/ t \in temps /\ t # Temp(r)
           \/ t \in temps /\ run[r].stage \notin {"read", "rename"}
           \/ /\ c.stage \in {"read", "rename"} /\ c.item \in Item
              /\ t = [file |-> c.item.file, call |-> c.call]
    BY <1>1, <1>3 DEF Temp
  <2>8. QED BY <1>1, <1>3, <2>5, <2>6, <2>7, OneStep
<1>4. CASE Abandon(r) BY <1>1, <1>4, SweepIsSwept, QuitStep DEF Abandon
<1>5. CASE Trouble /\ GiveUp(r) BY <1>1, <1>5, SweepIsSwept, SkipStep DEF GiveUp
<1>6. CASE /\ NoTrouble /\ UNCHANGED <<temps, lost>> /\ next <= Len(Seen(r))
           /\ run' = [run EXCEPT ![r].buffer = Append(@, Seen(r)[next])]
  <2> DEFINE b == Append(run[r].buffer, Seen(r)[next])
             c == [run[r] EXCEPT !.buffer = b]
  <2>1. Len(run[r].buffer) \in Nat /\ Len(Seen(r)) \in Nat BY <1>2 DEF Data
  <2>2. b \in Data BY <1>2, <1>6, <2>1 DEF Data
  <2>3. run[r].item.at = src.at => Begins(b, src.data)
    <3>1. SUFFICES ASSUME run[r].item.at = src.at PROVE Begins(b, src.data)
      OBVIOUS
    <3>2. next \in 1..Len(Seen(r)) /\ next <= Len(src.data) /\ Seen(r)[next] = src.data[next]
      <4>1. next \in 1..Len(Seen(r)) BY <1>6, <2>1
      <4>2. Begins(Seen(r), src.data) BY <1>2, <3>1
      <4> HIDE DEF next, src
      <4>3. Len(src.data) \in Nat BY <1>2 DEF Data
      <4>4. QED BY <2>1, <4>1, <4>2, <4>3 DEF Begins
    <3>3. QED BY <1>2, <3>1, <3>2, BeginsMore
  <2>4. run' = [run EXCEPT ![r] = c] BY <1>6
  <2> HIDE DEF b
  <2>5. /\ c \in Call /\ c.walking = run[r].walking /\ c.left = run[r].left
        /\ c.stage = "read" /\ c.item = run[r].item /\ c.queue = run[r].queue
        /\ c.live = run[r].live /\ c.open = run[r].open /\ c.cancel = run[r].cancel
        /\ c.buffer = b /\ c.alone = run[r].alone /\ c.fd = run[r].fd
        /\ c.steady = run[r].steady /\ c.warned = run[r].warned /\ c.call = run[r].call
    BY <1>1, <2>2 DEF Call
  <2> HIDE DEF c
  <2>6. QED BY <1>3, <1>6, <2>3, <2>4, <2>5
<1>7. CASE /\ NoTrouble /\ UNCHANGED <<temps, lost>> /\ next > Len(Seen(r))
           /\ run' = [run EXCEPT ![r].stage = "rename"]
  <2> DEFINE c == [run[r] EXCEPT !.stage = "rename"]
  <2>1. run' = [run EXCEPT ![r] = c] BY <1>7
  <2>2. /\ c \in Call /\ c.walking = run[r].walking /\ c.left = run[r].left
        /\ c.stage = "rename" /\ c.item = run[r].item /\ c.queue = run[r].queue
        /\ c.live = run[r].live /\ c.open = run[r].open /\ c.cancel = run[r].cancel
        /\ c.buffer = run[r].buffer /\ c.alone = run[r].alone /\ c.fd = run[r].fd
        /\ c.steady = run[r].steady /\ c.warned = run[r].warned /\ c.call = run[r].call
    BY <1>1 DEF Call, Active
  <2> HIDE DEF c
  <2>3. ASSUME run[r].item.file \in run[r].steady PROVE run[r].buffer = src.data
    <3>1. run[r].live /\ run[r].item.at = src.at
      BY <1>1, <2>3 DEF Fine, Steady, Current
    <3>2. Seen(r) = src.data BY <3>1 DEF Seen
    <3>3. Len(src.data) <= Len(run[r].buffer) BY <1>2, <1>7, <3>2 DEF Data
    <3>4. QED BY <1>2, <3>1, <3>3, BeginsWhole
  <2>4. QED BY <1>2, <1>3, <1>7, <2>1, <2>2, <2>3
<1>8. QED BY <1>4, <1>5, <1>6, <1>7 DEF ReadChunk

LEMMA RenameStep == ASSUME IInv, NEW r \in Runs, Rename(r) PROVE IInv'
<1>1. /\ TypeOK /\ run[r] \in Call /\ Fine(run[r], source, mirror)
      /\ Holding(run[r]) /\ run[r].item \in Item /\ run[r].stage = "rename"
      /\ run[r].stage \in Active /\ run[r].item.file \in Files
      /\ UNCHANGED <<source, play, writes, starts>>
      /\ lost \subseteq [file : Files, call : 1..starts]
  BY CallTyped DEF IInv, TypeOK, Rename, Fine, Shape, Holding, Active, Item
<1>2. CASE Trouble /\ GiveUp(r) /\ UNCHANGED mirror BY <1>1, <1>2, SweepIsSwept, SkipStep DEF GiveUp
<1>3. CASE /\ NoTrouble
           /\ mirror' = [mirror EXCEPT ![run[r].item.file] =
                 [there |-> TRUE, data |-> run[r].buffer, at |-> run[r].item.at]]
           /\ run' = [run EXCEPT ![r] = Proceed(r, @.warned)]
           /\ temps' = temps \ {Temp(r)} /\ UNCHANGED lost
  <2> DEFINE g == run[r].item.file
             copy == [there |-> TRUE, data |-> run[r].buffer, at |-> run[r].item.at]
             c == Proceed(r, run[r].warned)
  <2>1. /\ g \in Files /\ copy \in File
    BY <1>1 DEF File, Item, Call
  <2>2. /\ mirror' \in [Files -> File] /\ mirror'[g] = copy
        /\ \A f \in Files : f # g => mirror'[f] = mirror[f]
    BY <1>1, <1>3, <2>1 DEF TypeOK
  <2>3. copy.there /\ copy.at <= source[g].at
        /\ (copy.at = source[g].at => Begins(copy.data, source[g].data))
    BY <1>1 DEF Fine, Aged, Reads
  <2> HIDE DEF copy
  <2>4. MirrorFits(source, mirror')
    BY <2>2, <2>3 DEF IInv, MirrorFits
  <2>5. g \in run[r].steady => Same(g, source, mirror')
    BY <1>1, <2>2 DEF Fine, Steady, Same, Current, copy
  <2>6. \A f \in Files : f # g /\ Same(f, source, mirror) => Same(f, source, mirror')
    BY <2>2 DEF Same
  <2>7. \A q \in Runs \ {r} : Fine(run[q], source, mirror')
    <3>1. SUFFICES ASSUME NEW q \in Runs \ {r} PROVE Fine(run[q], source, mirror')
      OBVIOUS
    <3>2. Fine(run[q], source, mirror) /\ Apart(q, r) /\ run[q] \in Call
      BY <1>1, CallTyped DEF IInv
    <3>3. Covered(run[q], source, mirror')
      <4>1. SUFFICES ASSUME run[q].alone, run[q].stage \in Active \cup {"ok"},
                            run[q].cancel => run[q].stage = "ok",
                            NEW f \in run[q].steady \ run[q].warned
                     PROVE  \/ f \in run[q].left
                            \/ \E i \in Items(run[q].queue) : i.file = f
                            \/ Holding(run[q]) /\ run[q].item.file = f
                            \/ Same(f, source, mirror')
        BY DEF Covered
      <4>2. f \in Files /\ run[q].steady \subseteq run[r].steady
        BY <1>1, <3>2, <4>1 DEF Apart, Call
      <4>3. CASE f = g BY <2>5, <4>1, <4>2, <4>3
      <4>4. CASE f # g BY <2>6, <3>2, <4>1, <4>2, <4>4 DEF Fine, Covered
      <4>5. QED BY <4>3, <4>4
    <3>4. QED BY <3>2, <3>3 DEF Fine
  <2>8. run[r].warned \in SUBSET Files BY <1>1 DEF Call
  <2>9. /\ c \in Call /\ Fine(c, source, mirror')
        /\ c.stage = "receive" /\ c.alone = run[r].alone /\ c.call = run[r].call
        /\ c.steady = run[r].steady
    <3>1. \A f \in run[r].steady \ run[r].warned :
             Same(f, source, mirror) \/ f = run[r].item.file => Same(f, source, mirror')
      <4>1. run[r].steady \subseteq Files BY <1>1 DEF Call
      <4>2. QED BY <2>5, <2>6, <4>1
    <3>2. QED BY <1>1, <2>8, <3>1, ProceedFine
  <2>10. run' = [run EXCEPT ![r] = c] BY <1>1, <1>3 DEF TypeOK
  <2>11. troubles' \in 0..play.troubles BY <1>1, <1>3, SameTrouble
  <2>12. \A t \in temps' : t \in temps /\ t # Temp(r) BY <1>3
  <2> HIDE DEF c
  <2>13. QED BY <1>1, <2>2, <2>4, <2>7, <2>9, <2>10, <2>11, <2>12, <1>3, OneStepAndMirror
<1>4. QED BY <1>2, <1>3 DEF Rename

\* A call that is not at work knows nothing.
LEMMA IdleFine ==
    ASSUME NEW x \in {"idle", "cancelled", "failed"}, NEW c, c = [Idle EXCEPT !.stage = x],
           NEW src, NEW mir
    PROVE  /\ c \in Call /\ Fine(c, src, mir) /\ c.stage = x /\ c.alone = FALSE
<1>1. <<>> \in Seq(Item) /\ <<>> \in Data BY DEF Data
<1>2. /\ c.stage = x /\ c.alone = FALSE /\ c.queue = <<>> /\ c.steady = {} /\ c.left = {}
      /\ c.walking = FALSE /\ c.live = FALSE /\ c.item = None /\ c.call = 0
      /\ c.cancel = FALSE /\ c.open = FALSE /\ c.buffer = <<>> /\ c.fd = <<>>
      /\ c.warned = {}
  BY DEF Idle
<1>3. c \in Call BY <1>1 DEF Idle, Call, Active
<1>4. Fine(c, src, mir)
  BY <1>2, ItemsNone DEF Fine, Shape, Aged, Reads, Steady, Covered, Holding, Active
<1>5. QED BY <1>2, <1>3, <1>4

LEMMA JoinStep == ASSUME IInv, NEW r \in Runs, Join(r) PROVE IInv'
<1>1. /\ TypeOK /\ run[r] \in Call /\ Fine(run[r], source, mirror)
      /\ run[r].stage = "join" /\ ~run[r].walking /\ run[r].stage \in Active
      /\ troubles' \in 0..play.troubles /\ UNCHANGED <<source, mirror, temps, counters, lost>>
  BY CallTyped DEF IInv, Join, Active, TypeOK, counters
<1>2. CASE run[r].cancel
  <2> DEFINE c == [Idle EXCEPT !.stage = "cancelled"]
  <2>1. run' = [run EXCEPT ![r] = c] BY <1>1, <1>2 DEF Join, TypeOK
  <2>2. /\ c \in Call /\ Fine(c, source, mirror) /\ c.stage = "cancelled" /\ c.alone = FALSE
    BY IdleFine
  <2> HIDE DEF c
  <2>3. QED BY <1>1, <2>1, <2>2, OneStep, LostTyped DEF counters, Active
<1>3. CASE ~run[r].cancel
  <2> DEFINE c == [run[r] EXCEPT !.stage = "ok"]
  <2>1. run' = [run EXCEPT ![r] = c] BY <1>1, <1>3 DEF Join, TypeOK
  <2>2. /\ c \in Call /\ c.walking = FALSE /\ c.left = run[r].left
        /\ c.stage = "ok" /\ c.queue = run[r].queue
        /\ c.live = run[r].live /\ c.cancel = FALSE
        /\ c.alone = run[r].alone
        /\ c.steady = run[r].steady /\ c.warned = run[r].warned /\ c.call = run[r].call
    BY <1>1, <1>3 DEF Call
  <2> HIDE DEF c
  <2>3. Shape(c) /\ Aged(c, source) /\ Reads(c, source)
    BY <1>1, <2>2 DEF Fine, Shape, Aged, Reads, Holding, Active
  <2>4. Steady(c, source) /\ Covered(c, source, mirror)
    BY <1>1, <1>3, <2>2 DEF Fine, Steady, Covered, Holding, Active
  <2>5. Fine(c, source, mirror) BY <2>3, <2>4 DEF Fine
  <2>6. QED BY <1>1, <2>1, <2>2, <2>5, OneStep, LostTyped DEF counters, Active
<1>4. QED BY <1>2, <1>3

LEMMA CancelStep == ASSUME IInv, NEW r \in Runs, Cancel(r) PROVE IInv'
<1>1. /\ TypeOK /\ run[r] \in Call /\ Fine(run[r], source, mirror)
      /\ run[r].stage \in Active /\ troubles' \in 0..play.troubles
      /\ UNCHANGED <<source, mirror, temps, play, writes, starts, lost>>
  BY CallTyped, SameTrouble DEF IInv, Cancel, Working
<1> DEFINE c == [run[r] EXCEPT !.cancel = TRUE]
<1>2. run' = [run EXCEPT ![r] = c] BY DEF Cancel
<1>3. /\ c \in Call /\ c.walking = run[r].walking /\ c.left = run[r].left
      /\ c.stage = run[r].stage /\ c.item = run[r].item /\ c.queue = run[r].queue
      /\ c.live = run[r].live /\ c.open = run[r].open /\ c.cancel = TRUE
      /\ c.buffer = run[r].buffer /\ c.fd = run[r].fd /\ c.alone = run[r].alone
      /\ c.steady = run[r].steady /\ c.warned = run[r].warned /\ c.call = run[r].call
  BY <1>1 DEF Call
<1> HIDE DEF c
<1>4. Shape(c) /\ Aged(c, source) /\ Reads(c, source) /\ Steady(c, source)
  BY <1>1, <1>3 DEF Fine, Shape, Aged, Reads, Steady, Holding
<1>5. Covered(c, source, mirror) BY <1>1, <1>3 DEF Covered, Active
<1>6. Fine(c, source, mirror) BY <1>4, <1>5 DEF Fine
<1>7. \A t \in temps' :
         \/ t \in temps /\ t # Temp(r)
         \/ t \in temps /\ run[r].stage \notin {"read", "rename"}
         \/ /\ c.stage \in {"read", "rename"} /\ c.item \in Item
            /\ t = [file |-> c.item.file, call |-> c.call]
  BY <1>1, <1>3 DEF Temp, Fine, Shape, Holding
<1>8. QED BY <1>1, <1>2, <1>3, <1>6, <1>7, OneStep, LostTyped

(***************************************************************************)
(* A call begins, the user writes, the daemon dies                         *)
(***************************************************************************)
LEMMA StartStep == ASSUME IInv, NEW r \in Runs, Start(r) PROVE IInv'
<1>1. /\ TypeOK /\ run[r].stage \notin Active /\ starts \in Nat /\ starts' = starts + 1
      /\ starts' \in 0..play'.starts /\ troubles' \in 0..play'.troubles
      /\ UNCHANGED <<source, mirror, temps, play, writes, lost>>
  <2>1. /\ TypeOK /\ run[r].stage \notin Active /\ starts < play.starts /\ starts' = starts + 1
        /\ UNCHANGED <<source, mirror, temps, play, writes, lost>>
    BY DEF IInv, Start, Working
  <2>2. Trouble \/ NoTrouble BY DEF Start
  <2>3. troubles' \in 0..play.troubles BY <2>1, <2>2, SameTrouble
  <2>4. play.starts \in Nat /\ starts \in 0..play.starts
    BY <2>1, PlaysAssumption DEF TypeOK
  <2>5. QED BY <2>1, <2>3, <2>4
<1>2. /\ temps' \subseteq [file : Files, call : 1..starts'] /\ lost' \subseteq [file : Files, call : 1..starts']
      /\ 1..starts \subseteq 1..starts'
  BY <1>1 DEF TypeOK
<1>3. ASSUME \A q \in Runs : run'[q] \in Call /\ Fine(run'[q], source, mirror) /\ Numbered(q)',
             run' \in [Runs -> Call],
             \A p, q \in Runs : Apart(p, q)',
             \A q \in Runs : q # r =>
                run'[q].stage = run[q].stage /\ run'[q].item = run[q].item
                    /\ run'[q].call = run[q].call
      PROVE  IInv'
  <2>1. TypeOK' BY <1>1, <1>2, <1>3 DEF TypeOK
  <2>2. TempsAreSwept'
    BY <1>1, <1>3 DEF IInv, TempsAreSwept, Temp, Active
  <2>3. MirrorFits(source', mirror') BY <1>1 DEF IInv
  <2>4. QED BY <1>1, <1>3, <2>1, <2>2, <2>3 DEF IInv
<1>4. CASE Trouble /\ run' = [run EXCEPT ![r] = [Idle EXCEPT !.stage = "failed"]]
  <2> DEFINE c == [Idle EXCEPT !.stage = "failed"]
  <2>1. /\ c \in Call /\ Fine(c, source, mirror) /\ c.stage = "failed" /\ c.alone = FALSE
    BY IdleFine
  <2> HIDE DEF c
  <2>2. run' = [run EXCEPT ![r] = c] BY <1>4 DEF c
  <2>3. run'[r] = c /\ run' \in [Runs -> Call] /\ \A q \in Runs : q # r => run'[q] = run[q]
    BY <1>1, <2>1, <2>2 DEF TypeOK
  <2>4. \A q \in Runs : run'[q] \in Call /\ Fine(run'[q], source, mirror)
    BY <2>1, <2>3 DEF IInv
  <2>5. \A q \in Runs : Numbered(q)'
    BY <1>1, <1>2, <2>1, <2>3 DEF IInv, Numbered, Active
  <2>6. \A p, q \in Runs : Apart(p, q)'
    BY <1>1, <2>1, <2>3 DEF IInv, Apart, Active
  <2>7. QED BY <1>3, <2>3, <2>4, <2>5, <2>6
<1>5. CASE \E c : /\ c = [Idle EXCEPT !.stage = "receive", !.call = starts + 1,
                          !.open = TRUE, !.walking = TRUE, !.left = {f \in Files : source[f].there},
                          !.steady = {f \in Files : source[f].there},
                          !.alone = \A o \in Runs \ {r} : ~Working(o)]
                 /\ run' = [q \in Runs |->
                        CASE q = r -> c
                          [] q # r /\ Working(q) -> [run[q] EXCEPT !.alone = FALSE]
                          [] OTHER -> run[q]]
  <2>1. PICK c : /\ c = [Idle EXCEPT !.stage = "receive", !.call = starts + 1,
                          !.open = TRUE, !.walking = TRUE, !.left = {f \in Files : source[f].there},
                          !.steady = {f \in Files : source[f].there},
                          !.alone = \A o \in Runs \ {r} : ~Working(o)]
                 /\ run' = [q \in Runs |->
                        CASE q = r -> c
                          [] q # r /\ Working(q) -> [run[q] EXCEPT !.alone = FALSE]
                          [] OTHER -> run[q]]
    BY <1>5
  <2>2. /\ c.stage = "receive" /\ c.call = starts + 1 /\ c.open = TRUE /\ c.walking = TRUE
        /\ c.left = {f \in Files : source[f].there}
        /\ c.steady = {f \in Files : source[f].there}
        /\ c.alone = \A o \in Runs \ {r} : ~Working(o)
        /\ c.queue = <<>> /\ c.item = None /\ c.buffer = <<>> /\ c.fd = <<>>
        /\ c.live = FALSE /\ c.cancel = FALSE /\ c.warned = {}
    BY <2>1 DEF Idle
  <2>3. c \in Call
    <3>1. <<>> \in Seq(Item) /\ <<>> \in Data /\ starts + 1 \in Nat BY <1>1 DEF Data
    <3>2. (\A o \in Runs \ {r} : ~Working(o)) \in BOOLEAN OBVIOUS
    <3> DEFINE a == \A o \in Runs \ {r} : ~Working(o)
               s == {f \in Files : source[f].there}
    <3>3. s \in SUBSET Files /\ a \in BOOLEAN OBVIOUS
    <3>4. c = [Idle EXCEPT !.stage = "receive", !.call = starts + 1,
                          !.open = TRUE, !.walking = TRUE, !.left = s,
                          !.steady = s, !.alone = a]
      BY <2>1
    <3> HIDE DEF a, s
    <3>5. QED BY <3>1, <3>3, <3>4 DEF Idle, Call, Active
  <2>4. Shape(c) /\ Aged(c, source) /\ Reads(c, source)
    BY <2>2, ItemsNone DEF Shape, Aged, Reads, Holding, Active
  <2>5. Steady(c, source) /\ Covered(c, source, mirror)
    BY <2>2, ItemsNone DEF Steady, Covered, Holding, Active
  <2>6. \A q \in Runs : q # r =>
           /\ run'[q] \in Call /\ run'[q].stage = run[q].stage /\ run'[q].item = run[q].item
           /\ run'[q].call = run[q].call /\ run'[q].steady = run[q].steady
           /\ run'[q].alone => run[q].alone /\ ~Working(q)
           /\ Fine(run'[q], source, mirror)
    <3>1. SUFFICES ASSUME NEW q \in Runs, q # r
                   PROVE  /\ run'[q] \in Call /\ run'[q].stage = run[q].stage
                          /\ run'[q].item = run[q].item
                          /\ run'[q].call = run[q].call /\ run'[q].steady = run[q].steady
                          /\ run'[q].alone => run[q].alone /\ ~Working(q)
                          /\ Fine(run'[q], source, mirror)
      OBVIOUS
    <3>2. run[q] \in Call /\ Fine(run[q], source, mirror) BY <1>1, CallTyped DEF IInv
    <3>3. CASE ~Working(q)
      <4>1. run'[q] = run[q] BY <2>1, <3>1, <3>3
      <4>2. QED BY <3>2, <3>3, <4>1
    <3>4. CASE Working(q)
      <4> DEFINE d == [run[q] EXCEPT !.alone = FALSE]
      <4>1. run'[q] = d BY <2>1, <3>1, <3>4
      <4>2. /\ d \in Call /\ d.walking = run[q].walking /\ d.left = run[q].left
            /\ d.stage = run[q].stage /\ d.item = run[q].item /\ d.queue = run[q].queue
            /\ d.live = run[q].live /\ d.open = run[q].open /\ d.cancel = run[q].cancel
            /\ d.buffer = run[q].buffer /\ d.fd = run[q].fd /\ d.alone = FALSE
            /\ d.steady = run[q].steady /\ d.call = run[q].call
        BY <3>2 DEF Call
      <4> HIDE DEF d
      <4>3. Shape(d) /\ Aged(d, source) /\ Reads(d, source) /\ Steady(d, source)
        BY <3>2, <4>2 DEF Fine, Shape, Aged, Reads, Steady, Holding
      <4>4. Covered(d, source, mirror) BY <4>2 DEF Covered
      <4>5. QED BY <4>1, <4>2, <4>3, <4>4 DEF Fine
    <3>5. QED BY <3>3, <3>4
  <2>7. run'[r] = c BY <2>1
  <2>8. \A q \in Runs : run'[q] \in Call /\ Fine(run'[q], source, mirror)
    BY <2>3, <2>4, <2>5, <2>6, <2>7 DEF Fine
  <2>9. run' \in [Runs -> Call]
    <3>1. run' = [q \in Runs |-> run'[q]] BY <2>1
    <3>2. QED BY <2>8, <3>1
  <2>10. \A q \in Runs : Numbered(q)'
    BY <1>1, <1>2, <2>2, <2>6, <2>7 DEF IInv, Numbered
  <2>11. \A p, q \in Runs : Apart(p, q)'
    <3>1. SUFFICES ASSUME NEW p \in Runs, NEW q \in Runs, p # q, run'[p].alone,
                          run'[q].stage \in Active
                   PROVE  /\ run'[p].stage \notin Active
                          /\ run'[p].stage = "ok" => run'[p].steady \subseteq run'[q].steady
      BY DEF Apart
    <3>2. CASE p = r BY <2>2, <2>6, <2>7, <3>1, <3>2 DEF Working
    <3>3. CASE p # r /\ q # r
      BY <2>6, <3>1, <3>3 DEF IInv, Apart
    <3>4. CASE p # r /\ q = r
      <4>1. /\ run[p].alone /\ run[p].stage \notin Active /\ run'[p].stage = run[p].stage
            /\ run'[p].steady = run[p].steady
        BY <2>6, <3>1, <3>4 DEF Working
      <4>2. run[p].steady \subseteq {f \in Files : source[f].there}
        BY <1>1, CallTyped DEF IInv, Fine, Steady, Call
      <4>3. QED BY <2>2, <2>7, <3>4, <4>1, <4>2
    <3>5. QED BY <3>2, <3>3, <3>4
  <2>12. QED BY <1>3, <2>6, <2>8, <2>9, <2>10, <2>11
<1>6. QED BY <1>4, <1>5 DEF Start

\* What becomes of a call when the user touches f.
Touch(c, f, swapped, data) ==
    [c EXCEPT !.steady = @ \ {f},
              !.live = @ /\ ~(swapped /\ c.item.file = f),
              !.fd = IF c.live /\ swapped /\ c.item.file = f THEN data ELSE @]

\* A file that is written is older only by growing; one that is swapped and has
\* kept its age has kept its content.
LEMMA TouchFine ==
    ASSUME IInv, NEW f \in Files, NEW file \in File, file.at >= source[f].at,
           file.at = source[f].at => Begins(source[f].data, file.data),
           NEW swapped \in BOOLEAN, Write(f, swapped, file), NEW q \in Runs
    PROVE  /\ run'[q] \in Call /\ Fine(run'[q], source', mirror)
           /\ run'[q].stage = run[q].stage /\ run'[q].item = run[q].item
           /\ run'[q].call = run[q].call /\ run'[q].alone = run[q].alone
           /\ run'[q].steady = run[q].steady \ {f}
<1> DEFINE c == run[q]
           d == run'[q]
           src == source'
           gone == swapped /\ c.item.file = f
<1>0. /\ TypeOK /\ c \in Call /\ Fine(c, source, mirror)
      /\ d = Touch(c, f, swapped, source[f].data)
      /\ src[f] = file /\ \A g \in Files : g # f => src[g] = source[g]
  <2>1. /\ TypeOK /\ c \in Call /\ Fine(c, source, mirror)
    BY CallTyped DEF IInv
  <2>2. src = [source EXCEPT ![f] = file] BY DEF Write
  <2>3. d = Touch(c, f, swapped, source[f].data) BY DEF Write, Touched, Touch
  <2>4. src[f] = file /\ \A g \in Files : g # f => src[g] = source[g]
    BY <2>1, <2>2 DEF TypeOK
  <2>5. QED BY <2>1, <2>3, <2>4
<1> HIDE DEF c, d, src
<1>1. source[f] \in File /\ source[f].data \in Data /\ source[f].at \in Nat
      /\ file.data \in Data /\ file.at \in Nat
  BY <1>0 DEF TypeOK, File
<1>2. gone \in BOOLEAN OBVIOUS
<1>3. /\ d = [c EXCEPT !.steady = c.steady \ {f}, !.live = c.live /\ ~gone,
                     !.fd = IF c.live /\ gone THEN source[f].data ELSE c.fd]
  BY <1>0 DEF Touch, gone
<1>4. (IF c.live /\ gone THEN source[f].data ELSE c.fd) \in Data
  BY <1>0, <1>1 DEF Call
<1>5. (c.live /\ ~gone) \in BOOLEAN /\ c.steady \ {f} \in SUBSET Files
  BY <1>0 DEF Call
<1>6. /\ d \in Call /\ d.walking = c.walking /\ d.left = c.left /\ d.stage = c.stage
      /\ d.item = c.item /\ d.queue = c.queue /\ d.open = c.open /\ d.cancel = c.cancel
      /\ d.buffer = c.buffer /\ d.alone = c.alone /\ d.warned = c.warned
      /\ d.call = c.call /\ d.steady = c.steady \ {f}
      /\ d.live = (c.live /\ ~gone)
      /\ d.fd = IF c.live /\ gone THEN source[f].data ELSE c.fd
  <2> DEFINE l == c.live /\ ~gone
             u == IF c.live /\ gone THEN source[f].data ELSE c.fd
             s == c.steady \ {f}
  <2>1. d = [c EXCEPT !.steady = s, !.live = l, !.fd = u] BY <1>3
  <2>2. l \in BOOLEAN /\ u \in Data /\ s \in SUBSET Files BY <1>4, <1>5
  <2> HIDE DEF l, u, s
  <2>3. /\ d \in Call /\ d.walking = c.walking /\ d.left = c.left /\ d.stage = c.stage
        /\ d.item = c.item /\ d.queue = c.queue /\ d.open = c.open /\ d.cancel = c.cancel
        /\ d.buffer = c.buffer /\ d.alone = c.alone /\ d.warned = c.warned
        /\ d.call = c.call /\ d.steady = s /\ d.live = l /\ d.fd = u
    BY <1>0, <2>1, <2>2 DEF Call
  <2>4. QED BY <2>3 DEF l, u, s
<1> HIDE DEF gone
<1>7. src[f] = file /\ \A g \in Files : g # f => src[g] = source[g]
  BY <1>0
<1>8. \A g \in Files : source[g].at \in Nat /\ src[g].at \in Nat /\ source[g].at <= src[g].at
  <2>1. \A g \in Files : source[g].at \in Nat BY <1>0 DEF TypeOK, File
  <2>2. \A g \in Files : g # f => src[g].at = source[g].at BY <1>7
  <2>3. src[f].at = file.at BY <1>7
  <2>4. source[f].at <= file.at /\ file.at \in Nat BY <1>1
  <2>5. \A g \in Files : g # f => source[g].at <= src[g].at BY <2>1, <2>2
  <2>6. source[f].at <= src[f].at /\ src[f].at \in Nat BY <2>3, <2>4
  <2>7. QED BY <2>1, <2>2, <2>5, <2>6
<1>9. \A i \in Items(c.queue) : i \in Item BY <1>0, ItemsTyped DEF Call
<1>10. Shape(d)
  BY <1>0, <1>6 DEF Fine, Shape, Holding
<1>11. Aged(d, src)
  <2>1. \A i \in Item : i.file \in Files /\ i.at \in Nat BY DEF Item
  <2>2. Holding(d) => c.item \in Item BY <1>0, <1>6 DEF Fine, Shape, Holding
  <2>3. QED BY <1>0, <1>6, <1>8, <1>9, <2>1, <2>2 DEF Fine, Aged, Holding
<1>12. Reads(d, src)
  <2>1. SUFFICES ASSUME d.stage \in {"read", "rename"}, d.item.at = src[d.item.file].at
                 PROVE  /\ Begins(d.buffer, src[d.item.file].data)
                        /\ ~d.live => Begins(d.fd, src[d.item.file].data)
    BY DEF Reads
  <2>2. /\ Holding(c) /\ c.item \in Item /\ c.item.file \in Files /\ c.item.at \in Nat
        /\ c.buffer \in Data /\ c.fd \in Data
        /\ c.item.at <= source[c.item.file].at
    BY <1>0, <1>6, <2>1 DEF Fine, Shape, Aged, Holding, Item, Call
  <2>3. c.item.at = source[c.item.file].at BY <1>1, <1>6, <1>8, <2>1, <2>2
  <2>4. /\ Begins(c.buffer, source[c.item.file].data)
        /\ ~c.live => Begins(c.fd, source[c.item.file].data)
    BY <1>0, <1>6, <2>1, <2>3 DEF Fine, Reads
  <2>5. CASE c.item.file # f
    <3>1. ~gone BY <2>5 DEF gone
    <3>2. QED BY <1>6, <1>7, <2>2, <2>4, <2>5, <3>1
  <2>6. CASE c.item.file = f
    <3>1. Begins(source[f].data, file.data) BY <1>6, <1>7, <2>1, <2>3, <2>6
    <3>2. Begins(c.buffer, file.data) BY <1>1, <2>2, <2>4, <2>6, <3>1, BeginsTrans
    <3>3. ~c.live => Begins(c.fd, file.data) BY <1>1, <2>2, <2>4, <2>6, <3>1, BeginsTrans
    <3>4. QED BY <1>6, <1>7, <2>6, <3>1, <3>2, <3>3
  <2>7. QED BY <2>5, <2>6
<1>13. Steady(d, src)
  <2>1. SUFFICES ASSUME NEW g \in d.steady
                 PROVE  /\ src[g].there
                        /\ \A i \in Items(d.queue) : i.kind = "file" /\ i.file = g => Current(i, src)
                        /\ Holding(d) /\ d.item.file = g => Current(d.item, src)
                        /\ d.stage \in {"read", "rename"} /\ d.item.file = g => d.live
                        /\ d.stage = "rename" /\ d.item.file = g => d.buffer = src[g].data
    BY DEF Steady
  <2>2. g \in Files /\ g # f /\ g \in c.steady /\ src[g] = source[g]
    BY <1>0, <1>6, <1>7, <2>1 DEF Call
  <2>3. c.item.file = g => ~gone BY <2>2 DEF gone
  <2>4. /\ source[g].there
        /\ \A i \in Items(c.queue) : i.kind = "file" /\ i.file = g => Current(i, source)
        /\ Holding(c) /\ c.item.file = g => Current(c.item, source)
        /\ c.stage \in {"read", "rename"} /\ c.item.file = g => c.live
        /\ c.stage = "rename" /\ c.item.file = g => c.buffer = source[g].data
    BY <1>0, <2>2 DEF Fine, Steady
  <2>5. \A i \in Items(d.queue) : i.kind = "file" /\ i.file = g => Current(i, src)
    BY <1>6, <2>2, <2>4 DEF Current
  <2>6. Holding(d) /\ d.item.file = g => Current(d.item, src)
    BY <1>6, <2>2, <2>4 DEF Current, Holding
  <2>7. d.stage \in {"read", "rename"} /\ d.item.file = g => d.live
    BY <1>6, <2>3, <2>4
  <2>8. d.stage = "rename" /\ d.item.file = g => d.buffer = src[g].data
    BY <1>6, <2>2, <2>4
  <2>9. QED BY <2>2, <2>4, <2>5, <2>6, <2>7, <2>8
<1>14. Covered(d, src, mirror)
  <2>1. \A g \in Files : g # f /\ Same(g, source, mirror) => Same(g, src, mirror)
    BY <1>7 DEF Same
  <2>2. \A g \in d.steady : g \in Files /\ g # f /\ g \in c.steady BY <1>0, <1>6 DEF Call
  <2>3. QED BY <1>0, <1>6, <2>1, <2>2 DEF Fine, Covered, Holding
<1>15. QED BY <1>6, <1>10, <1>11, <1>12, <1>13, <1>14 DEF Fine, c, d, src

LEMMA WriteStep ==
    ASSUME IInv, NEW f \in Files, NEW file \in File, file.at >= source[f].at,
           file.at = source[f].at => Begins(source[f].data, file.data),
           NEW swapped \in BOOLEAN, Write(f, swapped, file)
    PROVE  IInv'
<1>1. TypeOK /\ MirrorFits(source, mirror) BY DEF IInv
<1>2. /\ source' = [source EXCEPT ![f] = file]
      /\ writes' = writes + 1 /\ writes < play.writes
      /\ UNCHANGED <<mirror, temps, play, starts, troubles, lost>>
  BY DEF Write
<1>3. /\ source' \in [Files -> File] /\ source'[f] = file
      /\ \A g \in Files : g # f => source'[g] = source[g]
  BY <1>1, <1>2 DEF TypeOK
<1>5. \A q \in Runs : /\ run'[q] \in Call /\ Fine(run'[q], source', mirror)
                      /\ run'[q].stage = run[q].stage /\ run'[q].item = run[q].item
                      /\ run'[q].call = run[q].call /\ run'[q].alone = run[q].alone
                      /\ run'[q].steady = run[q].steady \ {f}
  BY TouchFine
<1>6. run' \in [Runs -> Call]
  <2>1. run' = [q \in Runs |-> run'[q]] BY DEF Write, Touched
  <2>2. QED BY <1>5, <2>1
<1>7. TypeOK'
  BY <1>1, <1>2, <1>3, <1>6, PlaysAssumption DEF TypeOK
<1>8. MirrorFits(source', mirror')
  <2>1. SUFFICES ASSUME NEW g \in Files, mirror[g].there
                 PROVE  /\ mirror[g].at <= source'[g].at
                        /\ mirror[g].at = source'[g].at => Begins(mirror[g].data, source'[g].data)
    BY <1>2 DEF MirrorFits
  <2>2. /\ mirror[g].at <= source[g].at
        /\ mirror[g].at = source[g].at => Begins(mirror[g].data, source[g].data)
        /\ mirror[g].at \in Nat /\ source[g].at \in Nat /\ mirror[g].data \in Data
        /\ source[g].data \in Data /\ file.at \in Nat /\ file.data \in Data
    BY <1>1, <2>1 DEF MirrorFits, TypeOK, File
  <2>3. CASE g # f BY <1>3, <2>2, <2>3
  <2>4. CASE g = f
    <3>1. mirror[f].at <= file.at BY <2>2, <2>4
    <3>2. ASSUME mirror[f].at = file.at PROVE Begins(mirror[f].data, file.data)
      <4>1. file.at = source[f].at BY <2>2, <2>4, <3>2
      <4>2. QED BY <2>2, <2>4, <3>2, <4>1, BeginsTrans
    <3>3. QED BY <1>3, <2>4, <3>1, <3>2
  <2>5. QED BY <2>3, <2>4
<1>9. \A q \in Runs : Numbered(q)' BY <1>2, <1>5 DEF IInv, Numbered
<1>10. \A p, q \in Runs : Apart(p, q)' BY <1>5 DEF IInv, Apart
<1>11. TempsAreSwept' BY <1>2, <1>5 DEF IInv, TempsAreSwept, Temp
<1>12. QED BY <1>2, <1>5, <1>7, <1>8, <1>9, <1>10, <1>11 DEF IInv

LEMMA EditedFiles == ASSUME TypeOK PROVE play.edited \subseteq Files
BY PlaysAssumption DEF TypeOK

LEMMA GrowStep == ASSUME IInv, NEW f \in Files, Grow(f) PROVE IInv'
<1>1. PICK at \in {source[f].at, source[f].at + 1} :
         Write(f, FALSE, [there |-> TRUE, data |-> Append(source[f].data, writes + 1), at |-> at])
  BY DEF Grow
<1> DEFINE file == [there |-> TRUE, data |-> Append(source[f].data, writes + 1), at |-> at]
<1>2. source[f].data \in Data /\ source[f].at \in Nat /\ writes + 1 \in Nat /\ TypeOK
  BY DEF IInv, TypeOK, File
<1>3. /\ Append(source[f].data, writes + 1) \in Data
      /\ Begins(source[f].data, Append(source[f].data, writes + 1))
  BY <1>2, BeginsSelf, BeginsGrown
<1>4. at \in Nat /\ at >= source[f].at BY <1>2
<1>5. file \in File /\ file.at >= source[f].at /\ Begins(source[f].data, file.data)
  BY <1>3, <1>4 DEF File
<1>6. Write(f, FALSE, file) BY <1>1
<1> HIDE DEF file
<1>7. QED BY <1>5, <1>6, WriteStep

LEMMA RewriteStep == ASSUME IInv, NEW f \in Files, Rewrite(f) PROVE IInv'
<1>1. PICK n \in 0..MaxChunks, swapped \in BOOLEAN :
         Write(f, swapped, [there |-> TRUE, data |-> Written(n), at |-> source[f].at + 1])
  BY DEF Rewrite
<1> DEFINE file == [there |-> TRUE, data |-> Written(n), at |-> source[f].at + 1]
<1>2. source[f].at \in Nat /\ writes + 1 \in Nat /\ n \in Nat
  BY PlaysAssumption DEF IInv, TypeOK, File
<1>3. Written(n) \in Data BY <1>2 DEF Written, Data
<1>4. file \in File /\ file.at >= source[f].at /\ file.at # source[f].at
  BY <1>2, <1>3 DEF File
<1>5. Write(f, swapped, file) BY <1>1
<1> HIDE DEF file
<1>6. QED BY <1>4, <1>5, WriteStep

LEMMA RemoveStep == ASSUME IInv, NEW f \in Files, Remove(f) PROVE IInv'
<1> DEFINE file == [source[f] EXCEPT !.there = FALSE]
<1>1. source[f] \in File BY DEF IInv, TypeOK
<1>2. file \in File /\ file.at = source[f].at /\ file.data = source[f].data
      /\ source[f].at \in Nat /\ source[f].data \in Data
  BY <1>1 DEF File
<1>3. Begins(source[f].data, file.data) /\ file.at >= source[f].at
  BY <1>2, BeginsSelf
<1>4. Write(f, TRUE, file) BY DEF Remove
<1> HIDE DEF file
<1>5. QED BY <1>2, <1>3, <1>4, WriteStep

LEMMA NoCall ==
    /\ Idle \in Call /\ Idle.stage = "idle"
    /\ \A src, mir : Fine(Idle, src, mir)
<1>1. <<>> \in Data /\ <<>> \in Seq(Item) BY DEF Data
<1>2. Idle \in Call BY <1>1 DEF Idle, Call, Active
<1>3. /\ Idle.stage = "idle" /\ Idle.queue = <<>> /\ ~Idle.live /\ ~Idle.walking
      /\ Idle.left = {} /\ Idle.steady = {} /\ ~Idle.alone
  BY DEF Idle
<1>4. \A src, mir : Fine(Idle, src, mir)
  BY <1>3, ItemsNone
  DEF Fine, Shape, Aged, Reads, Steady, Covered, Holding, Active
<1>5. QED BY <1>2, <1>3, <1>4

LEMMA CrashStep == ASSUME IInv, Crash PROVE IInv'
<1>1. /\ TypeOK /\ troubles' \in 0..play.troubles
      /\ lost' = temps
      /\ run' = [r \in Runs |-> Idle]
      /\ UNCHANGED <<source, mirror, temps, play, writes, starts>>
  BY SameTrouble DEF IInv, Crash
<1>3. /\ Idle \in Call /\ Fine(Idle, source, mirror) /\ Idle.stage = "idle"
  BY NoCall
<1>4. \A r \in Runs : run'[r] = Idle BY <1>1
<1>5. run' \in [Runs -> Call] BY <1>1, <1>3
<1>6. lost' \subseteq [file : Files, call : 1..starts] BY <1>1 DEF TypeOK
<1>7. TypeOK' BY <1>1, <1>5, <1>6 DEF TypeOK
<1>8. (\A r \in Runs : Numbered(r)') /\ (\A p, q \in Runs : Apart(p, q)')
  BY <1>3, <1>4 DEF Numbered, Apart, Active
<1>9. TempsAreSwept'
  BY <1>1 DEF TempsAreSwept
<1>10. QED BY <1>1, <1>3, <1>4, <1>7, <1>8, <1>9 DEF IInv

(***************************************************************************)
(* The theorems                                                            *)
(***************************************************************************)
LEMMA InitIInv == Init => IInv
<1>1. SUFFICES ASSUME Init PROVE IInv OBVIOUS
<1>3. /\ Idle \in Call /\ Fine(Idle, source, mirror) /\ Idle.stage = "idle"
  BY NoCall
<1>4. \A r \in Runs : run[r] = Idle BY <1>1 DEF Init
<1>5. TypeOK
  <2>1. <<0>> \in Data /\ <<>> \in Data BY DEF Data
  <2>2. source \in [Files -> File] /\ mirror \in [Files -> File]
    BY <1>1, <2>1 DEF Init, File
  <2>3. run \in [Runs -> Call] BY <1>1, <1>3 DEF Init
  <2>4. QED BY <1>1, <2>2, <2>3, PlaysAssumption DEF Init, TypeOK
<1>6. MirrorFits(source, mirror) BY <1>1 DEF Init, MirrorFits
<1>7. TempsAreSwept BY <1>1 DEF Init, TempsAreSwept
<1>8. QED BY <1>3, <1>4, <1>5, <1>6, <1>7 DEF IInv, Numbered, Apart, Active

LEMMA NextIInv == IInv /\ [Next]_vars => IInv'
<1>1. SUFFICES ASSUME IInv, [Next]_vars PROVE IInv' OBVIOUS
<1>2. ASSUME NEW r \in Runs, Start(r) PROVE IInv' BY <1>1, <1>2, StartStep
<1>3. ASSUME NEW r \in Runs, Scan(r) PROVE IInv' BY <1>1, <1>3, ScanStep
<1>4. ASSUME NEW r \in Runs, Copy(r) PROVE IInv'
  BY <1>1, <1>4, ReceiveStep, OpenStep, ReadStep, RenameStep, JoinStep DEF Copy
<1>5. ASSUME NEW r \in Runs, Cancel(r) PROVE IInv' BY <1>1, <1>5, CancelStep
<1>6. ASSUME NEW f \in play.edited, Grow(f) \/ Rewrite(f) \/ Remove(f) PROVE IInv'
  BY <1>1, <1>6, EditedFiles, GrowStep, RewriteStep, RemoveStep DEF IInv
<1>7. CASE Crash BY <1>1, <1>7, CrashStep
<1>8. CASE UNCHANGED vars
  BY <1>1, <1>8 DEF vars, counters, IInv, TypeOK, TempsAreSwept, Temp, Numbered, Apart
<1>9. QED BY <1>1, <1>2, <1>3, <1>4, <1>5, <1>6, <1>7, <1>8 DEF Next

LEMMA Invariant == Spec => []IInv
BY InitIInv, NextIInv, PTL DEF Spec

\* Every variable keeps its type.
THEOREM MirrorTypeCorrect == Spec => []TypeOK
<1>1. IInv => TypeOK BY DEF IInv
<1>2. QED BY <1>1, Invariant, PTL

\* Whatever is written while it is copied, and however a copy ends, what counts
\* as up to date has the content of its source.
THEOREM UpToDateCanBeTrusted == Spec => []UpToDateIsSame
<1>1. ASSUME IInv PROVE UpToDateIsSame
  <2>1. SUFFICES ASSUME NEW f \in Files, UpToDate(f, Len(source[f].data), source[f].at)
                 PROVE  mirror[f].data = source[f].data
    BY DEF UpToDateIsSame
  <2>2. mirror[f].data \in Data /\ source[f].data \in Data
    BY <1>1 DEF IInv, TypeOK, File
  <2>3. Begins(mirror[f].data, source[f].data)
    BY <1>1, <2>1 DEF IInv, MirrorFits, UpToDate
  <2>4. Len(source[f].data) <= Len(mirror[f].data)
    BY <2>1, <2>2 DEF UpToDate, Data
  <2>5. QED BY <2>2, <2>3, <2>4, BeginsWhole
<1>2. QED BY <1>1, Invariant, PTL

\* A call that worked alone and ended well has copied every file the user left
\* alone, or said that it has not.
THEOREM EndedIsAlwaysHonest == Spec => []EndedIsHonest
<1>1. ASSUME IInv PROVE EndedIsHonest
  <2>1. SUFFICES ASSUME NEW r \in Runs, run[r].stage = "ok", run[r].alone,
                        NEW f \in run[r].steady \ run[r].warned
                 PROVE  mirror[f].there /\ mirror[f].data = source[f].data
    BY DEF EndedIsHonest
  <2>2. /\ run[r].left = {} /\ run[r].queue = <<>> /\ ~Holding(run[r])
    BY <1>1, <2>1 DEF IInv, Fine, Shape, Holding, Active
  <2>3. Same(f, source, mirror)
    BY <1>1, <2>1, <2>2, ItemsNone DEF IInv, Fine, Covered
  <2>4. QED BY <2>3 DEF Same
<1>2. QED BY <1>1, Invariant, PTL

\* A stopped or failed copy leaves no temporary file, unless it could not be
\* removed.
THEOREM TempsAreAlwaysSwept == Spec => []TempsAreSwept
<1>1. IInv => TempsAreSwept BY DEF IInv
<1>2. QED BY <1>1, Invariant, PTL

(***************************************************************************)
(* What the end of a call rests on.  That it ends (RunEnds) is a matter of *)
(* fairness; these two are not: whatever a call waits for, one of its two  *)
(* threads can go on, and each step of either brings the end nearer while  *)
(* nothing else moves it away.                                             *)
(***************************************************************************)
\* When the walk and the copy can go on.
CanScan(r) == run[r].walking /\ Len(run[r].queue) <= Cap
CanCopy(r) ==
    \/ run[r].stage = "receive" /\ (run[r].queue # <<>> \/ ~run[r].walking)
    \/ Holding(run[r])
    \/ run[r].stage = "join" /\ ~run[r].walking

\* A call that works has a thread that can go on.
NeverStuck == \A r \in Runs : Working(r) => CanScan(r) \/ CanCopy(r)

\* How far a call is: what is left to walk, whether the copy still listens,
\* what waits in the channel, where the item in hand is, what was read of it.
SameWalk(c, d) == c.left = d.left /\ c.walking = d.walking
SameLoop(c, d) == SameWalk(c, d) /\ (c.stage = "join" <=> d.stage = "join")
SameQueue(c, d) == SameLoop(c, d) /\ Len(c.queue) = Len(d.queue)
SameStage(c, d) == SameQueue(c, d) /\ c.stage = d.stage
SamePlace(c, d) == SameStage(c, d) /\ Len(c.buffer) = Len(d.buffer)

Rank == [receive |-> 0, rename |-> 1, read |-> 2, open |-> 3]

\* c is further than d, in the order of these.  It is well-founded: there are
\* as many files as there are, and Roomy bounds the buffer.
Further(c, d) ==
    \/ c.stage \notin Active
    \/ c.left \subseteq d.left /\ c.left # d.left
    \/ c.left = d.left /\ d.walking /\ ~c.walking
    \/ SameWalk(c, d) /\ c.stage = "join" /\ d.stage # "join"
    \/ SameLoop(c, d) /\ Len(c.queue) < Len(d.queue)
    \/ SameQueue(c, d) /\ d.stage # "join" /\ Rank[c.stage] < Rank[d.stage]
    \/ SameStage(c, d) /\ Len(c.buffer) > Len(d.buffer)

\* No file is longer than MaxChunks, and so is nothing read of it.
Roomy ==
    /\ \A f \in Files : Len(source[f].data) <= MaxChunks
    /\ \A r \in Runs : Len(run[r].fd) <= MaxChunks /\ Len(run[r].buffer) <= MaxChunks

\* Each step of a call gets it further, and nobody else's sets it back.
EachStepCounts ==
    [][\A r \in Runs : Working(r) =>
         /\ Scan(r) \/ Copy(r) => Further(run'[r], run[r])
         /\ Further(run'[r], run[r]) \/ SamePlace(run'[r], run[r])]_vars

\* Neither thread waits for the other while that one waits for it, whatever
\* room the channel has: the copy drops the receiver before it joins the walk
\* (mirror.rs), so a walk that stands at a full channel is let go.
THEOREM NeitherThreadHangs == Spec => []NeverStuck
<1>1. ASSUME IInv, NEW r \in Runs, Working(r) PROVE CanScan(r) \/ CanCopy(r)
  <2>1. Shape(run[r]) /\ run[r] \in Call
    BY <1>1, CallTyped DEF IInv, Fine
  <2>2. Len(<<>>) <= Cap
    BY CapAssumption
  <2>3. CASE run[r].stage = "receive"
    BY <2>2, <2>3 DEF CanScan, CanCopy
  <2>4. CASE Holding(run[r])
    BY <2>4 DEF CanCopy
  <2>5. CASE run[r].stage = "join"
    BY <2>1, <2>2, <2>5 DEF Shape, CanScan, CanCopy
  <2>6. QED BY <1>1, <2>3, <2>4, <2>5 DEF Working, Active, Holding
<1>2. IInv => NeverStuck
  BY <1>1 DEF NeverStuck
<1>3. QED BY <1>2, Invariant, PTL

\* A step of either thread of a call brings it further.
LEMMA ScanCounts ==
    ASSUME TypeOK, NEW r \in Runs, Working(r), Scan(r)
    PROVE  Further(run'[r], run[r])
<1>1. run[r] \in Call /\ run[r].walking
  BY CallTyped DEF Scan
<1>2. CASE run' = [run EXCEPT ![r].walking = FALSE, ![r].left = {}]
  <2>1. run'[r] = [run[r] EXCEPT !.walking = FALSE, !.left = {}]
    BY <1>2 DEF TypeOK
  <2>2. run'[r].left = {} /\ ~run'[r].walking
    BY <1>1, <2>1 DEF Call
  <2>3. QED BY <1>1, <2>2 DEF Further
<1>3. ASSUME NEW f \in run[r].left, NEW items,
             run' = [run EXCEPT ![r].left = @ \ {f}, ![r].queue = @ \o items]
      PROVE  Further(run'[r], run[r])
  <2>1. run'[r] = [run[r] EXCEPT !.left = @ \ {f}, !.queue = @ \o items]
    BY <1>3 DEF TypeOK
  <2>2. run'[r].left = run[r].left \ {f}
    BY <1>1, <2>1 DEF Call
  <2>3. QED BY <1>3, <2>2 DEF Further
<1>4. QED BY <1>2, <1>3 DEF Scan

\* The loop goes on with what is next, or is over.
LEMMA LoopCounts ==
    ASSUME NEW c \in Call, NEW d, NEW warned,
           \/ /\ Holding(c)
              /\ d = [c EXCEPT !.stage = "receive", !.item = None, !.buffer = <<>>,
                               !.warned = warned, !.live = FALSE, !.fd = <<>>]
           \/ /\ c.stage \in Active \ {"join"}
              /\ d = [c EXCEPT !.stage = "join", !.open = FALSE, !.queue = <<>>,
                               !.item = None, !.buffer = <<>>, !.warned = warned,
                               !.live = FALSE, !.fd = <<>>]
    PROVE  Further(d, c)
<1>1. SameWalk(d, c)
  BY DEF SameWalk, Call
<1>2. CASE c.stage \in Active \ {"join"} /\ d.stage = "join"
  BY <1>1, <1>2 DEF Further
<1>3. CASE Holding(c) /\ d.stage = "receive" /\ d.queue = c.queue
  <2>1. SameQueue(d, c) /\ c.stage # "join" /\ Rank[d.stage] < Rank[c.stage]
    BY <1>1, <1>3 DEF SameQueue, SameLoop, Rank, Holding
  <2>2. QED BY <2>1 DEF Further
<1>4. QED BY <1>2, <1>3 DEF Call

LEMMA GiveUpCounts ==
    ASSUME TypeOK, NEW r \in Runs, Holding(run[r]), Skip(r) \/ Quit(r)
    PROVE  Further(run'[r], run[r])
<1>1. run[r] \in Call /\ run[r].stage \in Active \ {"join"}
  BY CallTyped DEF Holding, Active
<1>2. CASE Skip(r)
  <2>1. run'[r] = Proceed(r, run[r].warned \cup {run[r].item.file})
    BY <1>2 DEF Skip, TypeOK
  <2>2. QED BY <1>1, <2>1, LoopCounts DEF Proceed
<1>3. CASE Quit(r)
  <2>1. run'[r] = Leave(r, run[r].warned)
    BY <1>3 DEF Quit, TypeOK
  <2>2. QED BY <1>1, <2>1, LoopCounts DEF Leave
<1>4. QED BY <1>2, <1>3

LEMMA CopyCounts ==
    ASSUME TypeOK, NEW r \in Runs, Copy(r)
    PROVE  Further(run'[r], run[r])
<1>1. run[r] \in Call
  BY CallTyped
<1>2. CASE Receive(r)
  <2> DEFINE got == [run[r] EXCEPT !.queue = Tail(@)]
             item == Head(run[r].queue)
  <2>1. run[r].stage = "receive" /\ run[r].stage \in Active \ {"join"}
    BY <1>2 DEF Receive, Active
  <2>2. CASE run' = [run EXCEPT ![r] = Leave(r, run[r].warned)]
    <3>1. run'[r] = Leave(r, run[r].warned)
      BY <2>2 DEF TypeOK
    <3>2. QED BY <1>1, <2>1, <3>1, LoopCounts DEF Leave
  <2>3. CASE /\ run[r].queue # <<>>
             /\ \/ run'[r] = got
                \/ run'[r] = [got EXCEPT !.warned = @ \cup {item.file}]
                \/ run'[r] = [got EXCEPT !.stage = "open", !.item = item]
    <3>1. Len(Tail(run[r].queue)) < Len(run[r].queue)
      BY <1>1, <2>3 DEF Call
    <3>2. /\ run'[r].queue = Tail(run[r].queue)
          /\ run'[r].left = run[r].left /\ run'[r].walking = run[r].walking
          /\ run'[r].stage # "join"
      BY <1>1, <2>1, <2>3 DEF Call
    <3>3. QED BY <2>1, <3>1, <3>2 DEF Further, SameLoop, SameWalk
  <2>4. QED BY <1>2, <2>2, <2>3 DEF Receive, TypeOK
<1>3. CASE OpenCopy(r)
  <2>1. CASE Skip(r) \/ Quit(r)
    BY <1>3, <2>1, GiveUpCounts DEF OpenCopy, Holding
  <2>2. CASE run' = [run EXCEPT ![r].stage = "read", ![r].live = TRUE]
    <3>1. run'[r] = [run[r] EXCEPT !.stage = "read", !.live = TRUE]
      BY <2>2 DEF TypeOK
    <3>2. run[r].stage = "open"
      BY <1>3 DEF OpenCopy
    <3>3. SameQueue(run'[r], run[r]) /\ Rank[run'[r].stage] < Rank[run[r].stage]
      BY <1>1, <3>1, <3>2 DEF Call, SameQueue, SameLoop, SameWalk, Rank
    <3>4. QED BY <3>2, <3>3 DEF Further
  <2>3. QED BY <1>3, <2>1, <2>2 DEF OpenCopy
<1>4. CASE ReadChunk(r)
  <2>1. run[r].stage = "read"
    BY <1>4 DEF ReadChunk
  <2>2. CASE Skip(r) \/ Quit(r)
    BY <2>1, <2>2, GiveUpCounts DEF Holding
  <2>3. ASSUME NEW x, run' = [run EXCEPT ![r].buffer = Append(@, x)]
        PROVE  Further(run'[r], run[r])
    <3>1. run'[r] = [run[r] EXCEPT !.buffer = Append(@, x)]
      BY <2>3 DEF TypeOK
    <3>2. /\ run'[r].buffer = Append(run[r].buffer, x)
          /\ Len(run'[r].buffer) > Len(run[r].buffer)
          /\ SameStage(run'[r], run[r])
      BY <1>1, <3>1 DEF Call, Data, SameStage, SameQueue, SameLoop, SameWalk
    <3>3. QED BY <3>2 DEF Further
  <2>4. CASE run' = [run EXCEPT ![r].stage = "rename"]
    <3>1. run'[r] = [run[r] EXCEPT !.stage = "rename"]
      BY <2>4 DEF TypeOK
    <3>2. SameQueue(run'[r], run[r]) /\ Rank[run'[r].stage] < Rank[run[r].stage]
      BY <1>1, <2>1, <3>1 DEF Call, SameQueue, SameLoop, SameWalk, Rank
    <3>3. QED BY <2>1, <3>2 DEF Further
  <2>5. QED BY <1>4, <2>2, <2>3, <2>4 DEF ReadChunk, GiveUp, Abandon
<1>5. CASE Rename(r)
  <2>1. run[r].stage = "rename"
    BY <1>5 DEF Rename
  <2>2. CASE Skip(r)
    BY <2>1, <2>2, GiveUpCounts DEF Holding
  <2>3. CASE run' = [run EXCEPT ![r] = Proceed(r, @.warned)]
    <3>1. run'[r] = Proceed(r, run[r].warned)
      BY <2>3 DEF TypeOK
    <3>2. QED BY <1>1, <2>1, <3>1, LoopCounts DEF Proceed, Holding
  <2>4. QED BY <1>5, <2>2, <2>3 DEF Rename, GiveUp
<1>6. CASE Join(r)
  <2>1. run'[r].stage \in {"cancelled", "ok"}
    BY <1>1, <1>6 DEF Join, TypeOK, Idle, Call
  <2>2. QED BY <2>1 DEF Further, Active
<1>7. QED BY <1>2, <1>3, <1>4, <1>5, <1>6 DEF Copy

\* Nothing else holds a call up: the user's writes, a Stop and other calls
\* leave it where it is, and the death of the daemon ends it.
LEMMA OthersLeaveIt ==
    ASSUME TypeOK, [Next]_vars, NEW r \in Runs, Working(r), ~(Scan(r) \/ Copy(r))
    PROVE  Further(run'[r], run[r]) \/ SamePlace(run'[r], run[r])
<1> USE DEF SamePlace, SameStage, SameQueue, SameLoop, SameWalk
<1>1. run[r] \in Call
  BY CallTyped
<1>2. CASE run'[r] = run[r]
  BY <1>2
<1>3. ASSUME NEW q \in Runs, Start(q) PROVE SamePlace(run'[r], run[r])
  <2>1. q # r
    BY <1>3 DEF Start
  <2>2. run'[r] = run[r] \/ run'[r] = [run[r] EXCEPT !.alone = FALSE]
    BY <1>3, <2>1 DEF Start, TypeOK
  <2>3. QED BY <1>1, <2>2 DEF Call
<1>4. ASSUME NEW q \in Runs, Scan(q) \/ Copy(q) PROVE run'[r] = run[r]
  <2>1. q # r
    BY <1>4
  <2>2. QED
    BY <1>4, <2>1 DEF TypeOK, Scan, Copy, Receive, OpenCopy, ReadChunk, Rename, Join,
                      GiveUp, Abandon, Skip, Quit
<1>5. ASSUME NEW q \in Runs, Cancel(q) PROVE SamePlace(run'[r], run[r])
  <2>1. run'[r] = run[r] \/ run'[r] = [run[r] EXCEPT !.cancel = TRUE]
    BY <1>5 DEF Cancel, TypeOK
  <2>2. QED BY <1>1, <2>1 DEF Call
<1>6. ASSUME NEW f, Grow(f) \/ Rewrite(f) \/ Remove(f) PROVE SamePlace(run'[r], run[r])
  <2>1. PICK swapped : Touched(f, swapped)
    BY <1>6 DEF Grow, Rewrite, Remove, Write
  <2>2. \E live, fd : run'[r] = [run[r] EXCEPT !.steady = @ \ {f}, !.live = live, !.fd = fd]
    BY <2>1 DEF Touched
  <2>3. QED BY <1>1, <2>2 DEF Call
<1>7. CASE Crash
  <2>1. run'[r].stage \notin Active
    BY <1>7 DEF Crash, Idle, Active
  <2>2. QED BY <2>1 DEF Further
<1>8. CASE UNCHANGED vars
  BY <1>8 DEF vars
<1>9. QED BY <1>2, <1>3, <1>4, <1>5, <1>6, <1>7, <1>8 DEF Next

\* Each step of a call brings its end nearer and nothing takes it away again:
\* the order Further is well-founded on finitely many files (CallsAreBounded),
\* so a call is at most so many steps from its end.
THEOREM EachStepCountsHolds == Spec => EachStepCounts
<1>1. ASSUME TypeOK, [Next]_vars, NEW r \in Runs, Working(r)
      PROVE  /\ Scan(r) \/ Copy(r) => Further(run'[r], run[r])
             /\ Further(run'[r], run[r]) \/ SamePlace(run'[r], run[r])
  BY <1>1, ScanCounts, CopyCounts, OthersLeaveIt
<1>2. TypeOK /\ [Next]_vars =>
        \A r \in Runs : Working(r) =>
          /\ Scan(r) \/ Copy(r) => Further(run'[r], run[r])
          /\ Further(run'[r], run[r]) \/ SamePlace(run'[r], run[r])
  BY <1>1
<1>3. QED BY <1>2, MirrorTypeCorrect, PTL DEF Spec, EachStepCounts

\* Room for what is read: a worker reads at most what a file has.
LEMMA RoomyStep == IInv /\ Roomy /\ [Next]_vars => Roomy'
<1> SUFFICES ASSUME IInv, TypeOK, Roomy, [Next]_vars PROVE Roomy'
  BY DEF IInv
<1>0. MaxChunks \in Nat \ {0} /\ Len(<<>>) = 0
  BY PlaysAssumption
<1>1. ASSUME NEW r \in Runs PROVE run[r] \in Call
  BY CallTyped
<1>2. ASSUME NEW r \in Runs, NEW c, run' = [run EXCEPT ![r] = c], source' = source,
             Len(c.fd) <= MaxChunks, Len(c.buffer) <= MaxChunks
      PROVE  Roomy'
  BY <1>2 DEF Roomy, TypeOK
<1>3. ASSUME NEW r \in Runs, Scan(r) PROVE Roomy'
  <2>1. PICK c : /\ run' = [run EXCEPT ![r] = c] /\ source' = source
                 /\ c.fd = run[r].fd /\ c.buffer = run[r].buffer
    <3>1. \/ run'[r] = [run[r] EXCEPT !.walking = FALSE, !.left = {}]
          \/ \E f, items : run'[r] = [run[r] EXCEPT !.left = @ \ {f}, !.queue = @ \o items]
      BY <1>3 DEF Scan, TypeOK
    <3>2. run' = [run EXCEPT ![r] = run'[r]] /\ source' = source
      BY <1>3 DEF Scan, TypeOK
    <3>3. run'[r].fd = run[r].fd /\ run'[r].buffer = run[r].buffer
      BY <1>1, <3>1 DEF Call
    <3>4. QED BY <3>2, <3>3
  <2>2. QED BY <1>2, <2>1 DEF Roomy
<1>4. ASSUME NEW r \in Runs, Copy(r) PROVE Roomy'
  <2>1. ASSUME NEW warned PROVE /\ Proceed(r, warned).fd = <<>> /\ Proceed(r, warned).buffer = <<>>
                                /\ Leave(r, warned).fd = <<>> /\ Leave(r, warned).buffer = <<>>
    BY <1>1 DEF Proceed, Leave, Call
  <2>2. source' = source /\ run' = [run EXCEPT ![r] = run'[r]]
    BY <1>4 DEF TypeOK, Copy, Receive, OpenCopy, ReadChunk, Rename, Join, GiveUp, Abandon, Skip, Quit
  <2>3. \/ run'[r].fd = <<>> /\ run'[r].buffer = <<>>
        \/ run'[r].fd = run[r].fd /\ run'[r].buffer = run[r].buffer
        \/ /\ run[r].stage = "read" /\ Len(run[r].buffer) + 1 <= Len(Seen(r))
           /\ run'[r].fd = run[r].fd
           /\ run'[r].buffer = Append(run[r].buffer, Seen(r)[Len(run[r].buffer) + 1])
    <3>1. CASE \E warned : run'[r] = Proceed(r, warned) \/ run'[r] = Leave(r, warned)
      BY <2>1, <3>1
    <3>2. CASE Receive(r)
      <4> DEFINE got == [run[r] EXCEPT !.queue = Tail(@)]
                 item == Head(run[r].queue)
      <4>1. \/ \E warned : run'[r] = Leave(r, warned)
            \/ run'[r] = got
            \/ run'[r] = [got EXCEPT !.warned = @ \cup {item.file}]
            \/ run'[r] = [got EXCEPT !.stage = "open", !.item = item]
        BY <3>2 DEF Receive, TypeOK
      <4>2. CASE run'[r].fd = run[r].fd /\ run'[r].buffer = run[r].buffer
        BY <4>2
      <4>3. QED BY <1>1, <3>1, <4>1, <4>2 DEF Call
    <3>3. CASE OpenCopy(r)
      <4>1. \/ \E warned : run'[r] = Proceed(r, warned) \/ run'[r] = Leave(r, warned)
            \/ run'[r] = [run[r] EXCEPT !.stage = "read", !.live = TRUE]
        BY <3>3 DEF OpenCopy, GiveUp, Abandon, Skip, Quit, TypeOK
      <4>2. QED BY <1>1, <3>1, <4>1 DEF Call
    <3>4. CASE ReadChunk(r)
      <4>1. \/ \E warned : run'[r] = Proceed(r, warned) \/ run'[r] = Leave(r, warned)
            \/ run'[r] = [run[r] EXCEPT !.stage = "rename"]
            \/ /\ run[r].stage = "read" /\ Len(run[r].buffer) + 1 <= Len(Seen(r))
               /\ run'[r] = [run[r] EXCEPT !.buffer = Append(@, Seen(r)[Len(run[r].buffer) + 1])]
        BY <3>4 DEF ReadChunk, GiveUp, Abandon, Skip, Quit, TypeOK
      <4>2. QED BY <1>1, <3>1, <4>1 DEF Call
    <3>5. CASE Rename(r)
      <4>1. \E warned : run'[r] = Proceed(r, warned)
        BY <3>5 DEF Rename, GiveUp, Skip, TypeOK
      <4>2. QED BY <3>1, <4>1
    <3>6. CASE Join(r)
      <4>1. run'[r] = [Idle EXCEPT !.stage = "cancelled"] \/ run'[r] = [run[r] EXCEPT !.stage = "ok"]
        BY <3>6 DEF Join, TypeOK
      <4>2. QED BY <1>1, <4>1 DEF Call, Idle
    <3>7. QED BY <1>4, <3>2, <3>3, <3>4, <3>5, <3>6 DEF Copy
  <2>4. ASSUME /\ run[r].stage = "read" /\ Len(run[r].buffer) + 1 <= Len(Seen(r))
               /\ run'[r].buffer = Append(run[r].buffer, Seen(r)[Len(run[r].buffer) + 1])
        PROVE  Len(run'[r].buffer) <= MaxChunks
    <3>1. Len(run'[r].buffer) = Len(run[r].buffer) + 1 /\ run[r].buffer \in Data
      BY <1>1, <2>4 DEF Call, Data
    <3>2. Len(Seen(r)) <= MaxChunks
      <4>1. run[r].item.file \in Files
        BY <1>4, <2>4 DEF IInv, Fine, Shape, Holding, Item
      <4>2. QED BY <4>1 DEF Seen, Roomy
    <3>3. QED BY <1>0, <2>4, <3>1, <3>2 DEF Data
  <2>5. Len(run'[r].fd) <= MaxChunks /\ Len(run'[r].buffer) <= MaxChunks
    BY <1>0, <2>3, <2>4 DEF Roomy
  <2>6. QED BY <1>2, <2>2, <2>5
<1>5. ASSUME NEW f \in Files, Grow(f) \/ Rewrite(f) \/ Remove(f) PROVE Roomy'
  <2>1. PICK swapped, file : /\ source' = [source EXCEPT ![f] = file] /\ Touched(f, swapped)
                             /\ Len(file.data) <= MaxChunks
    <3>1. source[f] \in File /\ Len(source[f].data) <= MaxChunks
      BY DEF TypeOK, Roomy
    <3>2. CASE Grow(f)
      <4>1. Len(Append(source[f].data, writes + 1)) <= MaxChunks
        BY <1>0, <3>1, <3>2 DEF Grow, File, Data
      <4>2. PICK at : Write(f, FALSE, [there |-> TRUE, at |-> at,
                                       data |-> Append(source[f].data, writes + 1)])
        BY <3>2 DEF Grow
      <4> DEFINE file == [there |-> TRUE, at |-> at,
                          data |-> Append(source[f].data, writes + 1)]
      <4>3. /\ source' = [source EXCEPT ![f] = file] /\ Touched(f, FALSE)
            /\ Len(file.data) <= MaxChunks
        BY <4>1, <4>2 DEF Write
      <4>4. QED BY <4>3
    <3>3. CASE Rewrite(f)
      <4>1. ASSUME NEW n \in 0..MaxChunks PROVE Len(Written(n)) <= MaxChunks
        BY <1>0 DEF Written
      <4>2. PICK n \in 0..MaxChunks, swapped \in BOOLEAN :
               Write(f, swapped, [there |-> TRUE, data |-> Written(n), at |-> source[f].at + 1])
        BY <3>3 DEF Rewrite
      <4> DEFINE file == [there |-> TRUE, data |-> Written(n), at |-> source[f].at + 1]
      <4>3. /\ source' = [source EXCEPT ![f] = file] /\ Touched(f, swapped)
            /\ Len(file.data) <= MaxChunks
        BY <4>1, <4>2 DEF Write
      <4>4. QED BY <4>3
    <3>4. CASE Remove(f)
      <4>1. Write(f, TRUE, [source[f] EXCEPT !.there = FALSE])
        BY <3>4 DEF Remove
      <4>2. [source[f] EXCEPT !.there = FALSE].data = source[f].data
        BY <3>1 DEF File
      <4>3. QED BY <3>1, <4>1, <4>2 DEF Write
    <3>5. QED BY <1>5, <3>2, <3>3, <3>4
  <2>2. \A g \in Files : Len(source'[g].data) <= MaxChunks
    BY <2>1 DEF TypeOK, Roomy
  <2>3. ASSUME NEW r \in Runs
        PROVE  Len(run'[r].fd) <= MaxChunks /\ Len(run'[r].buffer) <= MaxChunks
    <3>1. \E live, fd : /\ run'[r] = [run[r] EXCEPT !.steady = @ \ {f}, !.live = live, !.fd = fd]
                        /\ fd = run[r].fd \/ fd = source[f].data
      BY <2>1 DEF Touched
    <3>2. QED BY <1>1, <3>1 DEF Call, Roomy
  <2>4. QED BY <2>2, <2>3 DEF Roomy
<1>6. CASE source' = source /\ \A r \in Runs : \/ run'[r] = Idle
                                               \/ /\ run'[r].fd = run[r].fd
                                                  /\ run'[r].buffer = run[r].buffer
                                               \/ run'[r].fd = <<>> /\ run'[r].buffer = <<>>
  BY <1>0, <1>6 DEF Roomy, Idle
<1>7. ASSUME NEW q \in Runs, Start(q) PROVE Roomy'
  <2>1. source' = source
    BY <1>7 DEF Start
  <2>2. ASSUME NEW r \in Runs
        PROVE  \/ run'[r].fd = run[r].fd /\ run'[r].buffer = run[r].buffer
               \/ run'[r].fd = <<>> /\ run'[r].buffer = <<>>
    <3>1. CASE r = q
      <4>1. CASE run' = [run EXCEPT ![q] = [Idle EXCEPT !.stage = "failed"]]
        BY <3>1, <4>1 DEF TypeOK, Idle
      <4>2. CASE \E c : /\ c = [Idle EXCEPT !.stage = "receive", !.call = starts + 1,
                               !.open = TRUE, !.walking = TRUE,
                               !.left = {f \in Files : source[f].there},
                               !.steady = {f \in Files : source[f].there},
                               !.alone = \A o \in Runs \ {q} : ~Working(o)]
                         /\ run' = [p \in Runs |->
                               CASE p = q -> c
                                 [] p # q /\ Working(p) -> [run[p] EXCEPT !.alone = FALSE]
                                 [] OTHER -> run[p]]
        <5>1. \E left, alone :
                 run'[q] = [Idle EXCEPT !.stage = "receive", !.call = starts + 1,
                              !.open = TRUE, !.walking = TRUE, !.left = left,
                              !.steady = left, !.alone = alone]
          BY <4>2
        <5>2. QED BY <3>1, <5>1 DEF Idle
      <4>3. QED BY <1>7, <4>1, <4>2 DEF Start
    <3>2. CASE r # q
      <4>1. run'[r] = run[r] \/ run'[r] = [run[r] EXCEPT !.alone = FALSE]
        BY <1>7, <3>2 DEF Start, TypeOK
      <4>2. QED BY <1>1, <4>1 DEF Call
    <3>3. QED BY <3>1, <3>2
  <2>3. QED BY <1>6, <2>1, <2>2
<1>8. ASSUME NEW q \in Runs, Cancel(q) PROVE Roomy'
  <2>1. ASSUME NEW r \in Runs PROVE run'[r].fd = run[r].fd /\ run'[r].buffer = run[r].buffer
    <3>1. run'[r] = run[r] \/ run'[r] = [run[r] EXCEPT !.cancel = TRUE]
      BY <1>8 DEF Cancel, TypeOK
    <3>2. QED BY <1>1, <3>1 DEF Call
  <2>2. source' = source
    BY <1>8 DEF Cancel
  <2>3. QED BY <1>6, <2>1, <2>2
<1>9. CASE Crash
  BY <1>6, <1>9 DEF Crash
<1>10. CASE UNCHANGED vars
  BY <1>6, <1>10 DEF vars
<1>11. \A f \in play.edited : f \in Files
  BY EditedFiles
<1>12. QED BY <1>3, <1>4, <1>5, <1>7, <1>8, <1>9, <1>10, <1>11 DEF Next

\* What a call reads stays bounded, so Further has no endless descent.
THEOREM CallsAreBounded == Spec => []Roomy
<1>1. Init => Roomy
  <2> SUFFICES ASSUME Init PROVE Roomy
    OBVIOUS
  <2>1. MaxChunks \in Nat \ {0} /\ Len(<<0>>) = 1 /\ Len(<<>>) = 0
    BY PlaysAssumption
  <2>2. ASSUME NEW f \in Files PROVE source[f].data = <<0>>
    BY DEF Init
  <2>3. ASSUME NEW r \in Runs PROVE run[r].fd = <<>> /\ run[r].buffer = <<>>
    BY DEF Init, Idle
  <2>4. 0 <= MaxChunks /\ 1 <= MaxChunks
    BY <2>1
  <2>5. \A f \in Files : Len(source[f].data) <= MaxChunks
    BY <2>1, <2>2, <2>4
  <2>6. \A r \in Runs : Len(run[r].fd) <= MaxChunks /\ Len(run[r].buffer) <= MaxChunks
    BY <2>1, <2>3, <2>4
  <2>7. QED BY <2>5, <2>6 DEF Roomy
<1>2. QED BY <1>1, RoomyStep, Invariant, PTL DEF Spec
=============================================================================
