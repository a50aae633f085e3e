--------------------------- MODULE RotationProofs ---------------------------
(***************************************************************************)
(* A change of the master passphrase, for every set of repositories,       *)
(* number of copies kept, and number of failures, restores and restarts.   *)
(*                                                                         *)
(* Rotations under way stand on a ladder: each leaves a password that no   *)
(* earlier one leaves, so that each repository is moved by one at a time   *)
(* and only to a newer password.  One that was committed at rest is alone: *)
(* what it has not moved yet is what the daemon holds for unfinished.  A   *)
(* repository that is created beside them did not exist before.            *)
(***************************************************************************)

EXTENDS Rotation, TLAPS

\* The passwords the vaults on disk give.
Gens == {c.gen : c \in OnDisk}

\* How far a rotation is, however many others are under way.
Sound(g) ==
    /\ rot[g].from < g /\ g <= file.gen /\ listed \subseteq rot[g].all
    /\ rot[g].at \in {"committed", "reported"} => rot[g].moved = {}
    /\ \A r \in rot[g].moved : repo[r] >= g
    /\ rot[g].at = "change" => repo[rot[g].cur] = rot[g].from
    /\ rot[g].at = "mark" /\ rot[g].won => repo[rot[g].cur] >= g

\* Each rotation begins where an earlier one ended, or later.
Ladder ==
    /\ \A k \in Gens : k <= top
    /\ \A g \in UnderWay : Sound(g)
    /\ \A g, h \in UnderWay : g < h => g <= rot[h].from

\* What the rest of the daemon knows of a rotation that is alone.
Covered(g) ==
    /\ rot[g].at = "committed" => migration = {} /\ paused = {}
    /\ rot[g].at = "reported" =>
         migration = rot[g].all /\ report = rot[g].all /\ paused \subseteq migration
    /\ rot[g].at \notin {"committed", "reported"} =>
         migration = Pending(g) /\ Pending(g) \subseteq report \cap paused
    /\ \A r \in rot[g].moved : repo[r] = g
    /\ rot[g].at = "mark" /\ rot[g].won => repo[rot[g].cur] = g
Cover ==
    /\ clean => alone
    /\ alone => \A g \in UnderWay : UnderWay = {g} /\ Covered(g)
    /\ clean => \A g \in UnderWay : g = file.gen

\* Only a repository that does not exist is being created.
Creating == \A r \in Derived : making[r] # 0 => repo[r] = 0

\* What is on an older password, or about to be created with one, is named
\* when no rotation is under way.
Stale ==
    {r \in Derived \cap listed : repo[r] \notin {0, file.gen} \/ making[r] \notin {0, file.gen}}
StaleIsNamed ==
    clean /\ UnderWay = {} => Stale \subseteq report /\ (up => Stale \subseteq migration)

\* The vaults on disk give every password in use.
Held ==
    /\ \A r \in Derived : {repo[r], making[r]} \ {0} \subseteq Gens \/ Len(backups) >= Keep
    /\ UnderWay \subseteq Gens \/ Len(backups) >= Keep

IInv == TypeOK /\ Ladder /\ Cover /\ Creating /\ PausedIsNamed /\ StaleIsNamed /\ Held

----------------------------------------------------------------------------
(* The vault.                                                              *)

LEMMA Bounds == Keep \in Nat /\ Keep >= 1 /\ MaxGen \in Nat /\ MaxKey \in Nat
  BY BoundsAssumption

\* Copying the file and pruning the copies: no content is new, and a password
\* is lost only when as many copies are there as are kept.
LEMMA Copying ==
  ASSUME VaultTypeOK,
         \/ backups' = backups /\ file'.gen = file.gen
         \/ backups' = Copied /\ RoomToSpare
         \/ backups' = Newest(Copied)
  PROVE  /\ backups' \in Seq(Content) /\ Len(backups') <= Keep + 1
         /\ Gens \subseteq Gens' \/ Len(backups') >= Keep
         /\ Len(backups) >= Keep => Len(backups') >= Keep
         /\ Gens' \subseteq Gens \cup {file'.gen}
<1>1. /\ backups \in Seq(Content) /\ file \in Content /\ Len(backups) \in Nat
      /\ Len(backups) <= Keep + 1
  BY DEF VaultTypeOK
<1>2. /\ Copied \in Seq(Content) /\ Len(Copied) = Len(backups) + 1
      /\ \A i \in 1..Len(backups) : Copied[i] = backups[i]
      /\ Copied[Len(backups) + 1] = file
  BY <1>1 DEF Copied
<1>7. ASSUME \A i \in DOMAIN backups' : backups'[i] \in OnDisk
      PROVE  Gens' \subseteq Gens \cup {file'.gen}
  BY <1>7 DEF Gens, OnDisk
<1>8. \A i \in DOMAIN Copied : Copied[i] \in OnDisk
  BY <1>1, <1>2 DEF OnDisk
<1>3. CASE backups' = backups /\ file'.gen = file.gen
  <2>1. Gens \subseteq Gens'
    BY <1>3 DEF Gens, OnDisk
  <2>2. Gens' \subseteq Gens \cup {file'.gen}
    BY <1>3, <1>7 DEF OnDisk
  <2> QED
    BY <1>1, <1>3, <2>1, <2>2
<1>4. ASSUME backups' = Copied PROVE Gens \subseteq Gens'
  <2>1. ASSUME NEW i \in DOMAIN backups PROVE backups[i] \in OnDisk'
    <3>1. i \in DOMAIN Copied /\ Copied[i] = backups[i]
      BY <1>1, <1>2
    <3> QED
      BY <3>1, <1>4 DEF OnDisk
  <2>2. file \in OnDisk'
    <3>1. Len(backups) + 1 \in DOMAIN Copied
      BY <1>1, <1>2
    <3> QED
      BY <3>1, <1>2, <1>4 DEF OnDisk
  <2> QED
    BY <2>1, <2>2 DEF Gens, OnDisk
<1>5. CASE backups' = Copied /\ RoomToSpare
  <2>1. Gens' \subseteq Gens \cup {file'.gen}
    BY <1>5, <1>7, <1>8
  <2> QED
    BY <1>1, <1>2, <1>4, <1>5, <2>1, Bounds DEF RoomToSpare
<1>6. CASE backups' = Newest(Copied)
  <2>1. CASE Len(Copied) > Keep
    <3>1. /\ Newest(Copied) \in Seq(Content) /\ Len(Newest(Copied)) = Keep
      BY <1>2, <2>1, Bounds DEF Newest
    <3>2. ASSUME NEW i \in DOMAIN Newest(Copied) PROVE Newest(Copied)[i] \in OnDisk
      <4> DEFINE k == (Len(Copied) - Keep + 1) + i - 1
      <4>1. i \in 1..Keep
        BY <3>1, <3>2, Bounds
      <4>2. Newest(Copied)[i] = Copied[k]
        BY <1>1, <1>2, <2>1, <4>1, Bounds DEF Newest
      <4>3. k \in DOMAIN Copied
        BY <1>1, <1>2, <2>1, <4>1, Bounds
      <4> QED
        BY <1>8, <4>2, <4>3
    <3>3. Gens' \subseteq Gens \cup {file'.gen}
      BY <1>6, <1>7, <3>2
    <3> QED
      BY <1>6, <3>1, <3>3, Bounds
  <2>2. CASE ~(Len(Copied) > Keep)
    <3>1. Newest(Copied) = Copied
      BY <1>2, <2>2, Bounds DEF Newest
    <3>2. Gens' \subseteq Gens \cup {file'.gen}
      BY <1>6, <1>7, <1>8, <3>1
    <3> QED
      BY <1>1, <1>2, <1>4, <1>6, <2>2, <3>1, <3>2, Bounds
  <2> QED
    BY <2>1, <2>2
<1> QED
  BY <1>3, <1>5, <1>6

\* What every operation of the vault does to its type and its passwords.
VaultStep ==
    /\ VaultTypeOK'
    /\ Gens \subseteq Gens' \/ Len(backups') >= Keep
    /\ Len(backups) >= Keep => Len(backups') >= Keep
    /\ Gens' \subseteq Gens \cup {file'.gen}

LEMMA Stays == ASSUME VaultTypeOK, UNCHANGED vaultVars PROVE VaultStep /\ file' = file
  BY DEF VaultStep, VaultTypeOK, vaultVars, Gens, OnDisk

LEMMA Rotates ==
  ASSUME VaultTypeOK, Rotated(Newest(Copied)) \/ (RoomToSpare /\ Rotated(Copied))
  PROVE  VaultStep /\ file'.gen = top + 1 /\ top' = top + 1 /\ top + 1 \in Gen
         /\ opened' = opened
<1>1. /\ file' = [gen |-> top + 1, keys |-> keys] /\ top < MaxGen /\ top' = top + 1
      /\ dirty' = FALSE /\ UNCHANGED <<minted, opened, keys>>
      /\ (backups' = Copied /\ RoomToSpare) \/ backups' = Newest(Copied)
  BY DEF Rotated
<1>2. top + 1 \in Gen
  BY <1>1, Bounds DEF VaultTypeOK, Gen
<1>3. file' \in Content
  BY <1>1, <1>2 DEF VaultTypeOK, Content
<1> QED
  BY <1>1, <1>2, <1>3, Copying DEF VaultStep, VaultTypeOK

LEMMA DoesNotRotate ==
  ASSUME VaultTypeOK, NotRotated
  PROVE  VaultStep /\ file' = file /\ UNCHANGED <<top, opened>>
<1>1. /\ UNCHANGED <<file, top, minted, opened, keys, dirty>>
      /\ backups' = backups \/ (backups' = Copied /\ RoomToSpare)
  BY DEF NotRotated, Unpruned
<1> QED
  BY <1>1, Copying DEF VaultStep, VaultTypeOK

LEMMA Saves ==
  ASSUME VaultTypeOK, SaveWorks(keys) \/ SaveStumbles(keys) \/ SaveFails(keys),
         UNCHANGED <<top, minted, opened>>
  PROVE  VaultStep /\ file'.gen = file.gen
<1>1. /\ file' \in {file, [file EXCEPT !.keys = keys]} /\ keys' = keys /\ dirty' \in BOOLEAN
      /\ \/ backups' = backups
         \/ backups' = Copied /\ RoomToSpare
         \/ backups' = Newest(Copied)
  BY DEF SaveWorks, SaveStumbles, SaveFails, Saved, Unpruned
<1>2. file' \in Content /\ file'.gen = file.gen
  BY <1>1 DEF VaultTypeOK, Content
<1> QED
  BY <1>1, <1>2, Copying DEF VaultStep, VaultTypeOK

LEMMA ShutsOrOpens ==
  ASSUME VaultTypeOK, Shut \/ Opened
  PROVE  VaultStep /\ file' = file /\ top' = top
<1>1. UNCHANGED <<file, backups, top, minted>> /\ keys' \in {keys, file.keys}
      /\ opened' \in BOOLEAN /\ dirty' \in {dirty, FALSE}
  BY DEF Shut, Opened
<1>2. file.keys \in KeyMap
  BY DEF VaultTypeOK, Content
<1> QED
  BY <1>1, <1>2 DEF VaultStep, VaultTypeOK, Gens, OnDisk

LEMMA Replaces ==
  ASSUME VaultTypeOK, NEW i \in DOMAIN backups, Replaced(backups[i])
  PROVE  VaultStep /\ top' = top /\ opened' = FALSE /\ file'.gen \in Gens
<1>1. /\ file' = backups[i] /\ keys' = backups[i].keys /\ backups' = Newest(Copied)
      /\ opened' = FALSE /\ dirty' = FALSE /\ UNCHANGED <<top, minted>>
  BY DEF Replaced
<1>2. backups[i] \in Content
  BY DEF VaultTypeOK
<1>3. backups[i].keys \in KeyMap
  BY <1>2 DEF Content
<1> QED
  BY <1>1, <1>2, <1>3, Copying DEF VaultStep, VaultTypeOK, Gens, OnDisk

----------------------------------------------------------------------------
(* Types.                                                                  *)

\* What a rotation has in hand is one of its repositories.
InHand(w) ==
    /\ w.left \cup w.moved \subseteq w.all
    /\ w.left \cap w.moved = {}
    /\ w.at \in {"old", "change", "verify", "mark"} => w.cur \in w.all \ (w.left \cup w.moved)

RotationOK ==
    /\ rot \in [Gen -> {Idle} \cup Walk]
    /\ \A g \in Gen : rot[g] # Idle => g <= top /\ InHand(rot[g])

RestOK ==
    /\ repo \in [Derived -> {0} \cup Gen] /\ making \in [Derived -> {0} \cup Gen]
    /\ listed \subseteq Derived
    /\ report \subseteq Derived /\ migration \subseteq Derived /\ paused \subseteq Derived
    /\ up \in BOOLEAN /\ alone \in BOOLEAN /\ clean \in BOOLEAN
    /\ asked \subseteq Gen

CountsOK == changes \in 0..MaxChanges /\ faults \in 0..MaxFaults

DownOK == ~up => ~opened /\ asked = {} /\ migration = {} /\ paused = {} /\ \A g \in Gen : rot[g] = Idle

LEMMA TypeIsParts ==
  TypeOK <=> VaultTypeOK /\ RotationOK /\ RestOK /\ CountsOK /\ DownOK
  BY DEF TypeOK, RotationOK, InHand, RestOK, CountsOK, DownOK

LEMMA TypeFromParts == VaultTypeOK' /\ RotationOK' /\ RestOK' /\ CountsOK' /\ DownOK' => TypeOK'
  BY DEF TypeOK, RotationOK, InHand, RestOK, CountsOK, DownOK

LEMMA Counting ==
  /\ CountsOK /\ Fault => faults' \in 0..MaxFaults
  /\ CountsOK /\ changes < MaxChanges /\ changes' = changes + 1 => changes' \in 0..MaxChanges
  BY MoreBoundsAssumption DEF Fault, CountsOK

LEMMA GenFacts ==
  ASSUME TypeOK
  PROVE  /\ 0 \notin Gen /\ file.gen \in Gen /\ file.gen \in Gens /\ top \in Gen
         /\ \A g \in Gen : g \in Nat /\ g >= 1
         /\ Gens \subseteq Gen
         /\ \A g \in UnderWay : g \in Gen /\ g <= top /\ rot[g] \in Walk /\ rot[g].from \in Gen
<1>1. 0 \notin Gen /\ \A g \in Gen : g \in Nat /\ g >= 1
  BY DEF Gen
<1>2. file \in Content /\ top \in Gen
  BY DEF TypeOK, VaultTypeOK
<1> QED
  <2>1. \A c \in OnDisk : c \in Content
    <3>1. backups \in Seq(Content)
      BY DEF TypeOK, VaultTypeOK
    <3>2. \A i \in DOMAIN backups : backups[i] \in Content
      BY <3>1
    <3> QED
      BY <1>2, <3>2 DEF OnDisk
  <2>2. Gens \subseteq Gen
    BY <2>1 DEF Gens, Content
  <2> QED
    BY <1>1, <1>2, <2>2 DEF Content, Gens, OnDisk, UnderWay, TypeOK, Walk

\* A rotation under way: the daemon runs; when it is alone the rest of the
\* daemon knows how far it is, and when its report is to be trusted what it has
\* not moved is all that is left behind.
LEMMA Rotating ==
  ASSUME IInv, NEW g \in UnderWay
  PROVE  /\ up /\ Sound(g) /\ g \in Gen /\ rot[g] \in Walk /\ InHand(rot[g])
         /\ alone => UnderWay = {g} /\ Covered(g)
         /\ clean => alone /\ g = file.gen /\ Stale \subseteq Pending(g)
<1>1. TypeOK /\ Ladder /\ Cover /\ Creating
  BY DEF IInv
<1>2. g \in Gen /\ rot[g] \in Walk /\ rot[g] # Idle
  BY <1>1, GenFacts DEF UnderWay
<1>3. Sound(g) /\ (alone => UnderWay = {g} /\ Covered(g)) /\ (clean => alone /\ g = file.gen)
  BY <1>1 DEF Ladder, Cover
<1>4. up /\ InHand(rot[g])
  BY <1>1, <1>2, TypeIsParts DEF DownOK, RotationOK, RestOK
<1>5. ASSUME clean PROVE Stale \subseteq Pending(g)
  <2> SUFFICES ASSUME NEW r \in Stale, r \in rot[g].moved PROVE FALSE
    BY <1>3 DEF Stale, Pending, Sound
  <2>1. repo[r] = g /\ g = file.gen
    BY <1>3, <1>5 DEF Covered
  <2>2. making[r] = 0
    BY <1>1, <1>2, <2>1, GenFacts DEF Creating, Stale
  <2> QED
    BY <2>1, <2>2 DEF Stale
<1> QED
  BY <1>2, <1>3, <1>4, <1>5

----------------------------------------------------------------------------
(* A rotation that is under way.                                           *)

\* A walk moves a repository up the ladder, and only from its own rung.
Moves(g) ==
    \/ repo' = repo
    \/ rot[g].at = "change" /\ repo' = [repo EXCEPT ![rot[g].cur] = g]

\* What another rotation has moved, or has in hand, is not disturbed by it.
LEMMA OthersSound ==
  ASSUME IInv, NEW g \in UnderWay, NEW h \in UnderWay, h # g, Moves(g),
         rot'[h] = rot[h], file' = file, listed' = listed
  PROVE  Sound(h)'
<1>1. /\ TypeOK /\ Ladder /\ Sound(g) /\ Sound(h) /\ g \in Nat /\ h \in Nat
      /\ rot[g] \in Walk /\ rot[h] \in Walk /\ rot[g].from \in Nat /\ rot[h].from \in Nat
      /\ InHand(rot[g]) /\ InHand(rot[h])
  BY Rotating, GenFacts DEF IInv
<1>2. CASE repo' = repo
  BY <1>1, <1>2 DEF Sound
<1>3. CASE rot[g].at = "change" /\ repo' = [repo EXCEPT ![rot[g].cur] = g]
  <2> DEFINE cur == rot[g].cur
  <2>1. repo[cur] = rot[g].from /\ rot[g].from < g
    BY <1>1, <1>3 DEF Sound
  <2>2. (g < h => g <= rot[h].from) /\ (h < g => h <= rot[g].from)
    BY <1>1 DEF Ladder
  <2>3. \A r \in Derived : repo'[r] = IF r = cur THEN g ELSE repo[r]
    BY <1>1, <1>3 DEF TypeOK
  <2>4. \A r \in Derived : repo[r] \in Nat
    BY <1>1, GenFacts DEF TypeOK
  <2> HIDE DEF cur
  <2>5. \A r \in Derived : repo[r] >= h => repo'[r] >= h
    BY <1>1, <2>1, <2>2, <2>3, <2>4
  <2>6. ASSUME rot[h].at = "change" PROVE rot[h].cur \in Derived /\ rot[h].cur # cur
    <3>1. repo[rot[h].cur] = rot[h].from /\ rot[h].from < h
      BY <1>1, <2>6 DEF Sound
    <3>2. rot[h].from # rot[g].from
      BY <1>1, <2>1, <2>2, <3>1
    <3> QED
      BY <1>1, <2>1, <2>6, <3>1, <3>2 DEF InHand, Walk
  <2>7. rot[h].moved \subseteq Derived /\ (rot[h].at = "mark" => rot[h].cur \in Derived)
    BY <1>1 DEF InHand, Walk
  <2> QED
    BY <1>1, <2>3, <2>5, <2>6, <2>7 DEF Sound
<1> QED
  BY <1>2, <1>3 DEF Moves

\* It goes on: what it does to its place, the report, the suppression and
\* one repository fits where it is then.
LEMMA GoesOn ==
  ASSUME IInv, NEW g \in UnderWay, NEW w \in Walk, InHand(w), w.from = rot[g].from,
         rot' = [rot EXCEPT ![g] = w],
         UNCHANGED <<vaultVars, listed, up, asked, making, alone, clean, changes>>,
         faults' \in 0..MaxFaults,
         report' \subseteq Derived, migration' \subseteq Derived, paused' \subseteq Derived,
         Moves(g), Sound(g)', alone => Covered(g)'
  PROVE  IInv'
<1>1. /\ TypeOK /\ Ladder /\ Cover /\ Creating /\ Held
      /\ VaultTypeOK /\ RotationOK /\ RestOK /\ CountsOK
  BY TypeIsParts DEF IInv
<1>2. up /\ g \in Gen /\ g # 0 /\ g <= top
  BY <1>1, Rotating, GenFacts
<1>3. rot'[g] = w /\ w # Idle /\ \A h \in Gen \ {g} : rot'[h] = rot[h]
  BY <1>1, <1>2 DEF RotationOK, Walk, Idle, Stage
<1>4. UnderWay' = UnderWay
  BY <1>2, <1>3 DEF UnderWay
<1>5. VaultStep /\ file' = file /\ top' = top /\ Gens' = Gens
  BY <1>1, Stays DEF vaultVars, Gens, OnDisk
<1>6. RotationOK'
  BY <1>1, <1>2, <1>3, <1>5 DEF RotationOK, UnderWay
<1>7. repo' \in [Derived -> {0} \cup Gen]
  BY <1>1, <1>2 DEF RestOK, Moves
<1>8. TypeOK'
  BY <1>1, <1>2, <1>5, <1>6, <1>7, TypeFromParts DEF RestOK, CountsOK, DownOK, VaultStep
<1>9. Ladder'
  <2>1. ASSUME NEW h \in UnderWay, h # g PROVE Sound(h)'
    <3>1. rot'[h] = rot[h]
      BY <1>1, <1>3, <2>1, GenFacts
    <3> QED
      BY <1>5, <2>1, <3>1, OthersSound
  <2>2. \A h \in UnderWay : rot'[h].from = rot[h].from
    BY <1>1, <1>3, GenFacts
  <2> QED
    BY <1>1, <1>4, <1>5, <2>1, <2>2 DEF Ladder
<1>10. Cover'
  BY <1>1, <1>4, <1>5 DEF Cover
<1>11. Creating'
  <2> SUFFICES ASSUME NEW r \in Derived, making[r] # 0 PROVE repo'[r] = 0
    BY DEF Creating
  <2>1. repo[r] = 0
    BY <1>1 DEF Creating
  <2>2. rot[g].at = "change" => repo[rot[g].cur] # 0
    BY <1>1, Rotating, GenFacts DEF Sound
  <2> QED
    BY <1>1, <2>1, <2>2 DEF RestOK, Moves
<1>12. PausedIsNamed' /\ StaleIsNamed'
  BY <1>4 DEF PausedIsNamed, StaleIsNamed
<1>13. Held'
  <2> SUFFICES ASSUME NEW r \in Derived, ~(Len(backups') >= Keep)
               PROVE  /\ {repo'[r], making'[r]} \ {0} \subseteq Gens'
                      /\ UnderWay' \subseteq Gens'
    BY <1>1, <1>4, <1>5 DEF Held, vaultVars
  <2>1. UnderWay \subseteq Gens /\ {repo[r], making[r]} \ {0} \subseteq Gens
    BY <1>1, <1>5 DEF VaultStep, Held
  <2>2. repo'[r] \in {repo[r], g} /\ making'[r] = making[r]
    BY <1>1 DEF RestOK, Moves
  <2> QED
    BY <1>4, <1>5, <2>1, <2>2
<1> QED
  BY <1>8, <1>9, <1>10, <1>11, <1>12, <1>13 DEF IInv

\* It is over: what it did not move is held for unfinished, and named.
LEMMA Leaves ==
  ASSUME IInv, NEW g \in UnderWay, Leave(g),
         UNCHANGED <<vaultVars, repo, listed, up, asked, making, alone, changes>>,
         faults' \in 0..MaxFaults, clean' \in BOOLEAN, clean' => clean,
         report' \subseteq Derived, migration' \subseteq Derived, paused' \subseteq Derived,
         alone => paused' \subseteq migration' /\ migration' \subseteq report',
         clean' => Stale \subseteq migration'
  PROVE  IInv'
<1>1. /\ TypeOK /\ Ladder /\ Cover /\ Creating /\ Held
      /\ VaultTypeOK /\ RotationOK /\ RestOK /\ CountsOK
  BY TypeIsParts DEF IInv
<1>2. up /\ g \in Gen /\ (alone => UnderWay = {g}) /\ (clean => alone)
  BY Rotating
<1>3. rot'[g] = Idle /\ \A h \in Gen \ {g} : rot'[h] = rot[h]
  BY <1>1, <1>2 DEF RotationOK, Leave
<1>4. UnderWay' = UnderWay \ {g} /\ (alone => UnderWay' = {})
  BY <1>2, <1>3 DEF UnderWay
<1>5. VaultStep /\ file' = file /\ top' = top /\ Gens' = Gens
  BY <1>1, Stays DEF vaultVars, Gens, OnDisk
<1>6. RotationOK'
  BY <1>1, <1>3, <1>5 DEF RotationOK, Leave
<1>7. TypeOK'
  BY <1>1, <1>2, <1>5, <1>6, TypeFromParts DEF RestOK, CountsOK, DownOK, VaultStep
<1>8. Ladder'
  <2>1. \A h \in UnderWay' : h \in UnderWay /\ rot'[h] = rot[h]
    BY <1>1, <1>3, <1>4, GenFacts
  <2>2. \A h \in UnderWay' : Sound(h)'
    BY <1>1, <1>5, <2>1 DEF Ladder, Sound
  <2> QED
    BY <1>1, <1>5, <2>1, <2>2 DEF Ladder
<1>9. Cover' /\ Creating' /\ PausedIsNamed'
  BY <1>1, <1>2, <1>4 DEF Cover, Creating, PausedIsNamed
<1>10. StaleIsNamed'
  BY <1>2, <1>4, <1>5 DEF StaleIsNamed, Stale
<1>11. Held'
  BY <1>1, <1>4, <1>5 DEF Held, VaultStep
<1> QED
  BY <1>7, <1>8, <1>9, <1>10, <1>11 DEF IInv

----------------------------------------------------------------------------
(* The rest of the daemon.                                                 *)

\* What writes, opens or shuts the vault without a new password, pushes the
\* configuration, deletes a destination, or lets a change through.
LEMMA Beside ==
  ASSUME IInv, VaultStep, file'.gen = file.gen, top' = top, CountsOK',
         UNCHANGED <<repo, report, up, rot, migration, making, alone, clean>>,
         listed' \subseteq listed, paused' \in {paused, migration},
         asked' \subseteq Gen, up \/ asked' \subseteq asked,
         ~up => ~opened' /\ paused' = paused
  PROVE  IInv'
<1>1. /\ TypeOK /\ Ladder /\ Cover /\ Creating /\ Held /\ PausedIsNamed /\ StaleIsNamed
      /\ VaultTypeOK /\ RotationOK /\ RestOK /\ DownOK
  BY TypeIsParts DEF IInv
<1>2. UnderWay' = UnderWay /\ \A g \in Gen : Pending(g)' = Pending(g)
  BY DEF UnderWay, Pending
<1>3. TypeOK'
  BY <1>1, TypeFromParts DEF RotationOK, RestOK, DownOK, VaultStep
<1>4. Ladder'
  <2>1. \A k \in Gens' : k <= top
    BY <1>1, GenFacts DEF Ladder, VaultStep
  <2>2. ASSUME NEW g \in UnderWay PROVE Sound(g)'
    BY <1>1, <2>2 DEF Ladder, Sound
  <2> QED
    BY <1>1, <1>2, <2>1, <2>2 DEF Ladder
<1>5. Cover'
  <2> SUFFICES ASSUME alone, NEW g \in UnderWay PROVE UnderWay = {g} /\ Covered(g)'
    BY <1>1, <1>2 DEF Cover
  <2>1. UnderWay = {g} /\ Covered(g) /\ g \in Gen
    BY <1>1, Rotating
  <2> QED
    BY <1>2, <2>1 DEF Covered
<1>6. Creating' /\ PausedIsNamed'
  BY <1>1, <1>2 DEF Creating, PausedIsNamed
<1>7. StaleIsNamed'
  BY <1>1, <1>2 DEF StaleIsNamed, Stale
<1>8. Held'
  BY <1>1, <1>2 DEF Held, VaultStep
<1> QED
  BY <1>3, <1>4, <1>5, <1>6, <1>7, <1>8 DEF IInv

\* A new or an old password comes into the vault, and no rotation with it.
LEMMA Elsewhere ==
  ASSUME IInv, VaultStep, top <= top', clean' = FALSE, CountsOK',
         file'.gen \in Gens \cup {top'},
         \A g \in UnderWay : g <= file'.gen,
         UNCHANGED <<repo, listed, report, up, rot, migration, paused, making, alone>>,
         asked' \subseteq asked, ~up => ~opened'
  PROVE  IInv'
<1>1. /\ TypeOK /\ Ladder /\ Cover /\ Creating /\ Held /\ PausedIsNamed
      /\ VaultTypeOK /\ RotationOK /\ RestOK /\ DownOK
  BY TypeIsParts DEF IInv
<1>2. UnderWay' = UnderWay /\ \A g \in Gen : Pending(g)' = Pending(g)
  BY DEF UnderWay, Pending
<1>3. top \in Nat /\ top' \in Nat /\ \A k \in Gens : k \in Nat
  BY <1>1, GenFacts DEF VaultStep, VaultTypeOK, Gen
<1>4. RotationOK'
  BY <1>1, <1>3, GenFacts DEF RotationOK, UnderWay
<1>5. TypeOK'
  BY <1>1, <1>4, TypeFromParts DEF RestOK, DownOK, VaultStep
<1>6. Ladder'
  <2>1. \A k \in Gens' : k <= top'
    BY <1>1, <1>3 DEF Ladder, VaultStep
  <2>2. ASSUME NEW g \in UnderWay PROVE Sound(g)'
    BY <1>1, <2>2 DEF Ladder, Sound
  <2> QED
    BY <1>1, <1>2, <2>1, <2>2 DEF Ladder
<1>7. Cover'
  <2> SUFFICES ASSUME alone, NEW g \in UnderWay PROVE UnderWay = {g} /\ Covered(g)'
    BY <1>1, <1>2 DEF Cover
  <2>1. UnderWay = {g} /\ Covered(g) /\ g \in Gen
    BY <1>1, Rotating
  <2> QED
    BY <1>2, <2>1 DEF Covered
<1>8. Creating' /\ PausedIsNamed' /\ StaleIsNamed'
  BY <1>1, <1>2 DEF Creating, PausedIsNamed, StaleIsNamed
<1>9. Held'
  BY <1>1, <1>2 DEF Held, VaultStep
<1> QED
  BY <1>5, <1>6, <1>7, <1>8, <1>9 DEF IInv

----------------------------------------------------------------------------
(* Steps of a rotation.                                                    *)

LEMMA Moving ==
  ASSUME IInv, NEW g \in Gen, NEW stage, At(g, stage)
  PROVE  /\ g \in UnderWay /\ rot[g] \in Walk /\ rot[g].at = stage
         /\ rot[g].all \subseteq Derived /\ rot[g].left \subseteq Derived
         /\ rot[g].moved \subseteq Derived /\ rot[g].from \in Gen
         /\ rot \in [Gen -> {Idle} \cup Walk]
         /\ \A w \in Walk : rot' = [rot EXCEPT ![g] = w] => rot'[g] = w
<1>1. g \in UnderWay
  BY DEF At, UnderWay
<1>2. rot[g] \in Walk /\ rot \in [Gen -> {Idle} \cup Walk]
  BY <1>1, Rotating DEF IInv, TypeOK
<1> QED
  BY <1>1, <1>2 DEF At, Walk

\* The same rotation at another place.
Like(w, g) ==
    /\ w.from = rot[g].from /\ w.all = rot[g].all /\ w.left = rot[g].left
    /\ w.moved = rot[g].moved /\ w.cur = rot[g].cur

LEMMA Goes ==
  ASSUME IInv, NEW g \in Gen, NEW stage, At(g, stage), NEW at \in Stage, Goto(g, at)
  PROVE  \E w \in Walk : rot' = [rot EXCEPT ![g] = w] /\ Like(w, g) /\ w.at = at
<1>1. rot[g] \in Walk /\ rot \in [Gen -> {Idle} \cup Walk]
  BY Moving
<1> DEFINE w == [rot[g] EXCEPT !.at = at]
<1>2. w \in Walk /\ Like(w, g) /\ w.at = at
  BY <1>1 DEF Walk, Like
<1>3. rot' = [rot EXCEPT ![g] = w]
  BY <1>1 DEF Goto
<1> HIDE DEF w
<1> QED
  BY <1>2, <1>3

LEMMA Records ==
  ASSUME IInv, NEW g \in Gen, NEW stage, At(g, stage), NEW won \in BOOLEAN, Record(g, won)
  PROVE  \E w \in Walk :
            rot' = [rot EXCEPT ![g] = w] /\ Like(w, g) /\ w.at = "mark" /\ w.won = won
<1>1. rot[g] \in Walk /\ rot \in [Gen -> {Idle} \cup Walk]
  BY Moving
<1> DEFINE w == [rot[g] EXCEPT !.at = "mark", !.won = won]
<1>2. w \in Walk /\ Like(w, g) /\ w.at = "mark" /\ w.won = won
  BY <1>1 DEF Walk, Like, Stage
<1>3. rot' = [rot EXCEPT ![g] = w]
  BY <1>1 DEF Record
<1> HIDE DEF w
<1> QED
  BY <1>2, <1>3

\* A step that only changes the place of the rotation.
LEMMA Walks ==
  ASSUME IInv, NEW g \in Gen, NEW stage \in Stage \ {"committed", "reported"}, At(g, stage),
         NEW w \in Walk, InHand(w), rot' = [rot EXCEPT ![g] = w], w.from = rot[g].from,
         w.all = rot[g].all, w.moved = rot[g].moved,
         w.at \notin {"committed", "reported"},
         UNCHANGED quiet,
         \/ repo' = repo
         \/ stage = "change" /\ repo' = [repo EXCEPT ![rot[g].cur] = g],
         w.at = "change" => repo' = repo /\ repo[w.cur] = rot[g].from,
         w.at = "mark" /\ w.won => repo' = repo /\ repo[w.cur] = g
  PROVE  IInv'
<1>1. /\ g \in UnderWay /\ rot[g].at = stage /\ rot'[g] = w /\ g \in Nat
  BY Moving, GenFacts DEF IInv
<1>2. /\ Sound(g) /\ InHand(rot[g]) /\ TypeOK /\ (alone => Covered(g))
      /\ rot[g].moved \subseteq Derived
  BY <1>1, Rotating, Moving DEF IInv
<1>3. UNCHANGED <<vaultVars, listed, report, up, asked, migration, paused, making, alone,
                  clean, changes, faults>>
  BY DEF quiet, history
<1>4. faults' \in 0..MaxFaults /\ report' \subseteq Derived /\ migration' \subseteq Derived
      /\ paused' \subseteq Derived
  BY <1>2, <1>3 DEF TypeOK
<1>5. \A r \in rot[g].moved : repo'[r] = repo[r]
  <2>1. CASE repo' = repo
    BY <2>1
  <2>2. CASE stage = "change" /\ repo' = [repo EXCEPT ![rot[g].cur] = g]
    <3>1. rot[g].cur \notin rot[g].moved
      BY <1>1, <1>2, <2>2 DEF InHand
    <3> QED
      BY <1>2, <2>2, <3>1 DEF TypeOK
  <2> QED
    BY <2>1, <2>2
<1>6. Sound(g)'
  <2>1. file' = file
    BY <1>3 DEF vaultVars
  <2> QED
    BY <1>1, <1>2, <1>3, <1>5, <2>1 DEF Sound
<1>7. alone => Covered(g)'
  BY <1>1, <1>2, <1>3, <1>5 DEF Covered, Pending
<1>8. Moves(g)
  BY <1>1 DEF Moves
<1> QED
  BY <1>1, <1>3, <1>4, <1>6, <1>7, <1>8, GoesOn

LEMMA WriteReportKeeps == ASSUME IInv, NEW g \in Gen, WriteReport(g) PROVE IInv'
<1>1. At(g, "committed") /\ g \in UnderWay /\ rot[g] \in Walk /\ rot[g].at = "committed"
  BY Moving DEF WriteReport
<1>2. Sound(g) /\ TypeOK /\ InHand(rot[g]) /\ (alone => Covered(g)) /\ (clean => alone)
  BY <1>1, Rotating DEF IInv
<1>3. UNCHANGED <<vaultVars, repo, listed, up, asked, paused, making, alone, clean, changes,
                  faults>>
      /\ report' = rot[g].all /\ faults' \in 0..MaxFaults /\ report' \subseteq Derived
  BY <1>1, <1>2, Moving DEF WriteReport, history, TypeOK
<1>4. CASE rot[g].all = {}
  <2>1. Leave(g) /\ UNCHANGED migration /\ Stale = {} /\ clean' \in BOOLEAN
        /\ migration \subseteq Derived /\ paused \subseteq Derived
    BY <1>1, <1>2, <1>3, <1>4 DEF WriteReport, Sound, Stale, TypeOK
  <2>2. alone => paused' \subseteq migration' /\ migration' \subseteq report'
    BY <1>1, <1>2, <1>3, <2>1 DEF Covered
  <2> QED
    BY <1>1, <1>3, <2>1, <2>2, Leaves
<1>5. CASE rot[g].all # {}
  <2>1. "reported" \in Stage /\ Goto(g, "reported") /\ migration' = rot[g].all
    BY <1>5 DEF Stage, WriteReport
  <2>2. PICK w \in Walk : rot' = [rot EXCEPT ![g] = w] /\ Like(w, g) /\ w.at = "reported"
    BY <1>1, <2>1, Goes
  <2>3. InHand(w) /\ rot'[g] = w /\ w.all = rot[g].all /\ w.from = rot[g].from
        /\ w.moved = rot[g].moved
    BY <1>1, <1>2, <2>2, Moving DEF InHand, Like
  <2>4. Sound(g)'
    BY <1>1, <1>2, <1>3, <2>2, <2>3 DEF Sound, vaultVars
  <2>5. alone => Covered(g)'
    BY <1>1, <1>2, <1>3, <2>1, <2>2, <2>3 DEF Covered
  <2>6. migration' \subseteq Derived /\ paused' \subseteq Derived /\ Moves(g)
    BY <1>1, <1>2, <1>3, <2>1, Moving DEF TypeOK, Moves
  <2> QED
    BY <1>1, <1>3, <2>2, <2>3, <2>4, <2>5, <2>6, GoesOn
<1> QED
  BY <1>4, <1>5

LEMMA AbandonKeeps == ASSUME IInv, NEW g \in Gen, Abandon(g) PROVE IInv'
<1>1. PICK stage \in {"committed", "reported"} :
         /\ At(g, stage)
         /\ stage = "committed" => clean' = FALSE /\ report' \in {report, rot[g].all}
         /\ stage = "reported" => clean' = clean /\ report' = report
  BY DEF Abandon
<1>2. g \in UnderWay /\ rot[g].at = stage /\ rot[g].all \subseteq Derived
  BY <1>1, Moving
<1>3. Sound(g) /\ TypeOK /\ (alone => Covered(g)) /\ (clean => alone /\ Stale \subseteq Pending(g))
  BY <1>2, Rotating DEF IInv
<1>4. /\ Leave(g) /\ faults' \in 0..MaxFaults
      /\ UNCHANGED <<vaultVars, repo, listed, up, asked, migration, paused, making, alone,
                     changes>>
  BY <1>3, TypeIsParts, Counting DEF Abandon
<1>5. /\ report' \subseteq Derived /\ migration' \subseteq Derived /\ paused' \subseteq Derived
      /\ alone => paused' \subseteq migration' /\ migration' \subseteq report'
  BY <1>1, <1>2, <1>3, <1>4 DEF Covered, TypeOK
<1>6. clean' \in BOOLEAN /\ (clean' => clean) /\ (clean' => Stale \subseteq migration')
  <2>1. CASE stage = "committed"
    BY <1>1, <2>1
  <2>2. CASE stage = "reported"
    <3>1. clean => migration = rot[g].all /\ Stale \subseteq rot[g].all
      BY <1>2, <1>3, <2>2 DEF Covered, Pending
    <3> QED
      BY <1>1, <1>3, <1>4, <2>2, <3>1 DEF TypeOK
  <2> QED
    BY <2>1, <2>2
<1> QED
  BY <1>2, <1>4, <1>5, <1>6, Leaves

LEMMA PushKeeps == ASSUME IInv, NEW g \in Gen, Spawn(g) \/ Told(g) PROVE IInv'
<1>1. PICK stage \in {"reported", "told"} : At(g, stage) /\ Goto(g, "walk")
  BY DEF Spawn, Told
<1>2. g \in UnderWay /\ rot[g] \in Walk /\ rot[g].at = stage
  BY <1>1, Moving
<1>3. Sound(g) /\ TypeOK /\ InHand(rot[g]) /\ (alone => Covered(g))
  BY <1>2, Rotating DEF IInv
<1>4. "walk" \in Stage
  BY DEF Stage
<1>5. PICK w \in Walk : rot' = [rot EXCEPT ![g] = w] /\ Like(w, g) /\ w.at = "walk"
  BY <1>1, <1>4, Goes
<1>6. InHand(w) /\ rot'[g] = w
  BY <1>1, <1>3, <1>5, Moving DEF InHand, Like
<1>7. /\ UNCHANGED <<vaultVars, repo, listed, report, up, asked, migration, making, alone,
                     clean, changes, faults>>
      /\ paused' = migration /\ Moves(g) /\ w.from = rot[g].from
  BY <1>5 DEF Spawn, Told, Push, history, Moves, Like
<1>8. Sound(g)'
  BY <1>2, <1>3, <1>5, <1>6, <1>7 DEF Sound, Like, vaultVars
<1>9. alone => Covered(g)'
  BY <1>2, <1>3, <1>5, <1>6, <1>7 DEF Covered, Sound, Pending, Like
<1>10. faults' \in 0..MaxFaults /\ report' \subseteq Derived /\ migration' \subseteq Derived
       /\ paused' \subseteq Derived
  BY <1>3, <1>7 DEF TypeOK
<1> QED
  BY <1>2, <1>5, <1>6, <1>7, <1>8, <1>9, <1>10, GoesOn

LEMMA ProbeKeeps == ASSUME IInv, NEW g \in Gen, NEW r \in Derived, Probe(g, r) PROVE IInv'
<1>1. At(g, "walk") /\ r \in rot[g].left /\ repo' = repo /\ UNCHANGED quiet
  BY DEF Probe
<1>2. g \in UnderWay /\ rot[g] \in Walk /\ InHand(rot[g])
  BY <1>1, Moving, Rotating
<1>3. PICK at \in {"mark", "old"}, won \in BOOLEAN :
         /\ (at = "mark" /\ won) => repo[r] = g
         /\ rot' = IF at = "mark"
                     THEN [rot EXCEPT ![g].left = @ \ {r}, ![g].cur = r,
                                      ![g].at = "mark", ![g].won = won]
                     ELSE [rot EXCEPT ![g].left = @ \ {r}, ![g].cur = r, ![g].at = "old"]
  BY DEF Probe
<1> DEFINE w == [rot[g] EXCEPT !.left = @ \ {r}, !.cur = r, !.at = at,
                               !.won = IF at = "mark" THEN won ELSE @]
<1>4. /\ w \in Walk /\ w.at = at /\ w.from = rot[g].from /\ w.all = rot[g].all /\ w.left = rot[g].left \ {r}
      /\ w.moved = rot[g].moved /\ w.cur = r
      /\ at = "mark" => w.won = won
  BY <1>2, <1>3 DEF Walk, Stage
<1>5. rot' = [rot EXCEPT ![g] = w]
  <2>1. rot \in [Gen -> {Idle} \cup Walk]
    BY DEF IInv, TypeOK
  <2>2. CASE at = "mark"
    BY <1>2, <1>3, <2>1, <2>2
  <2>3. CASE at = "old"
    <3>1. w = [rot[g] EXCEPT !.left = @ \ {r}, !.cur = r, !.at = "old"]
      BY <1>2, <2>3 DEF Walk
    <3> QED
      BY <1>2, <1>3, <2>1, <2>3, <3>1
  <2> QED
    BY <2>2, <2>3
<1>6. InHand(w)
  BY <1>1, <1>2, <1>4 DEF InHand
<1> HIDE DEF w
<1>7. "walk" \in Stage \ {"committed", "reported"}
  BY DEF Stage
<1> QED
  BY <1>1, <1>3, <1>4, <1>5, <1>6, <1>7, Walks

LEMMA TriesKeep ==
  ASSUME IInv, NEW g \in Gen, TryOld(g) \/ ChangePassword(g) \/ Verify(g)
  PROVE  IInv'
<1> DEFINE cur == rot[g].cur
<1>1. PICK stage \in {"old", "change", "verify"}, at \in {"change", "verify", "mark"},
           won \in BOOLEAN :
         /\ At(g, stage) /\ UNCHANGED quiet
         /\ IF at = "mark" THEN Record(g, won) ELSE Goto(g, at)
         /\ repo' = repo \/ (stage = "change" /\ repo' = [repo EXCEPT ![cur] = g])
         /\ at = "change" => repo' = repo /\ repo[cur] = rot[g].from
         /\ (at = "mark" /\ won) => repo' = repo /\ repo[cur] = g
  <2>1. CASE TryOld(g)
    BY <2>1 DEF TryOld
  <2>2. CASE ChangePassword(g)
    BY <2>2 DEF ChangePassword
  <2>3. CASE Verify(g)
    BY <2>3 DEF Verify
  <2> QED
    BY <2>1, <2>2, <2>3
<1>2. g \in UnderWay /\ rot[g] \in Walk /\ rot[g].at = stage /\ rot[g].from \in Gen
  BY <1>1, Moving
<1>3. InHand(rot[g])
  BY <1>2, Rotating
<1>4. stage \in Stage \ {"committed", "reported"} /\ at \in Stage
  BY DEF Stage
<1>5. PICK w \in Walk :
         /\ rot' = [rot EXCEPT ![g] = w] /\ Like(w, g) /\ w.at = at
         /\ at = "mark" => w.won = won
  <2>1. CASE at = "mark"
    BY <1>1, <2>1, Records
  <2>2. CASE at # "mark"
    BY <1>1, <1>4, <2>2, Goes
  <2> QED
    BY <2>1, <2>2
<1>6. InHand(w) /\ w.all = rot[g].all /\ w.moved = rot[g].moved /\ w.cur = cur
      /\ w.from = rot[g].from
  BY <1>2, <1>3, <1>5 DEF InHand, Like
<1> QED
  BY <1>1, <1>2, <1>3, <1>4, <1>5, <1>6, Walks

LEMMA MarkKeeps == ASSUME IInv, NEW g \in Gen, Mark(g) PROVE IInv'
<1> DEFINE moved == IF rot[g].won THEN rot[g].moved \cup {rot[g].cur} ELSE rot[g].moved
           rest == rot[g].all \ moved
           w == [rot[g] EXCEPT !.moved = moved, !.cur = NoRepo, !.won = FALSE, !.at = "told"]
<1>1. At(g, "mark") /\ g \in UnderWay /\ rot[g] \in Walk /\ rot[g].at = "mark"
  BY Moving DEF Mark
<1>2. Sound(g) /\ TypeOK /\ InHand(rot[g]) /\ (alone => Covered(g))
  BY <1>1, Rotating DEF IInv
<1>3. rot[g].cur \in rot[g].all \ (rot[g].left \cup rot[g].moved) /\ rot[g].all \subseteq Derived
  BY <1>1, <1>2 DEF InHand, Walk
<1>4. moved \subseteq Derived /\ moved \subseteq rot[g].all /\ moved \cap rot[g].left = {}
  BY <1>1, <1>2, <1>3 DEF InHand, Walk
<1>5. /\ w \in Walk /\ w.at = "told" /\ w.all = rot[g].all /\ w.left = rot[g].left
      /\ w.moved = moved /\ w.from = rot[g].from
  BY <1>1, <1>4 DEF Walk, Stage
<1>6. rot' = [rot EXCEPT ![g] = w]
  BY <1>1, <1>2 DEF Mark, TypeOK
<1>7. /\ UNCHANGED <<vaultVars, repo, listed, up, asked, paused, making, alone, clean, changes>>
      /\ migration' = rest /\ report' \in {rest, report} /\ faults' \in 0..MaxFaults
  BY <1>2, TypeIsParts, Counting DEF Mark, CountsOK
<1> HIDE DEF w
<1>8. InHand(w)
  BY <1>2, <1>4, <1>5 DEF InHand
<1>9. rot'[g] = w
  BY <1>1, <1>5, <1>6, Moving
<1>10. \A r \in moved : repo[r] >= g
  BY <1>1, <1>2 DEF Sound
<1>11. Sound(g)'
  BY <1>2, <1>5, <1>7, <1>9, <1>10 DEF Sound, vaultVars
<1>12. alone => Covered(g)'
  <2> SUFFICES ASSUME alone PROVE Covered(g)'
    OBVIOUS
  <2>1. rest \subseteq report \cap paused /\ \A r \in moved : repo[r] = g
    BY <1>1, <1>2 DEF Covered, Pending
  <2> QED
    BY <1>5, <1>7, <1>9, <2>1 DEF Covered, Pending
<1>13. report' \subseteq Derived /\ migration' \subseteq Derived /\ paused' \subseteq Derived
  BY <1>2, <1>3, <1>7 DEF TypeOK
<1>14. Moves(g)
  BY <1>7 DEF Moves
<1> HIDE DEF moved, rest
<1> QED
  BY <1>1, <1>5, <1>6, <1>7, <1>8, <1>11, <1>12, <1>13, <1>14, GoesOn

LEMMA FinishKeeps == ASSUME IInv, NEW g \in Gen, Finish(g) PROVE IInv'
<1>1. At(g, "walk") /\ g \in UnderWay /\ rot[g] \in Walk /\ rot[g].at = "walk"
  BY Moving DEF Finish
<1>2. Sound(g) /\ TypeOK /\ InHand(rot[g]) /\ (alone => Covered(g))
  BY <1>1, Rotating DEF IInv
<1>3. "last" \in Stage
  BY DEF Stage
<1>4. PICK w \in Walk : rot' = [rot EXCEPT ![g] = w] /\ Like(w, g) /\ w.at = "last"
  BY <1>1, <1>3, Goes DEF Finish
<1>5. InHand(w) /\ rot'[g] = w /\ w.from = rot[g].from
  BY <1>1, <1>2, <1>4, Moving DEF InHand, Like
<1>6. /\ UNCHANGED <<vaultVars, repo, listed, up, asked, paused, making, alone, clean, changes>>
      /\ faults' \in 0..MaxFaults /\ Moves(g)
      /\ \/ Pending(g) = {} /\ migration' = {} /\ report' \in {{}, report}
         \/ migration' = migration /\ report' = report
  BY <1>2, TypeIsParts, Counting DEF Finish, CountsOK, Moves
<1>7. Sound(g)'
  BY <1>1, <1>2, <1>4, <1>5, <1>6 DEF Sound, Like, vaultVars
<1>8. alone => Covered(g)'
  BY <1>1, <1>2, <1>4, <1>5, <1>6 DEF Covered, Pending, Like
<1>9. report' \subseteq Derived /\ migration' \subseteq Derived /\ paused' \subseteq Derived
  BY <1>2, <1>6 DEF TypeOK
<1> QED
  BY <1>1, <1>4, <1>5, <1>6, <1>7, <1>8, <1>9, GoesOn

LEMMA LastKeeps == ASSUME IInv, NEW g \in Gen, Last(g) PROVE IInv'
<1>1. g \in UnderWay /\ rot[g].at = "last"
  BY Moving DEF Last
<1>2. /\ TypeOK /\ (alone => Covered(g)) /\ (clean => alone /\ Stale \subseteq Pending(g))
  BY <1>1, Rotating DEF IInv
<1>3. alone => migration = Pending(g) /\ Pending(g) \subseteq report
  BY <1>1, <1>2 DEF Covered
<1>4. /\ Leave(g) /\ paused' = migration
      /\ UNCHANGED <<vaultVars, repo, listed, report, up, asked, migration, making, alone,
                     clean, changes, faults>>
  BY DEF Last, Push, history
<1>5. /\ faults' \in 0..MaxFaults /\ clean' \in BOOLEAN /\ report' \subseteq Derived
      /\ migration' \subseteq Derived /\ paused' \subseteq Derived
  BY <1>2, <1>4 DEF TypeOK
<1> QED
  BY <1>1, <1>2, <1>3, <1>4, <1>5, Leaves

----------------------------------------------------------------------------
(* Steps of the rest of the daemon.                                        *)

LEMMA AskKeeps == ASSUME IInv, Ask PROVE IInv'
<1>1. VaultTypeOK /\ TypeOK /\ CountsOK
  BY TypeIsParts DEF IInv
<1>2. /\ UNCHANGED <<vaultVars, repo, listed, report, up, rot, migration, paused, making,
                     alone, clean, changes, faults>>
      /\ up /\ \E g \in file.gen..(MaxGen - 1) : asked' = asked \cup {g}
  BY DEF Ask, history
<1>3. VaultStep /\ file' = file /\ top' = top
  BY <1>1, <1>2, Stays DEF vaultVars
<1>4. asked' \subseteq Gen /\ CountsOK'
  <2>1. file.gen \in 1..MaxGen /\ asked \subseteq Gen
    BY <1>1, GenFacts DEF TypeOK, Gen
  <2>2. file.gen..(MaxGen - 1) \subseteq Gen
    BY <2>1, Bounds DEF Gen
  <2> QED
    BY <1>1, <1>2, <2>1, <2>2 DEF CountsOK
<1> QED
  BY <1>2, <1>3, <1>4, Beside

LEMMA CommitFailsKeeps == ASSUME IInv, CommitFails PROVE IInv'
<1>1. VaultTypeOK /\ TypeOK /\ CountsOK /\ DownOK
  BY TypeIsParts DEF IInv
<1>2. /\ UNCHANGED <<repo, listed, report, up, rot, migration, paused, making, alone, clean,
                     changes>>
      /\ asked' \subseteq asked /\ asked' \subseteq Gen
  BY <1>1 DEF CommitFails, Granted, TypeOK
<1>3. VaultStep /\ file' = file /\ UNCHANGED <<top, opened>> /\ CountsOK'
  <2>1. CASE Fault /\ NotRotated
    BY <1>1, <1>2, <2>1, DoesNotRotate, Counting DEF CountsOK
  <2>2. CASE UNCHANGED <<faults, vaultVars>>
    BY <1>1, <1>2, <2>2, Stays DEF CountsOK, vaultVars
  <2> QED
    BY <2>1, <2>2 DEF CommitFails
<1>4. ~up => ~opened'
  BY <1>1, <1>3 DEF DownOK
<1> QED
  BY <1>2, <1>3, <1>4, Beside

LEMMA ChangeSecretKeeps == ASSUME IInv, ChangeSecret PROVE IInv'
<1>1. VaultTypeOK /\ TypeOK /\ CountsOK
  BY TypeIsParts DEF IInv
<1>2. /\ UNCHANGED <<top, minted, opened, repo, listed, report, up, asked, rot, migration,
                     paused, making, alone, clean>>
      /\ up /\ CountsOK'
  <2>1. faults' \in 0..MaxFaults
    BY <1>1, Counting DEF ChangeSecret, CountsOK
  <2> QED
    BY <1>1, <2>1, Counting DEF ChangeSecret, CountsOK
<1>3. VaultStep /\ file'.gen = file.gen
  <2>1. SaveWorks(keys) \/ SaveStumbles(keys) \/ SaveFails(keys)
    BY DEF ChangeSecret
  <2> QED
    BY <1>1, <1>2, <2>1, Saves
<1>4. asked' \subseteq Gen
  BY <1>1, <1>2 DEF TypeOK
<1> QED
  BY <1>2, <1>3, <1>4, Beside

LEMMA UnlockKeeps == ASSUME IInv, Unlock PROVE IInv'
<1>1. VaultTypeOK /\ TypeOK /\ CountsOK
  BY TypeIsParts DEF IInv
<1>2. /\ UNCHANGED <<repo, listed, report, up, asked, rot, migration, making, alone, clean,
                     changes, faults>>
      /\ up /\ paused' = migration /\ Opened
  BY DEF Unlock, Push, history
<1>3. VaultStep /\ file' = file /\ top' = top /\ CountsOK'
  BY <1>1, <1>2, ShutsOrOpens DEF CountsOK
<1>4. asked' \subseteq Gen
  BY <1>1, <1>2 DEF TypeOK
<1> QED
  BY <1>2, <1>3, <1>4, Beside

LEMMA LockKeeps == ASSUME IInv, Lock PROVE IInv'
<1>1. VaultTypeOK /\ TypeOK /\ CountsOK
  BY TypeIsParts DEF IInv
<1>2. /\ UNCHANGED <<repo, listed, report, up, asked, rot, migration, paused, making, alone,
                     clean, changes, faults>>
      /\ up /\ Shut
  BY DEF Lock, history
<1>3. VaultStep /\ file' = file /\ top' = top /\ CountsOK'
  BY <1>1, <1>2, ShutsOrOpens DEF CountsOK
<1>4. asked' \subseteq Gen
  BY <1>1, <1>2 DEF TypeOK
<1> QED
  BY <1>2, <1>3, <1>4, Beside

LEMMA DeleteKeeps == ASSUME IInv, NEW r \in Derived, Delete(r) PROVE IInv'
<1>1. VaultTypeOK /\ TypeOK /\ CountsOK
  BY TypeIsParts DEF IInv
<1>2. /\ UNCHANGED <<vaultVars, repo, report, up, asked, rot, migration, making, alone, clean,
                     faults>>
      /\ changes < MaxChanges /\ changes' = changes + 1
      /\ up /\ paused' = migration /\ listed' \subseteq listed
  BY DEF Delete, Push, history
<1>3. VaultStep /\ file' = file /\ top' = top /\ CountsOK'
  BY <1>1, <1>2, Stays, Counting DEF CountsOK, vaultVars
<1>4. asked' \subseteq Gen
  BY <1>1, <1>2 DEF TypeOK
<1> QED
  BY <1>2, <1>3, <1>4, Beside

LEMMA CommitUnprunedKeeps == ASSUME IInv, CommitUnpruned PROVE IInv'
<1>1. VaultTypeOK /\ TypeOK /\ CountsOK /\ DownOK /\ RotationOK
  BY TypeIsParts DEF IInv
<1>2. /\ UNCHANGED <<repo, listed, report, up, rot, migration, paused, making, alone, changes>>
      /\ asked' \subseteq asked /\ clean' = FALSE /\ RoomToSpare /\ Rotated(Copied)
      /\ Fault
  BY DEF CommitUnpruned, Granted
<1>3. VaultStep /\ file'.gen = top' /\ top' = top + 1 /\ opened' = opened
  BY <1>1, <1>2, Rotates
<1>4. top <= top' /\ \A g \in UnderWay : g <= file'.gen
  BY <1>1, <1>3, GenFacts
<1>5. CountsOK' /\ (~up => ~opened')
  BY <1>1, <1>2, <1>3, Counting DEF CountsOK, DownOK
<1> QED
  BY <1>2, <1>3, <1>4, <1>5, Elsewhere

LEMMA RestoreKeeps == ASSUME IInv, NEW i \in DOMAIN backups, Restore(i) PROVE IInv'
<1>1. VaultTypeOK /\ TypeOK /\ CountsOK /\ DownOK
  BY TypeIsParts DEF IInv
<1>2. /\ UNCHANGED <<repo, listed, report, up, asked, rot, migration, paused, making, alone,
                     faults>>
      /\ ~up /\ clean' = FALSE /\ Replaced(backups[i])
      /\ changes < MaxChanges /\ changes' = changes + 1
  BY DEF Restore
<1>3. VaultStep /\ top' = top /\ opened' = FALSE /\ file'.gen \in Gens
  BY <1>1, <1>2, Replaces
<1>4. top <= top' /\ UnderWay = {}
  BY <1>1, <1>2, <1>3, GenFacts DEF DownOK, UnderWay
<1>5. CountsOK'
  BY <1>1, <1>2, Counting DEF CountsOK
<1> QED
  BY <1>2, <1>3, <1>4, <1>5, Elsewhere

LEMMA CommitKeeps == ASSUME IInv, Commit PROVE IInv'
<1> PICK g : g = top + 1
  OBVIOUS
<1> PICK w : w = [at |-> "committed", from |-> file.gen, all |-> listed, left |-> listed,
                  moved |-> {}, cur |-> NoRepo, won |-> FALSE]
  OBVIOUS
<1>1. /\ TypeOK /\ VaultTypeOK /\ RotationOK /\ RestOK /\ CountsOK /\ DownOK /\ Ladder
      /\ Creating /\ Held
  BY TypeIsParts DEF IInv
<1>2. /\ UNCHANGED <<repo, listed, report, up, migration, paused, making, changes, faults>>
      /\ file.gen \in asked /\ asked' \subseteq asked /\ Rotated(Newest(Copied))
      /\ rot' = [rot EXCEPT ![g] = w]
      /\ alone' = AtRest /\ clean' = AtRest
  BY DEF Commit, Granted
<1>3. VaultStep /\ file'.gen = g /\ top' = g /\ g \in Gen /\ opened' = opened
  BY <1>1, <1>2, Rotates
<1>4. /\ up
      /\ top \in Nat /\ file.gen \in Nat /\ file.gen <= top /\ \A k \in Gens : k \in Nat /\ k <= top
      /\ \A h \in UnderWay : h \in Nat /\ h <= top /\ rot[h].from \in Nat
  BY <1>1, <1>2, GenFacts DEF Ladder, DownOK
<1>15. alone' \in BOOLEAN /\ clean' \in BOOLEAN
  <2>1. AtRest \in BOOLEAN
    BY DEF AtRest
  <2> QED
    BY <1>2, <2>1, Zenon
<1>5. /\ w \in Walk /\ w # Idle /\ InHand(w) /\ w.all = listed /\ w.moved = {}
      /\ w.at = "committed" /\ w.from = file.gen
  BY <1>1, GenFacts DEF Walk, Idle, Stage, InHand, RestOK
<1>6. rot'[g] = w /\ \A h \in Gen \ {g} : rot'[h] = rot[h]
  BY <1>1, <1>2, <1>3 DEF RotationOK
<1>7. UnderWay' = UnderWay \cup {g} /\ g \notin UnderWay
  <2>1. g \notin UnderWay
    BY <1>4
  <2> QED
    BY <1>3, <1>5, <1>6, <2>1 DEF UnderWay
<1>8. RotationOK'
  <2>1. rot' \in [Gen -> {Idle} \cup Walk]
    BY <1>1, <1>2, <1>3, <1>5 DEF RotationOK
  <2>2. ASSUME NEW h \in Gen, rot'[h] # Idle PROVE h <= top' /\ InHand(rot'[h])
    <3>1. CASE h = g
      BY <1>3, <1>4, <1>5, <1>6, <3>1
    <3>2. CASE h # g
      <4>1. h \in UnderWay /\ rot'[h] = rot[h]
        BY <1>6, <2>2, <3>2 DEF UnderWay
      <4> QED
        BY <1>1, <1>3, <1>4, <2>2, <4>1 DEF RotationOK
    <3> QED
      BY <3>1, <3>2
  <2> QED
    BY <2>1, <2>2 DEF RotationOK
<1>9. TypeOK'
  BY <1>1, <1>2, <1>3, <1>4, <1>15, <1>8, TypeFromParts DEF RestOK, CountsOK, DownOK, VaultStep
<1>10. Sound(g)'
  BY <1>2, <1>3, <1>4, <1>5, <1>6 DEF Sound
<1>11. Ladder'
  <2>1. \A k \in Gens' : k <= top'
    <3>1. Gens' \subseteq Gens \cup {g}
      BY <1>3 DEF VaultStep
    <3> QED
      BY <1>3, <1>4, <3>1
  <2>2. \A h \in UnderWay : rot'[h] = rot[h] /\ Sound(h)
    BY <1>1, <1>6, <1>7, GenFacts DEF Ladder
  <2>3. ASSUME NEW h \in UnderWay PROVE Sound(h)'
    <3>1. h <= file'.gen
      BY <1>3, <1>4
    <3> QED
      BY <1>2, <2>2, <3>1 DEF Sound
  <2>4. \A h \in UnderWay : h <= rot'[g].from /\ ~(g < h)
    BY <1>4, <1>5, <1>6, <2>2 DEF Sound
  <2>5. \A h, k \in UnderWay : h < k => h <= rot'[k].from
    BY <1>1, <2>2 DEF Ladder
  <2>6. \A h, k \in UnderWay' : h < k => h <= rot'[k].from
    BY <1>4, <1>7, <2>4, <2>5
  <2> QED
    BY <1>7, <1>10, <2>1, <2>3, <2>6 DEF Ladder
<1>12. Cover'
  <2>1. AtRest => UnderWay' = {g} /\ migration' = {} /\ paused' = {}
    BY <1>2, <1>7 DEF AtRest
  <2>2. AtRest => Covered(g)'
    BY <1>5, <1>6, <2>1 DEF Covered
  <2> QED
    BY <1>2, <1>3, <2>1, <2>2 DEF Cover
<1>13. Creating' /\ PausedIsNamed' /\ StaleIsNamed'
  BY <1>1, <1>2, <1>7 DEF Creating, PausedIsNamed, StaleIsNamed
<1>14. Held'
  <2>1. g \in Gens'
    BY <1>3 DEF Gens, OnDisk
  <2> QED
    BY <1>1, <1>2, <1>3, <1>7, <2>1 DEF Held, VaultStep
<1> QED
  BY <1>9, <1>11, <1>12, <1>13, <1>14 DEF IInv

\* A driver is built with the password of the live vault.
LEMMA BindKeeps == ASSUME IInv, NEW r \in Derived, Bind(r) PROVE IInv'
<1>1. /\ TypeOK /\ VaultTypeOK /\ RotationOK /\ RestOK /\ CountsOK /\ DownOK /\ Ladder /\ Cover
      /\ Creating /\ Held /\ PausedIsNamed /\ StaleIsNamed
  BY TypeIsParts DEF IInv
<1>2. /\ UNCHANGED <<vaultVars, repo, listed, report, up, asked, rot, migration, paused, alone,
                     clean, changes, faults>>
      /\ repo[r] = 0 /\ making' = [making EXCEPT ![r] = file.gen]
  BY DEF Bind, history
<1>3. VaultStep /\ file' = file /\ UNCHANGED <<top, opened>> /\ Gens' = Gens
  BY <1>1, <1>2, Stays DEF vaultVars, Gens, OnDisk
<1>4. UnderWay' = UnderWay /\ \A g \in Gen : Pending(g)' = Pending(g)
  BY <1>2 DEF UnderWay, Pending
<1>5. TypeOK'
  BY <1>1, <1>2, <1>3, GenFacts, TypeFromParts DEF RotationOK, RestOK, CountsOK, DownOK, VaultStep
<1>6. /\ making'[r] = file.gen /\ \A s \in Derived \ {r} : making'[s] = making[s]
      /\ file.gen \in Gens /\ file.gen # 0
  BY <1>1, <1>2, GenFacts DEF RestOK
<1>7. PausedIsNamed' /\ Creating'
  BY <1>1, <1>2, <1>4, <1>6 DEF PausedIsNamed, Creating
<1>8. Ladder' /\ Cover'
  <2>1. \A g \in UnderWay : g \in Gen /\ (Sound(g) => Sound(g)') /\ (Covered(g) => Covered(g)')
    BY <1>1, <1>2, <1>3, <1>4, GenFacts DEF Sound, Covered
  <2> QED
    BY <1>1, <1>2, <1>3, <1>4, <2>1 DEF Ladder, Cover
<1>9. StaleIsNamed'
  <2>1. Stale' \subseteq Stale
    BY <1>2, <1>3, <1>6 DEF Stale
  <2> QED
    BY <1>1, <1>2, <1>4, <2>1 DEF StaleIsNamed
<1>10. Held'
  BY <1>1, <1>2, <1>3, <1>4, <1>6 DEF Held, VaultStep
<1> QED
  BY <1>5, <1>7, <1>8, <1>9, <1>10 DEF IInv

\* It is created with that password, which by then may be an old one, or not.
LEMMA MakeKeeps == ASSUME IInv, NEW r \in Derived, Make(r) PROVE IInv'
<1>1. /\ TypeOK /\ VaultTypeOK /\ RotationOK /\ RestOK /\ CountsOK /\ DownOK /\ Ladder /\ Cover
      /\ Creating /\ Held /\ PausedIsNamed /\ StaleIsNamed
  BY TypeIsParts DEF IInv
<1>2. /\ UNCHANGED <<vaultVars, listed, report, up, asked, rot, migration, paused, alone,
                     clean, changes, faults>>
      /\ making[r] # 0 /\ making' = [making EXCEPT ![r] = 0]
      /\ repo' = repo \/ repo' = [repo EXCEPT ![r] = making[r]]
  BY DEF Make, history
<1>3. VaultStep /\ file' = file /\ UNCHANGED <<top, opened>> /\ Gens' = Gens
  BY <1>1, <1>2, Stays DEF vaultVars, Gens, OnDisk
<1>4. UnderWay' = UnderWay /\ \A g \in Gen : Pending(g)' = Pending(g)
  BY <1>2 DEF UnderWay, Pending
<1>5. TypeOK'
  BY <1>1, <1>2, <1>3, TypeFromParts DEF RotationOK, RestOK, CountsOK, DownOK, VaultStep
<1>6. /\ repo[r] = 0 /\ repo'[r] \in {0, making[r]} /\ making'[r] = 0
      /\ \A s \in Derived \ {r} : making'[s] = making[s] /\ repo'[s] = repo[s]
  BY <1>1, <1>2 DEF RestOK, Creating
<1>7. PausedIsNamed' /\ Creating'
  BY <1>1, <1>2, <1>4, <1>6 DEF PausedIsNamed, Creating
<1>8. ASSUME NEW g \in UnderWay PROVE Sound(g)' /\ (Covered(g) => Covered(g)')
  <2>1. /\ Sound(g) /\ g \in Gen /\ g \in Nat /\ g >= 1 /\ rot[g] \in Walk /\ InHand(rot[g])
        /\ rot[g].from \in Gen /\ 0 \notin Gen
    BY <1>1, Rotating, GenFacts
  <2>2. \A s \in Derived : repo[s] # 0 => repo'[s] = repo[s]
    BY <1>6
  <2>3. \A s \in rot[g].moved : s \in Derived /\ repo[s] # 0
    BY <2>1 DEF Sound, Walk
  <2>4. rot[g].at \in {"change", "mark"} => rot[g].cur \in Derived
    BY <2>1 DEF InHand, Walk
  <2>5. \/ rot[g].at = "change"
        \/ rot[g].at = "mark" /\ rot[g].won
        => repo[rot[g].cur] # 0
    BY <2>1 DEF Sound
  <2>6. Sound(g)'
    BY <1>2, <1>3, <2>1, <2>2, <2>3, <2>4, <2>5 DEF Sound
  <2>7. Covered(g) => Covered(g)'
    BY <1>2, <1>4, <2>1, <2>2, <2>3, <2>4, <2>5 DEF Covered
  <2> QED
    BY <2>6, <2>7
<1>9. Ladder' /\ Cover'
  BY <1>1, <1>2, <1>3, <1>4, <1>8 DEF Ladder, Cover
<1>10. StaleIsNamed'
  <2>1. Stale' \subseteq Stale
    BY <1>2, <1>3, <1>6 DEF Stale
  <2> QED
    BY <1>1, <1>2, <1>4, <2>1 DEF StaleIsNamed
<1>11. Held'
  BY <1>1, <1>2, <1>3, <1>4, <1>6 DEF Held, VaultStep
<1> QED
  BY <1>5, <1>7, <1>9, <1>10, <1>11 DEF IInv

\* The process ends, and what it had started may still be done.
LEMMA CrashKeeps == ASSUME IInv, Crash PROVE IInv'
<1> DEFINE Ended ==
             /\ repo' \in [Derived -> {0} \cup Gen]
             /\ \A s \in Derived :
                   \/ repo'[s] = repo[s]
                   \/ repo'[s] = making[s] /\ making[s] # 0
                   \/ \E g \in UnderWay : repo'[s] = g
<1>1. /\ TypeOK /\ VaultTypeOK /\ RotationOK /\ RestOK /\ CountsOK /\ DownOK /\ Ladder /\ Cover
      /\ Creating /\ Held /\ PausedIsNamed /\ StaleIsNamed
  BY TypeIsParts DEF IInv
<1>2. /\ UNCHANGED <<listed, report, changes>>
      /\ up' = FALSE /\ Shut /\ asked' = {} /\ migration' = {} /\ paused' = {}
      /\ rot' = [g \in Gen |-> Idle] /\ making' = [r \in Derived |-> 0]
      /\ clean' = (clean /\ \A g \in Gen : ~At(g, "committed"))
      /\ alone' = TRUE /\ up /\ Fault
  BY DEF Crash
<1>3. /\ VaultStep /\ file' = file /\ top' = top /\ opened' = FALSE
      /\ clean' \in BOOLEAN /\ faults' \in 0..MaxFaults
  BY <1>1, <1>2, ShutsOrOpens, Counting DEF Shut, RestOK
<1>4. Ended
  <2>1. CASE repo' = repo
    BY <1>1, <2>1 DEF RestOK
  <2>2. ASSUME NEW g \in Gen, At(g, "change"), repo' = [repo EXCEPT ![rot[g].cur] = g]
        PROVE  Ended
    BY <1>1, <2>2 DEF RestOK, At, UnderWay
  <2>3. ASSUME NEW r \in Derived, making[r] # 0, repo' = [repo EXCEPT ![r] = making[r]]
        PROVE  Ended
    BY <1>1, <2>3 DEF RestOK
  <2> QED
    BY <2>1, <2>2, <2>3 DEF Crash
<1>5. UnderWay' = {}
  BY <1>2 DEF UnderWay
<1>6. RotationOK' /\ DownOK'
  BY <1>2, <1>3 DEF RotationOK, DownOK
<1>7. TypeOK'
  BY <1>1, <1>2, <1>3, <1>4, <1>6, TypeFromParts DEF RestOK, CountsOK, VaultStep
<1>8. Ladder'
  <2>1. \A k \in Gens' : k <= top'
    BY <1>1, <1>3, GenFacts DEF Ladder, VaultStep
  <2> QED
    BY <1>5, <2>1 DEF Ladder
<1>9. Cover' /\ Creating' /\ PausedIsNamed'
  BY <1>2, <1>5 DEF Cover, Creating, PausedIsNamed
<1>10. StaleIsNamed'
  <2> SUFFICES ASSUME clean' PROVE Stale' \subseteq report
    BY <1>2 DEF StaleIsNamed
  <2>1. Stale' \subseteq Stale
    <3> SUFFICES ASSUME NEW r \in Stale' PROVE r \in Stale
      OBVIOUS
    <3>1. r \in Derived \cap listed /\ repo'[r] \notin {0, file.gen}
      BY <1>2, <1>3 DEF Stale
    <3>2. ~\E g \in UnderWay : repo'[r] = g
      BY <1>1, <1>2, <3>1 DEF Cover
    <3> QED
      BY <1>4, <3>1, <3>2 DEF Stale
  <2>2. CASE UnderWay = {}
    BY <1>1, <1>2, <2>1, <2>2 DEF StaleIsNamed
  <2>3. ASSUME NEW g \in UnderWay PROVE Stale' \subseteq report
    <3>1. Covered(g) /\ Stale \subseteq Pending(g) /\ g \in Gen /\ rot[g].at # "committed"
      BY <1>2, Rotating DEF UnderWay, At
    <3>2. Pending(g) \subseteq report
      BY <3>1 DEF Covered, Pending
    <3> QED
      BY <2>1, <3>1, <3>2
  <2> QED
    BY <2>2, <2>3
<1>11. Held'
  <2> SUFFICES ASSUME NEW r \in Derived, ~(Len(backups') >= Keep) PROVE {repo'[r]} \ {0} \subseteq Gens'
    BY <1>2, <1>5 DEF Held
  <2>1. Gens \subseteq Gens' /\ {repo[r], making[r]} \ {0} \subseteq Gens /\ UnderWay \subseteq Gens
    BY <1>1, <1>3 DEF VaultStep, Held
  <2> QED
    BY <1>4, <2>1
<1> QED
  BY <1>7, <1>8, <1>9, <1>10, <1>11 DEF IInv

LEMMA StartKeeps == ASSUME IInv, Start PROVE IInv'
<1>1. /\ TypeOK /\ VaultTypeOK /\ RotationOK /\ RestOK /\ CountsOK /\ DownOK /\ Ladder /\ Cover
      /\ Creating /\ Held /\ StaleIsNamed
  BY TypeIsParts DEF IInv
<1>2. /\ UNCHANGED <<vaultVars, repo, listed, report, asked, rot, making, alone, clean,
                     changes, faults>>
      /\ ~up /\ up' = TRUE /\ migration' = report /\ paused' = report
  BY DEF Start, history
<1>3. VaultStep /\ file' = file /\ UNCHANGED <<top, opened>> /\ Gens' = Gens
  BY <1>1, <1>2, Stays DEF vaultVars, Gens, OnDisk
<1>4. UnderWay = {} /\ UnderWay' = {}
  BY <1>1, <1>2 DEF UnderWay, DownOK
<1>5. TypeOK'
  BY <1>1, <1>2, <1>3, TypeFromParts DEF RotationOK, RestOK, CountsOK, DownOK, VaultStep
<1>6. Ladder' /\ Cover' /\ Creating' /\ PausedIsNamed'
  BY <1>1, <1>2, <1>3, <1>4 DEF Ladder, Cover, Creating, PausedIsNamed
<1>7. StaleIsNamed'
  BY <1>1, <1>2, <1>3, <1>4 DEF StaleIsNamed, Stale
<1>8. Held'
  BY <1>1, <1>2, <1>3, <1>4 DEF Held, VaultStep
<1> QED
  BY <1>5, <1>6, <1>7, <1>8 DEF IInv

----------------------------------------------------------------------------
(* The invariant.                                                          *)

LEMMA InitHolds == Init => IInv
<1> SUFFICES ASSUME Init PROVE IInv
  OBVIOUS
<1>1. 1 \in Gen /\ 0 \notin Gen /\ top \in Gen
  BY Bounds, BoundsAssumption DEF Gen, Init, VaultInit
<1>2. VaultTypeOK
  <2>1. keys \in KeyMap /\ minted \in KeyMap /\ file \in Content /\ file.gen = 1
    BY <1>1, Bounds DEF Init, VaultInit, KeyMap, Content
  <2>2. backups \in Seq(Content) /\ Len(backups) <= Keep + 1
    BY Bounds DEF Init, VaultInit
  <2> QED
    BY <1>1, <2>1, <2>2 DEF Init, VaultInit, VaultTypeOK
<1>3. UnderWay = {} /\ rot = [g \in Gen |-> Idle]
  BY DEF Init, UnderWay
<1>4. RotationOK /\ DownOK
  BY <1>3 DEF Init, RotationOK, DownOK
<1>5. TypeOK
  BY <1>1, <1>2, <1>4, TypeIsParts, MoreBoundsAssumption DEF Init, RestOK, CountsOK
<1>6. Ladder /\ Cover /\ PausedIsNamed
  <2>1. Gens = {1} /\ top = 1
    BY DEF Init, VaultInit, Gens, OnDisk
  <2> QED
    BY <1>3, <2>1 DEF Init, Ladder, Cover, PausedIsNamed
<1>7. \A r \in Derived : repo[r] \in {0, 1} /\ making[r] = 0
  BY DEF Init
<1>8. file.gen = 1 /\ 1 \in Gens
  BY DEF Init, VaultInit, Gens, OnDisk
<1>9. Creating /\ StaleIsNamed /\ Held
  BY <1>3, <1>7, <1>8 DEF Creating, StaleIsNamed, Stale, Held
<1> QED
  BY <1>5, <1>6, <1>9 DEF IInv

LEMMA StaysPut == ASSUME IInv, UNCHANGED vars PROVE IInv'
<1>1. /\ TypeOK /\ VaultTypeOK /\ RotationOK /\ RestOK /\ CountsOK /\ DownOK
      /\ UNCHANGED <<vaultVars, repo, listed, report, up, asked, rot, migration, paused,
                     making, alone, clean, changes, faults>>
  BY TypeIsParts DEF IInv, vars
<1>2. VaultStep /\ file' = file /\ top' = top
  BY <1>1, Stays DEF vaultVars
<1>3. CountsOK' /\ (~up => ~opened') /\ asked' \subseteq Gen
  BY <1>1 DEF CountsOK, DownOK, RestOK, vaultVars
<1> QED
  BY <1>1, <1>2, <1>3, Beside

LEMMA StepKeeps == IInv /\ [Next]_vars => IInv'
<1> SUFFICES ASSUME IInv, [Next]_vars PROVE IInv'
  OBVIOUS
<1>1. CASE Ask \/ Commit \/ CommitUnpruned \/ CommitFails
  BY <1>1, AskKeeps, CommitKeeps, CommitUnprunedKeeps, CommitFailsKeeps
<1>2. CASE ChangeSecret \/ Unlock \/ Lock \/ Crash \/ Start
  BY <1>2, ChangeSecretKeeps, UnlockKeeps, LockKeeps, CrashKeeps, StartKeeps
<1>3. ASSUME NEW g \in Gen, WriteReport(g) \/ Abandon(g) \/ Spawn(g) \/ Told(g)
      PROVE  IInv'
  BY <1>3, WriteReportKeeps, AbandonKeeps, PushKeeps
<1>4. ASSUME NEW g \in Gen, TryOld(g) \/ ChangePassword(g) \/ Verify(g)
      PROVE  IInv'
  BY <1>4, TriesKeep
<1>5. ASSUME NEW g \in Gen, Mark(g) \/ Finish(g) \/ Last(g)
      PROVE  IInv'
  BY <1>5, MarkKeeps, FinishKeeps, LastKeeps
<1>6. ASSUME NEW g \in Gen, NEW r \in Derived, Probe(g, r) PROVE IInv'
  BY <1>6, ProbeKeeps
<1>7. ASSUME NEW r \in Derived, Bind(r) \/ Make(r) \/ Delete(r) PROVE IInv'
  BY <1>7, BindKeeps, MakeKeeps, DeleteKeeps
<1>8. ASSUME NEW i \in DOMAIN backups, Restore(i) PROVE IInv'
  BY <1>8, RestoreKeeps
<1>9. CASE UNCHANGED vars
  BY <1>9, StaysPut
<1> QED
  BY <1>1, <1>2, <1>3, <1>4, <1>5, <1>6, <1>7, <1>8, <1>9 DEF Next

LEMMA InvariantHolds == Spec => []IInv
<1> QED
  BY InitHolds, StepKeeps, PTL DEF Spec

\* Every variable keeps its type; what a rotation has in hand is one of its
\* repositories that is neither done nor still to come; and a daemon that does
\* not run holds nothing.
THEOREM RotationTypeCorrect == Spec => []TypeOK
<1>1. IInv => TypeOK
  BY DEF IInv
<1> QED
  BY <1>1, InvariantHolds, PTL

\* A repository that migrate_one recorded as migrated opens with the password
\* of that rotation or of a later one from then on, however many rotations
\* walk at once.
THEOREM MarkedIsMovedHolds == Spec => []MarkedIsMoved
<1>1. IInv => MarkedIsMoved
  <2> SUFFICES ASSUME IInv, NEW g \in Gen, rot[g] # Idle PROVE \A r \in rot[g].moved : repo[r] >= g
    BY DEF MarkedIsMoved
  <2>1. g \in UnderWay
    BY DEF UnderWay
  <2> QED
    BY <2>1, Rotating DEF Sound
<1> QED
  BY <1>1, InvariantHolds, PTL

\* No password is tried on, or changed of, a repository that the scheduler
\* may still run and the report on disk does not name, whatever pushes a
\* configuration while the walk goes on, unless a second rotation was committed
\* beside the first.
THEOREM MovedUnderCoverHolds == Spec => []MovedUnderCover
<1>1. IInv => MovedUnderCover
  <2> SUFFICES ASSUME IInv, alone, NEW g \in Gen, rot[g] # Idle,
                      rot[g].at \in {"old", "change", "verify"}
               PROVE  rot[g].cur \in report \cap paused
    BY DEF MovedUnderCover
  <2>1. g \in UnderWay
    BY DEF UnderWay
  <2>2. InHand(rot[g]) /\ Covered(g)
    BY <2>1, Rotating
  <2>3. rot[g].cur \in Pending(g)
    BY <2>2 DEF InHand, Pending
  <2> QED
    BY <2>2, <2>3 DEF Covered
<1> QED
  BY <1>1, InvariantHolds, PTL

\* When no rotation is under way and the last one was alone, the scheduler
\* skips nothing but what the daemon holds for unfinished, and that nothing but
\* what the report names.
THEOREM PausedIsNamedHolds == Spec => []PausedIsNamed
<1>1. IInv => PausedIsNamed
  BY DEF IInv
<1> QED
  BY <1>1, InvariantHolds, PTL

\* A repository that is still on an old password is named by the report and,
\* while the daemon runs, suppressed, once the last rotation has written its
\* report, and unless that one lost it, was beside another, or was undone by a
\* restore.
THEOREM LeftBehindIsNamedHolds == Spec => []LeftBehindIsNamed
<1>1. IInv => LeftBehindIsNamed
  <2> SUFFICES ASSUME IInv, clean, \A g \in Gen : ~At(g, "committed")
               PROVE  Unmoved \subseteq report /\ (up => Unmoved \subseteq migration)
    BY DEF LeftBehindIsNamed
  <2>1. Unmoved \subseteq Stale
    BY DEF Unmoved, Stale
  <2>2. CASE UnderWay = {}
    BY <2>1, <2>2 DEF IInv, StaleIsNamed
  <2>3. ASSUME NEW g \in UnderWay PROVE Unmoved \subseteq report \cap migration
    <3>1. Covered(g) /\ Stale \subseteq Pending(g) /\ rot[g].at # "committed"
      BY Rotating DEF UnderWay, At
    <3> QED
      BY <2>1, <3>1 DEF Covered, Pending
  <2> QED
    BY <2>2, <2>3
<1> QED
  BY <1>1, InvariantHolds, PTL

\* The password that a repository really has is given by the vault or by a
\* copy of it, until as many copies as are kept were taken since.
THEOREM OldKeysHeldHolds == Spec => []OldKeysHeld
<1>1. IInv => OldKeysHeld
  <2> SUFFICES ASSUME IInv, NEW r \in Derived, repo[r] # 0, ~(Len(backups) >= Keep)
               PROVE  \E c \in OnDisk : c.gen = repo[r]
    BY DEF OldKeysHeld
  <2>1. repo[r] \in Gens
    BY DEF IInv, Held
  <2> QED
    BY <2>1 DEF Gens
<1> QED
  BY <1>1, InvariantHolds, PTL
=============================================================================
