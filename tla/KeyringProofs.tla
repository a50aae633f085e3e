--------------------------- MODULE KeyringProofs ---------------------------
(***************************************************************************)
(* The passphrases of repositories stay where they are needed, for every   *)
(* set of repositories, number of copies kept and number of failures.      *)
(* The invariant says why: but for a repository whose save failed, memory  *)
(* never holds a passphrase that the file does not, so the one a driver is *)
(* built with is the one on disk.                                          *)
(***************************************************************************)

EXTENDS Keyring, TLAPS

----------------------------------------------------------------------------
(* What the operations of the vault do: each keeps the vault's type, and   *)
(* what is on disk after it was on disk before it, or is the file it       *)
(* wrote.                                                                  *)

LEMMA KeepIsPositive == Keep \in Nat /\ Keep >= 1 /\ MaxGen \in Nat /\ MaxKey \in Nat
  BY BoundsAssumption

\* A prune keeps the newest of what is there, and adds nothing.
LEMMA NewestIsPart ==
  ASSUME NEW s \in Seq(Content)
  PROVE  /\ Newest(s) \in Seq(Content)
         /\ Len(Newest(s)) <= Keep
         /\ \A i \in DOMAIN Newest(s) : \E j \in DOMAIN s : Newest(s)[i] = s[j]
<1> DEFINE m == IF Len(s) > Keep THEN Len(s) - Keep + 1 ELSE 1
<1>1. m \in Nat /\ m >= 1 /\ Len(s) \in Nat /\ m <= Len(s) + 1 /\ Len(s) + 1 - m <= Keep
  BY KeepIsPositive
<1>2. Newest(s) = SubSeq(s, m, Len(s))
  BY DEF Newest
<1> HIDE DEF m
<1>3. /\ SubSeq(s, m, Len(s)) \in Seq(Content)
      /\ Len(SubSeq(s, m, Len(s))) = Len(s) + 1 - m
      /\ \A i \in 1..(Len(s) + 1 - m) : SubSeq(s, m, Len(s))[i] = s[i + m - 1]
  BY <1>1
<1>4. ASSUME NEW i \in DOMAIN Newest(s)
      PROVE  \E j \in DOMAIN s : Newest(s)[i] = s[j]
  <2>1. i \in 1..(Len(s) + 1 - m)
    BY <1>2, <1>3, <1>1
  <2>2. i + m - 1 \in DOMAIN s
    BY <2>1, <1>1
  <2> QED
    BY <2>1, <2>2, <1>2, <1>3
<1> QED
  BY <1>1, <1>2, <1>3, <1>4

LEMMA CopiedIsPart ==
  ASSUME VaultTypeOK
  PROVE  /\ Copied \in Seq(Content)
         /\ Len(Copied) = Len(backups) + 1
         /\ \A i \in DOMAIN Copied : Copied[i] \in OnDisk
<1>1. backups \in Seq(Content) /\ file \in Content
  BY DEF VaultTypeOK
<1>2. /\ Copied \in Seq(Content)
      /\ Len(Copied) = Len(backups) + 1
      /\ \A i \in 1..(Len(backups) + 1) :
           Copied[i] = IF i <= Len(backups) THEN backups[i] ELSE file
  BY <1>1 DEF Copied
<1>3. ASSUME NEW i \in DOMAIN Copied PROVE Copied[i] \in OnDisk
  <2>1. i \in 1..(Len(backups) + 1)
    BY <1>2
  <2>2. CASE i <= Len(backups)
    <3>1. i \in DOMAIN backups
      BY <2>1, <2>2, <1>1
    <3> QED
      BY <3>1, <2>1, <2>2, <1>2 DEF OnDisk
  <2>3. CASE ~(i <= Len(backups))
    BY <2>1, <2>3, <1>2 DEF OnDisk
  <2> QED
    BY <2>2, <2>3
<1> QED
  BY <1>2, <1>3

\* The copies there can be after a step: those there were, one more, or the
\* newest of these.
LEMMA CopiesArePart ==
  ASSUME VaultTypeOK,
         \/ backups' = backups
         \/ backups' \in Unpruned
         \/ RoomToSpare /\ backups' = Copied
         \/ backups' = Newest(Copied)
  PROVE  /\ backups' \in Seq(Content)
         /\ Len(backups') <= Keep + 1
         /\ \A i \in DOMAIN backups' : backups'[i] \in OnDisk
<1>1. backups \in Seq(Content) /\ Len(backups) <= Keep + 1 /\ Len(backups) \in Nat
  BY DEF VaultTypeOK
<1>2. CASE backups' = backups
  BY <1>1, <1>2 DEF OnDisk
<1>3. CASE RoomToSpare /\ backups' = Copied
  BY <1>1, <1>3, CopiedIsPart, KeepIsPositive DEF RoomToSpare
<1>4. CASE backups' \in Unpruned
  BY <1>3, <1>4 DEF Unpruned
<1>5. CASE backups' = Newest(Copied)
  <2>1. /\ Newest(Copied) \in Seq(Content)
        /\ Len(Newest(Copied)) <= Keep
        /\ \A i \in DOMAIN Newest(Copied) : \E j \in DOMAIN Copied : Newest(Copied)[i] = Copied[j]
    BY CopiedIsPart, NewestIsPart
  <2> QED
    BY <2>1, <1>5, CopiedIsPart, KeepIsPositive
<1> QED
  BY <1>2, <1>3, <1>4, <1>5

LEMMA DiskIsPart ==
  ASSUME \A i \in DOMAIN backups' : backups'[i] \in OnDisk
  PROVE  OnDisk' \subseteq OnDisk \cup {file'}
  BY DEF OnDisk

LEMMA ContentFacts ==
  /\ \A c \in Content : c.gen \in Gen /\ c.keys \in KeyMap
  /\ \A c \in Content, now \in KeyMap :
        /\ [c EXCEPT !.keys = now] \in Content
        /\ [c EXCEPT !.keys = now].keys = now
        /\ [c EXCEPT !.keys = now].gen = c.gen
  /\ \A g \in Gen, now \in KeyMap : [gen |-> g, keys |-> now] \in Content
  BY DEF Content

LEMMA DiskIsContent == ASSUME VaultTypeOK PROVE OnDisk \subseteq Content
  BY DEF VaultTypeOK, OnDisk

LEMMA Saves ==
  ASSUME VaultTypeOK, NEW now \in KeyMap, SaveWorks(now) \/ SaveStumbles(now),
         minted' \in KeyMap, UNCHANGED <<top, opened>>
  PROVE  /\ VaultTypeOK'
         /\ file' = [file EXCEPT !.keys = now]
         /\ keys' = now /\ dirty' = FALSE
         /\ OnDisk' \subseteq OnDisk \cup {file'}
<1>1. /\ file' = [file EXCEPT !.keys = now] /\ keys' = now /\ dirty' = FALSE
      /\ \/ backups' = backups
         \/ backups' \in Unpruned
         \/ RoomToSpare /\ backups' = Copied
         \/ backups' = Newest(Copied)
  BY DEF SaveWorks, SaveStumbles, Saved
<1>2. /\ backups' \in Seq(Content) /\ Len(backups') <= Keep + 1
      /\ \A i \in DOMAIN backups' : backups'[i] \in OnDisk
  BY <1>1, CopiesArePart
<1>3. file' \in Content
  BY <1>1, ContentFacts DEF VaultTypeOK
<1> QED
  BY <1>1, <1>2, <1>3, DiskIsPart DEF VaultTypeOK

LEMMA SaveFailing ==
  ASSUME VaultTypeOK, NEW now \in KeyMap, SaveFails(now),
         minted' \in KeyMap, UNCHANGED <<top, opened>>
  PROVE  /\ VaultTypeOK'
         /\ file' = file /\ keys' = now /\ dirty' = TRUE
         /\ OnDisk' \subseteq OnDisk \cup {file'}
<1>1. /\ file' = file /\ keys' = now /\ dirty' = TRUE
      /\ backups' = backups \/ backups' = Newest(Copied)
  BY DEF SaveFails
<1>2. /\ backups' \in Seq(Content) /\ Len(backups') <= Keep + 1
      /\ \A i \in DOMAIN backups' : backups'[i] \in OnDisk
  BY <1>1, CopiesArePart
<1> QED
  BY <1>1, <1>2, DiskIsPart DEF VaultTypeOK

LEMMA Rotates ==
  ASSUME VaultTypeOK,
         \/ Rotated(Newest(Copied))
         \/ RoomToSpare /\ Rotated(Copied)
  PROVE  /\ VaultTypeOK'
         /\ file' = [gen |-> top + 1, keys |-> keys]
         /\ top' = top + 1 /\ top + 1 \in Gen
         /\ dirty' = FALSE /\ UNCHANGED <<minted, opened, keys>>
         /\ OnDisk' \subseteq OnDisk \cup {file'}
<1>1. /\ file' = [gen |-> top + 1, keys |-> keys]
      /\ top < MaxGen /\ top' = top + 1
      /\ dirty' = FALSE /\ UNCHANGED <<minted, opened, keys>>
      /\ \/ RoomToSpare /\ backups' = Copied
         \/ backups' = Newest(Copied)
  BY DEF Rotated
<1>2. /\ backups' \in Seq(Content) /\ Len(backups') <= Keep + 1
      /\ \A i \in DOMAIN backups' : backups'[i] \in OnDisk
  BY <1>1, CopiesArePart
<1>3. top + 1 \in Gen
  BY <1>1, KeepIsPositive DEF VaultTypeOK, Gen
<1>4. file' \in Content
  BY <1>1, <1>3, ContentFacts DEF VaultTypeOK
<1> QED
  BY <1>1, <1>2, <1>3, <1>4, DiskIsPart DEF VaultTypeOK

LEMMA DoesNotRotate ==
  ASSUME VaultTypeOK, NotRotated
  PROVE  /\ VaultTypeOK'
         /\ UNCHANGED <<file, top, minted, opened, keys, dirty>>
         /\ OnDisk' \subseteq OnDisk
<1>1. /\ UNCHANGED <<file, top, minted, opened, keys, dirty>>
      /\ backups' = backups \/ backups' \in Unpruned
  BY DEF NotRotated
<1>2. /\ backups' \in Seq(Content) /\ Len(backups') <= Keep + 1
      /\ \A i \in DOMAIN backups' : backups'[i] \in OnDisk
  BY <1>1, CopiesArePart
<1>3. OnDisk' \subseteq OnDisk
  BY <1>1, <1>2, DiskIsPart DEF OnDisk
<1> QED
  BY <1>1, <1>2, <1>3 DEF VaultTypeOK

LEMMA Shuts ==
  ASSUME VaultTypeOK, Shut
  PROVE  /\ VaultTypeOK'
         /\ opened' = FALSE /\ dirty' = FALSE /\ keys' = file.keys
         /\ UNCHANGED <<file, backups, top, minted>>
         /\ OnDisk' = OnDisk
  BY ContentFacts DEF VaultTypeOK, Shut, OnDisk

LEMMA Opens ==
  ASSUME VaultTypeOK, Opened
  PROVE  /\ VaultTypeOK'
         /\ ~opened /\ opened' = TRUE
         /\ UNCHANGED <<file, backups, top, minted, keys, dirty>>
         /\ OnDisk' = OnDisk
  BY DEF VaultTypeOK, Opened, OnDisk

LEMMA Replaces ==
  ASSUME VaultTypeOK, NEW i \in DOMAIN backups, Replaced(backups[i])
  PROVE  /\ VaultTypeOK'
         /\ file' = backups[i] /\ file' \in Content
         /\ opened' = FALSE /\ dirty' = FALSE /\ keys' = file'.keys
         /\ UNCHANGED <<top, minted>>
         /\ OnDisk' \subseteq OnDisk
<1>1. /\ file' = backups[i] /\ keys' = backups[i].keys
      /\ opened' = FALSE /\ dirty' = FALSE
      /\ UNCHANGED <<top, minted>>
      /\ backups' = Newest(Copied)
  BY DEF Replaced
<1>2. backups[i] \in Content /\ backups[i] \in OnDisk
  BY DEF VaultTypeOK, OnDisk
<1>3. /\ backups' \in Seq(Content) /\ Len(backups') <= Keep + 1
      /\ \A j \in DOMAIN backups' : backups'[j] \in OnDisk
  BY <1>1, CopiesArePart
<1>4. OnDisk' \subseteq OnDisk
  BY <1>1, <1>2, <1>3, DiskIsPart
<1> QED
  BY <1>1, <1>2, <1>3, <1>4, ContentFacts DEF VaultTypeOK

\* A file of which a copy is taken stays on disk, and so does everything
\* else, until the prune has as many copies as are kept.
LEMMA CopiedStays ==
  ASSUME VaultTypeOK
  PROVE  /\ backups' = Copied => OnDisk \subseteq OnDisk'
         /\ backups' = Newest(Copied) => OnDisk \subseteq OnDisk' \/ Len(backups') >= Keep
         /\ Len(backups) >= Keep =>
              /\ backups' = Copied => Len(backups') >= Keep
              /\ backups' = Newest(Copied) => Len(backups') >= Keep
<1>1. backups \in Seq(Content) /\ file \in Content /\ Len(backups) \in Nat
  BY DEF VaultTypeOK
<1>2. /\ Copied \in Seq(Content)
      /\ Len(Copied) = Len(backups) + 1
      /\ \A i \in 1..Len(backups) : Copied[i] = backups[i]
      /\ Copied[Len(backups) + 1] = file
  BY <1>1 DEF Copied
<1>3. ASSUME backups' = Copied PROVE OnDisk \subseteq OnDisk'
  <2>1. ASSUME NEW i \in DOMAIN backups PROVE backups[i] \in OnDisk'
    <3>1. i \in DOMAIN Copied /\ Copied[i] = backups[i]
      BY <1>1, <1>2
    <3> QED
      BY <3>1, <1>3 DEF OnDisk
  <2>2. file \in OnDisk'
    <3>1. Len(backups) + 1 \in DOMAIN Copied
      BY <1>1, <1>2
    <3> QED
      BY <3>1, <1>2, <1>3 DEF OnDisk
  <2> QED
    BY <2>1, <2>2 DEF OnDisk
<1>4. Len(Copied) > Keep => Len(Newest(Copied)) = Keep
  BY <1>2, KeepIsPositive DEF Newest
<1>5. ~(Len(Copied) > Keep) => Newest(Copied) = Copied
  BY <1>2, KeepIsPositive DEF Newest
<1> QED
  BY <1>1, <1>2, <1>3, <1>4, <1>5, KeepIsPositive

----------------------------------------------------------------------------
(* The invariant.                                                          *)

\* But for what failed to be saved, memory holds what the file holds.
MemoryIsFile ==
    \A r \in Generated \ unsaved :
       /\ keys[r] = file.keys[r]
       /\ making[r] # 0 => making[r] = file.keys[r]

\* Nothing is asked for while the daemon is down.
DownIsQuiet == ~up => ready = {} /\ \A r \in Generated : making[r] = 0

IInv == TypeOK /\ MemoryIsFile /\ DownIsQuiet /\ KeyStays /\ KeyIsSomewhere

----------------------------------------------------------------------------
(* What a step keeps when the vault's lemmas say what it did.              *)

\* No passphrase on disk or in hand is one that nobody generated.
Known ==
    \A r \in Generated :
       {repo[r], making[r], keys[r]} \cup {c.keys[r] : c \in OnDisk} \subseteq 0..minted[r]

\* A step that adds nothing but the file to what is on disk keeps Known.
LEMMA KnownStays ==
  ASSUME Known, minted \in KeyMap, minted' \in KeyMap,
         \A r \in Generated : minted[r] <= minted'[r],
         OnDisk' \subseteq OnDisk \cup {file'},
         \A r \in Generated :
            {repo'[r], making'[r], keys'[r], file'.keys[r]} \subseteq 0..minted'[r]
  PROVE  Known'
<1> SUFFICES ASSUME NEW r \in Generated
             PROVE  {repo'[r], making'[r], keys'[r]} \cup {c.keys[r] : c \in OnDisk'}
                       \subseteq 0..minted'[r]
  BY DEF Known
<1>1. minted[r] \in Nat /\ minted'[r] \in Nat /\ minted[r] <= minted'[r]
  BY KeepIsPositive DEF KeyMap
<1>2. ASSUME NEW c \in OnDisk' PROVE c.keys[r] \in 0..minted'[r]
  <2>1. CASE c \in OnDisk
    <3>1. c.keys[r] \in 0..minted[r]
      BY <2>1 DEF Known
    <3> QED
      BY <3>1, <1>1
  <2>2. CASE c = file'
    BY <2>2
  <2> QED
    BY <2>1, <2>2
<1> QED
  BY <1>2

LEMMA TypeIsParts ==
  TypeOK <=>
    /\ VaultTypeOK /\ Known
    /\ repo \in KeyMap /\ making \in KeyMap
    /\ up \in BOOLEAN /\ restored \in BOOLEAN
    /\ ready \subseteq Generated /\ unsaved \subseteq Generated
    /\ changes \in 0..MaxChanges /\ faults \in 0..MaxFaults
    /\ ~opened => keys = file.keys /\ ~dirty
    /\ ~up => ~opened
  BY DEF TypeOK, Known

LEMMA Counting ==
  /\ faults \in 0..MaxFaults /\ Fault => faults' \in 0..MaxFaults
  /\ changes \in 0..MaxChanges /\ changes < MaxChanges /\ changes' = changes + 1
       => changes' \in 0..MaxChanges
  BY CountAssumption DEF Fault

\* Every set a passphrase is looked for in still has it, or the copies are
\* as many as are kept.
LEMMA SomewhereStays ==
  ASSUME KeyIsSomewhere,
         OnDisk \subseteq OnDisk' \/ Len(backups') >= Keep,
         Len(backups) >= Keep => Len(backups') >= Keep,
         unsaved \subseteq unsaved', repo' = repo
  PROVE  KeyIsSomewhere'
  BY DEF KeyIsSomewhere

----------------------------------------------------------------------------
(* repo.create.                                                            *)

LEMMA EnsureKeeps ==
  ASSUME IInv, NEW r \in Generated, Ensure(r)
  PROVE  IInv'
<1> USE DEF Ensure, Asking, vaultVars
<1>1. TypeOK'
  BY DEF IInv, TypeOK, VaultTypeOK, OnDisk
<1>2. MemoryIsFile' /\ KeyStays' /\ KeyIsSomewhere'
  BY DEF IInv, MemoryIsFile, KeyStays, KeyIsSomewhere, OnDisk
<1>3. DownIsQuiet'
  BY DEF IInv, DownIsQuiet
<1> QED
  BY <1>1, <1>2, <1>3 DEF IInv

\* The passphrase is new, and a repository that exists has one in memory.
LEMMA EnsureNewKeeps ==
  ASSUME IInv, NEW r \in Generated, EnsureNew(r)
  PROVE  IInv'
<1> DEFINE new == minted[r] + 1
           now == [keys EXCEPT ![r] = new]
<1>1. /\ up /\ opened /\ r \notin ready /\ making[r] = 0 /\ keys[r] = 0
      /\ minted[r] < MaxKey
      /\ minted' = [minted EXCEPT ![r] = new]
      /\ UNCHANGED <<top, opened, repo, up, making, restored, changes>>
  BY DEF EnsureNew, Asking
<1>2. /\ TypeOK /\ VaultTypeOK /\ Known
      /\ repo \in KeyMap /\ making \in KeyMap /\ keys \in KeyMap /\ minted \in KeyMap
      /\ MemoryIsFile /\ KeyStays /\ KeyIsSomewhere /\ DownIsQuiet
  BY TypeIsParts DEF IInv, VaultTypeOK
<1>3. new \in 1..MaxKey /\ now \in KeyMap /\ minted' \in KeyMap
  BY <1>1, <1>2, KeepIsPositive DEF KeyMap
<1>4. /\ now[r] = new
      /\ \A q \in Generated \ {r} : now[q] = keys[q]
  BY <1>2 DEF KeyMap
<1>5. /\ minted'[r] = new /\ minted[r] <= minted'[r]
      /\ \A q \in Generated \ {r} : minted'[q] = minted[q]
      /\ \A q \in Generated : minted[q] \in Nat /\ minted[q] <= minted'[q]
  BY <1>1, <1>2, KeepIsPositive DEF KeyMap
<1>6. \A q \in Generated : {repo[q], making[q], now[q]} \subseteq 0..minted'[q]
  <2> SUFFICES ASSUME NEW q \in Generated
               PROVE  {repo[q], making[q], now[q]} \subseteq 0..minted'[q]
    OBVIOUS
  <2>1. {repo[q], making[q], keys[q]} \subseteq 0..minted[q]
    BY <1>2 DEF Known
  <2> QED
    BY <2>1, <1>3, <1>4, <1>5
<1>7. file \in Content /\ file \in OnDisk /\ file.keys \in KeyMap
  BY <1>2, ContentFacts DEF VaultTypeOK, OnDisk
<1> HIDE DEF new, now
<1>8. CASE /\ SaveWorks(now) \/ SaveStumbles(now)
           /\ faults' \in 0..MaxFaults
           /\ ready' = ready \cup {r} /\ unsaved' = unsaved
  <2>1. /\ VaultTypeOK'
        /\ file' = [file EXCEPT !.keys = now]
        /\ keys' = now /\ dirty' = FALSE
        /\ OnDisk' \subseteq OnDisk \cup {file'}
    BY <1>1, <1>2, <1>3, <1>8, Saves
  <2>2. file'.keys = now
    BY <2>1, <1>3, <1>7, ContentFacts
  <2>3. Known'
    BY <2>1, <2>2, <1>1, <1>2, <1>3, <1>5, <1>6, KnownStays
  <2>4. TypeOK'
    BY <2>1, <2>2, <2>3, <1>1, <1>2, <1>8 DEF TypeOK, Known
  <2>5. ASSUME NEW q \in Generated \ unsaved
        PROVE  /\ repo[q] # 0 => repo[q] = file.keys[q] \/ restored
               /\ making[q] # 0 => making[q] = file.keys[q]
               /\ keys[q] = file.keys[q]
    BY <1>2 DEF MemoryIsFile, KeyStays
  <2>6. MemoryIsFile'
    BY <2>1, <2>2, <2>5, <1>1, <1>4, <1>8 DEF MemoryIsFile
  <2>7. KeyStays'
    BY <2>2, <2>5, <1>1, <1>4, <1>8 DEF KeyStays
  <2>8. DownIsQuiet'
    BY <1>1 DEF DownIsQuiet
  <2>9. ASSUME NEW q \in Generated \ unsaved, repo[q] # 0
        PROVE  (\E c \in OnDisk' : c.keys[q] = repo[q]) \/ Len(backups') >= Keep
    <3>1. CASE SaveWorks(now)
      <4>1. backups' = Newest(Copied)
        BY <3>1 DEF SaveWorks, Saved
      <4> QED
        BY <4>1, <2>9, <1>2, CopiedStays DEF KeyIsSomewhere
    <3>2. CASE SaveStumbles(now)
      <4>1. backups' = backups \/ backups' \in Unpruned
        BY <3>2 DEF SaveStumbles, Saved
      <4>2. CASE backups' \in Unpruned
        <5>1. backups' = Copied
          BY <4>2 DEF Unpruned
        <5> QED
          BY <5>1, <2>9, <1>2, CopiedStays DEF KeyIsSomewhere
      <4>3. CASE backups' = backups
        <5>1. CASE file.keys[q] = repo[q]
          <6>1. q # r
            BY <5>1, <2>5, <2>9, <1>1
          <6>2. file' \in OnDisk' /\ file'.keys[q] = repo[q]
            BY <6>1, <5>1, <2>2, <2>5, <2>9, <1>4 DEF OnDisk
          <6> QED
            BY <6>2
        <5>2. CASE file.keys[q] # repo[q]
          BY <5>2, <4>3, <2>9, <1>2 DEF KeyIsSomewhere, OnDisk
        <5> QED
          BY <5>1, <5>2
      <4> QED
        BY <4>1, <4>2, <4>3
    <3> QED
      BY <3>1, <3>2, <1>8
  <2>10. KeyIsSomewhere'
    BY <2>9, <1>1, <1>8 DEF KeyIsSomewhere
  <2> QED
    BY <2>4, <2>6, <2>7, <2>8, <2>10 DEF IInv
<1>9. CASE /\ SaveFails(now) /\ faults' \in 0..MaxFaults
           /\ ready' = ready /\ unsaved' = unsaved \cup {r}
  <2>1. /\ VaultTypeOK'
        /\ file' = file /\ keys' = now
        /\ OnDisk' \subseteq OnDisk \cup {file'}
    BY <1>1, <1>2, <1>3, <1>9, SaveFailing
  <2>2. ASSUME NEW q \in Generated PROVE file.keys[q] \in 0..minted'[q]
    <3>1. file.keys[q] \in 0..minted[q]
      BY <1>2, <1>7 DEF Known
    <3>2. minted[q] \in Nat /\ minted'[q] \in Nat /\ minted[q] <= minted'[q]
      BY <1>3, <1>5, KeepIsPositive DEF KeyMap
    <3> QED
      BY <3>1, <3>2
  <2>3. Known'
    BY <2>1, <2>2, <1>1, <1>2, <1>3, <1>5, <1>6, KnownStays
  <2>4. TypeOK'
    BY <2>1, <2>3, <1>1, <1>2, <1>9 DEF TypeOK, Known
  <2>5. MemoryIsFile' /\ KeyStays'
    BY <2>1, <1>1, <1>2, <1>4, <1>9 DEF MemoryIsFile, KeyStays
  <2>6. DownIsQuiet'
    BY <1>1 DEF DownIsQuiet
  <2>7. /\ OnDisk \subseteq OnDisk' \/ Len(backups') >= Keep
        /\ Len(backups) >= Keep => Len(backups') >= Keep
    <3>1. backups' = backups \/ backups' = Newest(Copied)
      BY <1>9 DEF SaveFails
    <3> QED
      BY <3>1, <2>1, <1>2, CopiedStays DEF OnDisk
  <2>8. KeyIsSomewhere'
    BY <2>7, <1>1, <1>2, <1>9, SomewhereStays
  <2> QED
    BY <2>4, <2>5, <2>6, <2>8 DEF IInv
<1>10. \/ SaveWorks(now) /\ ready' = ready \cup {r} /\ UNCHANGED <<unsaved, faults>>
       \/ SaveStumbles(now) /\ Fault /\ ready' = ready \cup {r} /\ UNCHANGED unsaved
       \/ SaveFails(now) /\ Fault /\ UNCHANGED ready /\ unsaved' = unsaved \cup {r}
  BY DEF EnsureNew, now, new
<1>11. faults \in 0..MaxFaults
  BY <1>2 DEF TypeOK
<1> QED
  BY <1>8, <1>9, <1>10, <1>11, Counting

\* kopia may have made the repository, with the passphrase of its driver.
LEMMA MadeKeeps ==
  ASSUME IInv, UNCHANGED <<file, backups, top, minted, unsaved, restored>>,
         VaultTypeOK', OnDisk' = OnDisk,
         keys' \in {keys, file.keys},
         \A r \in Generated : making'[r] \in {0, making[r]},
         \A r \in Generated : repo'[r] \in {repo[r], making[r]},
         repo' \in KeyMap, making' \in KeyMap
  PROVE  Known' /\ MemoryIsFile' /\ KeyStays' /\ KeyIsSomewhere'
<1>1. /\ TypeOK /\ VaultTypeOK /\ Known /\ minted \in KeyMap
      /\ MemoryIsFile /\ KeyStays /\ KeyIsSomewhere
  BY TypeIsParts DEF IInv, VaultTypeOK
<1>2. file \in OnDisk /\ file' = file
  BY DEF OnDisk
<1>3. Known'
  <2>1. ASSUME NEW r \in Generated
        PROVE  {repo'[r], making'[r], keys'[r], file'.keys[r]} \subseteq 0..minted'[r]
    <3>1. {repo[r], making[r], keys[r], file.keys[r]} \subseteq 0..minted[r]
      BY <1>1, <1>2 DEF Known
    <3>2. minted[r] \in Nat
      BY <1>1, KeepIsPositive DEF KeyMap
    <3> QED
      BY <3>1, <3>2, <1>2
  <2>2. \A r \in Generated : minted[r] <= minted'[r]
    BY <1>1, KeepIsPositive DEF KeyMap
  <2> QED
    BY <2>1, <2>2, <1>1, KnownStays
<1>4. ASSUME NEW r \in Generated \ unsaved
      PROVE  /\ keys[r] = file.keys[r]
             /\ making[r] # 0 => making[r] = file.keys[r]
             /\ repo[r] # 0 => repo[r] = file.keys[r] \/ restored
             /\ repo[r] # 0 => (\E c \in OnDisk : c.keys[r] = repo[r]) \/ Len(backups) >= Keep
  BY <1>1 DEF MemoryIsFile, KeyStays, KeyIsSomewhere
<1>5. MemoryIsFile'
  BY <1>2, <1>4 DEF MemoryIsFile
<1>6. KeyStays'
  BY <1>2, <1>4 DEF KeyStays
<1>7. KeyIsSomewhere'
  <2> SUFFICES ASSUME NEW r \in Generated \ unsaved, repo'[r] # 0
               PROVE  (\E c \in OnDisk : c.keys[r] = repo'[r]) \/ Len(backups) >= Keep
    BY DEF KeyIsSomewhere
  <2>1. CASE repo'[r] = repo[r]
    BY <2>1, <1>4
  <2>2. CASE repo'[r] = making[r]
    BY <2>2, <1>2, <1>4
  <2> QED
    BY <2>1, <2>2
<1> QED
  BY <1>3, <1>5, <1>6, <1>7

LEMMA BindKeeps ==
  ASSUME IInv, NEW r \in Generated, Bind(r)
  PROVE  IInv'
<1>1. /\ r \in ready /\ ready' = ready \ {r}
      /\ making' = [making EXCEPT ![r] = IF opened THEN keys[r] ELSE 0]
      /\ UNCHANGED <<file, backups, top, minted, opened, keys, dirty>>
      /\ UNCHANGED <<repo, up, unsaved, restored, changes, faults>>
  BY DEF Bind, vaultVars
<1>2. /\ TypeOK /\ MemoryIsFile /\ KeyStays /\ KeyIsSomewhere /\ DownIsQuiet
      /\ keys \in KeyMap /\ making \in KeyMap
  BY DEF IInv, TypeOK, VaultTypeOK
<1>3. making' \in KeyMap
  BY <1>1, <1>2, KeepIsPositive DEF KeyMap
<1>4. /\ making'[r] \in {0, keys[r]}
      /\ \A q \in Generated \ {r} : making'[q] = making[q]
  BY <1>1, <1>2 DEF KeyMap
<1>5. OnDisk' = OnDisk
  BY <1>1 DEF OnDisk
<1>6. Known'
  <2> SUFFICES ASSUME NEW q \in Generated
               PROVE  {repo[q], making'[q], keys[q]} \cup {c.keys[q] : c \in OnDisk} \subseteq 0..minted[q]
    BY <1>1, <1>5 DEF Known
  <2>1. {repo[q], making[q], keys[q]} \cup {c.keys[q] : c \in OnDisk} \subseteq 0..minted[q]
    BY <1>2 DEF TypeOK
  <2>2. minted[q] \in Nat
    BY <1>2, KeepIsPositive DEF TypeOK, VaultTypeOK, KeyMap
  <2> QED
    BY <2>1, <2>2, <1>4
<1>7. TypeOK'
  BY <1>1, <1>2, <1>3, <1>6 DEF TypeOK, VaultTypeOK, Known
<1>8. MemoryIsFile' /\ KeyStays'
  BY <1>1, <1>2, <1>4 DEF MemoryIsFile, KeyStays
<1>9. KeyIsSomewhere'
  BY <1>1, <1>2, <1>5 DEF KeyIsSomewhere
<1>10. DownIsQuiet'
  BY <1>1, <1>2 DEF DownIsQuiet
<1> QED
  BY <1>7, <1>8, <1>9, <1>10 DEF IInv

LEMMA MakeKeeps ==
  ASSUME IInv, NEW r \in Generated, Make(r)
  PROVE  IInv'
<1>1. /\ making[r] # 0 /\ making' = [making EXCEPT ![r] = 0]
      /\ repo' \in {repo, [repo EXCEPT ![r] = IF @ = 0 THEN making[r] ELSE @]}
      /\ UNCHANGED <<file, backups, top, minted, opened, keys, dirty>>
      /\ UNCHANGED <<up, ready, unsaved, restored, changes, faults>>
  BY DEF Make, vaultVars
<1>2. TypeOK /\ DownIsQuiet /\ making \in KeyMap /\ repo \in KeyMap
  BY DEF IInv, TypeOK
<1>3. making' \in KeyMap /\ repo' \in KeyMap
  BY <1>1, <1>2, KeepIsPositive DEF KeyMap
<1>4. /\ \A q \in Generated : making'[q] \in {0, making[q]}
      /\ \A q \in Generated : repo'[q] \in {repo[q], making[q]}
  BY <1>1, <1>2 DEF KeyMap
<1>5. VaultTypeOK' /\ OnDisk' = OnDisk
  BY <1>1, <1>2 DEF TypeOK, VaultTypeOK, OnDisk
<1>6. Known' /\ MemoryIsFile' /\ KeyStays' /\ KeyIsSomewhere'
  BY <1>1, <1>3, <1>4, <1>5, MadeKeeps
<1>7. TypeOK'
  BY <1>1, <1>2, <1>3, <1>5, <1>6 DEF TypeOK, Known
<1>8. DownIsQuiet'
  BY <1>1, <1>2, <1>4 DEF DownIsQuiet
<1> QED
  BY <1>6, <1>7, <1>8 DEF IInv

----------------------------------------------------------------------------
(* Everything else.  The file takes over what memory has, which is the     *)
(* same for every repository that counts.                                  *)

LEMMA WrittenKeeps ==
  ASSUME IInv, VaultTypeOK', OnDisk' \subseteq OnDisk \cup {file'},
         UNCHANGED <<repo, making, up, ready, minted, opened, unsaved, restored>>,
         file'.keys \in {keys, file.keys}, keys' = keys,
         up = TRUE, opened = TRUE \/ (keys' = file'.keys /\ dirty' = FALSE),
         changes' \in 0..MaxChanges, faults' \in 0..MaxFaults,
         \/ \A c \in OnDisk : c = file \/ c \in OnDisk'
         \/ Len(backups') >= Keep,
         Len(backups) >= Keep => Len(backups') >= Keep
  PROVE  IInv'
<1>1. /\ TypeOK /\ VaultTypeOK /\ Known /\ minted \in KeyMap
      /\ MemoryIsFile /\ KeyStays /\ KeyIsSomewhere /\ DownIsQuiet
  BY TypeIsParts DEF IInv, VaultTypeOK
<1>2. file \in OnDisk /\ file' \in OnDisk'
  BY DEF OnDisk
<1>3. Known'
  <2>1. ASSUME NEW r \in Generated
        PROVE  {repo[r], making[r], keys[r], file'.keys[r]} \subseteq 0..minted[r]
    BY <1>1, <1>2 DEF Known
  <2>2. \A r \in Generated : minted[r] <= minted'[r]
    BY <1>1, KeepIsPositive DEF KeyMap
  <2> QED
    BY <2>1, <2>2, <1>1, KnownStays
<1>4. TypeOK'
  BY <1>1, <1>3 DEF TypeOK, Known
<1>5. ASSUME NEW r \in Generated \ unsaved
      PROVE  keys[r] = file.keys[r] /\ file'.keys[r] = file.keys[r]
  BY <1>1 DEF MemoryIsFile
<1>6. MemoryIsFile' /\ KeyStays'
  BY <1>1, <1>5 DEF MemoryIsFile, KeyStays
<1>7. KeyIsSomewhere'
  <2> SUFFICES ASSUME NEW r \in Generated \ unsaved, repo[r] # 0, ~(Len(backups') >= Keep)
               PROVE  \E c \in OnDisk' : c.keys[r] = repo[r]
    BY DEF KeyIsSomewhere
  <2>1. PICK c \in OnDisk : c.keys[r] = repo[r]
    BY <1>1 DEF KeyIsSomewhere
  <2> QED
    BY <2>1, <1>2, <1>5
<1>8. DownIsQuiet'
  BY <1>1 DEF DownIsQuiet
<1> QED
  BY <1>4, <1>6, <1>7, <1>8 DEF IInv

LEMMA ChangeSecretKeeps ==
  ASSUME IInv, ChangeSecret
  PROVE  IInv'
<1>1. /\ up /\ opened
      /\ changes < MaxChanges /\ changes' = changes + 1
      /\ UNCHANGED <<top, minted, opened, repo, up, ready, making, unsaved, restored>>
  BY DEF ChangeSecret
<1>2. /\ VaultTypeOK /\ keys \in KeyMap /\ minted' \in KeyMap
      /\ faults \in 0..MaxFaults /\ changes \in 0..MaxChanges
  BY <1>1 DEF IInv, TypeOK, VaultTypeOK
<1>3. changes' \in 0..MaxChanges
  BY <1>1, <1>2, Counting
<1>4. \/ SaveWorks(keys) /\ UNCHANGED faults
      \/ (SaveStumbles(keys) \/ SaveFails(keys)) /\ Fault
  BY DEF ChangeSecret
<1>5. faults' \in 0..MaxFaults
  BY <1>2, <1>4, Counting
<1>6. CASE SaveWorks(keys) \/ SaveStumbles(keys)
  <2>1. /\ VaultTypeOK' /\ OnDisk' \subseteq OnDisk \cup {file'}
        /\ file' = [file EXCEPT !.keys = keys] /\ keys' = keys
    BY <1>1, <1>2, <1>6, Saves
  <2>2. file'.keys = keys
    BY <2>1, <1>2, ContentFacts DEF VaultTypeOK
  <2>3. backups' = backups \/ backups' = Copied \/ backups' = Newest(Copied)
    BY <1>6 DEF SaveWorks, SaveStumbles, Saved, Unpruned
  <2>4. /\ \/ \A c \in OnDisk : c = file \/ c \in OnDisk'
           \/ Len(backups') >= Keep
        /\ Len(backups) >= Keep => Len(backups') >= Keep
    <3>1. CASE backups' = backups
      BY <3>1 DEF OnDisk
    <3>2. CASE backups' # backups
      BY <3>2, <2>3, <1>2, CopiedStays
    <3> QED
      BY <3>1, <3>2
  <2>5. /\ file'.keys \in {keys, file.keys}
        /\ opened = TRUE \/ (keys' = file'.keys /\ dirty' = FALSE)
    BY <2>2, <1>1
  <2>6. UNCHANGED <<repo, making, up, ready, minted, opened, unsaved, restored>>
    BY <1>1
  <2>7. keys' = keys /\ up = TRUE
    BY <1>1, <2>1
  <2>8. VaultTypeOK' /\ OnDisk' \subseteq OnDisk \cup {file'}
    BY <2>1
  <2> QED
    BY <2>4, <2>5, <2>6, <2>7, <2>8, <1>3, <1>5, WrittenKeeps
<1>7. CASE SaveFails(keys)
  <2>1. /\ VaultTypeOK' /\ OnDisk' \subseteq OnDisk \cup {file'}
        /\ file' = file /\ keys' = keys
    BY <1>1, <1>2, <1>7, SaveFailing
  <2>2. backups' = backups \/ backups' = Newest(Copied)
    BY <1>7 DEF SaveFails
  <2>3. /\ OnDisk \subseteq OnDisk' \/ Len(backups') >= Keep
        /\ Len(backups) >= Keep => Len(backups') >= Keep
    BY <2>1, <2>2, <1>2, CopiedStays DEF OnDisk
  <2>4. /\ file'.keys \in {keys, file.keys}
        /\ opened = TRUE \/ (keys' = file'.keys /\ dirty' = FALSE)
    BY <2>1, <1>1
  <2>5. \/ \A c \in OnDisk : c = file \/ c \in OnDisk'
        \/ Len(backups') >= Keep
    BY <2>3
  <2>6. UNCHANGED <<repo, making, up, ready, minted, opened, unsaved, restored>>
    BY <1>1
  <2>7. keys' = keys /\ up = TRUE
    BY <1>1, <2>1
  <2>8. VaultTypeOK' /\ OnDisk' \subseteq OnDisk \cup {file'}
    BY <2>1
  <2> QED
    BY <2>3, <2>4, <2>5, <2>6, <2>7, <2>8, <1>3, <1>5, WrittenKeeps
<1> QED
  BY <1>4, <1>6, <1>7

LEMMA ChangePassphraseKeeps ==
  ASSUME IInv, ChangePassphrase
  PROVE  IInv'
<1>1. up /\ UNCHANGED <<repo, up, ready, making, unsaved, restored, changes>>
  BY DEF ChangePassphrase
<1>2. /\ VaultTypeOK /\ keys \in KeyMap
      /\ faults \in 0..MaxFaults /\ changes \in 0..MaxChanges
      /\ ~opened => keys = file.keys /\ ~dirty
  BY DEF IInv, TypeOK, VaultTypeOK
<1>3. \/ Rotated(Newest(Copied)) /\ UNCHANGED faults
      \/ RoomToSpare /\ Rotated(Copied) /\ Fault
      \/ NotRotated /\ Fault
  BY DEF ChangePassphrase
<1>4. faults' \in 0..MaxFaults /\ changes' \in 0..MaxChanges
  BY <1>1, <1>2, <1>3, Counting
<1>5. CASE Rotated(Newest(Copied)) \/ (RoomToSpare /\ Rotated(Copied))
  <2>1. /\ VaultTypeOK' /\ OnDisk' \subseteq OnDisk \cup {file'}
        /\ file' = [gen |-> top + 1, keys |-> keys]
        /\ dirty' = FALSE /\ UNCHANGED <<minted, opened, keys>>
    BY <1>2, <1>5, Rotates
  <2>2. backups' = Copied \/ backups' = Newest(Copied)
    BY <1>5 DEF Rotated
  <2>3. /\ OnDisk \subseteq OnDisk' \/ Len(backups') >= Keep
        /\ Len(backups) >= Keep => Len(backups') >= Keep
    BY <2>2, <1>2, CopiedStays
  <2>4. file'.keys = keys
    BY <2>1
  <2> QED
    BY <2>1, <2>3, <2>4, <1>1, <1>4, WrittenKeeps
<1>6. CASE NotRotated
  <2>1. /\ VaultTypeOK' /\ OnDisk' \subseteq OnDisk
        /\ UNCHANGED <<file, top, minted, opened, keys, dirty>>
    BY <1>2, <1>6, DoesNotRotate
  <2>2. backups' = backups \/ backups' = Copied
    BY <1>6 DEF NotRotated, Unpruned
  <2>3. /\ OnDisk \subseteq OnDisk' \/ Len(backups') >= Keep
        /\ Len(backups) >= Keep => Len(backups') >= Keep
    BY <2>1, <2>2, <1>2, CopiedStays DEF OnDisk
  <2>4. /\ file'.keys \in {keys, file.keys}
        /\ opened = TRUE \/ (keys' = file'.keys /\ dirty' = FALSE)
        /\ OnDisk' \subseteq OnDisk \cup {file'}
    BY <2>1, <1>2
  <2>5. UNCHANGED <<repo, making, up, ready, minted, opened, unsaved, restored>>
    BY <1>1, <2>1
  <2>6. keys' = keys /\ up = TRUE
    BY <1>1, <2>1
  <2>7. \/ \A c \in OnDisk : c = file \/ c \in OnDisk'
        \/ Len(backups') >= Keep
    BY <2>3
  <2>8. VaultTypeOK' /\ (Len(backups) >= Keep => Len(backups') >= Keep)
    BY <2>1, <2>3
  <2> QED
    BY <2>4, <2>5, <2>6, <2>7, <2>8, <1>4, WrittenKeeps
<1> QED
  BY <1>3, <1>5, <1>6

LEMMA UnlockKeeps ==
  ASSUME IInv, Unlock
  PROVE  IInv'
<1>1. /\ up /\ Opened
      /\ UNCHANGED <<repo, up, ready, making, unsaved, restored, changes, faults>>
  BY DEF Unlock
<1>2. TypeOK /\ VaultTypeOK
  BY DEF IInv, TypeOK
<1>3. /\ VaultTypeOK' /\ opened' = TRUE /\ OnDisk' = OnDisk
      /\ UNCHANGED <<file, backups, top, minted, keys, dirty>>
  BY <1>1, <1>2, Opens
<1>4. TypeOK'
  BY <1>1, <1>2, <1>3 DEF TypeOK
<1>5. MemoryIsFile' /\ KeyStays' /\ KeyIsSomewhere' /\ DownIsQuiet'
  BY <1>1, <1>3 DEF IInv, MemoryIsFile, KeyStays, KeyIsSomewhere, DownIsQuiet
<1> QED
  BY <1>4, <1>5 DEF IInv

LEMMA LockKeeps ==
  ASSUME IInv, Lock
  PROVE  IInv'
<1>1. /\ Shut
      /\ UNCHANGED <<repo, up, ready, making, unsaved, restored, changes, faults>>
  BY DEF Lock
<1>2. TypeOK /\ VaultTypeOK
  BY DEF IInv, TypeOK
<1>3. /\ VaultTypeOK' /\ opened' = FALSE /\ dirty' = FALSE /\ keys' = file.keys
      /\ OnDisk' = OnDisk
      /\ UNCHANGED <<file, backups, top, minted>>
  BY <1>1, <1>2, Shuts
<1>4. repo' \in KeyMap /\ making' \in KeyMap
  BY <1>1, <1>2 DEF TypeOK
<1>5. Known' /\ MemoryIsFile' /\ KeyStays' /\ KeyIsSomewhere'
  BY <1>1, <1>3, <1>4, MadeKeeps
<1>6. TypeOK'
  BY <1>1, <1>2, <1>3, <1>5 DEF TypeOK, Known
<1>7. DownIsQuiet'
  BY <1>1 DEF IInv, DownIsQuiet
<1> QED
  BY <1>5, <1>6, <1>7 DEF IInv

LEMMA CrashKeeps ==
  ASSUME IInv, Crash
  PROVE  IInv'
<1>1. /\ up' = FALSE /\ Fault /\ Shut
      /\ ready' = {} /\ making' = [r \in Generated |-> 0]
      /\ UNCHANGED <<unsaved, restored, changes>>
  BY DEF Crash
<1>2. PICK done \in SUBSET {r \in Generated : making[r] # 0 /\ repo[r] = 0} :
        repo' = [r \in Generated |-> IF r \in done THEN making[r] ELSE repo[r]]
  BY DEF Crash
<1>3. TypeOK /\ VaultTypeOK /\ repo \in KeyMap /\ making \in KeyMap
  BY DEF IInv, TypeOK
<1>4. /\ VaultTypeOK' /\ opened' = FALSE /\ dirty' = FALSE /\ keys' = file.keys
      /\ OnDisk' = OnDisk
      /\ UNCHANGED <<file, backups, top, minted>>
  BY <1>1, <1>3, Shuts
<1>5. repo' \in KeyMap /\ making' \in KeyMap
  BY <1>1, <1>2, <1>3, KeepIsPositive DEF KeyMap
<1>6. /\ \A r \in Generated : making'[r] \in {0, making[r]}
      /\ \A r \in Generated : repo'[r] \in {repo[r], making[r]}
  BY <1>1, <1>2
<1>7. Known' /\ MemoryIsFile' /\ KeyStays' /\ KeyIsSomewhere'
  BY <1>1, <1>4, <1>5, <1>6, MadeKeeps
<1>8. faults' \in 0..MaxFaults
  BY <1>1, <1>3, Counting DEF TypeOK
<1>9. TypeOK'
  BY <1>1, <1>3, <1>4, <1>5, <1>7, <1>8 DEF TypeOK, Known
<1>10. DownIsQuiet'
  BY <1>1 DEF DownIsQuiet
<1> QED
  BY <1>7, <1>9, <1>10 DEF IInv

LEMMA StartKeeps ==
  ASSUME IInv, Start
  PROVE  IInv'
<1>1. /\ ~up /\ up' = TRUE
      /\ UNCHANGED <<file, backups, top, minted, opened, keys, dirty>>
      /\ UNCHANGED <<repo, ready, making, unsaved, restored, changes, faults>>
  BY DEF Start, vaultVars
<1>2. OnDisk' = OnDisk
  BY <1>1 DEF OnDisk
<1>3. TypeOK'
  BY <1>1, <1>2 DEF IInv, TypeOK, VaultTypeOK
<1> QED
  BY <1>1, <1>2, <1>3 DEF IInv, MemoryIsFile, DownIsQuiet, KeyStays, KeyIsSomewhere

\* Nothing is in hand while the daemon is down, and the restored copy is
\* what memory will start from.
LEMMA RestoreKeeps ==
  ASSUME IInv, NEW i \in DOMAIN backups, Restore(i)
  PROVE  IInv'
<1>1. /\ ~up /\ Replaced(backups[i]) /\ restored' = TRUE
      /\ changes < MaxChanges /\ changes' = changes + 1
      /\ UNCHANGED <<repo, up, ready, making, unsaved, faults>>
  BY DEF Restore
<1>2. TypeOK /\ VaultTypeOK /\ Known /\ minted \in KeyMap /\ KeyIsSomewhere /\ DownIsQuiet
  BY TypeIsParts DEF IInv, VaultTypeOK
<1>3. /\ VaultTypeOK' /\ file' = backups[i]
      /\ opened' = FALSE /\ dirty' = FALSE /\ keys' = file'.keys
      /\ UNCHANGED <<top, minted>>
      /\ OnDisk' \subseteq OnDisk
  BY <1>1, <1>2, Replaces
<1>4. backups[i] \in OnDisk
  BY DEF OnDisk
<1>5. Known'
  <2>1. ASSUME NEW r \in Generated
        PROVE  {repo[r], making[r], keys'[r], file'.keys[r]} \subseteq 0..minted[r]
    BY <1>2, <1>3, <1>4 DEF Known
  <2>2. \A r \in Generated : minted[r] <= minted'[r]
    BY <1>2, <1>3, KeepIsPositive DEF KeyMap
  <2> QED
    BY <2>1, <2>2, <1>1, <1>2, <1>3, KnownStays
<1>6. changes' \in 0..MaxChanges
  BY <1>1, <1>2, Counting DEF TypeOK
<1>7. TypeOK'
  BY <1>1, <1>2, <1>3, <1>5, <1>6 DEF TypeOK, Known
<1>8. MemoryIsFile' /\ DownIsQuiet' /\ KeyStays'
  BY <1>1, <1>2, <1>3 DEF MemoryIsFile, DownIsQuiet, KeyStays
<1>9. /\ OnDisk \subseteq OnDisk' \/ Len(backups') >= Keep
      /\ Len(backups) >= Keep => Len(backups') >= Keep
  BY <1>1, <1>2, CopiedStays DEF Replaced
<1>10. KeyIsSomewhere'
  BY <1>1, <1>2, <1>9, SomewhereStays
<1> QED
  BY <1>7, <1>8, <1>10 DEF IInv

----------------------------------------------------------------------------
LEMMA InitHolds == Init => IInv
<1> SUFFICES ASSUME Init PROVE IInv
  OBVIOUS
<1>1. /\ file = [gen |-> 1, keys |-> [r \in Generated |-> 0]]
      /\ backups = <<>> /\ top = 1 /\ minted = [r \in Generated |-> 0]
      /\ opened = FALSE /\ keys = [r \in Generated |-> 0] /\ dirty = FALSE
      /\ repo = [r \in Generated |-> 0] /\ making = [r \in Generated |-> 0]
      /\ up = TRUE /\ ready = {} /\ unsaved = {} /\ restored = FALSE
      /\ changes = 0 /\ faults = 0
  BY DEF Init, VaultInit
<1>2. [r \in Generated |-> 0] \in KeyMap /\ 1 \in Gen
  BY BoundsAssumption DEF KeyMap, Gen
<1>3. OnDisk = {file}
  BY <1>1 DEF OnDisk
<1>4. VaultTypeOK
  <2>1. file \in Content
    BY <1>1, <1>2 DEF Content
  <2>2. backups \in Seq(Content) /\ Len(backups) <= Keep + 1
    BY <1>1, KeepIsPositive
  <2> QED
    BY <2>1, <2>2, <1>1, <1>2 DEF VaultTypeOK
<1>5. Known
  <2> SUFFICES ASSUME NEW r \in Generated
               PROVE  /\ {repo[r], making[r], keys[r]} \subseteq 0..minted[r]
                      /\ \A c \in OnDisk : c.keys[r] \in 0..minted[r]
    BY DEF Known
  <2>1. file.keys = [q \in Generated |-> 0]
    BY <1>1
  <2> QED
    BY <2>1, <1>1, <1>3
<1>6. TypeOK
  <2>1. repo \in KeyMap /\ making \in KeyMap
    BY <1>1, <1>2
  <2>2. changes \in 0..MaxChanges /\ faults \in 0..MaxFaults
    BY <1>1, CountAssumption
  <2>3. (~opened => keys = file.keys /\ ~dirty) /\ (~up => ~opened)
    BY <1>1
  <2>4. up \in BOOLEAN /\ restored \in BOOLEAN /\ ready \subseteq Generated /\ unsaved \subseteq Generated
    BY <1>1
  <2> QED
    BY <2>1, <2>2, <2>3, <2>4, <1>4, <1>5, TypeIsParts
<1>7. MemoryIsFile /\ DownIsQuiet /\ KeyStays /\ KeyIsSomewhere
  BY <1>1 DEF MemoryIsFile, DownIsQuiet, KeyStays, KeyIsSomewhere
<1> QED
  BY <1>6, <1>7 DEF IInv

LEMMA StutterKeeps ==
  ASSUME IInv, UNCHANGED vars
  PROVE  IInv'
<1>1. OnDisk' = OnDisk
  BY DEF OnDisk, vars, vaultVars
<1>2. TypeOK'
  BY <1>1 DEF IInv, TypeOK, VaultTypeOK, vars, vaultVars
<1> QED
  BY <1>1, <1>2
     DEF IInv, MemoryIsFile, DownIsQuiet, KeyStays, KeyIsSomewhere, vars, vaultVars

LEMMA NextKeeps == IInv /\ [Next]_vars => IInv'
<1> SUFFICES ASSUME IInv, [Next]_vars PROVE IInv'
  OBVIOUS
<1>1. CASE ChangeSecret
  BY <1>1, ChangeSecretKeeps
<1>2. CASE ChangePassphrase
  BY <1>2, ChangePassphraseKeeps
<1>3. CASE Unlock
  BY <1>3, UnlockKeeps
<1>4. CASE Lock
  BY <1>4, LockKeeps
<1>5. CASE Crash
  BY <1>5, CrashKeeps
<1>6. CASE Start
  BY <1>6, StartKeeps
<1>7. ASSUME NEW r \in Generated, Ensure(r) \/ EnsureNew(r) \/ Bind(r) \/ Make(r)
      PROVE  IInv'
  BY <1>7, EnsureKeeps, EnsureNewKeeps, BindKeeps, MakeKeeps
<1>8. ASSUME NEW i \in DOMAIN backups, Restore(i) PROVE IInv'
  BY <1>8, RestoreKeeps
<1>9. CASE UNCHANGED vars
  BY <1>9, StutterKeeps
<1> QED
  BY <1>1, <1>2, <1>3, <1>4, <1>5, <1>6, <1>7, <1>8, <1>9 DEF Next

LEMMA InvariantHolds == Spec => []IInv
  BY InitHolds, NextKeeps, PTL DEF Spec

\* The vault's file, its copies and what memory holds keep their shapes; no
\* repository has a passphrase that nobody generated; a shut vault holds
\* what its file holds.
THEOREM KeyringTypeCorrect == Spec => []TypeOK
<1>1. IInv => TypeOK
  BY DEF IInv
<1> QED
  BY <1>1, InvariantHolds, PTL

\* Whatever is saved, rotated, locked or interrupted after repo.create, the
\* live vault has the passphrase of each repository, until an older copy is
\* put back; but for a repository whose passphrase once failed to be saved.
THEOREM LiveVaultOpensRepositories == Spec => []KeyStays
<1>1. IInv => KeyStays
  BY DEF IInv
<1> QED
  BY <1>1, InvariantHolds, PTL

\* A restore does not lose it either: it takes as many copies as are kept to
\* drop the last vault that has the passphrase.
THEOREM RestoreLosesNoKey == Spec => []KeyIsSomewhere
<1>1. IInv => KeyIsSomewhere
  BY DEF IInv
<1> QED
  BY <1>1, InvariantHolds, PTL
=============================================================================
