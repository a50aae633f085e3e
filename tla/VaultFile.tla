----------------------------- MODULE VaultFile -----------------------------
(***************************************************************************)
(* The sealed vault on disk, the dated copies kept beside it, and the open *)
(* vault in the daemon's memory (core/crypto/file.rs, vault.rs, and the    *)
(* store in config.rs that holds them).                                    *)
(*                                                                         *)
(* A vault holds a key hierarchy, here its generation, and the passphrases *)
(* that were generated for repositories, here numbered.  Every operation   *)
(* runs under the store's lock without an await, so each is one step; the  *)
(* sealed bytes in memory are then always those of the file.  Anything     *)
(* that touches the disk may fail.                                         *)
(***************************************************************************)

EXTENDS Naturals, Sequences

CONSTANTS
    Generated,  \* repositories whose passphrase is generated and stored
    Keep,       \* BACKUP_KEEP
    MaxGen,     \* bound: key hierarchies ever made
    MaxKey      \* bound: passphrases ever generated for one repository

ASSUME BoundsAssumption ==
    Keep \in Nat \ {0} /\ MaxGen \in Nat \ {0} /\ MaxKey \in Nat

VARIABLES
    file,       \* config.sbvault
    backups,    \* vault-backups/, oldest first
    top,        \* the generation made last
    minted,     \* passphrases generated so far, for each repository
    opened,     \* the vault is open
    keys,       \* generated passphrases in memory; the file's while shut
    dirty       \* memory holds what the file does not

vaultVars == <<file, backups, top, minted, opened, keys, dirty>>

Gen == 1..MaxGen
KeyMap == [Generated -> 0..MaxKey]
Content == [gen: Gen, keys: KeyMap]

VaultTypeOK ==
    /\ file \in Content
    /\ backups \in Seq(Content) /\ Len(backups) <= Keep + 1
    /\ top \in Gen /\ minted \in KeyMap
    /\ opened \in BOOLEAN /\ dirty \in BOOLEAN
    /\ keys \in KeyMap

VaultInit ==
    /\ file = [gen |-> 1, keys |-> [r \in Generated |-> 0]]
    /\ backups = <<>>
    /\ top = 1 /\ minted = [r \in Generated |-> 0]
    /\ opened = FALSE /\ keys = file.keys /\ dirty = FALSE

\* The vaults on disk: the live one and the copies kept of earlier ones.
OnDisk == {file} \cup {backups[i] : i \in DOMAIN backups}

(***************************************************************************)
(* Copies.  A prune that fails leaves the copy too many, and the next one  *)
(* removes it.                                                             *)
(***************************************************************************)
Copied == Append(backups, file)

Newest(copies) ==
    SubSeq(copies, IF Len(copies) > Keep THEN Len(copies) - Keep + 1 ELSE 1, Len(copies))

RoomToSpare == Len(backups) <= Keep
Unpruned == IF RoomToSpare THEN {Copied} ELSE {}

\* Store::put_secret: the secret is in memory, and then written or not.
\* VaultFile::save goes on without a copy, or with one too many.
Saved(now, copies) ==
    /\ file' = [file EXCEPT !.keys = now]
    /\ backups' = copies
    /\ keys' = now /\ dirty' = FALSE

SaveWorks(now) == Saved(now, Newest(Copied))
SaveStumbles(now) == \E copies \in {backups} \cup Unpruned : Saved(now, copies)

SaveFails(now) ==
    /\ backups' \in {backups, Newest(Copied)}
    /\ keys' = now /\ dirty' = TRUE
    /\ UNCHANGED file

(***************************************************************************)
(* A new passphrase.  What memory holds and the file does not goes along.  *)
(* The copy of the old file comes before the new one is written, and older *)
(* copies are pruned only after that.                                      *)
(***************************************************************************)
\* Faulty variant: the copy is taken of what was just written.
RotatedCopyLate(copies) ==
    /\ top < MaxGen
    /\ file' = [gen |-> top + 1, keys |-> keys]
    /\ backups' = Newest(Append(backups, file'))
    /\ top' = top + 1
    /\ dirty' = FALSE
    /\ UNCHANGED <<minted, opened, keys>>

Rotated(copies) ==
    /\ top < MaxGen
    /\ file' = [gen |-> top + 1, keys |-> keys]
    /\ backups' = copies
    /\ top' = top + 1
    /\ dirty' = FALSE
    /\ UNCHANGED <<minted, opened, keys>>

\* Nothing is written, except perhaps the copy.
NotRotated ==
    /\ backups' \in {backups} \cup Unpruned
    /\ UNCHANGED <<file, top, minted, opened, keys, dirty>>

Opened ==
    /\ ~opened /\ opened' = TRUE
    /\ UNCHANGED <<file, backups, top, minted, keys, dirty>>

\* Vault::lock drops what was not saved; so does the end of the process.
Shut ==
    /\ opened' = FALSE
    /\ keys' = file.keys /\ dirty' = FALSE
    /\ UNCHANGED <<file, backups, top, minted>>

\* Faulty variant: the file that is replaced is not copied.
ReplacedUncopied(content) ==
    /\ file' = content
    /\ keys' = content.keys /\ opened' = FALSE /\ dirty' = FALSE
    /\ UNCHANGED <<backups, top, minted>>

\* replace_with: the file is copied, and then a copy takes its place.
Replaced(content) ==
    /\ file' = content
    /\ backups' = Newest(Copied)
    /\ keys' = content.keys /\ opened' = FALSE /\ dirty' = FALSE
    /\ UNCHANGED <<top, minted>>
=============================================================================
