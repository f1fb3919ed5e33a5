------------------------------ MODULE SaveSlot ------------------------------
(***************************************************************************)
(* One slot of the saved games (loadsave.cc): SAVE.DAT, a file per map      *)
(* visited, the automap, sfall's variables and the party's prototypes.      *)
(* lsgPerformSaveGame renames the slot's files out of the way, writes new   *)
(* ones, commits SAVE.DAT and then sfallgv.sav by renaming, and deletes the *)
(* old files; when a step fails it erases what it wrote and renames the old *)
(* files back. A step here is one file operation: the process may die       *)
(* between any two.                                                         *)
(*                                                                         *)
(* A file name is a stem and an extension; "*.SAV" matches every file with  *)
(* that extension, whatever its case, so the automap's and sfall's too. A   *)
(* file's contents are the number of the save that wrote it.                *)
(***************************************************************************)
EXTENDS Integers, FiniteSets, Sequences, Functions

CONSTANTS
  Maps,
  Faults,         \* what can go wrong: "write", "backup", "restore", "crash"
  Replaces,       \* does rename replace an existing file? (POSIX does)
  MaxSaves,       \* bound: saves attempted
  SavesAfterCrash \* bound: does the player save to a slot after a crash?

SaveSlotConstants ==
  /\ {"SAVE", "SAVE.DAT", "AUTOMAP", "sfallgv", "proto"} \cap Maps = {}
  /\ Faults \subseteq {"write", "backup", "restore", "crash"}
  /\ Replaces \in BOOLEAN /\ SavesAfterCrash \in BOOLEAN /\ MaxSaves \in Nat

Dat == <<"SAVE", "DAT">>
Automap == <<"AUTOMAP", "SAV">>
Sfallgv == <<"sfallgv", "SAV">>
MapFile(m) == <<m, "SAV">>
\* The prototypes of the party, in a directory of their own.
Protos == <<"proto", "PRO">>
\* _strmfe: the extension is replaced.
Backup(n) == <<n[1], "BAK">>
Restored(n) == IF n = Backup(Dat) THEN Dat ELSE <<n[1], "SAV">>
\* Where lsgLoadGameInSlot looks for a backup: the extension is appended.
Orphan == <<"SAVE.DAT", "BAK">>

Name == ((Maps \cup {"AUTOMAP", "sfallgv"}) \X {"SAV", "BAK"})
        \cup {Dat, Backup(Dat), Orphan, Protos}
Version == 1..MaxSaves

VARIABLES
  disk,    \* the slot's files: a function from the names of those there are
  listed,  \* the maps SAVE.DAT lists, by version
  saves,   \* saves attempted
  op,      \* the step under way
  todo,    \* the files it has still to do
  before,  \* the files at the start of the last save (history)
  outcome, \* of the last save
  kept,    \* the last save that succeeded, 0 when none has since the last
           \* restoration that failed (history)
  loaded   \* what the last load read: versions by name, none when it failed

slotVars == <<disk, listed, saves, op, todo, before, outcome, kept, loaded>>
notes == <<listed, saves, before, loaded>>

SlotInit ==
  /\ disk = << >> /\ listed = << >> /\ saves = 0
  /\ op = "idle" /\ todo = {} /\ before = << >>
  /\ outcome = "none" /\ kept = 0 /\ loaded = << >>

-----------------------------------------------------------------------------
Files(extensions) == {n \in DOMAIN disk : n[2] \in extensions}
Without(n) == Restrict(disk, DOMAIN disk \ {n})
Written(n) == [k \in DOMAIN disk \cup {n} |-> IF k = n THEN saves ELSE disk[k]]
\* Mutant: what is there is replaced.
RenamesAnyway(from, to) == from \in DOMAIN disk
Renames(from, to) == from \in DOMAIN disk /\ (Replaces \/ to \notin DOMAIN disk)
Renamed(from, to) ==
  [k \in (DOMAIN disk \ {from}) \cup {to} |-> IF k = to THEN disk[from] ELSE disk[k]]

GoTo(step, names) == op' = step /\ todo' = names
Finish(result) ==
  /\ GoTo("idle", {}) /\ outcome' = result
  /\ kept' = IF result = "saved" THEN saves ELSE kept

\* A loop that removes files: what it removes and what follows. EraseSave is
\* "erase" and "wipe", MapDirErase of the backups "clean" and "abandon".
Removes == [clear |-> {"SAV"}, erase |-> {"DAT", "SAV"}, wipe |-> {"DAT", "SAV"},
            clean |-> {"BAK"}, abandon |-> {"BAK"}]
Removing == op \in DOMAIN Removes
\* SAVE.DAT is the first to go.
RemoveFile ==
  /\ Removing
  /\ \E n \in Files(Removes[op]) :
       /\ Dat \in Files(Removes[op]) => n = Dat
       /\ disk' = Without(n)
  /\ UNCHANGED <<op, todo, outcome, kept, notes>>
NoneLeft == Removing /\ Files(Removes[op]) = {}

-----------------------------------------------------------------------------
(* lsgPerformSaveGame                                                       *)

StartSave(maps) ==
  /\ op = "idle" /\ saves < MaxSaves
  /\ outcome = "crashed" => SavesAfterCrash
  /\ saves' = saves + 1
  /\ listed' = Append(listed, maps)
  /\ before' = disk
  /\ outcome' = "none"
  /\ GoTo("backupDat", {})
  /\ UNCHANGED <<disk, kept, loaded>>

\* _SaveBackup. When a rename fails the save is given up as it is.
BackupDat ==
  /\ op = "backupDat"
  /\ IF Dat \in DOMAIN disk
     THEN Renames(Dat, Backup(Dat)) /\ disk' = Renamed(Dat, Backup(Dat))
     ELSE UNCHANGED disk
  /\ GoTo("backup", Files({"SAV"}))
  /\ UNCHANGED <<outcome, kept, notes>>
\* Mutants: sfall's file, or the automap, is left where it is.
BacksUpMaps(n) == n # Sfallgv
BacksUpNoAutomap(n) == n # Automap
BacksUp(n) == TRUE
BackupFile ==
  /\ op = "backup"
  /\ \E n \in todo :
       /\ todo' = todo \ {n}
       /\ IF BacksUp(n)
          THEN Renames(n, Backup(n)) /\ disk' = Renamed(n, Backup(n))
          ELSE UNCHANGED disk
  /\ UNCHANGED <<op, outcome, kept, notes>>
BackupFails ==
  /\ \/ op = "backupDat" /\ Dat \in DOMAIN disk
        /\ ("backup" \in Faults \/ ~Renames(Dat, Backup(Dat)))
     \/ op = "backup"
        /\ \E n \in todo : "backup" \in Faults \/ ~Renames(n, Backup(n))
  /\ Finish("refused")
  /\ UNCHANGED <<disk, notes>>

\* The new SAVE.DAT is written to a temporary file; the handler of the maps
\* copies the prototypes over those of the slot, clears it and copies the maps.
WriteHead ==
  /\ op = "backup" /\ todo = {}
  /\ GoTo("protos", {})
  /\ UNCHANGED <<disk, outcome, kept, notes>>
CopyProtos ==
  /\ op = "protos"
  /\ disk' = Written(Protos)
  /\ GoTo("clear", {})
  /\ UNCHANGED <<outcome, kept, notes>>
StartCopy ==
  /\ op = "clear" /\ NoneLeft
  /\ GoTo("copy", {MapFile(m) : m \in listed[saves]} \cup {Automap})
  /\ UNCHANGED <<disk, outcome, kept, notes>>
CopyFile ==
  /\ op = "copy"
  /\ \E n \in todo :
       /\ n = Automap => todo = {n}
       /\ disk' = Written(n)
       /\ todo' = todo \ {n}
  /\ UNCHANGED <<op, outcome, kept, notes>>
\* The other handlers, and the rename of the temporary file.
Commit ==
  /\ op = "copy" /\ todo = {}
  /\ disk' = Written(Dat)
  /\ GoTo("sfall", {})
  /\ UNCHANGED <<outcome, kept, notes>>
\* sfallgv.sav, written and renamed in the same way.
CommitSfall ==
  /\ op = "sfall"
  /\ disk' = Written(Sfallgv)
  /\ GoTo("clean", {})
  /\ UNCHANGED <<outcome, kept, notes>>
WriteFails ==
  /\ "write" \in Faults
  /\ \/ op = "backup" /\ todo = {}
     \/ op \in {"protos", "clear", "copy", "sfall"}
  /\ GoTo("erase", {})
  /\ UNCHANGED <<disk, outcome, kept, notes>>
Saved ==
  /\ op = "clean" /\ NoneLeft
  /\ Finish("saved")
  /\ UNCHANGED <<disk, notes>>

-----------------------------------------------------------------------------
(* _RestoreSave, and the erasing of the backups by its caller.              *)

RestoreDat ==
  /\ op = "erase" /\ NoneLeft
  /\ IF Backup(Dat) \in DOMAIN disk
     THEN /\ disk' = Renamed(Backup(Dat), Dat)
          /\ GoTo("restore", Files({"BAK"}) \ {Backup(Dat)})
     ELSE GoTo("wipe", {}) /\ UNCHANGED disk
  /\ UNCHANGED <<outcome, kept, notes>>
RestoreFile ==
  /\ op = "restore"
  /\ \E n \in todo :
       /\ disk' = Renamed(n, Restored(n))
       /\ todo' = todo \ {n}
  /\ UNCHANGED <<op, outcome, kept, notes>>
\* A rename fails: the slot is erased.
RestoreFails ==
  /\ "restore" \in Faults
  /\ \/ op = "erase" /\ NoneLeft
     \/ op = "restore" /\ todo # {}
  /\ GoTo("wipe", {})
  /\ outcome' = "lost" /\ kept' = 0
  /\ UNCHANGED <<disk, notes>>
RestoreDone ==
  /\ \/ op = "restore" /\ todo = {}
     \/ op = "wipe" /\ NoneLeft
  /\ GoTo("abandon", {})
  /\ UNCHANGED <<disk, outcome, kept, notes>>
GivenUp ==
  /\ op = "abandon" /\ NoneLeft
  /\ Finish(IF outcome = "lost" THEN "lost" ELSE "failed")
  /\ UNCHANGED <<disk, notes>>

\* The process dies; the player starts it again.
Crash ==
  /\ op # "idle" /\ "crash" \in Faults
  /\ Finish("crashed")
  /\ UNCHANGED <<disk, notes>>

-----------------------------------------------------------------------------
(* lsgLoadGameInSlot. SAVE.DAT is sought among the backups when it is missing; *)
(* every map it lists, the automap and the prototypes must be there,        *)
(* sfallgv.sav need not.                                                     *)

Readable == IF Dat \notin DOMAIN disk /\ Orphan \in DOMAIN disk
            THEN Renamed(Orphan, Dat) ELSE disk
Needed(d) == {Dat, Automap, Protos} \cup {MapFile(m) : m \in listed[d[Dat]]}
Loads(d) == Dat \in DOMAIN d /\ Needed(d) \subseteq DOMAIN d
Load ==
  /\ op = "idle"
  /\ disk' = Readable
  /\ loaded' = IF Loads(disk')
               THEN Restrict(disk', Needed(disk') \cup ({Sfallgv} \cap DOMAIN disk'))
               ELSE << >>
  /\ UNCHANGED <<op, todo, outcome, kept, listed, saves, before>>

-----------------------------------------------------------------------------
SlotNext ==
  \/ \E maps \in SUBSET Maps \ {{}} : StartSave(maps)
  \/ BackupDat \/ BackupFile \/ BackupFails
  \/ WriteHead \/ CopyProtos \/ StartCopy \/ CopyFile \/ Commit \/ CommitSfall \/ WriteFails \/ Saved
  \/ RemoveFile \/ RestoreDat \/ RestoreFile \/ RestoreFails \/ RestoreDone \/ GivenUp
  \/ Crash \/ Load
SlotSpec == SlotInit /\ [][SlotNext]_slotVars

-----------------------------------------------------------------------------
(* Properties.                                                              *)

TypeOK ==
  /\ DOMAIN disk \subseteq Name /\ Range(disk) \subseteq Version
  /\ saves \in 0..MaxSaves /\ listed \in [1..saves -> SUBSET Maps]
  /\ op \in DOMAIN Removes \cup {"idle", "backupDat", "backup", "protos", "copy", "sfall",
                             "restore"}
  /\ todo \subseteq Name
  /\ DOMAIN before \subseteq Name /\ Range(before) \subseteq Version
  /\ outcome \in {"none", "saved", "failed", "refused", "lost", "crashed"}
  /\ DOMAIN loaded \subseteq Name /\ Range(loaded) \subseteq Version
  /\ kept \in 0..saves

\* A save that fails once its backup is made leaves the files of a sound slot
\* (empty, or one that loads, with no backups in it) as they were but for the
\* prototypes, and one that succeeds leaves exactly its own
\* (lsgPerformSaveGame, _RestoreSave). Types included.
Sound(d) ==
  /\ \A n \in DOMAIN d : n[2] # "BAK"
  /\ DOMAIN d \subseteq {Protos} \/ Loads(d)
ButProtos(d) == Restrict(d, DOMAIN d \ {Protos})
AllOrNothing ==
  TypeOK /\ (op = "idle" =>
    /\ outcome = "failed" /\ Sound(before) => ButProtos(disk) = ButProtos(before)
    /\ outcome = "saved" =>
         /\ DOMAIN disk = {Dat, Automap, Sfallgv, Protos}
                          \cup {MapFile(m) : m \in listed[saves]}
         /\ Range(disk) = {saves})

\* A version is on the disk, each of its files in its place or set aside.
Present(n, v) == \E k \in {n, Backup(n)} \cap DOMAIN disk : disk[k] = v
OnDisk(v) == \A n \in {Dat, Automap} \cup {MapFile(m) : m \in listed[v]} : Present(n, v)

\* Whatever fails or dies but a rename of the restoration, the last version that
\* was saved stays on the disk until a later one is there ("NEVER erase the slot", loadsave.cc).
LastSaveSurvives == kept # 0 => \E v \in kept..saves : OnDisk(v)

\* Every load that succeeds reads SAVE.DAT, the maps, the automap and sfall's
\* variables of a single save.
LoadedWhole == Cardinality(Range(ButProtos(loaded))) <= 1

\* A slot whose SAVE.DAT is only there as the backup of a save that a crash cut
\* short, everything it needs in its place, can be loaded ("Auto-recover from
\* backup if SAVE.DAT was corrupted by a crash", loadsave.cc).
OnlyDatAside ==
  /\ Dat \notin DOMAIN disk /\ Backup(Dat) \in DOMAIN disk
  /\ Needed(Renamed(Backup(Dat), Dat)) \subseteq DOMAIN Renamed(Backup(Dat), Dat)
BackupFound == op = "idle" /\ OnlyDatAside => Loads(Readable)
=============================================================================
