--------------------------- MODULE SaveSlotProofs ---------------------------
(***************************************************************************)
(* Proofs about SaveSlot for any maps, any number of saves and any mix of  *)
(* faults: what the player must not do after a crash is a hypothesis of    *)
(* the theorems that need it.                                              *)
(*                                                                         *)
(* A file is spoken of by its version: At(n) is the version in its place,  *)
(* Put(n) the one set aside, 0 when there is none. Progress says what each *)
(* step of a save has done, Undone where the files of before are, Survival *)
(* where the last version saved is, and Coherent that what can be read, or *)
(* can be put back, comes from one save.                                   *)
(***************************************************************************)
EXTENDS SaveSlot, FiniteSetTheorems, TLAPS

Own == {Dat} \cup {<<m, "SAV">> : m \in Maps \cup {"AUTOMAP", "sfallgv"}}
Aside == {Backup(n) : n \in Own}
Known == Own \cup Aside \cup {Protos}

In(d, n) == IF n \in DOMAIN d THEN d[n] ELSE 0
At(n) == In(disk, n)
Put(n) == In(disk, Backup(n))
Was(n) == In(before, n)
\* What a load of version v needs, but for the prototypes, and what it reads.
Needs(maps) == {Dat, Automap} \cup {MapFile(m) : m \in maps \cap Maps}
Wants(v) == Needs(listed[v])
Reads(v) == Wants(v) \cup {Sfallgv}

Alone(v, names) == \A n \in Own : At(n) = IF n \in names THEN v ELSE 0
NoneAside == \A n \in Own : Put(n) = 0

\* The files are files of the slot, of versions there are.
Slot(d) == d \in [DOMAIN d -> 1..saves] /\ DOMAIN d \subseteq Known
Shape ==
  /\ saves \in 0..MaxSaves /\ listed \in [1..saves -> SUBSET Maps]
  /\ Slot(disk) /\ Slot(before) /\ todo \subseteq Known
  /\ loaded \in [DOMAIN loaded -> Version] /\ DOMAIN loaded \subseteq Known
  /\ op \in DOMAIN Removes \cup {"idle", "backupDat", "backup", "protos", "copy", "sfall", "restore"}
  /\ outcome \in {"none", "saved", "failed", "refused", "lost", "crashed"}
  /\ kept \in 0..saves
  /\ op # "idle" => saves > 0
  /\ op # "idle" => outcome = "none" \/ (outcome = "lost" /\ op \in {"wipe", "abandon"} /\ kept = 0)
  /\ (outcome = "lost" => "restore" \in Faults) /\ (outcome = "crashed" => "crash" \in Faults)
  /\ outcome = "saved" => saves > 0
  /\ op = "idle" /\ outcome = "none" => disk = << >> /\ kept = 0

\* What each step of a save has done by then.
Progress ==
  /\ op \in {"backup", "protos", "clear", "copy"} => At(Dat) = 0
  /\ op = "backup" => todo = {n \in Own : At(n) # 0}
  /\ op \in {"protos", "clear"} => \A n \in Own : At(n) = 0
  /\ op \in {"clear", "copy", "sfall", "clean"} => At(Protos) = saves
  /\ op = "copy" => todo \subseteq Wants(saves) \ {Dat} /\ Alone(saves, Wants(saves) \ ({Dat} \cup todo))
  /\ op = "sfall" \/ (op = "erase" /\ At(Dat) # 0) => Alone(saves, Wants(saves))
  /\ op = "clean" => Alone(saves, Reads(saves))
  /\ op = "idle" /\ outcome = "saved" => Alone(saves, Reads(saves)) /\ NoneAside /\ At(Protos) = saves
  /\ op = "restore" =>
       /\ At(Dat) # 0 /\ todo = {n \in Aside : At(n) # 0}
       /\ \A n \in Own : At(n) = 0 \/ Put(n) = 0
  /\ op = "wipe" /\ outcome = "none" => Put(Dat) = 0 /\ \A n \in Own : At(n) = 0
  /\ op = "abandon" => IF At(Dat) = 0 THEN \A n \in Own : At(n) = 0 ELSE NoneAside

\* Where the files are that a sound slot had at the start.
Back == NoneAside /\ \A n \in Own : At(n) = Was(n)
Undone ==
  Sound(before) =>
    /\ op \in {"backupDat", "backup", "restore"} =>
         \A n \in Own : (At(n) = Was(n) /\ Put(n) = 0) \/ (At(n) = 0 /\ Put(n) = Was(n))
    /\ op = "backupDat" => NoneAside
    /\ op \in {"protos", "clear", "copy", "sfall", "erase"} => \A n \in Own : Put(n) = Was(n)
    /\ op = "wipe" /\ outcome = "none" => NoneAside /\ \A n \in Own : Was(n) = 0
    /\ (op = "abandon" /\ outcome = "none") \/ (op = "idle" /\ outcome = "failed") => Back

\* Where rename replaces files the player saves no more after a crash.
NothingReplaced == Replaces /\ "crash" \in Faults => ~SavesAfterCrash
\* Where the last version saved is.
Safe(v) ==
  /\ op \in {"idle", "backupDat", "backup", "restore"} => \A n \in Wants(v) : At(n) = v \/ Put(n) = v
  /\ op \in {"protos", "clear", "copy", "sfall", "erase"} => \A n \in Wants(v) : Put(n) = v
  /\ op \in {"clean", "abandon"} => \A n \in Wants(v) : At(n) = v
  /\ op # "wipe"
Survival ==
  /\ Replaces /\ (op \in {"backupDat", "backup"} \/ (op = "idle" /\ outcome # "crashed")) =>
       \A n \in Own : At(n) = 0 \/ Put(n) = 0
  /\ kept # 0 => \E v \in kept..saves : Safe(v)

\* Nor where a restoration can fail.
NothingMixed ==
  "crash" \in Faults /\ SavesAfterCrash => ~Replaces /\ "restore" \notin Faults
\* The version of n, in its place or aside; a file that is in both can be moved to neither.
Stuck == -1
FormIn(d, n) ==
  IF In(d, Backup(n)) = 0 THEN In(d, n) ELSE IF In(d, n) = 0 THEN In(d, Backup(n)) ELSE Stuck
Form(n) == FormIn(disk, n)
Saving == op \in {"protos", "clear", "copy", "sfall", "erase"}
Mendable ==
  /\ Form(Dat) > 0 =>
       /\ \A n \in Reads(Form(Dat)) : Form(n) \in {Stuck, 0, Form(Dat)}
       /\ \A n \in Wants(Form(Dat)) : Form(n) # 0
  /\ Form(Dat) = 0 => Form(Sfallgv) = 0
Together == At(Dat) # 0 => \A n \in Reads(At(Dat)) : At(n) \in {0, At(Dat)}
Coherent ==
  /\ Together
  /\ op \in {"backupDat", "backup", "restore"} \/ (op = "idle" /\ (outcome = "crashed" => SavesAfterCrash)) =>
       Mendable
  /\ Saving =>
       /\ At(Sfallgv) = 0
       /\ IF Put(Dat) = 0 THEN Put(Sfallgv) = 0
          ELSE /\ \A n \in Reads(Put(Dat)) : Put(n) \in {0, Put(Dat)}
               /\ \A n \in Wants(Put(Dat)) : Put(n) # 0
  /\ op = "abandon" /\ At(Dat) # 0 => \A n \in Wants(At(Dat)) : At(n) # 0
  /\ op \in {"wipe", "abandon"} /\ outcome = "none" /\ At(Dat) = 0 => Put(Dat) = 0 /\ Put(Sfallgv) = 0
ReadWhole == \A n, k \in DOMAIN loaded \ {Protos} : loaded[n] = loaded[k]

IInv ==
  /\ Shape /\ Progress /\ Undone
  /\ NothingReplaced => Survival
  /\ NothingMixed => Coherent /\ ReadWhole

-----------------------------------------------------------------------------
(* The names *)

LEMMA NameFacts ==
  ASSUME SaveSlotConstants
  PROVE  /\ Dat \in Own /\ Automap \in Own /\ Sfallgv \in Own /\ \A m \in Maps : MapFile(m) \in Own
         /\ Automap # Dat /\ Sfallgv # Dat /\ Sfallgv # Automap
         /\ \A m \in Maps : MapFile(m) \notin {Dat, Automap, Sfallgv}
         /\ \A n \in Own : Backup(n) \in Aside /\ Backup(n) \notin Own /\ Restored(Backup(n)) = n
         /\ \A n, k \in Own : Backup(n) = Backup(k) => n = k
         /\ \A n \in Aside : n \notin Own /\ Restored(n) \in Own /\ Backup(Restored(n)) = n
         /\ Protos \notin Own /\ Protos \notin Aside /\ Orphan \notin Known
         /\ Known \subseteq Name
<1> DEFINE stems == Maps \cup {"AUTOMAP", "sfallgv"}
<1>1. \A s \in stems : s # "SAVE" /\ s # "SAVE.DAT" /\ s # "proto"
  BY DEF SaveSlotConstants
<1>2. /\ Dat = <<"SAVE", "DAT">> /\ Backup(Dat) = <<"SAVE", "BAK">>
      /\ \A s \in stems : Backup(<<s, "SAV">>) = <<s, "BAK">>
      /\ Protos = <<"proto", "PRO">> /\ Orphan = <<"SAVE.DAT", "BAK">>
      /\ Automap = <<"AUTOMAP", "SAV">> /\ Sfallgv = <<"sfallgv", "SAV">>
      /\ \A m \in Maps : MapFile(m) = <<m, "SAV">>
  BY DEF Dat, Backup, Protos, Orphan, Automap, Sfallgv, MapFile
<1>3. /\ Own = {<<"SAVE", "DAT">>} \cup {<<s, "SAV">> : s \in stems}
      /\ Aside = {<<"SAVE", "BAK">>} \cup {<<s, "BAK">> : s \in stems}
  BY <1>2 DEF Own, Aside
<1>4. /\ Restored(<<"SAVE", "BAK">>) = <<"SAVE", "DAT">>
      /\ \A s \in stems : Restored(<<s, "BAK">>) = <<s, "SAV">>
  BY <1>1, <1>2 DEF Restored
<1>5. /\ Dat \in Own /\ Automap \in Own /\ Sfallgv \in Own /\ \A m \in Maps : MapFile(m) \in Own
      /\ Automap # Dat /\ Sfallgv # Dat /\ Sfallgv # Automap
      /\ \A m \in Maps : MapFile(m) \notin {Dat, Automap, Sfallgv}
  BY <1>1, <1>2, <1>3 DEF SaveSlotConstants
<1>6. \A n \in Own : Backup(n) \in Aside /\ Backup(n) \notin Own /\ Restored(Backup(n)) = n
  BY <1>1, <1>2, <1>3, <1>4
<1>7. \A n, k \in Own : Backup(n) = Backup(k) => n = k
  BY <1>6
<1>8. \A n \in Aside : n \notin Own /\ Restored(n) \in Own /\ Backup(Restored(n)) = n
  BY <1>6 DEF Aside
<1>9. Protos \notin Own /\ Protos \notin Aside /\ Orphan \notin Known
  BY <1>1, <1>2, <1>3 DEF Known
<1>10. Known \subseteq Name
  BY <1>2, <1>3 DEF Known, Name
<1> QED BY <1>5, <1>6, <1>7, <1>8, <1>9, <1>10

LEMMA Extensions ==
  ASSUME SaveSlotConstants
  PROVE  /\ \A n \in Own : n[2] = IF n = Dat THEN "DAT" ELSE "SAV"
         /\ \A n \in Aside : n[2] = "BAK"
         /\ Protos[2] = "PRO"
BY NameFacts DEF Own, Aside, Backup, Dat, Protos, SaveSlotConstants

\* The loops that remove or rename files pick these.
LEMMA Picked ==
  ASSUME SaveSlotConstants, DOMAIN disk \subseteq Known
  PROVE  /\ Files({"SAV"}) = {n \in DOMAIN disk : n \in Own /\ n # Dat}
         /\ Files({"DAT", "SAV"}) = {n \in DOMAIN disk : n \in Own}
         /\ Files({"BAK"}) = {n \in DOMAIN disk : n \in Aside}
BY Extensions, NameFacts DEF Files, Known

LEMMA NeedsFacts ==
  ASSUME SaveSlotConstants, NEW maps
  PROVE  /\ Dat \in Needs(maps) /\ Automap \in Needs(maps) /\ Sfallgv \notin Needs(maps)
         /\ Needs(maps) \subseteq Own
BY NameFacts DEF Needs

-----------------------------------------------------------------------------
(* What an operation on a file does *)

LEMMA Versions ==
  ASSUME Slot(disk), saves \in Nat, NEW n
  PROVE  In(disk, n) \in 0..saves /\ (In(disk, n) # 0 <=> n \in DOMAIN disk)
BY DEF In, Slot

LEMMA SetAside ==
  ASSUME SaveSlotConstants, Slot(disk), NEW n \in Own, n \in DOMAIN disk
  PROVE  LET d == Renamed(n, Backup(n))
         IN  /\ Slot(d)
             /\ \A k \in Own : /\ In(d, k) = IF k = n THEN 0 ELSE In(disk, k)
                               /\ In(d, Backup(k)) = IF k = n THEN In(disk, n) ELSE In(disk, Backup(k))
             /\ In(d, Protos) = In(disk, Protos)
<1>1. Slot(Renamed(n, Backup(n)))
  BY NameFacts DEF Slot, Renamed, Known
<1>2. \A k : In(Renamed(n, Backup(n)), k) =
               IF k = Backup(n) THEN In(disk, n) ELSE IF k = n THEN 0 ELSE In(disk, k)
  BY NameFacts DEF In, Renamed
<1> QED BY <1>1, <1>2, NameFacts

LEMMA PutBack ==
  ASSUME SaveSlotConstants, Slot(disk), NEW n \in Own, Backup(n) \in DOMAIN disk
  PROVE  LET d == Renamed(Backup(n), n)
         IN  /\ Slot(d)
             /\ \A k \in Own : /\ In(d, k) = IF k = n THEN In(disk, Backup(n)) ELSE In(disk, k)
                               /\ In(d, Backup(k)) = IF k = n THEN 0 ELSE In(disk, Backup(k))
             /\ In(d, Protos) = In(disk, Protos)
<1>1. Slot(Renamed(Backup(n), n))
  BY NameFacts DEF Slot, Renamed, Known
<1>2. \A k : In(Renamed(Backup(n), n), k) =
               IF k = n THEN In(disk, Backup(n)) ELSE IF k = Backup(n) THEN 0 ELSE In(disk, k)
  BY NameFacts DEF In, Renamed
<1> QED BY <1>1, <1>2, NameFacts

LEMMA Writes ==
  ASSUME SaveSlotConstants, Slot(disk), saves \in Nat, saves > 0, NEW n \in Own \cup {Protos}
  PROVE  LET d == Written(n)
         IN  /\ Slot(d)
             /\ \A k \in Own : /\ In(d, k) = IF k = n THEN saves ELSE In(disk, k)
                               /\ In(d, Backup(k)) = In(disk, Backup(k))
             /\ In(d, Protos) = IF n = Protos THEN saves ELSE In(disk, Protos)
<1>1. saves \in 1..saves
  OBVIOUS
<1>2. Slot(Written(n))
  BY <1>1, NameFacts DEF Slot, Written, Known
<1>3. \A k : In(Written(n), k) = IF k = n THEN saves ELSE In(disk, k)
  BY DEF In, Written
<1> QED BY <1>2, <1>3, NameFacts

LEMMA Removed ==
  ASSUME SaveSlotConstants, Slot(disk), NEW n
  PROVE  LET d == Without(n)
         IN Slot(d) /\ \A k : In(d, k) = IF k = n THEN 0 ELSE In(disk, k)
<1>1. DOMAIN Without(n) = DOMAIN disk \ {n} /\ \A k \in DOMAIN disk \ {n} : Without(n)[k] = disk[k]
  BY DEF Without, Restrict
<1>2. Without(n) = [k \in DOMAIN disk \ {n} |-> disk[k]]
  BY DEF Without, Restrict
<1>3. Slot(Without(n))
  BY <1>1, <1>2 DEF Slot
<1> QED BY <1>1, <1>3 DEF In

LEMMA ShapeTypes ==
  ASSUME SaveSlotConstants, Shape
  PROVE  TypeOK
<1>1. 1..saves \subseteq Version
  BY DEF Shape, Version, SaveSlotConstants
<1>2. DOMAIN disk \subseteq Name /\ Range(disk) \subseteq Version
  BY <1>1, NameFacts DEF Shape, Slot, Range
<1>3. DOMAIN before \subseteq Name /\ Range(before) \subseteq Version
  BY <1>1, NameFacts DEF Shape, Slot, Range
<1>4. DOMAIN loaded \subseteq Name /\ Range(loaded) \subseteq Version
  BY NameFacts DEF Shape, Range
<1> QED BY <1>2, <1>3, <1>4, NameFacts DEF Shape, TypeOK

LEMMA SoundIs ==
  ASSUME SaveSlotConstants, Slot(before), Sound(before)
  PROVE  In(before, Dat) = 0 => \A n \in Own : In(before, n) = 0
BY NameFacts DEF Sound, Loads, In, Slot

-----------------------------------------------------------------------------
(* The restoration *)

LEMMA RestoreFileKeeps ==
  ASSUME SaveSlotConstants, IInv, RestoreFile
  PROVE  IInv'
<1> USE DEF At, Put, Was
<1>1. /\ op = "restore" /\ op' = op
      /\ UNCHANGED <<listed, saves, before, loaded, outcome, kept>>
  BY DEF RestoreFile, notes
<1>2. Shape /\ Progress /\ Undone
  BY DEF IInv
<1>3. PICK n \in Own : /\ Backup(n) \in todo /\ todo' = todo \ {Backup(n)}
                       /\ disk' = Renamed(Backup(n), n)
  <2>1. PICK b \in todo : disk' = Renamed(b, Restored(b)) /\ todo' = todo \ {b}
    BY DEF RestoreFile
  <2>2. b \in Aside
    BY <1>1, <1>2, <2>1 DEF Progress
  <2> QED BY <2>1, <2>2, NameFacts
<1>4. Backup(n) \in DOMAIN disk /\ Backup(n) \in Aside
  BY <1>1, <1>2, <1>3, Versions, NameFacts DEF Progress, Shape
<1>5. /\ Slot(disk)'
      /\ \A k \in Own : /\ In(disk', k) = IF k = n THEN In(disk, Backup(n)) ELSE In(disk, k)
                        /\ In(disk', Backup(k)) = IF k = n THEN 0 ELSE In(disk, Backup(k))
      /\ In(disk', Protos) = In(disk, Protos)
  BY <1>1, <1>2, <1>3, <1>4, PutBack DEF Slot, Shape
<1>6. In(disk, Backup(n)) # 0 /\ In(disk, n) = 0
  BY <1>1, <1>2, <1>3, NameFacts DEF Progress
<1>7. Shape'
  BY <1>1, <1>2, <1>3, <1>5 DEF Shape, Slot
<1>8. Progress'
  BY <1>1, <1>2, <1>3, <1>5, <1>6, NameFacts DEF Progress, Aside
<1>9. Undone'
  <2>1. Sound(before)' = Sound(before)
    BY <1>1 DEF Sound, Loads, Needed
  <2> QED BY <1>1, <1>2, <1>5, <1>6, <2>1 DEF Undone, NoneAside, Back
<1>10. NothingReplaced => Survival'
  BY <1>1, <1>2, <1>5, <1>6, NeedsFacts DEF IInv, Shape, Survival, Safe, Wants
<1>11. NothingMixed => Coherent'
  <2> HAVE NothingMixed
  <2>1. Coherent /\ Mendable /\ In(disk, Dat) # 0 /\ In(disk, Backup(Dat)) = 0 /\ n # Dat
    BY <1>1, <1>2, <1>6, NameFacts DEF IInv, Coherent, Progress
  <2>2. \A k \in Own : FormIn(disk', k) = FormIn(disk, k)
    BY <1>5, <1>6 DEF FormIn
  <2>3. Mendable'
    BY <1>1, <2>1, <2>2, NameFacts, NeedsFacts DEF Mendable, Reads, Wants, Form
  <2>4. In(disk, Dat) > 0 /\ FormIn(disk, Dat) = In(disk, Dat)
        /\ FormIn(disk, n) = In(disk, Backup(n)) /\ In(disk, Backup(n)) # Stuck
    BY <1>2, <1>5, <1>6, <2>1, Versions, NameFacts DEF FormIn, Stuck, Shape
  <2>5. Together'
    <3> SUFFICES ASSUME NEW k \in Own, k \in Needs(listed[In(disk, Dat)]) \cup {Sfallgv}
                 PROVE  In(disk', k) \in {0, In(disk, Dat)}
      BY <1>1, <1>5, <2>1, NameFacts, NeedsFacts DEF Together, Reads, Wants
    <3>1. CASE k = n
      BY <3>1, <1>5, <2>1, <2>4 DEF Mendable, Form, Reads, Wants
    <3>2. CASE k # n
      BY <3>2, <1>5, <2>1 DEF Coherent, Together, Reads, Wants
    <3> QED BY <3>1, <3>2
  <2> QED BY <1>1, <2>3, <2>5 DEF Coherent, Saving
<1>12. NothingMixed => ReadWhole'
  BY <1>1 DEF IInv, ReadWhole
<1> QED BY <1>7, <1>8, <1>9, <1>10, <1>11, <1>12 DEF IInv, NothingReplaced, NothingMixed

LEMMA RestoreDatKeeps ==
  ASSUME SaveSlotConstants, IInv, RestoreDat
  PROVE  IInv'
<1> USE DEF At, Put, Was
<1>1. /\ op = "erase" /\ Files({"DAT", "SAV"}) = {}
      /\ UNCHANGED <<listed, saves, before, loaded, outcome, kept>>
  BY DEF RestoreDat, notes, NoneLeft, Removes
<1>2. Shape /\ Progress /\ Undone /\ (NothingReplaced => Survival) /\ (NothingMixed => Coherent)
  BY DEF IInv
<1>3. \A k \in Own : In(disk, k) = 0
  BY <1>1, <1>2, Picked DEF Shape, Slot, In
<1>4. Sound(before)' = Sound(before)
  BY <1>1 DEF Sound, Loads, Needed
<1>5. NothingMixed => ReadWhole'
  BY <1>1 DEF IInv, ReadWhole
<1>6. CASE Backup(Dat) \in DOMAIN disk
  <2>1. op' = "restore" /\ disk' = Renamed(Backup(Dat), Dat) /\ todo' = Files({"BAK"}) \ {Backup(Dat)}
    BY <1>6 DEF RestoreDat, GoTo
  <2>2. /\ Slot(disk)'
        /\ \A k \in Own : /\ In(disk', k) = IF k = Dat THEN In(disk, Backup(Dat)) ELSE 0
                          /\ In(disk', Backup(k)) = IF k = Dat THEN 0 ELSE In(disk, Backup(k))
        /\ In(disk', Protos) = In(disk, Protos)
    BY <1>1, <1>2, <1>3, <1>6, <2>1, PutBack, NameFacts DEF Slot, Shape
  <2>3. In(disk, Backup(Dat)) \in 1..saves
    BY <1>2, <1>6, Versions DEF Shape
  <2>4. todo' = {n \in Aside : In(disk', n) # 0}
    <3>1. Files({"BAK"}) = {n \in Aside : In(disk, n) # 0}
      BY <1>2, Picked, Versions DEF Shape, Slot
    <3> QED BY <2>1, <2>2, <3>1, NameFacts DEF Aside
  <2>5. Shape'
    BY <1>1, <1>2, <2>1, <2>2, <2>4, NameFacts DEF Shape, Slot, Known, Removes
  <2>6. Progress'
    BY <2>1, <2>2, <2>3, <2>4, NameFacts DEF Progress
  <2>7. Undone'
    BY <1>1, <1>2, <1>3, <1>4, <2>1, <2>2, NameFacts DEF Undone
  <2>8. NothingReplaced => Survival'
    BY <1>1, <1>2, <1>3, <2>1, <2>2, NeedsFacts, NameFacts DEF Shape, Survival, Safe, Wants
  <2>9. NothingMixed => Coherent'
    BY <1>1, <1>2, <2>1, <2>2, <2>3, NeedsFacts, NameFacts
       DEF Coherent, Together, Mendable, Form, FormIn, Saving, Wants, Reads, Stuck
  <2> QED BY <1>5, <2>5, <2>6, <2>7, <2>8, <2>9 DEF IInv, NothingReplaced, NothingMixed
<1>7. CASE Backup(Dat) \notin DOMAIN disk
  <2>1. op' = "wipe" /\ disk' = disk /\ todo' = {}
    BY <1>7 DEF RestoreDat, GoTo
  <2>2. In(disk, Backup(Dat)) = 0
    BY <1>7 DEF In
  <2>3. Shape'
    BY <1>1, <1>2, <2>1 DEF Shape, Slot, Removes
  <2>4. Progress'
    BY <1>3, <2>1, <2>2 DEF Progress
  <2>5. Undone'
    BY <1>1, <1>2, <1>4, <2>1, <2>2, SoundIs, NameFacts DEF Undone, Shape, NoneAside
  <2>6. NothingReplaced => Survival'
    BY <1>1, <1>2, <2>1, <2>2, NeedsFacts, NameFacts DEF Shape, Survival, Safe, Wants
  <2>7. NothingMixed => Coherent'
    BY <1>1, <1>2, <1>3, <2>1, <2>2, NameFacts DEF Coherent, Together, Saving
  <2> QED BY <1>5, <2>3, <2>4, <2>5, <2>6, <2>7 DEF IInv, NothingReplaced, NothingMixed
<1> QED BY <1>6, <1>7

LEMMA RestoreFailsKeeps ==
  ASSUME SaveSlotConstants, IInv, RestoreFails
  PROVE  IInv'
<1> USE DEF At, Put, Was
<1>1. /\ op' = "wipe" /\ todo' = {} /\ outcome' = "lost" /\ kept' = 0 /\ saves > 0 /\ "restore" \in Faults
      /\ UNCHANGED <<disk, listed, saves, before, loaded>>
  BY DEF RestoreFails, GoTo, notes, IInv, Shape
<1>2. Shape /\ Progress /\ Undone /\ (NothingReplaced => Survival) /\ (NothingMixed => Coherent)
  BY DEF IInv
<1>3. Shape'
  BY <1>1, <1>2 DEF Shape, Slot, Removes
<1>4. Progress'
  BY <1>1 DEF Progress
<1>5. Undone'
  BY <1>1 DEF Undone
<1>6. Survival'
  BY <1>1 DEF Survival
<1>7. NothingMixed => Coherent' /\ ReadWhole'
  BY <1>1 DEF IInv, Coherent, Together, Reads, Wants, ReadWhole, Saving
<1> QED BY <1>3, <1>4, <1>5, <1>6, <1>7 DEF IInv, NothingReplaced, NothingMixed

LEMMA RestoreDoneKeeps ==
  ASSUME SaveSlotConstants, IInv, RestoreDone
  PROVE  IInv'
<1> USE DEF At, Put, Was
<1>1. /\ op' = "abandon" /\ todo' = {}
      /\ UNCHANGED <<disk, listed, saves, before, loaded, outcome, kept>>
  BY DEF RestoreDone, GoTo, notes
<1>2. Shape /\ Progress /\ Undone /\ (NothingReplaced => Survival) /\ (NothingMixed => Coherent)
  BY DEF IInv
<1>3. \/ op = "restore" /\ NoneAside /\ In(disk, Dat) # 0
      \/ op = "wipe" /\ \A k \in Own : In(disk, k) = 0
  <2>1. CASE op = "restore" /\ todo = {}
    BY <1>2, <2>1, NameFacts DEF Progress, NoneAside
  <2>2. CASE op = "wipe" /\ Files({"DAT", "SAV"}) = {}
    BY <1>2, <2>2, Picked DEF Shape, Slot, In
  <2> QED BY <2>1, <2>2 DEF RestoreDone, NoneLeft, Removes
<1>4. Sound(before)' = Sound(before)
  BY <1>1 DEF Sound, Loads, Needed
<1>5. Shape'
  BY <1>1, <1>2, <1>3 DEF Shape, Slot, Removes
<1>6. Progress'
  BY <1>1, <1>3, NameFacts DEF Progress, NoneAside
<1>7. Undone'
  BY <1>1, <1>2, <1>3, <1>4 DEF Undone, Back, NoneAside
<1>8. NothingReplaced => Survival'
  BY <1>1, <1>2, <1>3, NeedsFacts DEF Shape, Survival, Safe, Wants, NoneAside
<1>9. NothingMixed => Coherent'
  <2>1. In(disk, Dat) \in 0..saves
    BY <1>2, Versions DEF Shape
  <2> QED BY <1>1, <1>2, <1>3, <2>1, NeedsFacts, NameFacts
       DEF Coherent, Together, Mendable, Form, FormIn, Saving, Wants, Reads, NoneAside
<1>10. NothingMixed => ReadWhole'
  BY <1>1 DEF IInv, ReadWhole
<1> QED BY <1>5, <1>6, <1>7, <1>8, <1>9, <1>10 DEF IInv, NothingReplaced, NothingMixed

LEMMA GivenUpKeeps ==
  ASSUME SaveSlotConstants, IInv, GivenUp
  PROVE  IInv'
<1> USE DEF At, Put, Was
<1>1. /\ op = "abandon" /\ Files({"BAK"}) = {} /\ op' = "idle" /\ todo' = {}
      /\ outcome' = (IF outcome = "lost" THEN "lost" ELSE "failed")
      /\ UNCHANGED <<disk, listed, saves, before, loaded, kept>>
  BY DEF GivenUp, Finish, GoTo, notes, NoneLeft, Removes
<1>2. Shape /\ Progress /\ Undone /\ (NothingReplaced => Survival) /\ (NothingMixed => Coherent)
  BY DEF IInv
<1>3. NoneAside
  BY <1>1, <1>2, Picked, NameFacts DEF Shape, Slot, NoneAside, In
<1>4. Sound(before)' = Sound(before)
  BY <1>1 DEF Sound, Loads, Needed
<1>5. Shape'
  BY <1>1, <1>2 DEF Shape, Slot
<1>6. Progress'
  BY <1>1 DEF Progress
<1>7. Undone'
  BY <1>1, <1>2, <1>4 DEF Undone, Shape, Back, NoneAside
<1>8. NothingReplaced => Survival'
  BY <1>1, <1>2, <1>3 DEF Survival, Safe, Wants, NoneAside
<1>9. NothingMixed => Coherent'
  BY <1>1, <1>2, <1>3, NeedsFacts, NameFacts
     DEF Progress, Coherent, Together, Mendable, Form, FormIn, Saving, Wants, Reads, NoneAside
<1>10. NothingMixed => ReadWhole'
  BY <1>1 DEF IInv, ReadWhole
<1> QED BY <1>5, <1>6, <1>7, <1>8, <1>9, <1>10 DEF IInv, NothingReplaced, NothingMixed

LEMMA RemoveOwnKeeps ==
  ASSUME SaveSlotConstants, IInv, RemoveFile, op \in {"clear", "erase", "wipe"}
  PROVE  IInv'
<1> USE DEF At, Put, Was
<1>1. UNCHANGED <<op, todo, listed, saves, before, loaded, outcome, kept>>
  BY DEF RemoveFile, notes
<1>2. Shape /\ Progress /\ Undone /\ (NothingReplaced => Survival) /\ (NothingMixed => Coherent)
  BY DEF IInv
<1>3. PICK n \in Own : /\ n \in DOMAIN disk /\ disk' = Without(n)
                       /\ op # "clear" /\ Dat \in DOMAIN disk => n = Dat
  <2>1. Files(Removes[op]) = {n \in DOMAIN disk : n \in Own /\ (op = "clear" => n # Dat)}
    <3>1. DOMAIN disk \subseteq Known
      BY <1>2 DEF Shape, Slot
    <3>2. CASE op = "clear"
      BY <3>1, <3>2, Picked DEF Removes
    <3>3. CASE op \in {"erase", "wipe"}
      BY <3>1, <3>3, Picked DEF Removes
    <3> QED BY <3>2, <3>3
  <2>2. PICK n \in Files(Removes[op]) : /\ disk' = Without(n)
                                        /\ Dat \in Files(Removes[op]) => n = Dat
    BY DEF RemoveFile
  <2> QED BY <2>1, <2>2, NameFacts
<1>4. /\ Slot(disk)'
      /\ \A k \in Own : /\ In(disk', k) = IF k = n THEN 0 ELSE In(disk, k)
                        /\ In(disk', Backup(k)) = In(disk, Backup(k))
      /\ In(disk', Protos) = In(disk, Protos)
  BY <1>1, <1>2, <1>3, Removed, NameFacts DEF Shape, Slot
<1>5. In(disk, n) # 0 /\ (op # "clear" /\ In(disk, Dat) # 0 => n = Dat)
  BY <1>2, <1>3, Versions DEF Shape
<1>6. Sound(before)' = Sound(before)
  BY <1>1 DEF Sound, Loads, Needed
<1>7. Shape'
  BY <1>1, <1>2, <1>4 DEF Shape, Slot
<1>8. Progress'
  BY <1>1, <1>2, <1>4, <1>5, NameFacts DEF Progress
<1>9. Undone'
  BY <1>1, <1>2, <1>4, <1>5, <1>6 DEF Undone, Progress
<1>10. NothingReplaced => Survival'
  BY <1>1, <1>2, <1>4, NeedsFacts DEF Survival, Safe, Wants
<1>11. NothingMixed => Coherent'
  BY <1>1, <1>2, <1>4, <1>5, NeedsFacts, NameFacts DEF Progress, Coherent, Together, Saving, Wants, Reads
<1>12. NothingMixed => ReadWhole'
  BY <1>1 DEF IInv, ReadWhole
<1> QED BY <1>7, <1>8, <1>9, <1>10, <1>11, <1>12 DEF IInv, NothingReplaced, NothingMixed

LEMMA RemoveAsideKeeps ==
  ASSUME SaveSlotConstants, IInv, RemoveFile, op \in {"clean", "abandon"}
  PROVE  IInv'
<1> USE DEF At, Put, Was
<1>1. UNCHANGED <<op, todo, listed, saves, before, loaded, outcome, kept>>
  BY DEF RemoveFile, notes
<1>2. Shape /\ Progress /\ Undone /\ (NothingReplaced => Survival) /\ (NothingMixed => Coherent)
  BY DEF IInv
<1>3. PICK n \in Own : Backup(n) \in DOMAIN disk /\ disk' = Without(Backup(n))
  <2>1. Files(Removes[op]) = {k \in DOMAIN disk : k \in Aside}
    <3>1. DOMAIN disk \subseteq Known
      BY <1>2 DEF Shape, Slot
    <3>2. Removes[op] = {"BAK"}
      BY DEF Removes
    <3> QED BY <3>1, <3>2, Picked
  <2>2. PICK b \in Files(Removes[op]) : disk' = Without(b)
    BY DEF RemoveFile
  <2> QED BY <2>1, <2>2 DEF Aside
<1>4. /\ Slot(disk)'
      /\ \A k \in Own : /\ In(disk', k) = In(disk, k)
                        /\ In(disk', Backup(k)) = IF k = n THEN 0 ELSE In(disk, Backup(k))
      /\ In(disk', Protos) = In(disk, Protos)
  BY <1>1, <1>2, <1>3, Removed, NameFacts DEF Shape, Slot
<1>5. In(disk, Backup(n)) # 0
  BY <1>2, <1>3, Versions DEF Shape
<1>6. Sound(before)' = Sound(before)
  BY <1>1 DEF Sound, Loads, Needed
<1>7. Shape'
  BY <1>1, <1>2, <1>4 DEF Shape, Slot
<1>8. Progress'
  BY <1>1, <1>2, <1>4, <1>5, NameFacts, NeedsFacts DEF Progress, Alone, NoneAside, Reads, Wants
<1>9. Undone'
  BY <1>1, <1>2, <1>4, <1>5, <1>6 DEF Undone, Back, NoneAside
<1>10. NothingReplaced => Survival'
  BY <1>1, <1>2, <1>4, NeedsFacts DEF Survival, Safe, Wants
<1>11. NothingMixed => Coherent'
  BY <1>1, <1>2, <1>4, <1>5, NeedsFacts, NameFacts DEF Coherent, Together, Saving, Wants, Reads
<1>12. NothingMixed => ReadWhole'
  BY <1>1 DEF IInv, ReadWhole
<1> QED BY <1>7, <1>8, <1>9, <1>10, <1>11, <1>12 DEF IInv, NothingReplaced, NothingMixed

LEMMA CrashKeeps ==
  ASSUME SaveSlotConstants, IInv, Crash
  PROVE  IInv'
<1> USE DEF At, Put, Was
<1>1. /\ op # "idle" /\ "crash" \in Faults /\ op' = "idle" /\ todo' = {} /\ outcome' = "crashed"
      /\ UNCHANGED <<disk, listed, saves, before, loaded, kept>>
  BY DEF Crash, Finish, GoTo, notes
<1>2. Shape /\ Progress /\ Undone /\ (NothingReplaced => Survival) /\ (NothingMixed => Coherent)
  BY DEF IInv
<1>3. Shape'
  BY <1>1, <1>2 DEF Shape, Slot
<1>4. Progress' /\ Undone'
  BY <1>1 DEF Progress, Undone
<1>5. NothingReplaced => Survival'
  BY <1>1, <1>2 DEF Shape, Removes, Survival, Safe, Wants
<1>6. NothingMixed => Coherent'
  <2> SUFFICES ASSUME NothingMixed, SavesAfterCrash PROVE Mendable
    BY <1>1, <1>2 DEF Coherent, Together, Mendable, Form, FormIn, Saving, Wants, Reads
  <2>1. Coherent /\ outcome = "none" /\ saves \in 1..saves
    BY <1>1, <1>2 DEF Shape, NothingMixed
  <2>2. CASE Saving /\ In(disk, Dat) = 0
    BY <2>1, <2>2, NameFacts, NeedsFacts
       DEF Coherent, Saving, Mendable, Form, FormIn, Stuck, Reads, Wants
  <2>3. CASE op = "clean" \/ (Saving /\ In(disk, Dat) # 0)
    BY <1>2, <2>1, <2>3, NameFacts, NeedsFacts
       DEF Progress, Alone, Coherent, Saving, Mendable, Form, FormIn, Stuck, Reads, Wants
  <2>4. CASE op = "wipe"
    BY <1>2, <2>1, <2>4, NameFacts DEF Progress, Coherent, Mendable, Form, FormIn
  <2>5. CASE op = "abandon"
    BY <1>2, <2>1, <2>5, NameFacts, NeedsFacts
       DEF Progress, NoneAside, Coherent, Together, Mendable, Form, FormIn, Reads, Wants
  <2>6. CASE op \in {"backupDat", "backup", "restore"}
    BY <2>1, <2>6 DEF Coherent
  <2> QED BY <1>1, <1>2, <2>2, <2>3, <2>4, <2>5, <2>6 DEF Shape, Removes, Saving
<1>7. NothingMixed => ReadWhole'
  BY <1>1 DEF IInv, ReadWhole
<1> QED BY <1>3, <1>4, <1>5, <1>6, <1>7 DEF IInv, NothingReplaced, NothingMixed

-----------------------------------------------------------------------------
(* The save *)

LEMMA StartSaveKeeps ==
  ASSUME SaveSlotConstants, IInv, NEW maps \in SUBSET Maps, StartSave(maps)
  PROVE  IInv'
<1> USE DEF At, Put, Was
<1>1. /\ op = "idle" /\ saves < MaxSaves /\ (outcome = "crashed" => SavesAfterCrash)
      /\ op' = "backupDat" /\ todo' = {} /\ saves' = saves + 1 /\ listed' = Append(listed, maps)
      /\ before' = disk /\ outcome' = "none" /\ UNCHANGED <<disk, kept, loaded>>
  BY DEF StartSave, GoTo
<1>2. Shape /\ Progress /\ Undone /\ (NothingReplaced => Survival) /\ (NothingMixed => Coherent)
  BY DEF IInv
<1>3. saves \in Nat /\ MaxSaves \in Nat /\ saves + 1 \in 0..MaxSaves
  BY <1>1, <1>2 DEF Shape, SaveSlotConstants
<1>4. listed' \in [1..saves + 1 -> SUBSET Maps] /\ \A v \in 1..saves : listed'[v] = listed[v]
  <2>1. listed \in Seq(SUBSET Maps) /\ Len(listed) = saves
    BY <1>2, <1>3 DEF Shape
  <2>2. /\ Append(listed, maps) \in Seq(SUBSET Maps) /\ Len(Append(listed, maps)) = saves + 1
        /\ \A v \in 1..saves : Append(listed, maps)[v] = listed[v]
    BY <2>1
  <2>3. listed' \in [1..saves + 1 -> SUBSET Maps]
    <3>1. \A s \in Seq(SUBSET Maps) : s \in [1..Len(s) -> SUBSET Maps]
      OBVIOUS
    <3> QED BY <1>1, <2>2, <3>1
  <2> QED BY <1>1, <2>2, <2>3
<1>5. \A n : In(disk, n) \in 0..saves
  BY <1>2, <1>3, Versions DEF Shape
<1>6. Shape'
  <2>1. \A v \in 1..saves : v \in 1..saves + 1
    BY <1>3
  <2>2. disk \in [DOMAIN disk -> 1..saves + 1] /\ DOMAIN disk \subseteq Known
    BY <1>2, <2>1 DEF Shape, Slot
  <2> QED BY <1>1, <1>2, <1>3, <1>4, <2>2 DEF Shape, Slot, Removes
<1>7. Progress'
  BY <1>1 DEF Progress
<1>8. Undone'
  <2>1. Sound(before)' => NoneAside
    BY <1>1, NameFacts, Extensions DEF Sound, NoneAside, In
  <2> QED BY <1>1, <2>1 DEF Undone, NoneAside
<1>9. NothingReplaced => Survival'
  BY <1>1, <1>2, <1>3, <1>4 DEF Shape, NothingReplaced, Survival, Safe, Wants
<1>10. NothingMixed => Coherent'
  <2> HAVE NothingMixed
  <2>1. Coherent /\ Mendable
    BY <1>1, <1>2 DEF Coherent
  <2>2. Together'
    BY <1>1, <1>3, <1>4, <1>5, <2>1 DEF Coherent, Together, Reads, Wants
  <2>3. FormIn(disk, Dat) > 0 => FormIn(disk, Dat) \in 1..saves
    BY <1>3, <1>5 DEF FormIn, Stuck
  <2>4. Mendable'
    BY <1>1, <1>3, <1>4, <2>1, <2>3 DEF Mendable, Form, Reads, Wants
  <2> QED BY <1>1, <2>2, <2>4 DEF Coherent, Saving
<1>11. NothingMixed => ReadWhole'
  BY <1>1 DEF IInv, ReadWhole
<1> QED BY <1>6, <1>7, <1>8, <1>9, <1>10, <1>11 DEF IInv, NothingReplaced, NothingMixed

\* A file of the slot is set aside: BackupDat and BackupFile.
LEMMA SetAsideKeeps ==
  ASSUME SaveSlotConstants, IInv, NEW n \in Own, n \in DOMAIN disk, Renames(n, Backup(n)),
         op \in {"backupDat", "backup"}, op' = "backup", disk' = Renamed(n, Backup(n)),
         op = "backupDat" => n = Dat, todo' = Files({"SAV"}) \ {n},
         UNCHANGED <<listed, saves, before, loaded, outcome, kept>>
  PROVE  IInv'
<1> USE DEF At, Put, Was
<1>1. Shape /\ Progress /\ Undone /\ (NothingReplaced => Survival) /\ (NothingMixed => Coherent)
  BY DEF IInv
<1>2. /\ Slot(disk)'
      /\ \A k \in Own : /\ In(disk', k) = IF k = n THEN 0 ELSE In(disk, k)
                        /\ In(disk', Backup(k)) = IF k = n THEN In(disk, n) ELSE In(disk, Backup(k))
      /\ In(disk', Protos) = In(disk, Protos)
  BY <1>1, SetAside DEF Shape, Slot
<1>3. In(disk, n) \in 1..saves
  BY <1>1, Versions DEF Shape
<1>4. NothingReplaced => In(disk, Backup(n)) = 0
  BY <1>1, <1>3 DEF Survival, Renames, In
<1>5. In(disk', Dat) = 0
  BY <1>1, <1>2, NameFacts DEF Progress
<1>6. todo' = {k \in Own : In(disk', k) # 0}
  <2>1. Files({"SAV"}) = {k \in Own : In(disk, k) # 0 /\ k # Dat}
    BY <1>1, Picked, Versions, NameFacts DEF Shape, Slot, Known
  <2> QED BY <1>2, <1>5, <2>1
<1>7. Sound(before)' = Sound(before)
  BY DEF Sound, Loads, Needed
<1>8. Shape'
  BY <1>1, <1>2, <1>6, NameFacts DEF Shape, Slot, Removes, Known
<1>9. Progress'
  BY <1>5, <1>6 DEF Progress
<1>10. Undone'
  BY <1>1, <1>2, <1>3, <1>7 DEF Undone, NoneAside
<1>11. NothingReplaced => Survival'
  BY <1>1, <1>2, <1>3, <1>4, NeedsFacts DEF Survival, Safe, Wants, Shape
<1>12. NothingMixed => Coherent'
  <2> HAVE NothingMixed
  <2>1. In(disk, Backup(n)) = 0 /\ Mendable
    BY <1>1, <1>4 DEF NothingMixed, NothingReplaced, Coherent
  <2>2. \A k \in Own : FormIn(disk', k) = FormIn(disk, k)
    BY <1>2, <1>3, <2>1 DEF FormIn
  <2>3. Mendable'
    BY <2>1, <2>2, NameFacts, NeedsFacts DEF Mendable, Reads, Wants, Form
  <2> QED BY <1>5, <2>3 DEF Coherent, Together, Saving
<1>13. NothingMixed => ReadWhole'
  BY DEF IInv, ReadWhole
<1> QED BY <1>8, <1>9, <1>10, <1>11, <1>12, <1>13 DEF IInv, NothingReplaced, NothingMixed

LEMMA BackupDatKeeps ==
  ASSUME SaveSlotConstants, IInv, BackupDat
  PROVE  IInv'
<1> USE DEF At, Put, Was
<1>1. /\ op = "backupDat" /\ op' = "backup" /\ todo' = Files({"SAV"})
      /\ UNCHANGED <<listed, saves, before, loaded, outcome, kept>>
  BY DEF BackupDat, GoTo, notes
<1>2. Shape /\ Progress /\ Undone /\ (NothingReplaced => Survival) /\ (NothingMixed => Coherent)
  BY DEF IInv
<1>3. Files({"SAV"}) = {k \in Own : In(disk, k) # 0 /\ k # Dat}
  BY <1>2, Picked, Versions, NameFacts DEF Shape, Slot, Known
<1>4. CASE Dat \in DOMAIN disk
  <2>1. todo' = Files({"SAV"}) \ {Dat}
    BY <1>1, <1>3
  <2> QED BY <1>1, <1>4, <2>1, NameFacts, SetAsideKeeps DEF BackupDat
<1>5. CASE Dat \notin DOMAIN disk
  <2>1. disk' = disk /\ In(disk, Dat) = 0
    BY <1>5 DEF BackupDat, In
  <2>2. Sound(before)' = Sound(before)
    BY <1>1 DEF Sound, Loads, Needed
  <2>3. Shape'
    BY <1>1, <1>2, <1>3, <2>1 DEF Shape, Slot, Removes, Known
  <2>4. Progress'
    BY <1>1, <1>3, <2>1 DEF Progress
  <2>5. Undone'
    BY <1>1, <1>2, <2>1, <2>2 DEF Undone, NoneAside
  <2>6. NothingReplaced => Survival'
    BY <1>1, <1>2, <2>1 DEF Survival, Safe, Wants
  <2>7. NothingMixed => Coherent' /\ ReadWhole'
    BY <1>1, <1>2, <2>1 DEF IInv, Coherent, Together, Mendable, Form, Saving, Reads, Wants, ReadWhole
  <2> QED BY <2>3, <2>4, <2>5, <2>6, <2>7 DEF IInv, NothingReplaced, NothingMixed
<1> QED BY <1>4, <1>5

LEMMA BackupFileKeeps ==
  ASSUME SaveSlotConstants, IInv, BackupFile
  PROVE  IInv'
<1> USE DEF At, Put, Was
<1>1. /\ op = "backup" /\ op' = "backup"
      /\ UNCHANGED <<listed, saves, before, loaded, outcome, kept>>
  BY DEF BackupFile, notes
<1>2. Shape /\ Progress /\ Undone /\ (NothingReplaced => Survival) /\ (NothingMixed => Coherent)
  BY DEF IInv
<1>3. todo = {k \in Own : In(disk, k) # 0} /\ In(disk, Dat) = 0
  BY <1>1, <1>2 DEF Progress
<1>4. PICK n \in todo : /\ todo' = todo \ {n} /\ Renames(n, Backup(n))
                        /\ disk' = Renamed(n, Backup(n))
  BY DEF BackupFile, BacksUp
<1>5. n \in Own /\ n \in DOMAIN disk
  BY <1>2, <1>3, Versions DEF Shape
<1>6. todo = Files({"SAV"})
  BY <1>2, <1>3, Picked, Versions, NameFacts DEF Shape, Slot, Known
<1> QED BY <1>1, <1>4, <1>5, <1>6, SetAsideKeeps

LEMMA BackupFailsKeeps ==
  ASSUME SaveSlotConstants, IInv, BackupFails
  PROVE  IInv'
<1> USE DEF At, Put, Was
<1>1. /\ op \in {"backupDat", "backup"} /\ op' = "idle" /\ todo' = {} /\ outcome' = "refused"
      /\ UNCHANGED <<disk, listed, saves, before, loaded, kept>>
  BY DEF BackupFails, Finish, GoTo, notes
<1>2. Shape /\ Progress /\ Undone /\ (NothingReplaced => Survival) /\ (NothingMixed => Coherent)
  BY DEF IInv
<1>3. Shape'
  BY <1>1, <1>2 DEF Shape, Slot
<1>4. Progress' /\ Undone'
  BY <1>1 DEF Progress, Undone
<1>5. NothingReplaced => Survival'
  BY <1>1, <1>2 DEF Survival, Safe, Wants
<1>6. NothingMixed => Coherent' /\ ReadWhole'
  BY <1>1, <1>2 DEF IInv, Coherent, Together, Mendable, Form, Saving, Reads, Wants, ReadWhole
<1> QED BY <1>3, <1>4, <1>5, <1>6 DEF IInv, NothingReplaced, NothingMixed

\* What the backups say once the slot is to be written, or to be erased.
LEMMA WritingIsCoherent ==
  ASSUME SaveSlotConstants, Shape, Coherent, op = "backup", \A n \in Own : At(n) = 0,
         op' \in {"protos", "erase"}, disk' = disk, listed' = listed, outcome' = outcome
  PROVE  Coherent'
<1> USE DEF At, Put
<1>1. \A n \in Own : Form(n) = In(disk, Backup(n))
  BY DEF Form, FormIn
<1>2. Mendable
  BY DEF Coherent
<1>3. \A n \in Own : In(disk, Backup(n)) \in 0..saves
  BY Versions DEF Shape
<1> QED BY <1>1, <1>2, <1>3, NameFacts, NeedsFacts
     DEF Coherent, Together, Mendable, Form, FormIn, Saving, Stuck, Wants, Reads

LEMMA WriteHeadKeeps ==
  ASSUME SaveSlotConstants, IInv, WriteHead
  PROVE  IInv'
<1> USE DEF At, Put, Was
<1>1. /\ op = "backup" /\ todo = {} /\ op' = "protos" /\ todo' = {}
      /\ UNCHANGED <<disk, listed, saves, before, loaded, outcome, kept>>
  BY DEF WriteHead, GoTo, notes
<1>2. Shape /\ Progress /\ Undone /\ (NothingReplaced => Survival) /\ (NothingMixed => Coherent)
  BY DEF IInv
<1>3. \A n \in Own : In(disk, n) = 0
  BY <1>1, <1>2 DEF Progress
<1>4. Sound(before)' = Sound(before)
  BY <1>1 DEF Sound, Loads, Needed
<1>5. Shape'
  BY <1>1, <1>2 DEF Shape, Slot
<1>6. Progress'
  BY <1>1, <1>3, NameFacts DEF Progress
<1>7. Undone'
  BY <1>1, <1>2, <1>3, <1>4 DEF Undone
<1>8. NothingReplaced => Survival'
  BY <1>1, <1>2, <1>3, NeedsFacts DEF Survival, Safe, Wants, Shape
<1>9. NothingMixed => Coherent'
  BY <1>1, <1>2, <1>3, WritingIsCoherent
<1>10. NothingMixed => ReadWhole'
  BY <1>1 DEF IInv, ReadWhole
<1> QED BY <1>5, <1>6, <1>7, <1>8, <1>9, <1>10 DEF IInv, NothingReplaced, NothingMixed

LEMMA CopyProtosKeeps ==
  ASSUME SaveSlotConstants, IInv, CopyProtos
  PROVE  IInv'
<1> USE DEF At, Put, Was
<1>1. /\ op = "protos" /\ op' = "clear" /\ todo' = {} /\ disk' = Written(Protos)
      /\ UNCHANGED <<listed, saves, before, loaded, outcome, kept>>
  BY DEF CopyProtos, GoTo, notes
<1>2. Shape /\ Progress /\ Undone /\ (NothingReplaced => Survival) /\ (NothingMixed => Coherent)
  BY DEF IInv
<1>3. /\ Slot(disk)' /\ In(disk', Protos) = saves
      /\ \A k \in Own : In(disk', k) = In(disk, k) /\ In(disk', Backup(k)) = In(disk, Backup(k))
  BY <1>1, <1>2, Writes, NameFacts DEF Shape, Slot
<1>4. Sound(before)' = Sound(before)
  BY <1>1 DEF Sound, Loads, Needed
<1>5. Shape'
  BY <1>1, <1>2, <1>3 DEF Shape, Slot, Removes
<1>6. Progress'
  BY <1>1, <1>2, <1>3, NameFacts DEF Progress
<1>7. Undone'
  BY <1>1, <1>2, <1>3, <1>4 DEF Undone
<1>8. NothingReplaced => Survival'
  BY <1>1, <1>2, <1>3, NeedsFacts DEF Survival, Safe, Wants
<1>9. NothingMixed => Coherent'
  BY <1>1, <1>2, <1>3, NameFacts, NeedsFacts DEF Progress, Coherent, Together, Saving, Reads, Wants
<1>10. NothingMixed => ReadWhole'
  BY <1>1 DEF IInv, ReadWhole
<1> QED BY <1>5, <1>6, <1>7, <1>8, <1>9, <1>10 DEF IInv, NothingReplaced, NothingMixed

LEMMA StartCopyKeeps ==
  ASSUME SaveSlotConstants, IInv, StartCopy
  PROVE  IInv'
<1> USE DEF At, Put, Was
<1>1. /\ op = "clear" /\ op' = "copy" /\ todo' = {MapFile(m) : m \in listed[saves]} \cup {Automap}
      /\ UNCHANGED <<disk, listed, saves, before, loaded, outcome, kept>>
  BY DEF StartCopy, GoTo, notes
<1>2. Shape /\ Progress /\ Undone /\ (NothingReplaced => Survival) /\ (NothingMixed => Coherent)
  BY DEF IInv
<1>3. todo' = Wants(saves) \ {Dat}
  <2>1. listed[saves] \subseteq Maps
    BY <1>1, <1>2 DEF Shape
  <2> QED BY <1>1, <2>1, NameFacts DEF Wants, Needs
<1>4. Sound(before)' = Sound(before)
  BY <1>1 DEF Sound, Loads, Needed
<1>5. Shape'
  BY <1>1, <1>2, <1>3, NeedsFacts DEF Shape, Slot, Wants, Known
<1>6. Progress'
  BY <1>1, <1>2, <1>3, NameFacts DEF Progress, Alone, Wants
<1>7. Undone'
  BY <1>1, <1>2, <1>4 DEF Undone
<1>8. NothingReplaced => Survival'
  BY <1>1, <1>2 DEF Survival, Safe, Wants
<1>9. NothingMixed => Coherent'
  BY <1>1, <1>2 DEF Coherent, Together, Saving, Reads, Wants
<1>10. NothingMixed => ReadWhole'
  BY <1>1 DEF IInv, ReadWhole
<1> QED BY <1>5, <1>6, <1>7, <1>8, <1>9, <1>10 DEF IInv, NothingReplaced, NothingMixed

LEMMA CopyFileKeeps ==
  ASSUME SaveSlotConstants, IInv, CopyFile
  PROVE  IInv'
<1> USE DEF At, Put, Was
<1>1. /\ op = "copy" /\ op' = "copy"
      /\ UNCHANGED <<listed, saves, before, loaded, outcome, kept>>
  BY DEF CopyFile, notes
<1>2. Shape /\ Progress /\ Undone /\ (NothingReplaced => Survival) /\ (NothingMixed => Coherent)
  BY DEF IInv
<1>3. PICK n \in todo : disk' = Written(n) /\ todo' = todo \ {n}
  BY DEF CopyFile
<1>4. n \in Own /\ n # Dat /\ n # Sfallgv /\ n \in Wants(saves)
  BY <1>1, <1>2, <1>3, NeedsFacts DEF Progress, Wants
<1>5. /\ Slot(disk)' /\ In(disk', Protos) = In(disk, Protos)
      /\ \A k \in Own : /\ In(disk', k) = IF k = n THEN saves ELSE In(disk, k)
                        /\ In(disk', Backup(k)) = In(disk, Backup(k))
  BY <1>1, <1>2, <1>3, <1>4, Writes, NameFacts DEF Shape, Slot
<1>6. Sound(before)' = Sound(before)
  BY <1>1 DEF Sound, Loads, Needed
<1>7. Shape'
  BY <1>1, <1>2, <1>3, <1>5 DEF Shape, Slot
<1>8. Progress'
  BY <1>1, <1>2, <1>3, <1>4, <1>5, NameFacts DEF Progress, Alone, Wants
<1>9. Undone'
  BY <1>1, <1>2, <1>5, <1>6 DEF Undone
<1>10. NothingReplaced => Survival'
  BY <1>1, <1>2, <1>5, NeedsFacts DEF Survival, Safe, Wants
<1>11. NothingMixed => Coherent'
  BY <1>1, <1>2, <1>4, <1>5, NameFacts, NeedsFacts DEF Progress, Coherent, Together, Saving, Reads, Wants
<1>12. NothingMixed => ReadWhole'
  BY <1>1 DEF IInv, ReadWhole
<1> QED BY <1>7, <1>8, <1>9, <1>10, <1>11, <1>12 DEF IInv, NothingReplaced, NothingMixed

LEMMA CommitKeeps ==
  ASSUME SaveSlotConstants, IInv, Commit
  PROVE  IInv'
<1> USE DEF At, Put, Was
<1>1. /\ op = "copy" /\ todo = {} /\ op' = "sfall" /\ todo' = {} /\ disk' = Written(Dat)
      /\ UNCHANGED <<listed, saves, before, loaded, outcome, kept>>
  BY DEF Commit, GoTo, notes
<1>2. Shape /\ Progress /\ Undone /\ (NothingReplaced => Survival) /\ (NothingMixed => Coherent)
  BY DEF IInv
<1>3. /\ Slot(disk)' /\ In(disk', Protos) = In(disk, Protos)
      /\ \A k \in Own : /\ In(disk', k) = IF k = Dat THEN saves ELSE In(disk, k)
                        /\ In(disk', Backup(k)) = In(disk, Backup(k))
  BY <1>1, <1>2, Writes, NameFacts DEF Shape, Slot
<1>4. \A k \in Own : In(disk', k) = IF k \in Wants(saves) THEN saves ELSE 0
  BY <1>1, <1>2, <1>3, NeedsFacts DEF Progress, Alone, Wants
<1>5. Sound(before)' = Sound(before)
  BY <1>1 DEF Sound, Loads, Needed
<1>6. Shape'
  BY <1>1, <1>2, <1>3 DEF Shape, Slot, Removes
<1>7. Progress'
  BY <1>1, <1>2, <1>3, <1>4 DEF Progress, Alone, Wants
<1>8. Undone'
  BY <1>1, <1>2, <1>3, <1>5 DEF Undone
<1>9. NothingReplaced => Survival'
  BY <1>1, <1>2, <1>3, NeedsFacts DEF Survival, Safe, Wants
<1>10. NothingMixed => Coherent'
  BY <1>1, <1>2, <1>3, <1>4, NameFacts, NeedsFacts DEF Coherent, Together, Saving, Reads, Wants
<1>11. NothingMixed => ReadWhole'
  BY <1>1 DEF IInv, ReadWhole
<1> QED BY <1>6, <1>7, <1>8, <1>9, <1>10, <1>11 DEF IInv, NothingReplaced, NothingMixed

LEMMA CommitSfallKeeps ==
  ASSUME SaveSlotConstants, IInv, CommitSfall
  PROVE  IInv'
<1> USE DEF At, Put, Was
<1>1. /\ op = "sfall" /\ op' = "clean" /\ todo' = {} /\ disk' = Written(Sfallgv)
      /\ UNCHANGED <<listed, saves, before, loaded, outcome, kept>>
  BY DEF CommitSfall, GoTo, notes
<1>2. Shape /\ Progress /\ Undone /\ (NothingReplaced => Survival) /\ (NothingMixed => Coherent)
  BY DEF IInv
<1>3. /\ Slot(disk)' /\ In(disk', Protos) = In(disk, Protos)
      /\ \A k \in Own : In(disk', k) = IF k = Sfallgv THEN saves ELSE In(disk, k)
  BY <1>1, <1>2, Writes, NameFacts DEF Shape, Slot
<1>4. \A k \in Own : In(disk', k) = IF k \in Wants(saves) \cup {Sfallgv} THEN saves ELSE 0
  BY <1>1, <1>2, <1>3 DEF Progress, Alone
<1>5. Shape'
  BY <1>1, <1>2, <1>3 DEF Shape, Slot, Removes
<1>6. Progress'
  BY <1>1, <1>2, <1>3, <1>4 DEF Progress, Alone, Reads, Wants
<1>7. Undone'
  BY <1>1 DEF Undone
<1>8. NothingReplaced => Survival'
  <2>1. saves \in kept..saves
    BY <1>2 DEF Shape
  <2> QED BY <1>1, <1>4, <2>1, NeedsFacts DEF Survival, Safe, Wants
<1>9. NothingMixed => Coherent'
  BY <1>1, <1>2, <1>4, NameFacts, NeedsFacts DEF Coherent, Together, Saving, Reads, Wants
<1>10. NothingMixed => ReadWhole'
  BY <1>1 DEF IInv, ReadWhole
<1> QED BY <1>5, <1>6, <1>7, <1>8, <1>9, <1>10 DEF IInv, NothingReplaced, NothingMixed

LEMMA WriteFailsKeeps ==
  ASSUME SaveSlotConstants, IInv, WriteFails
  PROVE  IInv'
<1> USE DEF At, Put, Was
<1>1. /\ op' = "erase" /\ todo' = {}
      /\ UNCHANGED <<disk, listed, saves, before, loaded, outcome, kept>>
      /\ (op = "backup" /\ todo = {}) \/ op \in {"protos", "clear", "copy", "sfall"}
  BY DEF WriteFails, GoTo, notes
<1>2. Shape /\ Progress /\ Undone /\ (NothingReplaced => Survival) /\ (NothingMixed => Coherent)
  BY DEF IInv
<1>3. op = "backup" => \A n \in Own : In(disk, n) = 0
  BY <1>1, <1>2 DEF Progress
<1>4. Sound(before)' = Sound(before)
  BY <1>1 DEF Sound, Loads, Needed
<1>5. Shape'
  BY <1>1, <1>2 DEF Shape, Slot, Removes
<1>6. Progress'
  BY <1>1, <1>2, <1>3, NameFacts DEF Progress, Alone, Wants
<1>7. Undone'
  BY <1>1, <1>2, <1>3, <1>4 DEF Undone
<1>8. NothingReplaced => Survival'
  BY <1>1, <1>2, <1>3, NeedsFacts DEF Survival, Safe, Wants, Shape
<1>9. NothingMixed => Coherent'
  <2>1. CASE op = "backup"
    BY <1>1, <1>2, <1>3, <2>1, WritingIsCoherent
  <2>2. CASE op # "backup"
    BY <1>1, <1>2, <2>2 DEF Coherent, Together, Saving, Reads, Wants
  <2> QED BY <2>1, <2>2
<1>10. NothingMixed => ReadWhole'
  BY <1>1 DEF IInv, ReadWhole
<1> QED BY <1>5, <1>6, <1>7, <1>8, <1>9, <1>10 DEF IInv, NothingReplaced, NothingMixed

LEMMA SavedKeeps ==
  ASSUME SaveSlotConstants, IInv, Saved
  PROVE  IInv'
<1> USE DEF At, Put, Was
<1>1. /\ op = "clean" /\ Files({"BAK"}) = {} /\ op' = "idle" /\ todo' = {} /\ outcome' = "saved"
      /\ kept' = saves /\ UNCHANGED <<disk, listed, saves, before, loaded>>
  BY DEF Saved, Finish, GoTo, notes, NoneLeft, Removes
<1>2. Shape /\ Progress /\ Undone /\ (NothingReplaced => Survival) /\ (NothingMixed => Coherent)
  BY DEF IInv
<1>3. NoneAside
  BY <1>1, <1>2, Picked, NameFacts DEF Shape, Slot, NoneAside, In
<1>4. saves \in Nat /\ saves > 0 /\ \A k \in Own : In(disk, k) = IF k \in Reads(saves) THEN saves ELSE 0
  BY <1>1, <1>2 DEF Shape, Progress, Alone
<1>5. Shape'
  BY <1>1, <1>2, <1>4 DEF Shape, Slot
<1>6. Progress'
  BY <1>1, <1>2, <1>3 DEF Progress, Alone, NoneAside, Reads, Wants
<1>7. Undone'
  BY <1>1 DEF Undone
<1>8. NothingReplaced => Survival'
  <2>1. saves \in kept'..saves
    BY <1>1, <1>4
  <2> QED BY <1>1, <1>3, <1>4, <2>1, NeedsFacts DEF Survival, Safe, Reads, Wants, NoneAside
<1>9. NothingMixed => Coherent'
  BY <1>1, <1>2, <1>3, <1>4, NameFacts, NeedsFacts
     DEF Coherent, Together, Mendable, Form, FormIn, Saving, Reads, Wants, NoneAside
<1>10. NothingMixed => ReadWhole'
  BY <1>1 DEF IInv, ReadWhole
<1> QED BY <1>5, <1>6, <1>7, <1>8, <1>9, <1>10 DEF IInv, NothingReplaced, NothingMixed

-----------------------------------------------------------------------------
(* The load *)

\* A step that leaves everything but what was loaded, or that leaves everything.
LEMMA LoadLeaves ==
  ASSUME SaveSlotConstants, IInv, UNCHANGED <<disk, listed, op, todo, saves, before, outcome, kept>>,
         loaded' \in [DOMAIN loaded' -> Version], DOMAIN loaded' \subseteq Known,
         NothingMixed => ReadWhole'
  PROVE  IInv'
<1> USE DEF At, Put, Was
<1>1. Shape /\ Progress /\ Undone /\ (NothingReplaced => Survival) /\ (NothingMixed => Coherent)
  BY DEF IInv
<1>2. Sound(before)' = Sound(before)
  BY DEF Sound, Loads, Needed
<1>3. Shape'
  BY <1>1 DEF Shape, Slot, Version
<1>4. Progress'
  BY <1>1 DEF Progress, Alone, NoneAside, Reads, Wants
<1>5. Undone'
  BY <1>1, <1>2 DEF Undone, Back, NoneAside
<1>6. NothingReplaced => Survival'
  BY <1>1 DEF Survival, Safe, Wants
<1>7. NothingMixed => Coherent'
  BY <1>1 DEF Coherent, Together, Mendable, Form, Saving, Reads, Wants
<1> QED BY <1>3, <1>4, <1>5, <1>6, <1>7 DEF IInv, NothingReplaced, NothingMixed

LEMMA LoadKeeps ==
  ASSUME SaveSlotConstants, IInv, Load
  PROVE  IInv'
<1> USE DEF At, Put, Was
<1>1. Shape /\ Progress /\ Undone /\ (NothingReplaced => Survival) /\ (NothingMixed => Coherent)
  BY DEF IInv
<1>2. disk' = disk
  BY <1>1, NameFacts DEF Load, Readable, Shape, Slot
<1>3. UNCHANGED <<listed, op, todo, saves, before, outcome, kept>>
  BY DEF Load
<1>4. Sound(before)' = Sound(before)
  BY <1>3 DEF Sound, Loads, Needed
<1>5. CASE ~Loads(disk')
  <2>1. loaded' = << >> /\ DOMAIN loaded' = {}
    BY <1>5 DEF Load
  <2>2. loaded' \in [DOMAIN loaded' -> Version] /\ DOMAIN loaded' \subseteq Known
    BY <2>1
  <2>3. ReadWhole'
    BY <2>1 DEF ReadWhole
  <2> QED BY <1>1, <1>2, <1>3, <2>2, <2>3, LoadLeaves
<1>6. CASE Loads(disk')
  <2> DEFINE names == Needed(disk') \cup ({Sfallgv} \cap DOMAIN disk')
  <2>2. loaded' = Restrict(disk', names) /\ names \subseteq DOMAIN disk /\ Dat \in DOMAIN disk
    BY <1>2, <1>6 DEF Load, Loads
  <2>3. loaded' = [n \in names |-> disk[n]]
    BY <1>2, <2>2 DEF Restrict
  <2>4. loaded' \in [DOMAIN loaded' -> Version] /\ DOMAIN loaded' \subseteq Known
    <3>1. \A n \in DOMAIN disk : disk[n] \in Version
      BY <1>1 DEF Shape, Slot, Version, SaveSlotConstants
    <3>2. names \subseteq Known
      BY <1>1, <2>2 DEF Shape, Slot
    <3> HIDE DEF names
    <3> QED BY <2>2, <2>3, <3>1, <3>2
  <2>5. NothingMixed => ReadWhole'
    <3> HAVE NothingMixed
    <3>1. In(disk, Dat) \in 1..saves /\ disk[Dat] = In(disk, Dat)
      BY <1>1, <2>2, Versions DEF Shape, In
    <3>2. listed[disk[Dat]] \subseteq Maps
      BY <1>1, <3>1 DEF Shape
    <3>3. names \ {Protos} \subseteq Reads(In(disk, Dat))
      BY <1>2, <1>3, <3>1, <3>2 DEF Needed, Reads, Wants, Needs
    <3>4. \A n \in Reads(In(disk, Dat)) : n \in DOMAIN disk => disk[n] = In(disk, Dat)
      BY <1>1, <3>1, Versions DEF Shape, Coherent, Together, In
    <3> HIDE DEF names
    <3> QED BY <2>2, <2>3, <3>3, <3>4 DEF ReadWhole
  <2> HIDE DEF names
  <2> QED BY <1>1, <1>2, <1>3, <2>4, <2>5, LoadLeaves
<1> QED BY <1>5, <1>6

-----------------------------------------------------------------------------
(* The theorems *)

LEMMA InitIInv ==
  ASSUME SaveSlotConstants, SlotInit
  PROVE  IInv
<1> USE DEF At, Put, Was
<1>1. DOMAIN << >> = {} /\ \A n : In(<< >>, n) = 0
  BY DEF In
<1>2. Shape
  BY <1>1 DEF SlotInit, Shape, Slot, SaveSlotConstants
<1>3. Progress /\ Undone
  BY DEF SlotInit, Progress, Undone
<1>4. Survival
  BY <1>1 DEF SlotInit, Survival
<1>5. Coherent
  BY <1>1 DEF SlotInit, Coherent, Together, Mendable, Form, FormIn, Saving
<1>6. ReadWhole
  BY <1>1 DEF SlotInit, ReadWhole
<1> QED BY <1>2, <1>3, <1>4, <1>5, <1>6 DEF IInv

LEMMA NextIInv ==
  ASSUME SaveSlotConstants, IInv, [SlotNext]_slotVars
  PROVE  IInv'
<1>1. CASE RemoveFile
  <2>1. op \in {"clear", "erase", "wipe"} \/ op \in {"clean", "abandon"}
    BY <1>1 DEF RemoveFile, Removing, Removes
  <2> QED BY <1>1, <2>1, RemoveOwnKeeps, RemoveAsideKeeps
<1>2. CASE UNCHANGED slotVars
  BY <1>2, LoadLeaves DEF slotVars, IInv, Shape, ReadWhole
<1> QED BY <1>1, <1>2, StartSaveKeeps, BackupDatKeeps, BackupFileKeeps, BackupFailsKeeps, WriteHeadKeeps,
       CopyProtosKeeps, StartCopyKeeps, CopyFileKeeps, CommitKeeps, CommitSfallKeeps, WriteFailsKeeps,
       SavedKeeps, RestoreDatKeeps, RestoreFileKeeps, RestoreFailsKeeps, RestoreDoneKeeps, GivenUpKeeps,
       CrashKeeps, LoadKeeps DEF SlotNext

LEMMA SpecIInv ==
  ASSUME SaveSlotConstants
  PROVE  SlotSpec => []IInv
<1>1. SlotInit => IInv
  BY InitIInv
<1>2. IInv /\ [SlotNext]_slotVars => IInv'
  BY NextIInv
<1> QED BY <1>1, <1>2, PTL DEF SlotSpec

\* A save that fails once its backup is made leaves a sound slot as it was, but
\* for the prototypes, and one that succeeds leaves exactly its own files.
THEOREM SpecAllOrNothing ==
  ASSUME SaveSlotConstants
  PROVE  SlotSpec => []AllOrNothing
<1>1. IInv => AllOrNothing
  <2> USE DEF At, Put, Was
  <2> SUFFICES ASSUME IInv PROVE AllOrNothing
    OBVIOUS
  <2>1. Shape /\ Progress /\ Undone
    BY DEF IInv
  <2>2. ASSUME op = "idle", outcome = "failed", Sound(before)
        PROVE  ButProtos(disk) = ButProtos(before)
    <3>1. NoneAside /\ \A n \in Own : In(disk, n) = In(before, n)
      BY <2>1, <2>2 DEF Undone, Back
    <3>2. \A n \in Own : In(before, Backup(n)) = 0
      BY <2>1, <2>2, NameFacts, Extensions DEF Sound, In
    <3>3. \A n \in Known \ {Protos} : In(disk, n) = In(before, n)
      BY <3>1, <3>2 DEF NoneAside, Known, Aside
    <3>4. /\ \A n : In(disk, n) # 0 <=> n \in DOMAIN disk
          /\ \A n : In(before, n) # 0 <=> n \in DOMAIN before
      BY <2>1 DEF Shape, Slot, In
    <3>5. DOMAIN disk \ {Protos} = DOMAIN before \ {Protos}
      BY <2>1, <3>3, <3>4 DEF Shape, Slot
    <3>6. \A n \in DOMAIN disk \ {Protos} : disk[n] = before[n]
      BY <2>1, <3>3, <3>5 DEF Shape, Slot, In
    <3>7. /\ ButProtos(disk) = [n \in DOMAIN disk \ {Protos} |-> disk[n]]
          /\ ButProtos(before) = [n \in DOMAIN before \ {Protos} |-> before[n]]
      BY DEF ButProtos, Restrict
    <3> QED BY <3>5, <3>6, <3>7
  <2>3. ASSUME op = "idle", outcome = "saved"
        PROVE  /\ DOMAIN disk = {Dat, Automap, Sfallgv, Protos} \cup {MapFile(m) : m \in listed[saves]}
               /\ Range(disk) = {saves}
    <3>1. Alone(saves, Reads(saves)) /\ NoneAside /\ In(disk, Protos) = saves
      BY <2>1, <2>3 DEF Progress
    <3>2. saves \in 1..saves /\ listed[saves] \subseteq Maps
      <4>1. saves # 0
        BY <2>1, <2>3 DEF Shape
      <4> QED BY <2>1, <4>1 DEF Shape
    <3>3. Reads(saves) = {Dat, Automap, Sfallgv} \cup {MapFile(m) : m \in listed[saves]}
      BY <3>2 DEF Reads, Wants, Needs
    <3>4. \A n : In(disk, n) # 0 <=> n \in DOMAIN disk
      BY <2>1 DEF Shape, Slot, In
    <3>5. \A n \in DOMAIN disk : In(disk, n) = saves /\ n \in Reads(saves) \cup {Protos}
      BY <2>1, <3>1, <3>2, <3>4 DEF Shape, Slot, Known, Aside, Alone, NoneAside
    <3>6. Reads(saves) \cup {Protos} \subseteq DOMAIN disk
      BY <3>1, <3>2, <3>4, NameFacts, NeedsFacts DEF Alone, Reads, Wants
    <3>7. DOMAIN disk = {Dat, Automap, Sfallgv, Protos} \cup {MapFile(m) : m \in listed[saves]}
      BY <3>3, <3>5, <3>6
    <3>8. Range(disk) = {saves}
      BY <3>5, <3>6 DEF Range, In
    <3> QED BY <3>7, <3>8
  <2> QED BY <2>1, <2>2, <2>3, ShapeTypes DEF AllOrNothing
<1> QED BY <1>1, SpecIInv, PTL

\* Where no rename replaces a file, where nothing crashes, or where the player
\* saves to the slot no more after a crash: the last version saved stays on the
\* disk until a later one is there.
THEOREM SpecLastSaveSurvives ==
  ASSUME SaveSlotConstants, NothingReplaced
  PROVE  SlotSpec => []LastSaveSurvives
<1>1. IInv => LastSaveSurvives
  <2> USE DEF At, Put
  <2> SUFFICES ASSUME IInv, kept # 0 PROVE \E v \in kept..saves : OnDisk(v)
    BY DEF LastSaveSurvives
  <2>1. Shape /\ Survival
    BY DEF IInv
  <2>2. PICK v \in kept..saves : Safe(v)
    BY <2>1 DEF Survival
  <2>3. v # 0 /\ v \in 1..saves
    BY <2>1 DEF Shape
  <2>4. \A n \in Wants(v) : In(disk, n) = v \/ In(disk, Backup(n)) = v
    BY <2>1, <2>2 DEF Safe, Shape, Removes
  <2>5. {Dat, Automap} \cup {MapFile(m) : m \in listed[v]} = Wants(v)
    BY <2>1, <2>3 DEF Shape, Wants, Needs
  <2>6. \A n \in Wants(v) : Present(n, v)
    BY <2>3, <2>4 DEF Present, In
  <2>7. OnDisk(v)
    BY <2>5, <2>6 DEF OnDisk
  <2> QED BY <2>7
<1> QED BY <1>1, SpecIInv, PTL

\* Where, besides, the restoration of a save does not fail, or the player saves
\* to the slot no more after a crash: a load reads the files of one save.
THEOREM SpecLoadedWhole ==
  ASSUME SaveSlotConstants, NothingMixed
  PROVE  SlotSpec => []LoadedWhole
<1>1. IInv => LoadedWhole
  <2> SUFFICES ASSUME IInv PROVE LoadedWhole
    OBVIOUS
  <2>1. ReadWhole
    BY DEF IInv
  <2> DEFINE whole == ButProtos(loaded)
  <2>2. whole = [n \in DOMAIN loaded \ {Protos} |-> loaded[n]]
    BY DEF ButProtos, Restrict
  <2>3. CASE DOMAIN loaded \ {Protos} = {}
    <3>1. Range(whole) = {}
      BY <2>2, <2>3 DEF Range
    <3> QED BY <3>1, FS_EmptySet DEF LoadedWhole
  <2>4. CASE DOMAIN loaded \ {Protos} # {}
    <3>1. PICK k \in DOMAIN loaded \ {Protos} : TRUE
      BY <2>4
    <3>2. Range(whole) = {loaded[k]}
      BY <2>1, <2>2, <3>1 DEF Range, ReadWhole
    <3>3. Cardinality({loaded[k]}) = 1
      BY FS_Singleton
    <3> QED BY <3>2, <3>3 DEF LoadedWhole
  <2> QED BY <2>3, <2>4
<1> QED BY <1>1, SpecIInv, PTL
=============================================================================
