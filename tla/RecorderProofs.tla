--------------------------- MODULE RecorderProofs ---------------------------
(***************************************************************************)
(* Captures and the microphone, for any number of saves, threads, blocks   *)
(* and crashes: nobody is shown half a capture, and the device is opened   *)
(* by one capture thread at a time.                                        *)
(*                                                                         *)
(* The first rests on the order of a save (whole, then the sidecar, then   *)
(* the file) and on the sweep keeping away from saves that are under way.  *)
(* The second on subscribe never starting a thread while the one it knows  *)
(* of is alive, however often a join was given up: the thread it knows of  *)
(* is the only one that can be.                                            *)
(***************************************************************************)
EXTENDS Recorder, FiniteSetTheorems, WellFoundedInduction, TLAPS

Places == {"idle", "encoding", "listening", "recording", "ending", "interrupting", "encoded",
           "failing", "noting", "noted", "saved", "pruning", "sweeping", "leaving", "over",
           "lost"}

Disk == [parts : SUBSET (Saves \X {"file", "sound", "note"}), notes : SUBSET Saves,
         files : SUBSET Saves, whole : SUBSET Saves, old : SUBSET Saves]

SavesTyped ==
    /\ kind \in Kinds
    /\ job \in [Saves -> [what : {"photo", "sound", "video"}, at : Places]]
    /\ disk \in Disk
    /\ broom \in [who : Saves \cup {Web, None}, doomed : SUBSET Saves, at : {"note", "file"}]

(* Where a save is says what there is of it on the disk. *)
SaveOnDisk(j) ==
    /\ job[j].at \in {"encoded", "noting", "noted"} => j \in disk.whole
    /\ At(j, "noted") => j \in disk.notes
    /\ j \in disk.files => job[j].at \in {"saved", "pruning", "sweeping", "leaving", "over", "lost"}
    /\ j \in disk.old => job[j].at \in {"over", "lost"}

(* What is being removed is a capture, and a save that removes is pruning. *)
BroomInHand ==
    /\ broom.doomed \subseteq disk.files
    /\ broom.who \in {Web, None} \/ At(broom.who, "pruning")

SaveInv == SavesTyped /\ (\A j \in Saves : SaveOnDisk(j)) /\ BroomInHand /\ ServedIsWhole

(* The capture thread subscribe knows of is the only one alive. *)
ThreadStates == Alive \cup {"dead"}

AliveIsCurrent ==
    /\ thread \in [Threads -> ThreadStates]
    /\ \A t \in Threads : thread[t] \in Alive => t = current

----------------------------------------------------------------------------
(* The folder.                                                             *)

LEMMA SavesAreNumbers == kind \in Kinds => Saves \subseteq Nat /\ Web \notin Saves
<1> SUFFICES ASSUME kind \in Kinds PROVE Saves \subseteq Nat /\ Web \notin Saves
  OBVIOUS
<1>1. MaxSaves[kind] \in Nat
  BY RecorderAssumption DEF Kinds
<1> QED  BY <1>1 DEF Saves, Web

(* Going to another place changes nothing else of any save. *)
LEMMA Going ==
  ASSUME SavesTyped, NEW j \in Saves, NEW p \in Places, Goto(j, p), kind' = kind
  PROVE  /\ job' \in [Saves' -> [what : {"photo", "sound", "video"}, at : Places]]
         /\ job'[j].at = p /\ Saves' = Saves /\ \A i \in Saves \ {j} : job'[i] = job[i]
BY DEF SavesTyped, Goto, Saves

(* A step of one save, and of nothing else in the folder. *)
LEMMA OneSave ==
  ASSUME SaveInv, NEW j \in Saves, kind' = kind, SavesTyped',
         \A i \in Saves \ {j} : job'[i] = job[i],
         \A i \in Saves \ {j} : /\ i \in disk'.files <=> i \in disk.files
                                /\ i \in disk'.notes <=> i \in disk.notes
                                /\ i \in disk'.whole <=> i \in disk.whole
                                /\ i \in disk'.old <=> i \in disk.old,
         removed' = removed, SaveOnDisk(j)', BroomInHand',
         j \in disk'.files => j \in disk'.whole /\ (j \in disk'.notes \/ j \in removed')
  PROVE  SaveInv'
<1>1. Saves' = Saves /\ disk'.files \subseteq Saves
  BY DEF SavesTyped, Disk, Saves
<1>2. \A i \in Saves \ {j} : SaveOnDisk(i)'
  BY DEF SaveInv, SaveOnDisk, At
<1>3. ServedIsWhole'
  BY <1>1 DEF SaveInv, ServedIsWhole, Listing, Metadata
<1> QED
  BY <1>1, <1>2, <1>3 DEF SaveInv

(* A save that only goes on, and changes no more than partial files. *)
LEMMA OnlyGoesOn ==
  ASSUME SaveInv, NEW j \in Saves, NEW p \in Places, Goto(j, p), kind' = kind,
         UNCHANGED <<broom, removed>>, disk' \in Disk,
         /\ disk'.files = disk.files /\ disk'.notes = disk.notes
         /\ disk'.whole = disk.whole /\ disk'.old = disk.old,
         job[j].at \notin {"pruning", "over", "lost"},
         p \in {"encoded", "noting"} => j \in disk.whole,
         p # "noted",
         j \in disk.files => p \in {"saved", "pruning", "sweeping", "leaving", "over", "lost"}
  PROVE  SaveInv'
<1>1. /\ job' \in [Saves' -> [what : {"photo", "sound", "video"}, at : Places]]
      /\ job'[j].at = p /\ Saves' = Saves /\ \A i \in Saves \ {j} : job'[i] = job[i]
  BY Going DEF SaveInv
<1>2. SavesTyped'
  <2>1. Disk' = Disk
    BY <1>1 DEF Disk
  <2> QED  BY <1>1, <2>1 DEF SaveInv, SavesTyped
<1>3. SaveOnDisk(j)'
  BY <1>1 DEF SaveInv, SaveOnDisk, At
<1>4. BroomInHand'
  BY <1>1 DEF SaveInv, SavesTyped, BroomInHand, At
<1>5. j \in disk'.files => j \in disk'.whole /\ (j \in disk'.notes \/ j \in removed')
  BY DEF SaveInv, ServedIsWhole, Listing, Metadata
<1> QED
  BY <1>1, <1>2, <1>3, <1>4, <1>5, OneSave

(* What touches no save and nothing in the folder. *)
LEMMA FolderAtRest ==
  ASSUME SaveInv, UNCHANGED <<kind, job, disk, broom, removed>>
  PROVE  SaveInv'
BY DEF SaveInv, SavesTyped, SaveOnDisk, BroomInHand, ServedIsWhole, Listing, Metadata, At, Saves,
       Disk

(* The parts of the disk an assignment to the others leaves. *)
LEMMA DiskShape ==
  ASSUME disk \in Disk
  PROVE  /\ \A s \in SUBSET (Saves \X {"file", "sound", "note"}) : LET d == [disk EXCEPT !.parts = s] IN
              /\ d \in Disk /\ d.files = disk.files /\ d.notes = disk.notes
              /\ d.whole = disk.whole /\ d.old = disk.old
         /\ \A s \in SUBSET Saves : LET d == [disk EXCEPT !.whole = s] IN
              /\ d \in Disk /\ d.files = disk.files /\ d.notes = disk.notes
              /\ d.whole = s /\ d.old = disk.old
BY DEF Disk

LEMMA SaveMoves ==
  ASSUME SaveInv, NEW j \in Saves,
         \/ StartAudio(j) \/ NotStarted(j) \/ StopRecording(j) \/ WaitForFfmpeg(j) \/ Fail(j)
         \/ WriteNote(j) \/ Leave(j)
  PROVE  SaveInv'
<1> USE DEF At
<1>1. disk \in Disk /\ SavesTyped
  BY DEF SaveInv, SavesTyped
<1>2. CASE StartAudio(j)
  <2> DEFINE more == IF job[j].what = "video" THEN {<<j, "file">>, <<j, "sound">>} ELSE {<<j, "file">>}
             s == disk.parts \cup more
  <2>1. /\ disk' = [disk EXCEPT !.parts = s] /\ job[j].at = "listening" /\ Goto(j, "recording")
        /\ UNCHANGED <<kind, broom, removed>>
    BY <1>2 DEF StartAudio
  <2>2. s \in SUBSET (Saves \X {"file", "sound", "note"})
    <3>1. more \in SUBSET (Saves \X {"file", "sound", "note"})
      OBVIOUS
    <3> HIDE DEF more
    <3> QED  BY <1>1, <3>1 DEF Disk
  <2> HIDE DEF s
  <2>3. /\ disk' \in Disk /\ disk'.files = disk.files /\ disk'.notes = disk.notes
        /\ disk'.whole = disk.whole /\ disk'.old = disk.old
    BY <1>1, <2>1, <2>2, DiskShape
  <2>4. j \notin disk.files /\ "recording" \in Places
    BY <2>1 DEF SaveInv, SaveOnDisk, Places
  <2> QED  BY <2>1, <2>3, <2>4, OnlyGoesOn
<1>3. CASE NotStarted(j) \/ StopRecording(j) \/ WaitForFfmpeg(j) \/ Leave(j)
  <2>1. /\ UNCHANGED <<kind, disk, broom, removed>>
        /\ job[j].at \notin {"pruning", "over", "lost"}
        /\ \/ job[j].at = "leaving" /\ Goto(j, "over")
           \/ /\ job[j].at \in {"listening", "recording", "ending"}
              /\ \E p \in {"leaving", "interrupting", "ending", "failing"} : Goto(j, p)
    BY <1>3 DEF NotStarted, StopRecording, WaitForFfmpeg, Leave, Folder
  <2> QED  BY <1>1, <2>1, OnlyGoesOn DEF Places, SaveInv, SaveOnDisk
<1>4. CASE Fail(j)
  <2>1. PICK s \in SUBSET (Saves \X {"file", "sound", "note"}) : disk' = [disk EXCEPT !.parts = s]
    BY <1>1, <1>4 DEF Fail, Disk
  <2> QED  BY <1>1, <1>4, <2>1, DiskShape, OnlyGoesOn DEF Fail, Places, SaveInv, SaveOnDisk
<1>5. CASE WriteNote(j)
  <2>1. CASE Goto(j, "noting") /\ disk' = [disk EXCEPT !.parts = @ \cup {<<j, "note">>}]
    <3> DEFINE s == disk.parts \cup {<<j, "note">>}
    <3>1. s \in SUBSET (Saves \X {"file", "sound", "note"}) /\ disk' = [disk EXCEPT !.parts = s]
      BY <1>1, <2>1 DEF Disk
    <3> HIDE DEF s
    <3> QED  BY <1>1, <1>5, <2>1, <3>1, DiskShape, OnlyGoesOn DEF WriteNote, Places, SaveInv, SaveOnDisk
  <2>2. CASE Goto(j, "failing") /\ UNCHANGED disk
    BY <1>1, <1>5, <2>2, OnlyGoesOn DEF WriteNote, Places, SaveInv, SaveOnDisk
  <2> QED  BY <1>5, <2>1, <2>2 DEF WriteNote
<1> QED  BY <1>2, <1>3, <1>4, <1>5

(* What is encoded is whole. *)
LEMMA SaveEncodes ==
  ASSUME SaveInv, NEW j \in Saves, Finished(j) \/ Encode(j)
  PROVE  SaveInv'
<1> USE DEF At
<1>1. disk \in Disk /\ SavesTyped
  BY DEF SaveInv, SavesTyped
<1>2. /\ UNCHANGED <<kind, broom, removed>> /\ job[j].at \in {"interrupting", "encoding"}
      /\ \/ Goto(j, "failing") /\ disk' = disk
         \/ Goto(j, "encoded") /\ disk' = [disk EXCEPT !.whole = @ \cup {j}]
  BY DEF Finished, Encode
<1>3. j \notin disk.files /\ j \notin disk.old
  BY <1>2 DEF SaveInv, SaveOnDisk
<1>4. CASE Goto(j, "failing") /\ disk' = disk
  BY <1>1, <1>2, <1>3, <1>4, OnlyGoesOn DEF Places
<1>5. CASE Goto(j, "encoded") /\ disk' = [disk EXCEPT !.whole = @ \cup {j}]
  <2>1. /\ job' \in [Saves' -> [what : {"photo", "sound", "video"}, at : Places]]
        /\ job'[j].at = "encoded" /\ Saves' = Saves /\ \A i \in Saves \ {j} : job'[i] = job[i]
    BY <1>1, <1>2, <1>5, Going DEF Places
  <2>2. PICK s \in SUBSET Saves : s = disk.whole \cup {j} /\ disk' = [disk EXCEPT !.whole = s]
    BY <1>1, <1>5 DEF Disk
  <2>3. /\ disk' \in Disk /\ disk'.files = disk.files /\ disk'.notes = disk.notes
        /\ disk'.whole = disk.whole \cup {j} /\ disk'.old = disk.old
    BY <1>1, <2>2, DiskShape
  <2>4. SavesTyped'
    <3>1. Disk' = Disk
      BY <2>1 DEF Disk
    <3> QED  BY <1>1, <1>2, <2>1, <2>3, <3>1 DEF SavesTyped
  <2>5. SaveOnDisk(j)' /\ BroomInHand'
    BY <1>2, <1>3, <2>1, <2>3 DEF SaveInv, SavesTyped, SaveOnDisk, BroomInHand
  <2> QED  BY <1>2, <1>3, <2>1, <2>3, <2>4, <2>5, OneSave
<1> QED  BY <1>2, <1>4, <1>5

(* The sidecar first, then the file. *)
LEMMA SavePlaces ==
  ASSUME SaveInv, NEW j \in Saves, PlaceNote(j) \/ PlaceFile(j)
  PROVE  SaveInv'
<1> USE DEF At
<1>1. disk \in Disk /\ SavesTyped
  BY DEF SaveInv, SavesTyped
<1>2. UNCHANGED <<kind, broom, removed>> /\ job[j].at \in {"noting", "noted"}
  BY DEF PlaceNote, PlaceFile
<1>3. j \notin disk.files /\ j \notin disk.old /\ j \in disk.whole
  BY <1>2 DEF SaveInv, SaveOnDisk
<1>4. CASE PlaceNote(j)
  <2>1. /\ job' \in [Saves' -> [what : {"photo", "sound", "video"}, at : Places]]
        /\ job'[j].at = "noted" /\ Saves' = Saves /\ \A i \in Saves \ {j} : job'[i] = job[i]
    BY <1>1, <1>2, <1>4, Going DEF Places, PlaceNote
  <2>2. disk' = [[disk EXCEPT !.parts = @ \ {<<j, "note">>}] EXCEPT !.notes = @ \cup {j}]
    BY <1>4 DEF PlaceNote
  <2>3. /\ disk' \in Disk /\ disk'.files = disk.files /\ disk'.notes = disk.notes \cup {j}
        /\ disk'.whole = disk.whole /\ disk'.old = disk.old
    BY <1>1, <2>2 DEF Disk
  <2>4. SavesTyped'
    <3>1. Disk' = Disk
      BY <2>1 DEF Disk
    <3> QED  BY <1>1, <1>2, <2>1, <2>3, <3>1 DEF SavesTyped
  <2>5. SaveOnDisk(j)' /\ BroomInHand'
    BY <1>2, <1>3, <2>1, <2>3 DEF SaveInv, SavesTyped, SaveOnDisk, BroomInHand
  <2> QED  BY <1>2, <1>3, <2>1, <2>3, <2>4, <2>5, OneSave
<1>5. CASE PlaceFile(j)
  <2>1. /\ job' \in [Saves' -> [what : {"photo", "sound", "video"}, at : Places]]
        /\ job'[j].at = "saved" /\ Saves' = Saves /\ \A i \in Saves \ {j} : job'[i] = job[i]
    BY <1>1, <1>2, <1>5, Going DEF Places, PlaceFile
  <2>2. disk' = [[disk EXCEPT !.parts = {p \in @ : p[1] # j}] EXCEPT !.files = @ \cup {j}]
    BY <1>5 DEF PlaceFile
  <2>3. /\ disk' \in Disk /\ disk'.files = disk.files \cup {j} /\ disk'.notes = disk.notes
        /\ disk'.whole = disk.whole /\ disk'.old = disk.old
    BY <1>1, <2>2 DEF Disk
  <2>4. SavesTyped'
    <3>1. Disk' = Disk
      BY <2>1 DEF Disk
    <3> QED  BY <1>1, <1>2, <2>1, <2>3, <3>1 DEF SavesTyped
  <2>5. SaveOnDisk(j)' /\ BroomInHand'
    BY <1>2, <1>3, <2>1, <2>3 DEF SaveInv, SavesTyped, SaveOnDisk, BroomInHand
  <2>6. j \in disk.notes
    BY <1>5 DEF PlaceFile, SaveInv, SaveOnDisk
  <2> QED  BY <1>2, <1>3, <2>1, <2>3, <2>4, <2>5, <2>6, OneSave
<1> QED  BY <1>4, <1>5

(* The next save begins with its partial file or with the microphone. *)
LEMMA SaveBegins ==
  ASSUME SaveInv, NEW j \in Saves, NEW what \in {"photo", "sound", "video"}, Begin(j, what)
  PROVE  SaveInv'
<1> USE DEF At
<1>1. disk \in Disk /\ SavesTyped
  BY DEF SaveInv, SavesTyped
<1>2. UNCHANGED <<kind, broom, removed>> /\ job[j].at = "idle" /\ Saves' = Saves
  BY DEF Begin, Saves
<1>3. j \notin disk.files /\ j \notin disk.old
  BY <1>2 DEF SaveInv, SaveOnDisk
<1>4. /\ job' \in [Saves' -> [what : {"photo", "sound", "video"}, at : Places]]
      /\ job'[j].at \in {"encoding", "listening"} /\ \A i \in Saves \ {j} : job'[i] = job[i]
  <2>1. [what |-> what, at |-> IF what = "photo" THEN "encoding" ELSE "listening"]
          \in [what : {"photo", "sound", "video"}, at : Places]
    BY DEF Places
  <2>2. job' = [job EXCEPT ![j] = [what |-> what,
                                   at |-> IF what = "photo" THEN "encoding" ELSE "listening"]]
    BY DEF Begin
  <2> QED  BY <1>1, <1>2, <2>1, <2>2 DEF SavesTyped
<1>5. /\ disk' \in Disk /\ disk'.files = disk.files /\ disk'.notes = disk.notes
      /\ disk'.whole = disk.whole /\ disk'.old = disk.old
  <2> DEFINE s == disk.parts \cup {<<j, "file">>}
  <2>1. s \in SUBSET (Saves \X {"file", "sound", "note"})
        /\ (disk' = [disk EXCEPT !.parts = s] \/ disk' = disk)
    BY <1>1 DEF Disk, Begin
  <2> HIDE DEF s
  <2>2. CASE disk' = [disk EXCEPT !.parts = s]
    BY <1>1, <2>1, <2>2, DiskShape
  <2>3. CASE disk' = disk
    BY <1>1, <2>3
  <2> QED  BY <2>1, <2>2, <2>3
<1>6. SavesTyped'
  <2>1. Disk' = Disk
    BY <1>2 DEF Disk
  <2> QED  BY <1>1, <1>2, <1>4, <1>5, <2>1 DEF SavesTyped
<1>7. SaveOnDisk(j)' /\ BroomInHand'
  BY <1>2, <1>3, <1>4, <1>5 DEF SaveInv, SavesTyped, SaveOnDisk, BroomInHand
<1> QED  BY <1>2, <1>3, <1>4, <1>5, <1>6, <1>7, OneSave

(* Time goes by after a save. *)
LEMMA SaveAges == ASSUME SaveInv, NEW j \in Saves, Age(j) PROVE SaveInv'
<1> USE DEF At
<1>1. disk \in Disk /\ SavesTyped /\ job[j].at \in Places
  BY DEF SaveInv, SavesTyped
<1>2. UNCHANGED <<kind, job, broom, removed>> /\ job[j].at \in {"over", "lost"} /\ Saves' = Saves
  BY <1>1 DEF Age, Saves, InProgress, Places
<1>3. disk' = [disk EXCEPT !.old = @ \cup {j}]
  BY DEF Age
<1>4. /\ disk' \in Disk /\ disk'.files = disk.files /\ disk'.notes = disk.notes
      /\ disk'.whole = disk.whole /\ disk'.old = disk.old \cup {j}
  BY <1>1, <1>3 DEF Disk
<1>5. SavesTyped'
  <2>1. Disk' = Disk
    BY <1>2 DEF Disk
  <2> QED  BY <1>1, <1>2, <1>4, <2>1 DEF SavesTyped
<1>6. SaveOnDisk(j)' /\ BroomInHand'
  BY <1>2, <1>4 DEF SaveInv, SaveOnDisk, BroomInHand
<1>7. j \in disk.files => j \in disk.whole /\ (j \in disk.notes \/ j \in removed)
  BY DEF SaveInv, ServedIsWhole, Listing, Metadata
<1> QED  BY <1>2, <1>4, <1>5, <1>6, <1>7, OneSave

(* The lock is taken for captures there are, and let go of. *)
LEMMA BroomTaken ==
  ASSUME SaveInv, (\E j \in Saves : Prune(j) \/ Delete(j)) \/ Removed
  PROVE  SaveInv'
<1> USE DEF At
<1>1. disk \in Disk /\ SavesTyped /\ disk.files \subseteq Saves
  BY DEF SaveInv, SavesTyped, Disk
<1>2. UNCHANGED <<kind, disk, removed>> /\ Saves' = Saves /\ Disk' = Disk
  BY DEF Prune, Delete, Removed, Saves, Disk
<1>3. ASSUME NEW j \in Saves, Delete(j)
      PROVE  SaveInv'
  <2>1. broom' = [who |-> Web, doomed |-> {j}, at |-> "note"] /\ j \in disk.files /\ job' = job
    BY <1>3 DEF Delete
  <2>2. SavesTyped' /\ BroomInHand'
    BY <1>1, <1>2, <2>1 DEF SavesTyped, BroomInHand
  <2> QED  BY <1>2, <2>1, <2>2 DEF SaveInv, SaveOnDisk, ServedIsWhole, Listing, Metadata
<1>4. ASSUME NEW j \in Saves, Prune(j)
      PROVE  SaveInv'
  <2>1. Excess \subseteq disk.files
    BY DEF Excess
  <2>2. broom' = [who |-> j, doomed |-> Excess, at |-> "note"] /\ job[j].at = "saved"
    BY <1>4 DEF Prune
  <2> HIDE DEF Excess
  <2>3. /\ job' \in [Saves' -> [what : {"photo", "sound", "video"}, at : Places]]
        /\ job'[j].at = "pruning" /\ \A i \in Saves \ {j} : job'[i] = job[i]
    BY <1>1, <1>2, <1>4, Going DEF Places, Prune
  <2>4. SavesTyped' /\ BroomInHand'
    BY <1>1, <1>2, <2>1, <2>2, <2>3 DEF SavesTyped, BroomInHand
  <2>5. SaveOnDisk(j)'
    BY <1>2, <2>2, <2>3 DEF SaveInv, SaveOnDisk
  <2>6. j \in disk.files => j \in disk.whole /\ (j \in disk.notes \/ j \in removed)
    BY DEF SaveInv, ServedIsWhole, Listing, Metadata
  <2> QED  BY <1>2, <2>3, <2>4, <2>5, <2>6, OneSave
<1>5. CASE Removed
  <2>1. broom' = [who |-> None, doomed |-> {}, at |-> "note"]
    BY <1>5 DEF Removed, NoBroom
  <2>2. CASE broom.who = Web
    <3>1. job' = job
      BY <1>5, <2>2 DEF Removed
    <3>2. SavesTyped' /\ BroomInHand'
      BY <1>1, <1>2, <2>1, <3>1 DEF SavesTyped, BroomInHand
    <3> QED  BY <1>2, <3>1, <3>2 DEF SaveInv, SaveOnDisk, ServedIsWhole, Listing, Metadata
  <2>3. CASE broom.who # Web
    <3> DEFINE j == broom.who
    <3>1. j \in Saves /\ job[j].at = "pruning" /\ Goto(j, "sweeping")
      BY <1>1, <1>5, <2>3 DEF Removed, SaveInv, SavesTyped, BroomInHand
    <3> HIDE DEF j
    <3>2. PICK k \in Saves : job[k].at = "pruning" /\ Goto(k, "sweeping")
      BY <3>1
    <3>3. /\ job' \in [Saves' -> [what : {"photo", "sound", "video"}, at : Places]]
          /\ job'[k].at = "sweeping" /\ \A i \in Saves \ {k} : job'[i] = job[i]
      BY <1>1, <1>2, <3>2, Going DEF Places
    <3>4. SavesTyped' /\ BroomInHand'
      BY <1>1, <1>2, <2>1, <3>3 DEF SavesTyped, BroomInHand
    <3>5. SaveOnDisk(k)'
      BY <1>2, <3>2, <3>3 DEF SaveInv, SaveOnDisk
    <3>6. k \in disk.files => k \in disk.whole /\ (k \in disk.notes \/ k \in removed)
      BY DEF SaveInv, ServedIsWhole, Listing, Metadata
    <3> QED  BY <1>2, <3>3, <3>4, <3>5, <3>6, OneSave
  <2> QED  BY <2>2, <2>3
<1> QED  BY <1>3, <1>4, <1>5

(* The sidecar of what is being removed goes first, and only of that. *)
LEMMA BroomMoves == ASSUME SaveInv, Remove PROVE SaveInv'
<1> USE DEF At
<1>1. disk \in Disk /\ SavesTyped /\ broom.doomed \subseteq Saves
  BY DEF SaveInv, SavesTyped
<1>2. UNCHANGED <<kind, job>> /\ Saves' = Saves /\ Disk' = Disk
  BY DEF Remove, Saves, Disk
<1> DEFINE Least(i) == i \in broom.doomed /\ \A k \in broom.doomed : i <= k
           c == CHOOSE i \in broom.doomed : \A k \in broom.doomed : i <= k
<1>3. \E i \in broom.doomed : \A k \in broom.doomed : i <= k
  <2>1. broom.doomed \in SUBSET Nat /\ broom.doomed # {}
    BY <1>1, SavesAreNumbers DEF Remove, SavesTyped
  <2>2. \E x \in broom.doomed : \A y \in broom.doomed : <<y, x>> \notin OpToRel(<, Nat)
    BY <2>1, NatLessThanWellFounded, WFMin, Zenon
  <2>3. \A x, y \in Nat : <<y, x>> \notin OpToRel(<, Nat) => x <= y
    BY DEF OpToRel
  <2> QED  BY <2>1, <2>2, <2>3, Zenon
<1>4. c \in broom.doomed
  BY <1>3
<1>5. /\ \/ /\ disk' = [disk EXCEPT !.notes = @ \ {c}]
            /\ broom' = [broom EXCEPT !.at = "file"]
            /\ removed' = removed \cup {c}
         \/ /\ disk' = [disk EXCEPT !.files = @ \ {c}]
            /\ broom' = [[broom EXCEPT !.at = "note"] EXCEPT !.doomed = @ \ {c}]
            /\ removed' = removed
  BY DEF Remove
<1> HIDE DEF c
<1>6. PICK i \in broom.doomed :
         \/ /\ disk' = [disk EXCEPT !.notes = @ \ {i}]
            /\ broom' = [broom EXCEPT !.at = "file"]
            /\ removed' = removed \cup {i}
         \/ /\ disk' = [disk EXCEPT !.files = @ \ {i}]
            /\ broom' = [[broom EXCEPT !.at = "note"] EXCEPT !.doomed = @ \ {i}]
            /\ removed' = removed
  BY <1>4, <1>5
<1>7. i \in disk.files /\ i \in Saves
  BY <1>1 DEF SaveInv, BroomInHand
<1>8. /\ disk' \in Disk /\ disk'.files \subseteq disk.files /\ disk'.whole = disk.whole
      /\ disk'.old = disk.old /\ disk'.notes \subseteq disk.notes
      /\ disk.notes \subseteq disk'.notes \cup {i}
      /\ i \in disk'.notes \/ i \in removed' \/ i \notin disk'.files \/ i \notin disk.notes
      /\ removed \subseteq removed'
  BY <1>1, <1>6 DEF Disk
<1>9. /\ broom' \in [who : Saves \cup {Web, None}, doomed : SUBSET Saves, at : {"note", "file"}]
      /\ broom'.who = broom.who
  BY <1>1, <1>6 DEF SavesTyped
<1>10. broom'.doomed \subseteq disk'.files
  <2>1. broom.doomed \subseteq disk.files
    BY DEF SaveInv, BroomInHand
  <2>2. CASE disk' = [disk EXCEPT !.notes = @ \ {i}] /\ broom' = [broom EXCEPT !.at = "file"]
    BY <1>1, <2>1, <2>2 DEF SavesTyped, Disk
  <2>3. CASE /\ disk' = [disk EXCEPT !.files = @ \ {i}]
             /\ broom' = [[broom EXCEPT !.at = "note"] EXCEPT !.doomed = @ \ {i}]
    <3>1. disk'.files = disk.files \ {i}
      BY <1>1, <2>3 DEF Disk
    <3>2. broom'.doomed = broom.doomed \ {i}
      BY <1>1, <2>3 DEF SavesTyped
    <3> QED  BY <2>1, <3>1, <3>2
  <2> QED  BY <1>6, <2>2, <2>3
<1>11. SavesTyped' /\ BroomInHand'
  BY <1>1, <1>2, <1>8, <1>9, <1>10 DEF SavesTyped, BroomInHand, SaveInv
<1>12. \A j \in Saves : SaveOnDisk(j)'
  BY <1>2, <1>7, <1>8 DEF SaveInv, SaveOnDisk
<1>13. ServedIsWhole'
  BY <1>7, <1>8 DEF SaveInv, ServedIsWhole, Listing, Metadata
<1> QED  BY <1>2, <1>11, <1>12, <1>13 DEF SaveInv

(* A sweep, by a save or by a hub that starts, leaves every capture's      *)
(* sidecar and those of saves under way.                                   *)
LEMMA SweepKeeps ==
  ASSUME SaveInv
  PROVE  /\ Swept \in Disk /\ Swept.files = disk.files /\ Swept.whole = disk.whole
         /\ Swept.old = disk.old
         /\ \A j \in Saves : (j \in disk.files \/ job[j].at = "noted")
                                => (j \in Swept.notes <=> j \in disk.notes)
<1>1. disk \in Disk
  BY DEF SaveInv, SavesTyped
<1>2. Swept = [[disk EXCEPT !.parts = {p \in @ : ~Stale(p[1])}]
                 EXCEPT !.notes = {j \in @ : j \in disk.files \/ ~Stale(j)}]
  BY DEF Swept
<1>3. /\ Swept \in Disk /\ Swept.files = disk.files /\ Swept.whole = disk.whole
      /\ Swept.old = disk.old
      /\ Swept.notes = {j \in disk.notes : j \in disk.files \/ ~Stale(j)}
  BY <1>1, <1>2 DEF Disk
<1> QED  BY <1>3 DEF SaveInv, SaveOnDisk, Stale

LEMMA SaveSweeps ==
  ASSUME SaveInv, Crash \/ \E j \in Saves : Sweep(j)
  PROVE  SaveInv'
<1> USE DEF At
<1>1. disk \in Disk /\ SavesTyped /\ disk' = Swept
  BY DEF SaveInv, SavesTyped, Crash, Sweep
<1>2. UNCHANGED <<kind, removed>> /\ Saves' = Saves /\ Disk' = Disk
  BY DEF Crash, Sweep, Saves, Disk
<1> DEFINE Onward ==
        /\ job' \in [Saves' -> [what : {"photo", "sound", "video"}, at : Places]]
        /\ \A i \in Saves : \/ job'[i].at = job[i].at
                            \/ job'[i].at = "lost"
                            \/ job[i].at = "sweeping" /\ job'[i].at = "leaving"
        /\ BroomInHand' /\ broom' \in [who : Saves \cup {Web, None}, doomed : SUBSET Saves,
                                       at : {"note", "file"}]
<1>3. Onward
  <2>1. CASE Crash
    <3>1. broom' = [who |-> None, doomed |-> {}, at |-> "note"]
      BY <2>1 DEF Crash, NoBroom
    <3>2. /\ job' \in [Saves -> [what : {"photo", "sound", "video"}, at : Places]]
          /\ \A i \in Saves : job'[i].at = job[i].at \/ job'[i].at = "lost"
      <4>1. \A i \in Saves : /\ job[i] \in [what : {"photo", "sound", "video"}, at : Places]
                             /\ [job[i] EXCEPT !.at = "lost"]
                                  \in [what : {"photo", "sound", "video"}, at : Places]
                             /\ [job[i] EXCEPT !.at = "lost"].at = "lost"
        BY <1>1 DEF SavesTyped, Places
      <4>2. job' = [j \in Saves |-> IF InProgress(j) THEN [job[j] EXCEPT !.at = "lost"] ELSE job[j]]
        BY <2>1 DEF Crash
      <4> QED  BY <4>1, <4>2
    <3>3. BroomInHand'
      BY <3>1 DEF BroomInHand
    <3> QED  BY <1>2, <3>1, <3>2, <3>3
  <2>2. ASSUME NEW j \in Saves, Sweep(j)
        PROVE  Onward
    <3>1. /\ job' \in [Saves' -> [what : {"photo", "sound", "video"}, at : Places]]
          /\ job'[j].at = "leaving" /\ \A i \in Saves \ {j} : job'[i] = job[i]
      BY <1>1, <1>2, <2>2, Going DEF Places, Sweep
    <3>2. broom' = broom /\ job[j].at = "sweeping"
      BY <2>2 DEF Sweep
    <3>3. BroomInHand'
      BY <1>1, <3>1, <3>2, SweepKeeps DEF BroomInHand, SaveInv, SavesTyped
    <3> QED  BY <1>1, <1>2, <3>1, <3>2, <3>3 DEF SavesTyped
  <2> QED  BY <2>1, <2>2
<1>4. SavesTyped'
  BY <1>1, <1>2, <1>3, SweepKeeps DEF SavesTyped
<1>5. \A j \in Saves : SaveOnDisk(j)'
  BY <1>1, <1>3, SweepKeeps DEF SaveInv, SaveOnDisk
<1>6. ServedIsWhole'
  <2>1. disk.files \subseteq Saves
    BY <1>1 DEF Disk
  <2> QED  BY <1>1, <1>2, <2>1, SweepKeeps DEF SaveInv, ServedIsWhole, Listing, Metadata
<1> QED  BY <1>2, <1>3, <1>4, <1>5, <1>6 DEF SaveInv

(* Every step keeps the folder in order. *)
LEMMA SaveSteps == SaveInv /\ [Next]_vars => SaveInv'
<1> SUFFICES ASSUME SaveInv, [Next]_vars PROVE SaveInv'
  OBVIOUS
<1>1. CASE FeederStep \/ MicMoves \/ Listen \/ Hear \/ StopListening \/ UNCHANGED vars
  <2>1. UNCHANGED <<kind, job, disk, broom, removed>>
    BY <1>1 DEF FeederStep, FeederOpens, FeederReads, FeederWrites, MicMoves, Listen, Hear,
                StopListening, vars, saveVars, Folder
  <2> QED  BY <2>1, FolderAtRest
<1>2. ASSUME NEW j \in Saves,
             FfmpegOpens(j) \/ FfmpegEnds(j) \/ Release(j) \/ Knock(j) \/ JoinFeeder(j)
      PROVE  SaveInv'
  <2>1. UNCHANGED <<kind, job, disk, broom, removed>>
    BY <1>2 DEF FfmpegOpens, FfmpegEnds, Release, Knock, JoinFeeder, Folder
  <2> QED  BY <2>1, FolderAtRest
<1> QED
  BY <1>1, <1>2, SaveMoves, SaveEncodes, SavePlaces, SaveBegins, SaveAges, BroomTaken, BroomMoves,
     SaveSweeps DEF Next, SaveStep

(* Nobody is ever shown half a capture: a file under a capture's name is   *)
(* complete and has its sidecar, until its own removal begins (_commit,    *)
(* _prune, sweep and delete of vision/recording.py).                       *)
THEOREM CapturesAreWhole == Spec => []ServedIsWhole
<1>1. Init => SaveInv
  <2> SUFFICES ASSUME Init PROVE SaveInv
    OBVIOUS
  <2>1. /\ kind \in Kinds /\ job = [j \in Saves |-> [what |-> "photo", at |-> "idle"]]
        /\ disk = [parts |-> {}, notes |-> {}, files |-> {}, whole |-> {}, old |-> {}]
        /\ broom = [who |-> None, doomed |-> {}, at |-> "note"]
    BY DEF Init, NoBroom
  <2>2. SavesTyped
    BY <2>1 DEF SavesTyped, Disk, Places
  <2> QED  BY <2>1, <2>2 DEF SaveInv, SaveOnDisk, BroomInHand, ServedIsWhole, Listing, At
<1>2. SaveInv => ServedIsWhole
  BY DEF SaveInv
<1> QED
  BY <1>1, <1>2, SaveSteps, PTL DEF Spec

----------------------------------------------------------------------------
(* The microphone.                                                         *)

(* A thread alive that goes on, or ends, is still the only one. *)
LEMMA ThreadGoesOn ==
  ASSUME AliveIsCurrent, NEW t \in Threads, thread[t] \in Alive, NEW s \in ThreadStates,
         thread' = [thread EXCEPT ![t] = s], current' = current
  PROVE  AliveIsCurrent'
BY DEF AliveIsCurrent

(* subscribe starts a thread only with none alive. *)
LEMMA ThreadStarts ==
  ASSUME AliveIsCurrent, NEW r \in Readers, StartIfNeeded(r)
  PROVE  AliveIsCurrent'
<1>1. CASE UNCHANGED <<thread, current>>
  BY <1>1 DEF AliveIsCurrent
<1>2. CASE ~IsAlive(current) /\ StartThread
  <2>1. \A t \in Threads : thread[t] \notin Alive
    BY <1>2, MicrophoneAssumption DEF AliveIsCurrent, IsAlive
  <2>2. PICK t : thread' = [thread EXCEPT ![t] = "run"] /\ current' = t
    BY <1>2 DEF StartThread
  <2> QED  BY <2>1, <2>2 DEF AliveIsCurrent, ThreadStates, Alive
<1> QED  BY <1>1, <1>2 DEF StartIfNeeded

LEMMA MicSteps == AliveIsCurrent /\ [Next]_vars => AliveIsCurrent'
<1> SUFFICES ASSUME AliveIsCurrent, [Next]_vars PROVE AliveIsCurrent'
  OBVIOUS
<1>1. ASSUME UNCHANGED <<thread, current>> PROVE AliveIsCurrent'
  BY <1>1 DEF AliveIsCurrent
<1>2. CASE MicMoves
  <2>1. ASSUME NEW r \in Readers, Joined(r) \/ JoinGivesUp(r) PROVE AliveIsCurrent'
    BY <2>1, ThreadStarts DEF Joined, JoinGivesUp
  <2>2. ASSUME NEW r \in Readers, Subscribe(r) \/ Unsubscribe(r) PROVE AliveIsCurrent'
    BY <1>1, <2>2 DEF Subscribe, Unsubscribe
  <2>3. ASSUME NEW t \in Threads, CaptureStep(t) PROVE AliveIsCurrent'
    <3>1. CASE ReadBlock(t)
      BY <1>1, <3>1 DEF ReadBlock
    <3>2. CASE Open(t) \/ CaptureDies(t) \/ Unwanted(t) \/ Closed(t) \/ Retry(t) \/ Exit(t)
      <4>1. /\ thread[t] \in Alive /\ current' = current
            /\ \E s \in ThreadStates : thread' = [thread EXCEPT ![t] = s]
        BY <3>2 DEF Open, CaptureDies, Unwanted, Closed, Retry, Exit, Alive, ThreadStates
      <4> QED  BY <4>1, ThreadGoesOn
    <3> QED  BY <2>3, <3>1, <3>2 DEF CaptureStep
  <2>4. CASE Connect \/ LinkFails \/ StreamStops \/ Pump \/ Feed
    BY <1>1, <2>4 DEF Connect, LinkFails, StreamStops, Pump, Feed
  <2> QED  BY <1>2, <2>1, <2>2, <2>3, <2>4 DEF MicMoves, MicStep
<1>3. CASE FeederStep \/ Remove \/ Removed \/ Crash \/ Listen \/ Hear \/ StopListening
           \/ UNCHANGED vars
  <2>1. UNCHANGED <<thread, current>>
    BY <1>3 DEF FeederStep, FeederOpens, FeederReads, FeederWrites, Remove, Removed, Crash, Listen,
                Hear, StopListening, vars, micVars, MicIdle
  <2> QED  BY <1>1, <2>1
<1>4. ASSUME NEW j \in Saves, \/ SaveStep(j) \/ NotStarted(j) \/ FfmpegOpens(j) \/ FfmpegEnds(j)
                              \/ Delete(j) \/ Age(j)
                              \/ \E what \in {"photo", "sound", "video"} : Begin(j, what)
      PROVE  AliveIsCurrent'
  <2>1. UNCHANGED <<thread, current>>
    BY <1>4 DEF SaveStep, StartAudio, StopRecording, Finished, Encode, Fail, WriteNote, PlaceNote,
                PlaceFile, Prune, Sweep, Leave, Release, Knock, JoinFeeder, WaitForFfmpeg,
                NotStarted, FfmpegOpens, FfmpegEnds, Delete, Age, Begin, micVars, MicIdle
  <2> QED  BY <1>1, <2>1
<1> QED
  BY <1>2, <1>3, <1>4 DEF Next

(* The device is open in one capture thread at a time, however readers     *)
(* come and go and however many joins are given up on                      *)
(* (Capture.subscribe and unsubscribe of audio/capture.py).                *)
THEOREM DeviceIsOpenedOnce == Spec => []OpenedOnce
<1>1. Init => AliveIsCurrent
  BY DEF Init, MicInit, AliveIsCurrent, Alive, ThreadStates
<1>2. AliveIsCurrent => OpenedOnce
  <2> SUFFICES ASSUME AliveIsCurrent PROVE OpenedOnce
    OBVIOUS
  <2> DEFINE H == {t \in Threads : thread[t] \in {"reading", "closing"}}
  <2>1. H \subseteq {current}
    BY DEF AliveIsCurrent, Alive
  <2>2. IsFiniteSet({current}) /\ Cardinality({current}) = 1
    BY FS_Singleton
  <2>3. Cardinality(H) <= 1
    BY <2>1, <2>2, FS_Subset
  <2> QED  BY <2>3 DEF OpenedOnce
<1> QED
  BY <1>1, <1>2, MicSteps, PTL DEF Spec

=============================================================================
