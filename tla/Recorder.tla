------------------------------ MODULE Recorder ------------------------------
(***************************************************************************)
(* Photos, videos and sound saved on the hub (vision/recording.py, the     *)
(* PipeInput of audio/remote.py, the recording steps of sentry/engine.py   *)
(* and web.py), from the hub's own microphone or a satellite's (module     *)
(* Microphone).                                                            *)
(*                                                                         *)
(* A save is a thread: it writes under a partial name, puts a sidecar and  *)
(* then the file in place, prunes the folder and sweeps what interrupted   *)
(* saves left there.  The hub can be killed between any two of these       *)
(* steps.  Sound of a satellite reaches ffmpeg through a named pipe that a *)
(* feeder thread writes and the recording's thread ends.                   *)
(*                                                                         *)
(* Saves are numbered in the order of their names, the times they began.   *)
(* A message from a browser is saved with the steps of a photo.            *)
(***************************************************************************)
EXTENDS Microphone

CONSTANTS MaxCaptures,     \* MAX_CAPTURES
          MaxRecordings,   \* MAX_RECORDINGS: videos encoded at once
          MaxSaves,        \* kind of microphone -> bound: saves
          MaxBlocks,       \* kind of microphone -> bound: blocks captured
          MaxCrashes       \* bound: the hub is killed

ASSUME RecorderAssumption ==
    /\ MaxSaves \in [{"own", "recorded", "heard"} -> Nat]
    /\ MaxBlocks \in [{"own", "recorded", "heard"} -> Nat]
    /\ {MaxCaptures, MaxRecordings, MaxCrashes} \subseteq Nat

VARIABLES
    kind,     \* what the microphone is: the hub's "own", or a satellite's that is
              \* "recorded" or that a browser has "heard"; one in a behaviour
    job,      \* save -> what it saves and where its thread is
    ffmpeg,   \* save -> the ffmpeg that writes its sound
    pipe,     \* the PipeInput: its feeder, the pipe in the file system, end()
    disk,     \* the folder
    broom,    \* who holds the folder's lock, and what is being removed
    early,    \* history: end() knocked before the feeder was at the door
    removed,  \* history: captures whose removal was begun
    crashes   \* bound: crashes so far

saveVars == <<kind, job, ffmpeg, pipe, disk, broom, early, removed, crashes>>
vars == <<micVars, saveVars>>

Kinds == {"own", "recorded", "heard"}
Saves == 1 .. MaxSaves[kind]
Web == 0
NoPipe == [feeder |-> "none", exists |-> FALSE, done |-> FALSE, end |-> "over"]
NoBroom == [who |-> None, doomed |-> {}, at |-> "note"]
Busy == {"starting", "opening", "reading"}

Init ==
    /\ MicInit
    /\ kind \in Kinds
    /\ job = [j \in Saves |-> [what |-> "photo", at |-> "idle"]]
    /\ ffmpeg = [j \in Saves |-> "none"]
    /\ pipe = NoPipe
    /\ disk = [parts |-> {}, notes |-> {}, files |-> {}, whole |-> {}, old |-> {}]
    /\ broom = NoBroom
    /\ early = FALSE /\ removed = {} /\ crashes = 0

At(j, place) == job[j].at = place
Goto(j, place) == job' = [job EXCEPT ![j].at = place]
InProgress(j) == job[j].at \notin {"idle", "over", "lost"}

(* What nothing but the named part of a save touches.                      *)
Folder == <<disk, broom, removed>>
Sound == <<ffmpeg, pipe, early>>

----------------------------------------------------------------------------
(* A recording begins.                                                     *)

(* RemoteMicrophone.recording: a subscription of its own, a named pipe and *)
(* the feeder's thread.                                                    *)
Listening ==
    IF kind = "own" THEN UNCHANGED <<share, pipe>>
    ELSE /\ share' = [open |-> TRUE, chunks |-> <<>>]
         /\ pipe' = [feeder |-> "starting", exists |-> TRUE, done |-> FALSE, end |-> "no"]

MicIdle == UNCHANGED <<reader, taps, queue, thread, current, slow, wake, samples, link, wire, sink,
                       mishaps>>

(* The next save begins, of a photo or with the microphone.  Bound: a      *)
(* satellite's microphone is recorded by one save at a time.               *)
Begin(j, what) ==
    /\ At(j, "idle") /\ \A i \in 1 .. (j - 1) : ~At(i, "idle")
    /\ kind = "recorded" => /\ what # "photo" /\ \A i \in Saves : ~InProgress(i)
                             /\ pipe.feeder \in {"none", "over"}
    /\ job' = [job EXCEPT ![j] = [what |-> what,
                                  at |-> IF what = "photo" THEN "encoding" ELSE "listening"]]
    /\ IF what = "photo"
       THEN /\ disk' = [disk EXCEPT !.parts = @ \cup {<<j, "file">>}] /\ UNCHANGED <<share, pipe>>
       ELSE Listening /\ UNCHANGED disk
    /\ MicIdle /\ UNCHANGED <<kind, ffmpeg, broom, early, removed, crashes>>

Recording == {j \in Saves : job[j].what = "video"
                            /\ job[j].at \notin {"idle", "listening", "leaving", "over", "lost"}}

(* record_audio and record_video up to their loops: the partial files and  *)
(* the ffmpeg that writes the sound.  It fails with no ffmpeg to start, no *)
(* frame from the camera or no room for another video.                     *)
StartAudio(j) ==
    /\ At(j, "listening")
    /\ job[j].what = "video" => Cardinality(Recording) < MaxRecordings
    /\ Goto(j, "recording")
    /\ ffmpeg' = [ffmpeg EXCEPT ![j] = IF kind = "own" THEN "reading" ELSE "starting"]
    /\ disk' = [disk EXCEPT !.parts = @ \cup
           (IF job[j].what = "video" THEN {<<j, "file">>, <<j, "sound">>} ELSE {<<j, "file">>})]
    /\ UNCHANGED <<micVars, kind, pipe, broom, early, removed, crashes>>

NotStarted(j) ==
    /\ At(j, "listening") /\ Goto(j, "leaving")
    /\ UNCHANGED <<micVars, kind, Sound, Folder, crashes>>

(* The recording's loop ends: the time is up, somebody stopped it or       *)
(* ffmpeg is over.  A video's own encoder may have failed.                 *)
StopRecording(j) ==
    /\ At(j, "recording")
    /\ \/ Goto(j, IF kind = "own" THEN "interrupting" ELSE "ending")
       \/ job[j].what = "video" /\ Goto(j, "failing")
    /\ UNCHANGED <<micVars, kind, Sound, Folder, crashes>>

----------------------------------------------------------------------------
(* PipeInput: the feeder.                                                  *)

Feeder(place) == pipe' = [pipe EXCEPT !.feeder = place]
AtThePipe == {j \in Saves : ffmpeg[j] = "reading"}
Loop == IF pipe.done THEN "over" ELSE "reading"

(* open() of the pipe waits for a reader.                                  *)
FeederOpens ==
    /\ pipe.feeder = "starting"
    /\ \/ ~pipe.exists /\ Feeder("over") /\ UNCHANGED ffmpeg
       \/ /\ pipe.exists
          /\ IF \E j \in Saves : ffmpeg[j] = "opening"
             THEN /\ ffmpeg' = [j \in Saves |-> IF ffmpeg[j] = "opening" THEN "reading"
                                                ELSE ffmpeg[j]]
                  /\ Feeder(Loop)
             ELSE Feeder("waiting") /\ UNCHANGED ffmpeg
    /\ UNCHANGED <<micVars, kind, job, Folder, early, crashes>>

(* Subscription.read: all that has arrived, or the end.                    *)
FeederReads ==
    /\ pipe.feeder = "reading"
    /\ \/ /\ share.chunks # <<>> /\ Feeder("writing")
          /\ share' = [share EXCEPT !.chunks = <<>>]
       \/ /\ share.chunks = <<>> /\ (~share.open \/ pipe.done) /\ Feeder("over")
          /\ UNCHANGED share
    /\ MicIdle /\ UNCHANGED <<kind, job, ffmpeg, Folder, early, crashes>>

(* The write waits for a reader that is slow, and fails with none.         *)
FeederWrites ==
    /\ pipe.feeder = "writing"
    /\ \/ AtThePipe # {} /\ Feeder(Loop)
       \/ AtThePipe = {} /\ Feeder("over")
    /\ UNCHANGED <<micVars, kind, job, ffmpeg, Folder, early, crashes>>

----------------------------------------------------------------------------
(* ffmpeg (external): it opens its input, writes until the end of it or    *)
(* until it has enough, and may fail or hang at any point.                 *)

FfmpegOpens(j) ==
    /\ ffmpeg[j] = "starting"
    /\ IF ~pipe.exists
       THEN ffmpeg' = [ffmpeg EXCEPT ![j] = "broken"] /\ UNCHANGED pipe
       ELSE IF pipe.feeder \in {"waiting", "reading", "writing"}
            THEN /\ ffmpeg' = [ffmpeg EXCEPT ![j] = "reading"]
                 /\ IF pipe.feeder = "waiting" THEN Feeder(Loop) ELSE UNCHANGED pipe
            ELSE ffmpeg' = [ffmpeg EXCEPT ![j] = "opening"] /\ UNCHANGED pipe
    /\ UNCHANGED <<micVars, kind, job, Folder, early, crashes>>

FfmpegEnds(j) ==
    /\ ffmpeg[j] \in Busy
    /\ \E result \in {"whole", "broken"} :
           /\ result = "whole" => ffmpeg[j] = "reading"
           /\ ffmpeg' = [ffmpeg EXCEPT ![j] = result]
    /\ UNCHANGED <<micVars, kind, job, pipe, Folder, early, crashes>>

----------------------------------------------------------------------------
(* PipeInput.end, from _finish_audio or on the way out of recording().     *)

Ending(j) == kind = "recorded" /\ job[j].at \in {"ending", "leaving"}

Release(j) ==
    /\ Ending(j) /\ pipe.end = "no"
    /\ pipe' = [pipe EXCEPT !.done = TRUE, !.end = "done"]
    /\ share' = [share EXCEPT !.open = FALSE]
    /\ MicIdle /\ UNCHANGED <<kind, job, ffmpeg, Folder, early, crashes>>

(* Mutant of Knock: nobody opens the pipe for the feeder. *)
NoKnock(j) ==
    /\ Ending(j) /\ pipe.end = "done"
    /\ pipe' = [pipe EXCEPT !.end = "knocked"]
    /\ early' = (early \/ pipe.feeder = "starting")
    /\ UNCHANGED <<micVars, kind, job, ffmpeg, Folder, crashes>>

(* "A reader that never came leaves the feeder waiting in open(); be that  *)
(* reader."                                                                *)
Knock(j) ==
    /\ Ending(j) /\ pipe.end = "done"
    /\ pipe' = [pipe EXCEPT !.end = "knocked",
                            !.feeder = IF @ = "waiting" THEN "over" ELSE @]
    /\ early' = (early \/ pipe.feeder = "starting")
    /\ UNCHANGED <<micVars, kind, job, ffmpeg, Folder, crashes>>

(* join, for five seconds at most, and unlink.                             *)
JoinFeeder(j) ==
    /\ Ending(j) /\ pipe.end = "knocked"
    /\ pipe' = [pipe EXCEPT !.end = "over", !.exists = FALSE]
    /\ UNCHANGED <<micVars, kind, job, ffmpeg, Folder, early, crashes>>

(* _finish_audio after end(): three seconds for ffmpeg to read the rest.   *)
WaitForFfmpeg(j) ==
    /\ At(j, "ending") /\ pipe.end = "over"
    /\ Goto(j, "interrupting")
    /\ UNCHANGED <<micVars, kind, Sound, Folder, crashes>>

(* SIGINT, then ten seconds, then a kill; a video goes on without sound.   *)
Finished(j) ==
    /\ At(j, "interrupting")
    /\ ffmpeg' = [ffmpeg EXCEPT ![j] = IF @ \in Busy THEN "broken" ELSE @]
    /\ IF ffmpeg[j] = "whole" \/ job[j].what = "video"
       THEN /\ Goto(j, "encoded")
            /\ disk' = [disk EXCEPT !.whole = @ \cup {j}]
       ELSE Goto(j, "failing") /\ UNCHANGED disk
    /\ UNCHANGED <<micVars, kind, pipe, broom, early, removed, crashes>>

----------------------------------------------------------------------------
(* The file and its sidecar.                                               *)

Encode(j) ==
    /\ At(j, "encoding")
    /\ \/ Goto(j, "encoded") /\ disk' = [disk EXCEPT !.whole = @ \cup {j}]
       \/ Goto(j, "failing") /\ UNCHANGED disk
    /\ UNCHANGED <<micVars, kind, Sound, broom, removed, crashes>>

(* The step in which a save was not completed: its ffmpegs are killed, its *)
(* partial files unlinked.                                                 *)
Fail(j) ==
    /\ At(j, "failing") /\ Goto(j, "leaving")
    /\ ffmpeg' = [ffmpeg EXCEPT ![j] = IF @ \in Busy THEN "broken" ELSE @]
    /\ disk' = [disk EXCEPT !.parts = {p \in @ : p[1] # j}]
    /\ UNCHANGED <<micVars, kind, pipe, broom, early, removed, crashes>>

(* _commit: the sidecar under a partial name; a full disk fails it.        *)
WriteNote(j) ==
    /\ At(j, "encoded")
    /\ \/ Goto(j, "noting") /\ disk' = [disk EXCEPT !.parts = @ \cup {<<j, "note">>}]
       \/ Goto(j, "failing") /\ UNCHANGED disk
    /\ UNCHANGED <<micVars, kind, Sound, broom, removed, crashes>>

(* Mutant of PlaceNote: the file is put in place before its sidecar. *)
PlaceFileFirst(j) ==
    /\ At(j, "noting") /\ Goto(j, "noted")
    /\ disk' = [disk EXCEPT !.parts = @ \ {<<j, "note">>}, !.files = @ \cup {j}]
    /\ UNCHANGED <<micVars, kind, Sound, broom, removed, crashes>>

PlaceNote(j) ==
    /\ At(j, "noting") /\ Goto(j, "noted")
    /\ disk' = [disk EXCEPT !.parts = @ \ {<<j, "note">>}, !.notes = @ \cup {j}]
    /\ UNCHANGED <<micVars, kind, Sound, broom, removed, crashes>>

(* The file in place, and what is left of its partial files unlinked.      *)
PlaceFile(j) ==
    /\ At(j, "noted") /\ Goto(j, "saved")
    /\ disk' = [disk EXCEPT !.parts = {p \in @ : p[1] # j}, !.files = @ \cup {j}]
    /\ UNCHANGED <<micVars, kind, Sound, broom, removed, crashes>>

----------------------------------------------------------------------------
(* Removing captures: _prune after every save, delete from the web page.   *)

(* The oldest captures beyond the limit.                                   *)
Excess == {i \in disk.files : Cardinality({k \in disk.files : k > i}) >= MaxCaptures}

Prune(j) ==
    /\ At(j, "saved") /\ broom.who = None
    /\ Goto(j, "pruning")
    /\ broom' = [who |-> j, doomed |-> Excess, at |-> "note"]
    /\ UNCHANGED <<micVars, kind, Sound, disk, removed, crashes>>

Delete(i) ==
    /\ kind = "own" /\ i \in disk.files /\ broom.who = None
    /\ broom' = [who |-> Web, doomed |-> {i}, at |-> "note"]
    /\ UNCHANGED <<micVars, kind, job, Sound, disk, removed, crashes>>

(* One of them at a time: the sidecar, then the file.                      *)
Remove ==
    /\ broom.doomed # {}
    /\ LET i == CHOOSE i \in broom.doomed : \A k \in broom.doomed : i <= k
       IN \/ /\ broom.at = "note"
             /\ disk' = [disk EXCEPT !.notes = @ \ {i}]
             /\ broom' = [broom EXCEPT !.at = "file"]
             /\ removed' = removed \cup {i}
          \/ /\ broom.at = "file"
             /\ disk' = [disk EXCEPT !.files = @ \ {i}]
             /\ broom' = [broom EXCEPT !.at = "note", !.doomed = @ \ {i}]
             /\ UNCHANGED removed
    /\ UNCHANGED <<micVars, kind, job, Sound, crashes>>

(* The lock is let go of; a save goes on to sweep.                         *)
Removed ==
    /\ broom.who # None /\ broom.doomed = {}
    /\ broom' = NoBroom
    /\ IF broom.who = Web THEN UNCHANGED job ELSE Goto(broom.who, "sweeping")
    /\ UNCHANGED <<micVars, kind, Sound, disk, removed, crashes>>

(* Older than STALE_PART_SECONDS.                                          *)
Stale(j) == j \in disk.old

(* What a sweep removes: partial files and sidecars with no file.          *)
Swept == [disk EXCEPT !.parts = {p \in @ : ~Stale(p[1])},
                      !.notes = {j \in @ : j \in disk.files \/ ~Stale(j)}]

Sweep(j) ==
    /\ At(j, "sweeping") /\ Goto(j, "leaving")
    /\ disk' = Swept
    /\ UNCHANGED <<micVars, kind, Sound, broom, removed, crashes>>

(* The thread is over, once the microphone's pipe is.                      *)
Leave(j) ==
    /\ At(j, "leaving") /\ (kind = "recorded" => pipe.end = "over")
    /\ Goto(j, "over")
    /\ UNCHANGED <<micVars, kind, Sound, Folder, crashes>>

(* More than STALE_PART_SECONDS go by after the last write of a save.      *)
Age(j) ==
    /\ kind = "own" /\ ~InProgress(j) /\ ~At(j, "idle") /\ j \notin disk.old
    /\ disk' = [disk EXCEPT !.old = @ \cup {j}]
    /\ UNCHANGED <<micVars, kind, job, Sound, broom, removed, crashes>>

(* The hub is killed, and started again: Captures sweeps the folder first. *)
Crash ==
    /\ kind = "own" /\ crashes < MaxCrashes /\ crashes' = crashes + 1
    /\ job' = [j \in Saves |-> IF InProgress(j) THEN [job[j] EXCEPT !.at = "lost"] ELSE job[j]]
    /\ ffmpeg' = [j \in Saves |-> IF ffmpeg[j] \in Busy THEN "broken" ELSE ffmpeg[j]]
    /\ disk' = Swept
    /\ broom' = NoBroom
    /\ UNCHANGED <<micVars, kind, pipe, early, removed>>

----------------------------------------------------------------------------
SaveStep(j) ==
    \/ StartAudio(j) \/ StopRecording(j) \/ Finished(j) \/ Encode(j) \/ Fail(j)
    \/ WriteNote(j) \/ PlaceNote(j) \/ PlaceFile(j) \/ Prune(j) \/ Sweep(j) \/ Leave(j)
    \/ Release(j) \/ Knock(j) \/ JoinFeeder(j) \/ WaitForFfmpeg(j)

(* The satellite's microphone.  Bounds: the blocks it captures, and that    *)
(* the node's own detector is there beside a browser but not a recording.  *)
MicMoves ==
    /\ kind # "own" /\ MicStep /\ UNCHANGED saveVars
    /\ samples'.count <= MaxBlocks[kind] + 1
    /\ kind = "recorded" => "activity" \notin taps'

(* RemoteMicrophone.listen: a browser comes, reads and goes.               *)
Listen ==
    /\ kind = "heard"
    /\ share' = [open |-> TRUE, chunks |-> <<>>] /\ ~share.open
    /\ MicIdle /\ UNCHANGED saveVars

Hear ==
    /\ kind = "heard" /\ share.chunks # <<>>
    /\ share' = [share EXCEPT !.chunks = <<>>]
    /\ MicIdle /\ UNCHANGED saveVars

StopListening ==
    /\ kind = "heard" /\ share.open
    /\ share' = [open |-> FALSE, chunks |-> <<>>]
    /\ MicIdle /\ UNCHANGED saveVars

FeederStep == FeederOpens \/ FeederReads \/ FeederWrites

Next ==
    \/ \E j \in Saves : \/ \E what \in {"photo", "sound", "video"} : Begin(j, what)
                        \/ SaveStep(j) \/ NotStarted(j) \/ FfmpegOpens(j) \/ FfmpegEnds(j)
                        \/ Delete(j) \/ Age(j)
    \/ FeederStep \/ Remove \/ Removed \/ Crash
    \/ MicMoves \/ Listen \/ Hear \/ StopListening

(* The hub's threads keep running and their timeouts pass.  Nothing is     *)
(* assumed of ffmpeg: a write to an ffmpeg that hangs may never return.    *)
Fairness ==
    /\ MicFairness
    /\ WF_vars(FeederOpens) /\ WF_vars(FeederReads)
    /\ WF_vars(AtThePipe = {} /\ FeederWrites)
    /\ WF_vars(\E j \in Saves : SaveStep(j)) /\ WF_vars(Remove) /\ WF_vars(Removed)

Spec == Init /\ [][Next]_vars /\ Fairness

----------------------------------------------------------------------------
(* What is shown: whatever stands under a capture's name, with the sidecar *)
(* if there is one.                                                        *)
Listing == disk.files
Metadata(j) == j \in disk.notes

(* Nobody is ever shown half a capture, however saves, removals, sweeps    *)
(* and crashes interleave: a file under a capture's name is complete and   *)
(* has its sidecar, until its own removal begins.  ("never a file that     *)
(* looks complete and is not", vision/recording.py:7.)                     *)
ServedIsWhole == \A j \in Listing : j \in disk.whole /\ (Metadata(j) \/ j \in removed)

(* A recording that is over leaves nothing behind of its pipe: the feeder's *)
(* thread ends and the microphone is no longer held, whether ffmpeg ever   *)
(* came, hangs or died, unless end() knocked before the feeder was there.  *)
EndedIsOver ==
    (pipe.done) ~> (early \/ (pipe.feeder = "over" /\ ~share.open))

=============================================================================
