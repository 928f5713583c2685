------------------------------- MODULE Sentry -------------------------------
(***************************************************************************)
(* Arming, disarming, testing, the action worker and what happens when a   *)
(* source fails: the class Sentry (src/sentry_mode/sentry/engine.py) over  *)
(* the plan of sentry/resources.py and the leases of sources/manager.py.   *)
(*                                                                         *)
(* The actors: whoever holds the lifecycle lock (one caller of arm, disarm *)
(* or test at a time), the thread that runs actions, the threads of a      *)
(* group's steps, the recordings they leave behind, and the callbacks of   *)
(* the camera and the detector.  What is done under the guard is one       *)
(* action; a join, and what is read without the guard, ends one.           *)
(*                                                                         *)
(* When a rule fires is left open: any armed rule that is not paused may.  *)
(* Deadlines are left open too: a step that has one may find it passed.    *)
(***************************************************************************)
EXTENDS Naturals, Sequences, Functions

CONSTANTS Rules,
          Primary, Detector,  \* this node's camera and the model all cameras share
          Cameras, Sensors,   \* the other cameras; what satellites report
          Looks,     \* the camera each rule's trigger watches, None without one
          Listens,   \* the sensors each rule's trigger listens to
          Shoots,    \* the cameras each rule's actions use
          Groups,    \* each rule's actions, in groups that start together
          Fragile,   \* the sources that may fail
          Policies,  \* the fault policies a saved configuration may name
          Slots,        \* the size of the action queue, 16 in the code
          HaltedKept,   \* how many halted triggers are remembered, 64 in the code
          None,
          MaxStarts, MaxTriggers   \* bounds on armings and tests, and on firings

Kinds == {"act", "speak", "photo", "series", "record"}

ASSUME SentryConstants ==
  /\ Looks \in [Rules -> Cameras \cup {Primary, None}]
  /\ Listens \in [Rules -> SUBSET Sensors]
  /\ Shoots \in [Rules -> SUBSET (Cameras \cup {Primary})]
  /\ Groups \in [Rules -> Seq(Seq(Kinds))]
  /\ Fragile \subseteq Cameras \cup Sensors \cup {Primary, Detector}
  /\ Policies \subseteq {"global", "isolated"}
  /\ Slots \in Nat /\ HaltedKept \in Nat \ {0}
  /\ MaxStarts \in Nat /\ MaxTriggers \in Nat

(* A source has one id, and one kind: this node's camera, the detector,    *)
(* another camera or a sensor.                                             *)
ASSUME SourcesAreApart ==
  /\ Cameras \cap Sensors = {}
  /\ {Primary, Detector, None} \cap (Cameras \cup Sensors) = {}
  /\ Primary # Detector /\ Primary # None /\ Detector # None

VARIABLES
  policy,      \* config.fault_policy
  armed, epoch, error,
  cancelled,   \* the Event the engine holds now; each arming or test makes one
  isSet,       \* the Events that are set
  plan, suspended, jobs,
  threads,     \* the live action threads, each named by the Event made with it
  recorders,   \* self.recorders
  recording,   \* the recordings that are alive, and what each is doing
  halted,      \* the triggers whose remaining steps are dropped
  dropped,     \* every <<trigger, group>> at which a sequence was dropped
  speaker,     \* the audio lock: None, or the thread and step that hold it
  monitoring,  \* this node's camera runs for Sentry
  watching,    \* self.watching: <<camera, owner>>
  held,        \* the monitoring leases outstanding at the cameras
  broken,      \* the sources that do not work
  calling,     \* a failure that has not been reported to fault yet
  caller,      \* the holder of the lifecycle lock
  triggers,    \* how often a rule has fired or been tested
  gaveUp       \* a disarm raised instead of finishing

core  == <<armed, epoch, error, cancelled, isSet, plan, suspended, jobs>>
acts  == <<threads, recorders, recording, halted, dropped, speaker>>
eyes  == <<monitoring, watching, held>>
world == <<broken, calling>>
calls == <<caller, triggers, gaveUp, policy>>
vars  == <<core, acts, eyes, world, calls>>

-----------------------------------------------------------------------------
(* The plan. *)

Watches(r) == ({Looks[r]} \ {None}) \cup Listens[r]
Needs(r)   == Watches(r) \cup Shoots[r] \cup (IF Looks[r] = None THEN {} ELSE {Detector})

AllOf(F(_), rules) == UNION {F(r) : r \in rules}

MakePlan ==
  LET looked == AllOf(LAMBDA r : {Looks[r]}, Rules)
      shot   == AllOf(LAMBDA r : Shoots[r], Rules)
  IN  [detector |-> Primary \in looked,
       camera   |-> Primary \in looked \cup shot,
       vision   |-> looked \cap Cameras,
       ready    |-> (shot \cap Cameras) \ looked,
       watched  |-> AllOf(LAMBDA r : Listens[r], Rules)]

(* The detector, if this node's camera runs with it. *)
InUse == IF MakePlan.detector THEN {Detector} ELSE {}

(* What _healthy finds wrong with what the plan needs. *)
FailuresOfCameras(p) ==
  (IF ~p.camera THEN {}
   ELSE IF Primary \in broken \/ ~monitoring THEN {Primary}
   ELSE IF p.detector THEN broken \cap {Detector} ELSE {})
  \cup (broken \cap p.vision)
  \cup (IF p.vision \subseteq broken THEN {} ELSE broken \cap {Detector})

Failures(p) ==
  (IF ~p.camera THEN {}
   ELSE IF Primary \in broken \/ ~monitoring THEN {Primary}
   ELSE IF p.detector THEN broken \cap {Detector} ELSE {})
  \cup (broken \cap (p.vision \cup p.watched))
  \cup (IF p.vision \subseteq broken THEN {} ELSE broken \cap {Detector})

-----------------------------------------------------------------------------
(* Shared pieces. *)

Stopped   == cancelled \in isSet
Idle      == [pc |-> "idle", rule |-> None]
ThreadIsAlive == cancelled \in DOMAIN threads

Sequence(r, id) ==
  [g \in DOMAIN Groups[r] |-> [rule |-> r, trigger |-> id, group |-> g, epoch |-> epoch]]

Thread(kind, todo) ==
  [kind |-> kind, pc |-> "loop", todo |-> todo, job |-> None, failures |-> {}, steps |-> <<>>]

At(t, pc)  == t \in DOMAIN threads /\ threads[t].pc = pc
Goto(t, pc) == threads' = [threads EXCEPT ![t].pc = pc]

(* Set the Event, empty the queue, and stop being armed: fault, _healthy   *)
(* and _isolate when nothing is left.                                      *)
GiveUp ==
  /\ error' = TRUE /\ armed' = FALSE
  /\ isSet' = isSet \cup {cancelled}
  /\ jobs' = <<>>
  /\ UNCHANGED <<epoch, cancelled>>

StopPrimaryCamera ==
  /\ monitoring' = FALSE
  /\ watching' = {}
  /\ held' = held

StopCameras ==
  /\ monitoring' = FALSE
  /\ held' = held \ watching
  /\ watching' = {}

-----------------------------------------------------------------------------
(* arm: check, wait for the last thread, start the cameras, commit. *)

Arm ==
  /\ caller = Idle /\ ~armed
  /\ cancelled < MaxStarts
  /\ caller' = [Idle EXCEPT !.pc = "arm"]
  /\ UNCHANGED <<core, acts, eyes, world, triggers, gaveUp, policy>>

JoinedAnyway(from, to) ==
  /\ caller.pc = from
  /\ caller' = [caller EXCEPT !.pc = to]
  /\ UNCHANGED <<core, acts, eyes, world, triggers, gaveUp, policy>>

(* join(timeout=3): while the thread lives it may time out and refuse. *)
Joined(from, to) ==
  /\ caller.pc = from
  /\ caller' = IF ThreadIsAlive THEN Idle ELSE [caller EXCEPT !.pc = to]
  /\ UNCHANGED <<core, acts, eyes, world, triggers, gaveUp, policy>>

JoinBeforeArming == Joined("arm", "cameras")

(* set_sentry(True) and _watch, which undo what they did when they fail. *)
StartCameras ==
  /\ caller.pc = "cameras"
  /\ LET p == MakePlan
         leases == {<<c, epoch + 1>> : c \in p.vision \cup p.ready}
         starts == p.camera => broken \cap ({Primary} \cup InUse) = {}
     IN  \/ /\ starts
            /\ monitoring' = (monitoring \/ p.camera)
            /\ held' = held \cup leases
            /\ caller' = [caller EXCEPT !.pc = "commit"]
         \/ /\ starts => p.vision \cup p.ready # {}
            /\ monitoring' = (monitoring /\ ~p.camera)
            /\ held' = held
            /\ caller' = Idle
  /\ UNCHANGED <<core, acts, watching, world, triggers, gaveUp, policy>>

CommitArming ==
  /\ caller.pc = "commit"
  /\ plan' = MakePlan
  /\ watching' = {<<c, epoch + 1>> : c \in plan'.vision \cup plan'.ready}
  /\ cancelled' = cancelled + 1
  /\ jobs' = <<>> /\ suspended' = {}
  /\ epoch' = epoch + 1
  /\ error' = FALSE /\ armed' = TRUE
  /\ threads' = [t \in DOMAIN threads \cup {cancelled'} |->
                   IF t = cancelled' THEN Thread("worker", <<>>) ELSE threads[t]]
  /\ caller' = Idle
  /\ UNCHANGED <<isSet, recorders, recording, halted, dropped, speaker, monitoring,
                 held, world, triggers, gaveUp, policy>>

-----------------------------------------------------------------------------
(* test: the same thread slot, an Event of its own, and no queue. *)

Test(r) ==
  /\ caller = Idle /\ ~armed
  /\ cancelled < MaxStarts /\ triggers < MaxTriggers
  /\ caller' = [pc |-> "test", rule |-> r]
  /\ UNCHANGED <<core, acts, eyes, world, triggers, gaveUp, policy>>

JoinBeforeTesting == Joined("test", "start")

StartTest ==
  /\ caller.pc = "start"
  /\ cancelled' = cancelled + 1
  /\ triggers' = triggers + 1
  /\ threads' = [t \in DOMAIN threads \cup {cancelled'} |->
                   IF t = cancelled' THEN Thread("test", Sequence(caller.rule, triggers'))
                   ELSE threads[t]]
  /\ caller' = Idle
  /\ UNCHANGED <<armed, epoch, error, isSet, plan, suspended, jobs, recorders, recording,
                 halted, dropped, speaker, eyes, world, gaveUp, policy>>

-----------------------------------------------------------------------------
(* disarm: signal, wait for the thread, wait for recordings, let go. *)

Disarm ==
  /\ caller = Idle
  /\ armed' = FALSE
  /\ epoch' = IF armed THEN epoch + 1 ELSE epoch
  /\ isSet' = isSet \cup {cancelled}
  /\ jobs' = <<>>
  /\ caller' = [Idle EXCEPT !.pc = "disarm"]
  /\ UNCHANGED <<error, cancelled, plan, suspended, acts, eyes, world, triggers, gaveUp, policy>>

JoinBeforeReleasing ==
  /\ caller.pc = "disarm"
  /\ caller' = IF ThreadIsAlive THEN Idle ELSE [caller EXCEPT !.pc = "recorders"]
  /\ gaveUp' = (gaveUp \/ ThreadIsAlive)
  /\ UNCHANGED <<core, acts, eyes, world, triggers, policy>>

FinishedRecording == recorders \ DOMAIN recording

StillRecording == recorders \cap DOMAIN recording

JoinRecorders ==
  /\ caller.pc = "recorders"
  /\ recorders' = StillRecording
  /\ caller' = IF StillRecording # {} THEN Idle ELSE [caller EXCEPT !.pc = "release"]
  /\ gaveUp' = (gaveUp \/ StillRecording # {})
  /\ UNCHANGED <<core, threads, recording, halted, dropped, speaker, eyes, world, triggers, policy>>

Release ==
  /\ caller.pc = "release"
  /\ StopCameras
  /\ caller' = Idle
  /\ UNCHANGED <<core, acts, world, triggers, gaveUp, policy>>

(* update_v2, refused while armed.  It does not wait for the thread. *)
Update ==
  /\ caller = Idle /\ ~armed
  /\ policy' \in Policies \ {policy}
  /\ UNCHANGED <<core, acts, eyes, world, caller, triggers, gaveUp>>

-----------------------------------------------------------------------------
(* Rules fire; sources fail and are repaired. *)

Queued(seq) == IF Len(seq) > Slots - Len(jobs) THEN jobs ELSE jobs \o seq

Fire(r) ==
  /\ armed /\ r \notin suspended
  /\ triggers < MaxTriggers
  /\ triggers' = triggers + 1
  /\ jobs' = Queued(Sequence(r, triggers'))
  /\ UNCHANGED <<armed, epoch, error, cancelled, isSet, plan, suspended, acts, eyes, world,
                 caller, gaveUp, policy>>

Break(s) ==
  /\ s \in Fragile \ broken
  /\ broken' = broken \cup {s}
  /\ calling' = (calling \/ (monitoring /\ s \in {Primary} \cup InUse))
  /\ UNCHANGED <<core, acts, eyes, calls>>

(* A capture or a model that died stays so until Sentry starts it again. *)
Mend(s) ==
  /\ s \in broken
  /\ s \in {Primary, Detector} => ~armed /\ caller = Idle
  /\ broken' = broken \ {s}
  /\ UNCHANGED <<core, acts, eyes, calling, calls>>

(* on_error of the camera or the detector. *)
Fault ==
  /\ calling
  /\ calling' = FALSE
  /\ IF armed /\ policy = "global"
     THEN GiveUp
     ELSE UNCHANGED <<armed, epoch, error, cancelled, isSet, jobs>>
  /\ UNCHANGED <<plan, suspended, acts, eyes, broken, calls>>

-----------------------------------------------------------------------------
(* The worker: look at the sources, take a job, run it. *)

(* The Event, then the status of every source, read without the guard. *)
Look(t) ==
  /\ At(t, "loop") /\ threads[t].kind = "worker"
  /\ threads' = [threads EXCEPT
       ![t].failures = IF Stopped THEN {} ELSE Failures(plan),
       ![t].pc = IF Stopped THEN "exit" ELSE IF Failures(plan) = {} THEN "take" ELSE "unwell"]
  /\ UNCHANGED <<core, recorders, recording, halted, dropped, speaker, eyes, world, calls>>

FailGlobally(t) ==
  /\ At(t, "unwell") /\ policy = "global"
  /\ GiveUp
  /\ Goto(t, "exit")
  /\ UNCHANGED <<plan, suspended, recorders, recording, halted, dropped, speaker, eyes, world, calls>>

Paused(t) == suspended \cup {r \in Rules : Needs(r) \cap threads[t].failures # {}}

KeptNone(failures, needed) == {}

(* The cameras that stop being watched but stay on for somebody's photos. *)
Kept(failures, needed) ==
  IF Detector \in failures THEN (plan.vision \cap needed) \ failures ELSE {}

Isolate(t) ==
  LET failures == threads[t].failures
      needed   == AllOf(Needs, Rules \ Paused(t))
      kept     == Kept(failures, needed)
      vision   == IF Detector \in failures THEN {} ELSE plan.vision \ failures
      lost     == plan.camera /\ Primary \in failures
      blind    == ~lost /\ plan.detector /\ Detector \in failures
      primary  == Primary \in needed \ failures
      gone     == {l \in watching : l[1] \in ((failures \cup plan.vision) \ vision) \ kept}
  IN  /\ At(t, "unwell") /\ policy = "isolated"
      /\ Rules # Paused(t)
      /\ suspended' = Paused(t)
      /\ plan' = [plan EXCEPT !.vision = vision, !.ready = plan.ready \cup kept,
                              !.detector = plan.detector /\ ~lost /\ ~blind,
                              !.camera = IF lost THEN FALSE ELSE IF blind THEN primary
                                         ELSE plan.camera]
      /\ monitoring' \in IF lost THEN {FALSE}
                         ELSE IF blind THEN {FALSE, primary /\ Primary \notin broken}
                         ELSE {monitoring}
      /\ watching' = watching \ gone
      /\ held' = held \ gone
      /\ Goto(t, "take")
      /\ UNCHANGED <<armed, epoch, error, cancelled, isSet, jobs, recorders, recording,
                     halted, dropped, speaker, world, calls>>

IsolateAll(t) ==
  /\ At(t, "unwell") /\ policy = "isolated"
  /\ Rules = Paused(t)
  /\ suspended' = Paused(t)
  /\ GiveUp
  /\ Goto(t, "exit")
  /\ UNCHANGED <<plan, recorders, recording, halted, dropped, speaker, eyes, world, calls>>

Take(t) ==
  /\ At(t, "take")
  /\ IF jobs = <<>>
     THEN Goto(t, "loop") /\ jobs' = jobs
     ELSE /\ threads' = [threads EXCEPT ![t].job = Head(jobs), ![t].pc = "run"]
          /\ jobs' = Tail(jobs)
  /\ UNCHANGED <<armed, epoch, error, cancelled, isSet, plan, suspended, recorders, recording,
                 halted, dropped, speaker, eyes, world, calls>>

ExitQuietly(t) ==
  /\ At(t, "exit")
  /\ threads' = Restrict(threads, DOMAIN threads \ {t})
  /\ UNCHANGED <<core, recorders, recording, halted, dropped, speaker, eyes, world, calls>>

(* A worker that stops after an error lets the cameras go. *)
Exit(t) ==
  /\ At(t, "exit")
  /\ threads' = Restrict(threads, DOMAIN threads \ {t})
  /\ IF error THEN StopCameras ELSE UNCHANGED eyes
  /\ UNCHANGED <<core, recorders, recording, halted, dropped, speaker, world, calls>>

(* _test: the next group, or the end. *)
NextTested(t) ==
  /\ At(t, "loop") /\ threads[t].kind = "test"
  /\ threads' = IF Stopped \/ threads[t].todo = <<>>
                THEN Restrict(threads, DOMAIN threads \ {t})
                ELSE [threads EXCEPT ![t].job = Head(threads[t].todo), ![t].todo = Tail(threads[t].todo),
                                     ![t].pc = "run"]
  /\ UNCHANGED <<core, recorders, recording, halted, dropped, speaker, eyes, world, calls>>

-----------------------------------------------------------------------------
(* _run: a group starts if its arming and its sequence still stand, and is *)
(* over when all its steps are.                                            *)

MayRunAnyway(job) == ~Stopped /\ job.epoch = epoch

MayRun(job) == ~Stopped /\ job.epoch = epoch /\ job.trigger \notin Range(halted)

StartGroup(t) ==
  /\ At(t, "run")
  /\ LET job == threads[t].job IN
     threads' = IF MayRun(job)
                THEN [threads EXCEPT ![t].pc = "steps",
                        ![t].steps = [i \in DOMAIN Groups[job.rule][job.group] |->
                                        [pc |-> "check", ev |-> None, kept |-> {}]]]
                ELSE [threads EXCEPT ![t].pc = "loop"]
  /\ UNCHANGED <<core, recorders, recording, halted, dropped, speaker, eyes, world, calls>>

EndGroup(t) ==
  /\ At(t, "steps")
  /\ \A i \in DOMAIN threads[t].steps : threads[t].steps[i].pc = "done"
  /\ threads' = [threads EXCEPT ![t].pc = "loop", ![t].steps = <<>>]
  /\ UNCHANGED <<core, recorders, recording, halted, dropped, speaker, eyes, world, calls>>

-----------------------------------------------------------------------------
(* _step, for the step i of the group that the thread t runs. *)

StepAt(t, i, pc) == At(t, "steps") /\ i \in DOMAIN threads[t].steps
                    /\ threads[t].steps[i].pc = pc
StepTo(t, i, pc) == threads' = [threads EXCEPT ![t].steps[i].pc = pc]
KindOf(t, i)     == Groups[threads[t].job.rule][threads[t].job.group][i]

First(kind) == CASE kind = "act" -> "act" [] kind = "speak" -> "lock" [] OTHER -> "look"

(* A wait has no deadline; "act" stands for it as well, and the choice     *)
(* below covers both.                                                      *)
Check(t, i) ==
  /\ StepAt(t, i, "check")
  /\ \E pc \in (IF Stopped THEN {} ELSE {First(KindOf(t, i))}) \cup {"done"} :
       threads' = [threads EXCEPT ![t].steps[i] = [@ EXCEPT !.pc = pc, !.ev = cancelled]]
  /\ UNCHANGED <<core, recorders, recording, halted, dropped, speaker, eyes, world, calls>>

(* A wait, a command over SSH or a message: over when done, failed, timed  *)
(* out or stopped.                                                         *)
Act(t, i) ==
  /\ StepAt(t, i, "act")
  /\ StepTo(t, i, "done")
  /\ UNCHANGED <<core, recorders, recording, halted, dropped, speaker, eyes, world, calls>>

Lock(t, i) ==
  /\ StepAt(t, i, "lock")
  /\ \/ StepTo(t, i, "done") /\ UNCHANGED speaker
     \/ speaker = None /\ StepTo(t, i, "speak") /\ speaker' = <<t, i>>
  /\ UNCHANGED <<core, recorders, recording, halted, dropped, eyes, world, calls>>

Speak(t, i) ==
  /\ StepAt(t, i, "speak")
  /\ StepTo(t, i, "done")
  /\ speaker' = None
  /\ UNCHANGED <<core, recorders, recording, halted, dropped, eyes, world, calls>>

(* The frame a photo, a series or a video begins with. *)
Frame(t, i) ==
  /\ StepAt(t, i, "look")
  /\ StepTo(t, i, IF KindOf(t, i) = "photo" THEN "done" ELSE "list")
  /\ UNCHANGED <<core, recorders, recording, halted, dropped, speaker, eyes, world, calls>>

Remembered(id) == LET h == Append(halted, id) IN
                  IF Len(h) > HaltedKept THEN Tail(h) ELSE h

(* No frame: the step is skipped, has failed, or stops its sequence. *)
Unavailable(t, i) ==
  /\ StepAt(t, i, "look")
  /\ StepTo(t, i, "done")
  /\ LET job == threads[t].job IN
     \/ UNCHANGED <<halted, dropped>>
     \/ /\ ~Stopped
        /\ halted' = Remembered(job.trigger)
        /\ dropped' = dropped \cup {<<job.trigger, job.group>>}
  /\ UNCHANGED <<core, recorders, recording, speaker, eyes, world, calls>>

(* _in_background, in the order it reads and writes self.recorders. *)
Recorder(t, i) ==
  [ev |-> threads[t].steps[i].ev, trigger |-> threads[t].job.trigger,
   group |-> threads[t].job.group, step |-> i, epoch |-> threads[t].job.epoch,
   kind |-> KindOf(t, i)]

ListAlive(t, i) ==
  /\ StepAt(t, i, "list")
  /\ threads' = [threads EXCEPT ![t].steps[i] = [@ EXCEPT !.kept = StillRecording, !.pc = "assign"]]
  /\ UNCHANGED <<core, recorders, recording, halted, dropped, speaker, eyes, world, calls>>

AssignAlive(t, i) ==
  /\ StepAt(t, i, "assign")
  /\ recorders' = threads[t].steps[i].kept
  /\ threads' = [threads EXCEPT ![t].steps[i] = [@ EXCEPT !.kept = {}, !.pc = "append"]]
  /\ UNCHANGED <<core, recording, halted, dropped, speaker, eyes, world, calls>>

AppendRecorder(t, i) ==
  /\ StepAt(t, i, "append")
  /\ recorders' = recorders \cup {Recorder(t, i)}
  /\ StepTo(t, i, "begin")
  /\ UNCHANGED <<core, recording, halted, dropped, speaker, eyes, world, calls>>

StartRecorder(t, i) ==
  /\ StepAt(t, i, "begin")
  /\ recording' = [r \in DOMAIN recording \cup {Recorder(t, i)} |->
                     IF r \in DOMAIN recording THEN recording[r] ELSE "between"]
  /\ StepTo(t, i, "done")
  /\ UNCHANGED <<core, recorders, halted, dropped, speaker, eyes, world, calls>>

Step(t, i) ==
  \/ Check(t, i) \/ Act(t, i) \/ Lock(t, i) \/ Speak(t, i) \/ Frame(t, i) \/ Unavailable(t, i)
  \/ ListAlive(t, i) \/ AssignAlive(t, i) \/ AppendRecorder(t, i) \/ StartRecorder(t, i)

-----------------------------------------------------------------------------
(* A recording ends on its own or because its Event is set.  Between two   *)
(* photos a series waits on its Event; for a frame it waits on the         *)
(* engine's, whichever that is by then.                                    *)

NextPhoto(r) ==
  /\ r \in DOMAIN recording /\ recording[r] = "between"
  /\ r.kind = "series" /\ r.ev \notin isSet
  /\ recording' = [recording EXCEPT ![r] = "recent"]
  /\ UNCHANGED <<core, threads, recorders, halted, dropped, speaker, eyes, world, calls>>

PhotoDone(r) ==
  /\ r \in DOMAIN recording /\ recording[r] = "recent"
  /\ recording' = [recording EXCEPT ![r] = "between"]
  /\ UNCHANGED <<core, threads, recorders, halted, dropped, speaker, eyes, world, calls>>

EndRecording(r) ==
  /\ r \in DOMAIN recording /\ recording[r] = "between"
  /\ recording' = Restrict(recording, DOMAIN recording \ {r})
  /\ UNCHANGED <<core, threads, recorders, halted, dropped, speaker, eyes, world, calls>>

-----------------------------------------------------------------------------
Init ==
  /\ policy \in Policies
  /\ armed = FALSE /\ epoch = 0 /\ error = FALSE
  /\ cancelled = 0 /\ isSet = {0}
  /\ plan = None /\ suspended = {} /\ jobs = <<>>
  /\ threads = <<>> /\ recorders = {} /\ recording = <<>>
  /\ halted = <<>> /\ dropped = {} /\ speaker = None
  /\ monitoring = FALSE /\ watching = {} /\ held = {}
  /\ broken = {} /\ calling = FALSE
  /\ caller = Idle /\ triggers = 0 /\ gaveUp = FALSE

Calling ==
  \/ JoinBeforeArming \/ StartCameras \/ CommitArming
  \/ JoinBeforeTesting \/ StartTest
  \/ JoinBeforeReleasing \/ JoinRecorders \/ Release

Working(t) ==
  \/ Look(t) \/ FailGlobally(t) \/ Isolate(t) \/ IsolateAll(t) \/ Take(t) \/ Exit(t)
  \/ NextTested(t) \/ StartGroup(t) \/ EndGroup(t)
  \/ At(t, "steps") /\ \E i \in DOMAIN threads[t].steps : Step(t, i)

Recording(r) == NextPhoto(r) \/ PhotoDone(r) \/ EndRecording(r)

Next ==
  \/ Arm \/ Disarm \/ Update \/ Calling
  \/ \E r \in Rules : Test(r) \/ Fire(r)
  \/ \E s \in Fragile : Break(s) \/ Mend(s)
  \/ Fault
  \/ \E t \in 1..MaxStarts : Working(t)
  \/ \E r \in DOMAIN recording : Recording(r)

Spec == Init /\ [][Next]_vars

(* Threads run and joins end; nobody has to call, fire, fail or mend. *)
FairSpec ==
  /\ Spec
  /\ WF_vars(Calling) /\ WF_vars(Fault)
  /\ \A t \in 1..MaxStarts : WF_vars(Working(t))

-----------------------------------------------------------------------------
(* Properties. *)

Job == [rule : Rules, trigger : Nat, group : Nat, epoch : Nat]

ThreadPCs == {"loop", "unwell", "take", "exit", "run", "steps"}
StepPCs   == {"check", "act", "lock", "speak", "look", "list", "assign", "append", "begin", "done"}

(* The type of the engine's state. *)
TypeOK ==
  /\ policy \in Policies
  /\ armed \in BOOLEAN /\ epoch \in Nat /\ error \in BOOLEAN
  /\ cancelled \in 0..MaxStarts /\ isSet \subseteq 0..cancelled
  /\ plan = None \/ (plan.vision \cup plan.ready) \subseteq Cameras
  /\ suspended \subseteq Rules
  /\ jobs \in Seq(Job) /\ Len(jobs) <= Slots
  /\ \A t \in DOMAIN threads :
       /\ t \in 1..MaxStarts /\ threads[t].pc \in ThreadPCs
       /\ \A i \in DOMAIN threads[t].steps : threads[t].steps[i].pc \in StepPCs
  /\ Len(halted) <= HaltedKept
  /\ monitoring \in BOOLEAN /\ watching \subseteq held
  /\ broken \subseteq Fragile /\ calling \in BOOLEAN /\ gaveUp \in BOOLEAN
  /\ triggers \in 0..MaxTriggers

(* A live action thread listens to the Event the engine holds, so that     *)
(* disarm and fault reach it, and a step past its checks is of the current *)
(* arming unless that arming has been stopped: arm and test never replace  *)
(* the Event under a thread that still runs (arm, test, _run, _step).      *)
StopReachesTheThread ==
  \A t \in DOMAIN threads :
    /\ t = cancelled
    /\ threads[t].pc = "steps" => threads[t].job.epoch = epoch \/ t \in isSet

(* After a step stopped its sequence no later group of it starts, although *)
(* the list of halted triggers forgets (_unavailable, _run).               *)
HaltedStaysHalted ==
  \A t \in DOMAIN threads : threads[t].pc = "steps" =>
    \A g \in 1..(threads[t].job.group - 1) : <<threads[t].job.trigger, g>> \notin dropped

(* When disarm lets the cameras go no action thread runs, nothing is being *)
(* recorded and the speaker is free: disarm returns only when all is quiet *)
(* (disarm, _in_background).                                               *)
QuietOnceDisarmed ==
  caller.pc = "release" => threads = <<>> /\ recording = <<>> /\ speaker = None

(* Every lease on a camera is one the engine can still give back, unless a *)
(* disarm has given up (arm, _watch, _unwatch, disarm).                    *)
NoLeaseIsLost ==
  gaveUp \/ caller.pc = "commit" \/ held = watching

(* While armed, each rule that is not paused has every other camera it     *)
(* uses on lease and this node's camera in the plan: pausing some rules    *)
(* takes nothing from the rest (_isolate).                                 *)
TheRestKeepTheirCameras ==
  armed => \A r \in Rules \ suspended : \A c \in Needs(r) :
    /\ c \in Cameras => \E l \in watching : l[1] = c
    /\ c = Primary => plan.camera

(* A rule whose trigger depends on something that stopped is paused or     *)
(* Sentry is disarmed, unless it works again: no callback that was lost or *)
(* came too early leaves a rule armed on a dead source (_healthy, fault).  *)
DeadSourceIsNoticed ==
  \A r \in Rules :
    LET dead == ((Needs(r) \ Cameras) \cup Watches(r)) \cap broken # {}
    IN  (armed /\ r \notin suspended /\ dead) ~> (~armed \/ r \in suspended \/ ~dead)

(* After a fault the cameras are let go, unless Sentry is armed again      *)
(* first (_worker's last lines).                                           *)
FaultLetsTheCamerasGo == (error /\ ~armed) ~> (armed \/ (~monitoring /\ watching = {}))

=============================================================================
