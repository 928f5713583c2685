-------------------------------- MODULE Vision --------------------------------
(***************************************************************************)
(* The hub's own camera, another camera, and the one model they share:     *)
(* VideoStream and its capture thread (src/sentry_mode/vision/stream.py),  *)
(* the DetectionWorker of each camera (vision/detection.py), of which the  *)
(* second is a RemoteCamera's (vision/remote.py), and InferenceScheduler   *)
(* with its worker threads (vision/scheduler.py).                          *)
(*                                                                         *)
(* Each thread works off a list of steps, one for every stretch of code    *)
(* between two releases of a lock; a step may put others in front of what  *)
(* is left.  An epoch is told apart only by whether it is still the one of *)
(* its DetectionWorker: within an epoch one thread offers frames in order, *)
(* and the slot holds the last.  The pictures, the preview images and the  *)
(* boxes themselves are left out, and so are the rates.                    *)
(***************************************************************************)
EXTENDS Integers, Sequences, FiniteSets, SequencesExt

CONSTANTS Primary, Other,  \* the two cameras
          None,
          Workers,         \* bound: worker threads alive at a time
          Enabled,         \* detection.enabled, as it was configured
          Isolated,        \* isolation: process
          Operations,      \* what may be asked of the stream
          MaxMishaps,      \* bound: what may go wrong; see Mishap
          MaxAsks          \* bound: what may be asked of the two cameras

Cameras == {Primary, Other}
Threads == {"caller", "capture"}  \* of the primary camera

ASSUME VisionConstants ==
  /\ Primary # Other /\ Enabled \in BOOLEAN /\ Isolated \in BOOLEAN
  /\ MaxMishaps \in Nat /\ MaxAsks \in Nat
  /\ Operations \subseteq {"start", "stop", "arm", "watch", "disarm", "detect", "plain"}
  /\ None \notin {"now", "old"}

VARIABLES
  todo,       \* what each thread still has to do
  carried,    \* the epoch DetectionWorker.start is registering
  call,       \* the operation the lifecycle lock is held for
  preview, monitoring, previewDetects,
  capture,    \* the capture thread: none, opening, running, failed, ending
  stopped, ready, failed, lock,  \* VideoStream's events, its error and the camera lock
  worker,     \* DetectionWorker of each camera
  robbed,     \* history: the capture thread's release took a demand newer than its pause
  abandoned,  \* history: disarming raised before it came to stop the capture
  submitting, \* the epoch submit has read, until the scheduler has the frame
  demands, pending, model, \* InferenceScheduler
  serving,    \* its current thread
  threads,    \* the worker threads, the current one and older ones on their way out
  mishaps, asks

switches  == <<preview, monitoring, previewDetects>>
camera    == <<capture, stopped, ready, failed, lock>>
scheduler == <<demands, pending, model, serving>>
history   == <<robbed, abandoned>>
budget    == <<mishaps, asks>>
visionVars == <<todo, carried, call, switches, camera, worker, history, submitting, scheduler,
          threads, budget>>

Epoch == {None, "now", "old"}
Detector == [stopped : BOOLEAN, enabled : BOOLEAN, result : Epoch]
Worker == [at : {"none", "wait", "detect", "deliver", "tell"}, stop : BOOLEAN,
           camera : Cameras \cup {None}, epoch : Epoch, loaded : BOOLEAN, tell : SUBSET Cameras]
NoWorker == [at |-> "none", stop |-> FALSE, camera |-> None, epoch |-> None,
             loaded |-> FALSE, tell |-> {}]
ProgramStep == {"halt", "off", "release", "await", "enable", "begin", "load", "register",
                "restore", "ensure", "launch", "ready", "check", "stop", "join"}

VisionTypeOK ==
  /\ todo \in [Threads -> Seq(ProgramStep)] /\ carried \in Epoch
  /\ call \in Operations \cup {None, "raised"}
  /\ preview \in BOOLEAN /\ monitoring \in BOOLEAN /\ previewDetects \in BOOLEAN
  /\ capture \in {"none", "opening", "running", "failed", "ending"}
  /\ stopped \in BOOLEAN /\ ready \in BOOLEAN /\ failed \in BOOLEAN /\ lock \in BOOLEAN
  /\ worker \in [Cameras -> Detector] /\ submitting \in Epoch
  /\ robbed \in BOOLEAN /\ abandoned \in BOOLEAN
  /\ demands \in [Cameras -> Epoch] /\ pending \in [Cameras -> Epoch]
  /\ model \in BOOLEAN /\ serving \in Workers \cup {None}
  /\ threads \in [Workers -> Worker] /\ mishaps \in 0..MaxMishaps /\ asks \in 0..MaxAsks

VisionInit ==
  /\ todo = [t \in Threads |-> << >>] /\ carried = None
  /\ call = None /\ preview = FALSE /\ monitoring = FALSE /\ previewDetects = Enabled
  /\ capture = "none" /\ stopped = FALSE /\ ready = FALSE /\ failed = FALSE /\ lock = FALSE
  /\ worker = [c \in Cameras |-> [stopped |-> TRUE, result |-> None,
                                  enabled |-> c = Primary /\ Enabled]]
  /\ submitting = None /\ robbed = FALSE /\ abandoned = FALSE
  /\ demands = [c \in Cameras |-> None] /\ pending = [c \in Cameras |-> None]
  /\ model = FALSE /\ serving = None
  /\ threads = [w \in Workers |-> NoWorker] /\ mishaps = 0 /\ asks = 0

(* A model that does not load, answers late or fails, a camera that goes,  *)
(* a wait that runs out.                                                   *)
Mishap == mishaps < MaxMishaps /\ mishaps' = mishaps + 1 /\ UNCHANGED asks

Asked == asks < MaxAsks /\ asks' = asks + 1

------------------------------------------------------------------------------
(* Lists of steps.  detection.pause, configure(False), start and           *)
(* _stop_capture.                                                          *)
Pause == <<"halt", "release">>
Off == <<"off", "release">>
StartSteps == <<"begin", "load", "register">>
StopCapture == <<"stop", "join">> \o Pause

Capturing == capture # "none" /\ ~stopped

(* start, stop, set_sentry with and without the detector, and              *)
(* set_detection.                                                          *)
Program(op) ==
  CASE op = "start"  -> <<"ensure">>
    [] op = "stop"   -> IF monitoring THEN << >> ELSE StopCapture
    [] op = "arm"    -> Pause \o <<"enable", "ensure">> \o StartSteps \o <<"check">>
    [] op = "watch"  -> <<"ensure">>
    [] op = "disarm" -> Pause \o <<"restore">>
    [] op = "detect" -> <<"enable">> \o IF Capturing THEN StartSteps ELSE << >>
    [] op = "plain"  -> Off

(* What each operation does with an exception before it raises it. *)
Handler(op) ==
  CASE op = "arm"   -> Pause \o <<"restore">>
    [] op = "watch" -> IF preview THEN << >> ELSE StopCapture
    [] OTHER        -> << >>

(* The lifecycle lock is released with the last step. *)
Has(t, step) == todo[t] # << >> /\ Head(todo[t]) = step
LeaveSteps(t, steps) ==
  /\ todo' = [todo EXCEPT ![t] = steps]
  /\ call' = IF t = "caller" /\ steps = << >> THEN None ELSE call
Then(t, more) == LeaveSteps(t, more \o Tail(todo[t]))
Skip(t, n) == LeaveSteps(t, SubSeq(todo[t], n + 2, Len(todo[t])))
Raise ==
  /\ todo' = [todo EXCEPT !["caller"] = Handler(call)]
  /\ call' = IF Handler(call) = << >> THEN None ELSE "raised"
  /\ preview' = (preview /\ call # "start")
  /\ monitoring' = (monitoring /\ call \notin {"arm", "watch"})
  /\ UNCHANGED previewDetects

------------------------------------------------------------------------------
(* InferenceScheduler. *)
Alive(w) == w # None /\ threads[w].at # "none"

(* The answers to "the same epoch?": two that have both passed may or may  *)
(* not be.                                                                 *)
Same(a, b) == IF a # b \/ a = None THEN {FALSE} ELSE IF a = "now" THEN {TRUE} ELSE BOOLEAN

(* self.epoch += 1: what carries the epoch of this camera is of an earlier *)
(* one.                                                                    *)
Passed(e) == IF e = None THEN None ELSE "old"
Aged(c) == [w \in Workers |-> IF threads[w].camera # c THEN threads[w]
                              ELSE [threads[w] EXCEPT !.epoch = Passed(@)]]
NewEpoch(c) ==
  /\ submitting' = IF c = Primary THEN Passed(submitting) ELSE submitting
  /\ demands' = [demands EXCEPT ![c] = Passed(@)]
  /\ pending' = [pending EXCEPT ![c] = Passed(@)]
  /\ threads' = Aged(c)

(* _start: a new thread unless the current one runs and is not stopping. *)
StartWorker(now) ==
  IF Alive(serving) /\ ~threads[serving].stop THEN threads' = now /\ UNCHANGED serving
  ELSE /\ \E w \in Workers : ~Alive(w)
       /\ serving' = CHOOSE w \in Workers : ~Alive(w)
       /\ threads' = [now EXCEPT ![serving'] = [NoWorker EXCEPT !.at = "wait"]]

(* release, under the condition: the last demand to go stops the thread. *)
Withdraw(c, now) ==
  /\ demands' = [demands EXCEPT ![c] = None]
  /\ pending' = [pending EXCEPT ![c] = None]
  /\ threads' = IF demands[c] # None /\ \A o \in Cameras : demands'[o] = None
                THEN [now EXCEPT ![serving].stop = TRUE] ELSE now

(* What may go wrong with the model: to load it, and to have an answer.  A *)
(* child process that answers late or not at all is killed.                *)
CannotLoad == ~model /\ Mishap
ChildLost(w) == Isolated /\ threads[w].loaded

(* load, before the demand is registered: the model is there, or loads, or *)
(* does not; DetectionWorker.start then gives up.                          *)
Load ==
  /\ Has("caller", "load")
  /\ \/ model' = TRUE /\ Then("caller", << >>) /\ UNCHANGED <<worker, carried, budget>>
     \/ /\ CannotLoad /\ Skip("caller", 1) /\ UNCHANGED model
        /\ worker' = [worker EXCEPT ![Primary].stopped = TRUE,
                                    ![Primary].enabled = FALSE]
        /\ carried' = None
  /\ UNCHANGED <<switches, camera, history, submitting, demands, pending, serving, threads>>

(* demand, under the scheduler's condition. *)
Register ==
  /\ Has("caller", "register")
  /\ demands' = [demands EXCEPT ![Primary] = carried]
  /\ carried' = None
  /\ StartWorker(threads)
  /\ Then("caller", << >>)
  /\ UNCHANGED <<switches, camera, worker, history, submitting, pending, model, budget>>

(* release; the thread that was stopped is then waited for. *)
Release(t) ==
  /\ Has(t, "release")
  /\ Withdraw(Primary, threads)
  /\ robbed' = (robbed \/ (t = "capture" /\ demands[Primary] = "now")) /\ UNCHANGED abandoned
  /\ Then(t, IF threads' = threads THEN << >> ELSE <<"await">>)
  /\ UNCHANGED <<carried, switches, camera, worker, submitting, model, serving, budget>>

(* The thread it stopped has ended, or has not within ten seconds.  A      *)
(* newer thread may have taken its place meanwhile.                        *)
Await(t) ==
  /\ Has(t, "await")
  /\ IF \E w \in Workers : Alive(w) /\ threads[w].stop THEN Mishap ELSE UNCHANGED budget
  /\ Then(t, << >>)
  /\ UNCHANGED <<carried, switches, camera, worker, history, submitting, scheduler, threads>>

(* offer, under the scheduler's condition. *)
Offer ==
  /\ submitting # None
  /\ \E same \in Same(demands[Primary], submitting) :
       pending' = [pending EXCEPT ![Primary] = IF same THEN submitting ELSE @]
  /\ submitting' = None
  /\ UNCHANGED <<history, todo, carried, call, switches, camera, worker, demands, model,
                 serving, threads, budget>>

(* _pick: one of the cameras with a frame waiting; whose turn it is goes   *)
(* by rates, a boost and a budget, which only delay it.                    *)
Pick(w, c) ==
  /\ threads[w].at = "wait" /\ ~threads[w].stop
  /\ pending[c] # None /\ demands[c] # None
  /\ threads' = [threads EXCEPT ![w] = [@ EXCEPT !.at = "detect", !.camera = c,
                                        !.epoch = pending[c], !.loaded = model]]
  /\ pending' = [pending EXCEPT ![c] = None]
  /\ UNCHANGED <<todo, carried, call, switches, camera, worker, history, submitting, demands,
                 model, serving, budget>>

(* A thread that has ended is as good as none. *)
Leaves(w) ==
  /\ threads' = [threads EXCEPT ![w] = NoWorker]
  /\ serving' = IF serving = w THEN None ELSE serving
WaitsAgain(w) ==
  threads' = [threads EXCEPT ![w] = [NoWorker EXCEPT !.at = "wait", !.stop = threads[w].stop]]

Stops(w) ==
  /\ threads[w].at = "wait" /\ threads[w].stop
  /\ Leaves(w)
  /\ UNCHANGED <<todo, carried, call, switches, camera, worker, history, submitting, demands,
                 pending, model, budget>>

(* The model answers. *)
Detected(w) ==
  /\ threads[w].at = "detect" /\ threads[w].loaded
  /\ IF threads[w].stop THEN Leaves(w)
     ELSE \E same \in Same(demands[threads[w].camera], threads[w].epoch) :
       /\ IF same THEN threads' = [threads EXCEPT ![w].at = "deliver"] ELSE WaitsAgain(w)
       /\ UNCHANGED serving
  /\ UNCHANGED <<todo, carried, call, switches, camera, worker, history, submitting, demands,
                 pending, model, budget>>

(* Mutant of Failed: only the camera whose frame it was is told. *)
FailedTellsOne(w) ==
  /\ threads[w].at = "detect"
  /\ IF threads[w].loaded THEN Mishap ELSE UNCHANGED budget
  /\ IF threads[w].stop THEN Leaves(w) /\ UNCHANGED <<demands, pending, model>>
     ELSE /\ threads' = [threads EXCEPT ![w] = [NoWorker EXCEPT !.at = "tell", !.stop = TRUE,
                           !.tell = {threads[w].camera}]]
          /\ demands' = [c \in Cameras |-> None] /\ pending' = [c \in Cameras |-> None]
          /\ model' = (model /\ ~ChildLost(w)) /\ UNCHANGED serving
  /\ UNCHANGED <<todo, carried, call, switches, camera, worker, history, submitting>>

(* _failed: every camera loses its demand and is told, outside the lock. *)
Failed(w) ==
  /\ threads[w].at = "detect"
  /\ IF threads[w].loaded THEN Mishap ELSE UNCHANGED budget
  /\ IF threads[w].stop THEN Leaves(w) /\ UNCHANGED <<demands, pending, model>>
     ELSE /\ threads' = [threads EXCEPT ![w] = [NoWorker EXCEPT !.at = "tell", !.stop = TRUE,
                           !.tell = {c \in Cameras : demands[c] # None}]]
          /\ demands' = [c \in Cameras |-> None] /\ pending' = [c \in Cameras |-> None]
          /\ model' = (model /\ ~ChildLost(w)) /\ UNCHANGED serving
  /\ UNCHANGED <<todo, carried, call, switches, camera, worker, history, submitting>>

(* Mutant of Deliver: the epoch is not compared. *)
DeliverAnyEpoch(w) ==
  /\ threads[w].at = "deliver"
  /\ LET c == threads[w].camera IN
       worker' = IF worker[c].stopped THEN worker
                 ELSE [worker EXCEPT ![c].result = threads[w].epoch]
  /\ WaitsAgain(w)
  /\ UNCHANGED <<todo, carried, call, switches, camera, history, submitting, scheduler, budget>>

(* DetectionWorker._deliver. *)
Deliver(w) ==
  /\ threads[w].at = "deliver"
  /\ LET c == threads[w].camera IN
       worker' = IF worker[c].stopped \/ threads[w].epoch # "now" THEN worker
                 ELSE [worker EXCEPT ![c].result = threads[w].epoch]
  /\ WaitsAgain(w)
  /\ UNCHANGED <<todo, carried, call, switches, camera, history, submitting, scheduler, budget>>

(* DetectionWorker._fail, for one camera after the other. *)
Tell(w) ==
  /\ threads[w].at = "tell"
  /\ IF threads[w].tell = {} THEN Leaves(w) /\ UNCHANGED worker
     ELSE LET c == CHOOSE d \in threads[w].tell : TRUE IN
          /\ threads' = [threads EXCEPT ![w].tell = @ \ {c}]
          /\ worker' = IF worker[c].stopped THEN worker
                       ELSE [worker EXCEPT ![c] = [stopped |-> TRUE, enabled |-> FALSE,
                                                   result |-> None]]
          /\ UNCHANGED serving
  /\ UNCHANGED <<todo, carried, call, switches, camera, history, submitting, demands, pending,
                 model, budget>>

------------------------------------------------------------------------------
(* DetectionWorker. *)
(* pause, under the worker's condition; configure(False) clears enabled    *)
(* first.                                                                  *)
Halt(t) ==
  /\ Has(t, "halt") \/ Has(t, "off")
  /\ NewEpoch(Primary)
  /\ carried' = Passed(carried)
  /\ worker' = [worker EXCEPT ![Primary] =
       [stopped |-> TRUE, result |-> None, enabled |-> @.enabled /\ Has(t, "halt")]]
  /\ robbed' = FALSE /\ UNCHANGED abandoned
  /\ Then(t, << >>)
  /\ UNCHANGED <<switches, camera, model, serving, budget>>

(* start, as far as its own condition. *)
Begin ==
  /\ Has("caller", "begin")
  /\ IF ~worker[Primary].enabled \/ ~worker[Primary].stopped
     THEN Skip("caller", 2) /\ UNCHANGED <<worker, carried, submitting, demands, pending, threads>>
     ELSE /\ NewEpoch(Primary)
          /\ worker' = [worker EXCEPT ![Primary].stopped = FALSE,
                                      ![Primary].result = Passed(@)]
          /\ carried' = "now"
          /\ Then("caller", << >>)
  /\ UNCHANGED <<history, switches, camera, model, serving, budget>>

(* configure(True): the model is loaded first, which may raise. *)
Enable ==
  /\ Has("caller", "enable")
  /\ \/ /\ model' = TRUE /\ worker' = [worker EXCEPT ![Primary].enabled = TRUE]
        /\ previewDetects' = (previewDetects \/ call = "detect")
        /\ Then("caller", << >>) /\ UNCHANGED <<preview, monitoring, abandoned, budget>>
     \/ /\ CannotLoad /\ Raise /\ UNCHANGED <<model, worker>>
        /\ abandoned' = (abandoned \/ call \in {"disarm", "raised"})
  /\ UNCHANGED <<carried, camera, robbed, submitting, demands, pending, serving, threads>>

(* submit, as far as its own condition. *)
Submit ==
  /\ capture = "running" /\ ~stopped /\ submitting = None
  /\ worker[Primary].enabled /\ ~worker[Primary].stopped
  /\ submitting' = "now"
  /\ UNCHANGED <<history, todo, carried, call, switches, camera, worker, scheduler, threads,
                 budget>>

(* RemoteCamera._leased: the leases want detection, or no longer do, and a *)
(* decoder has a frame.  Each call of this camera is taken as one step.    *)
WatchOther ==
  /\ worker[Other].stopped /\ Asked
  /\ \/ /\ model' = TRUE /\ UNCHANGED mishaps
        /\ worker' = [worker EXCEPT ![Other].stopped = FALSE, ![Other].enabled = TRUE]
        /\ demands' = [demands EXCEPT ![Other] = "now"] /\ StartWorker(Aged(Other))
     \/ /\ ~model /\ mishaps < MaxMishaps /\ mishaps' = mishaps + 1
        /\ worker' = [worker EXCEPT ![Other].enabled = FALSE]
        /\ UNCHANGED <<model, demands, serving, threads>>
  /\ UNCHANGED <<todo, carried, call, switches, camera, history, submitting, pending>>

UnwatchOther ==
  /\ worker[Other].enabled /\ Asked
  /\ worker' = [worker EXCEPT ![Other] = [stopped |-> TRUE, enabled |-> FALSE, result |-> None]]
  /\ Withdraw(Other, Aged(Other))
  /\ UNCHANGED <<todo, carried, call, switches, camera, history, submitting, model, serving,
                 mishaps>>

OtherFrame ==
  /\ demands[Other] # None /\ worker[Other].enabled /\ ~worker[Other].stopped
  /\ pending' = [pending EXCEPT ![Other] = "now"]
  /\ UNCHANGED <<todo, carried, call, switches, camera, worker, history, submitting, demands,
                 model, serving, threads, budget>>

------------------------------------------------------------------------------
(* VideoStream, under the lifecycle lock. *)
Ask(op) ==
  /\ call = None /\ Asked
  /\ op = "plain" => ~monitoring
  /\ todo' = [todo EXCEPT !["caller"] = Program(op)]
  /\ call' = IF Program(op) = << >> THEN None ELSE op
  /\ preview' = (preview /\ op # "stop") /\ monitoring' = (monitoring /\ op # "disarm")
  /\ previewDetects' = (previewDetects /\ op # "plain")
  /\ UNCHANGED <<carried, camera, worker, history, submitting, scheduler, threads, mishaps>>

(* _restore_detection after its pause, and the capture nobody needs. *)
Restore ==
  /\ Has("caller", "restore")
  /\ Then("caller",
          (IF ~previewDetects THEN Off
           ELSE <<"enable">> \o IF preview /\ Capturing THEN StartSteps ELSE << >>)
          \o IF preview THEN << >> ELSE StopCapture)
  /\ UNCHANGED <<carried, switches, camera, worker, history, submitting, scheduler, threads,
                 budget>>

(* _ensure_capture, up to the detector's start. *)
EnsureCapture ==
  /\ Has("caller", "ensure")
  /\ IF capture # "none" /\ stopped THEN Raise /\ UNCHANGED camera
     ELSE /\ preview' = (preview \/ call = "start")
          /\ monitoring' = (monitoring \/ call \in {"arm", "watch"})
          /\ IF capture # "none" THEN Then("caller", << >>) /\ UNCHANGED camera
             ELSE /\ lock' = TRUE /\ stopped' = FALSE /\ ready' = FALSE /\ failed' = FALSE
                  /\ Then("caller", StartSteps \o <<"launch", "ready">>) /\ UNCHANGED capture
          /\ UNCHANGED previewDetects
  /\ UNCHANGED <<carried, worker, history, submitting, scheduler, threads, budget>>

Launch ==
  /\ Has("caller", "launch")
  /\ capture' = "opening" /\ Then("caller", << >>)
  /\ UNCHANGED <<carried, switches, stopped, ready, failed, lock, worker, history, submitting,
                 scheduler, threads, budget>>

(* The camera is there, has failed, or keeps its caller waiting too long. *)
AwaitReady ==
  /\ Has("caller", "ready")
  /\ IF ready THEN UNCHANGED <<stopped, budget>> ELSE Mishap /\ stopped' = TRUE
  /\ IF failed \/ ~ready THEN Raise ELSE Then("caller", << >>) /\ UNCHANGED switches
  /\ UNCHANGED <<carried, capture, ready, failed, lock, worker, history, submitting, scheduler,
                 threads>>

(* Sentry is told when the detector did not start. *)
Check ==
  /\ Has("caller", "check")
  /\ IF worker[Primary].enabled THEN Then("caller", << >>) /\ UNCHANGED switches ELSE Raise
  /\ UNCHANGED <<carried, camera, worker, history, submitting, scheduler, threads, budget>>

(* _stop_capture: the event, and up to half a minute for the thread. *)
StopsCapture ==
  /\ Has("caller", "stop")
  /\ stopped' = TRUE /\ abandoned' = FALSE /\ Then("caller", << >>)
  /\ UNCHANGED <<carried, switches, capture, ready, failed, lock, worker, robbed, submitting,
                 scheduler, threads, budget>>

JoinCapture ==
  /\ Has("caller", "join")
  /\ IF capture # "none" THEN Mishap ELSE UNCHANGED budget
  /\ Then("caller", << >>)
  /\ UNCHANGED <<carried, switches, camera, worker, history, submitting, scheduler, threads>>

------------------------------------------------------------------------------
(* The capture thread. *)
Opened ==
  /\ capture = "opening" /\ capture' = "running" /\ ready' = TRUE
  /\ UNCHANGED <<todo, carried, call, switches, stopped, failed, lock, worker, history,
                 submitting, scheduler, threads, budget>>

CameraGoes ==
  /\ capture \in {"opening", "running"} /\ submitting = None /\ Mishap
  /\ capture' = "failed" /\ failed' = TRUE
  /\ UNCHANGED <<todo, carried, call, switches, stopped, ready, lock, worker, history,
                 submitting, scheduler, threads>>

(* Mutant of Finally: nothing is cleaned up after an error. *)
FinallyUnlessFailed ==
  /\ capture \in {"opening", "running"} /\ stopped /\ submitting = None
  /\ capture' = "ending" /\ stopped' = TRUE /\ ready' = TRUE
  /\ todo' = [todo EXCEPT !["capture"] = Pause]
  /\ UNCHANGED <<carried, call, switches, failed, lock, worker, history, submitting, scheduler,
                 threads, budget>>

(* The loop has seen the event, or the error has been reported. *)
Finally ==
  /\ \/ capture = "failed"
     \/ capture \in {"opening", "running"} /\ stopped /\ submitting = None
  /\ capture' = "ending" /\ stopped' = TRUE /\ ready' = TRUE
  /\ todo' = [todo EXCEPT !["capture"] = Pause]
  /\ UNCHANGED <<carried, call, switches, failed, lock, worker, history, submitting, scheduler,
                 threads, budget>>

LetCameraGo ==
  /\ capture = "ending" /\ todo["capture"] = << >>
  /\ capture' = "none" /\ lock' = FALSE
  /\ UNCHANGED <<todo, carried, call, switches, stopped, ready, failed, worker, history,
                 submitting, scheduler, threads, budget>>

------------------------------------------------------------------------------
Steps(t) == Release(t) \/ Await(t) \/ Halt(t)
Caller == Steps("caller") \/ Load \/ Register \/ Begin \/ Enable \/ Restore
          \/ EnsureCapture \/ Launch \/ AwaitReady \/ Check \/ StopsCapture \/ JoinCapture
Capture == Steps("capture") \/ Opened \/ Submit \/ Offer \/ CameraGoes \/ Finally \/ LetCameraGo
Inference(w) == (\E c \in Cameras : Pick(w, c)) \/ Stops(w) \/ Detected(w) \/ Failed(w)
                \/ Deliver(w) \/ Tell(w)

VisionNext ==
  \/ Caller \/ Capture \/ WatchOther \/ UnwatchOther \/ OtherFrame
  \/ \E op \in Operations : Ask(op)
  \/ \E w \in Workers : Inference(w)

(* Threads run, the model answers and time passes.  Nobody has to ask for  *)
(* anything, and a camera need not have a frame.                           *)
VisionFairness ==
  /\ WF_visionVars(Caller) /\ WF_visionVars(Capture)
  /\ \A w \in Workers : WF_visionVars(Inference(w))

VisionSpec == VisionInit /\ [][VisionNext]_visionVars /\ VisionFairness

------------------------------------------------------------------------------
(* The boxes a camera shows and reports are of a frame it took since it    *)
(* was last started, whatever inference was running when it was paused.    *)
BoxesAreCurrent ==
  \A c \in Cameras : worker[c].result # None =>
    ~worker[c].stopped /\ worker[c].result = "now"

(* With the preview hidden and Sentry disarmed the camera is given back in *)
(* the end, whatever failed on the way.  The exception: _restore_detection *)
(* loads the model the preview is to have back, and when that raises,      *)
(* disarming never comes to stop the capture.                              *)
CameraGivenBack ==
  (~preview /\ ~monitoring) ~> (~lock \/ preview \/ monitoring \/ abandoned)

(* A detector that believes it is running is served, or learns that it is  *)
(* not: a failed inference reaches every camera that lost its demand.  The *)
(* one exception: when Sentry is armed while a capture thread dies, the    *)
(* demand may be registered between that thread's pause and its release,   *)
(* which takes it; the detector then believes until the next pause.        *)
NoWorkerIsForgotten ==
  \A c \in Cameras :
    (~worker[c].stopped /\ demands[c] = None) ~>
      (worker[c].stopped \/ demands[c] # None \/ (c = Primary /\ robbed))
===============================================================================
