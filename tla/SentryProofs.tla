---------------------------- MODULE SentryProofs ----------------------------
(***************************************************************************)
(* What the engine keeps, for any rules, groups, sources and policies and  *)
(* any number of armings, tests, firings and faults.  A live action thread *)
(* always listens to the Event the engine holds; whoever joined the last   *)
(* thread and has not started the next finds none alive.  From that:       *)
(* a rule paused for its sources leaves the others their cameras, no       *)
(* camera's lease is lost, what a trigger started stays halted once one of *)
(* its groups has asked for that, and a disarm leaves nothing at work.     *)
(* The types come last, as they rest on all of it.                         *)
(***************************************************************************)
EXTENDS Sentry, TLAPS

IsThread(th) ==
  th = [kind |-> th.kind, pc |-> th.pc, todo |-> th.todo, job |-> th.job,
        failures |-> th.failures, steps |-> th.steps]

IsCaller == caller = [pc |-> caller.pc, rule |-> caller.rule]

(* What a thread in the middle of a group may assume. *)
Stands(t, th) == th.pc = "steps" => th.job.epoch = epoch \/ t \in isSet

Listening ==
  \A t \in DOMAIN threads : IsThread(threads[t]) /\ t = cancelled /\ Stands(t, threads[t])

(* Whoever has joined the last thread is alone until it starts the next. *)
Alone == caller.pc \in {"cameras", "commit", "start"} => DOMAIN threads = {}

StopInv == IsCaller /\ Listening /\ Alone

-----------------------------------------------------------------------------
(* A live thread moves and the rest of what StopInv speaks of stays. *)
LEMMA ThreadMoves ==
  ASSUME StopInv, NEW t \in DOMAIN threads, NEW th,
         IsThread(th), Stands(t, th),
         threads' = [threads EXCEPT ![t] = th],
         UNCHANGED <<cancelled, epoch, caller>>, isSet \subseteq isSet'
  PROVE  StopInv'
<1>1. DOMAIN threads' = DOMAIN threads
  OBVIOUS
<1>2. \A u \in DOMAIN threads : threads'[u] = IF u = t THEN th ELSE threads[u]
  OBVIOUS
<1>3. Listening'
  BY <1>1, <1>2 DEF StopInv, Listening, Stands, IsThread
<1>4. IsCaller' /\ Alone'
  BY <1>1 DEF StopInv, IsCaller, Alone
<1> QED  BY <1>3, <1>4 DEF StopInv

(* A thread ends. *)
LEMMA ThreadEnds ==
  ASSUME StopInv, NEW t,
         threads' = Restrict(threads, DOMAIN threads \ {t}),
         UNCHANGED <<cancelled, epoch, caller, isSet>>
  PROVE  StopInv'
<1>1. DOMAIN threads' \subseteq DOMAIN threads
      /\ \A u \in DOMAIN threads' : threads'[u] = threads[u]
  BY DEF Restrict
<1>2. Listening'
  BY <1>1 DEF StopInv, Listening, Stands, IsThread
<1>3. IsCaller' /\ Alone'
  BY <1>1 DEF StopInv, IsCaller, Alone
<1> QED  BY <1>2, <1>3 DEF StopInv

(* No thread lives and a new one is started with a new Event. *)
LEMMA ThreadStarts ==
  ASSUME StopInv, DOMAIN threads = {}, NEW kind, NEW todo,
         threads' = [u \in DOMAIN threads \cup {cancelled'} |->
                       IF u = cancelled' THEN Thread(kind, todo) ELSE threads[u]],
         caller' = Idle
  PROVE  StopInv'
<1>1. DOMAIN threads' = {cancelled'} /\ threads'[cancelled'] = Thread(kind, todo)
  OBVIOUS
<1>2. Listening'
  BY <1>1 DEF Listening, Stands, IsThread, Thread
<1>3. IsCaller' /\ Alone'
  BY DEF IsCaller, Alone, Idle
<1> QED  BY <1>2, <1>3 DEF StopInv

(* No thread moves. *)
LEMMA ThreadsStay ==
  ASSUME StopInv, UNCHANGED <<threads, cancelled>>,
         isSet \subseteq isSet',
         epoch' = epoch \/ cancelled \in isSet',
         IsCaller', Alone'
  PROVE  StopInv'
<1>1. Listening'
  BY DEF StopInv, Listening, Stands, IsThread
<1> QED  BY <1>1 DEF StopInv

-----------------------------------------------------------------------------
(* The caller of arm, test or disarm. *)
LEMMA CallerSteps ==
  ASSUME StopInv, Arm \/ Disarm \/ Calling \/ (\E r \in Rules : Test(r))
  PROVE  StopInv'
<1>1. CASE Arm
  <2>1. IsCaller' /\ Alone'
    BY <1>1 DEF Arm, IsCaller, Alone, Idle
  <2> QED  BY <1>1, <2>1, ThreadsStay DEF Arm, core, acts
<1>2. CASE \E r \in Rules : Test(r)
  <2>1. PICK r \in Rules : Test(r)
    BY <1>2
  <2>2. IsCaller' /\ Alone'
    BY <2>1 DEF Test, IsCaller, Alone, Idle
  <2> QED  BY <2>1, <2>2, ThreadsStay DEF Test, core, acts
<1>3. CASE Disarm
  <2>1. IsCaller' /\ Alone'
    BY <1>3 DEF Disarm, IsCaller, Alone, Idle
  <2> QED  BY <1>3, <2>1, ThreadsStay DEF Disarm, acts
<1>4. ASSUME NEW from, NEW to, Joined(from, to)
      PROVE  StopInv'
  <2>1. IsCaller'
    BY <1>4 DEF Joined, StopInv, IsCaller, Idle
  <2>2. ThreadIsAlive \/ DOMAIN threads = {}
    BY DEF StopInv, Listening, ThreadIsAlive
  <2>3. Alone'
    BY <1>4, <2>2 DEF Joined, Alone, Idle, acts
  <2> QED  BY <1>4, <2>1, <2>3, ThreadsStay DEF Joined, core, acts
<1>5. CASE StartCameras
  <2>1. DOMAIN threads = {}
    BY <1>5 DEF StartCameras, StopInv, Alone
  <2>2. IsCaller' /\ Alone'
    BY <1>5, <2>1 DEF StartCameras, StopInv, IsCaller, Alone, Idle, acts
  <2> QED  BY <1>5, <2>2, ThreadsStay DEF StartCameras, core, acts
<1>6. CASE CommitArming
  <2>1. DOMAIN threads = {}
    BY <1>6 DEF CommitArming, StopInv, Alone
  <2> QED  BY <1>6, <2>1, ThreadStarts DEF CommitArming
<1>7. CASE StartTest
  <2>1. DOMAIN threads = {}
    BY <1>7 DEF StartTest, StopInv, Alone
  <2> QED  BY <1>7, <2>1, ThreadStarts DEF StartTest
<1>8. CASE JoinBeforeReleasing
  <2>1. IsCaller' /\ Alone'
    BY <1>8 DEF JoinBeforeReleasing, StopInv, IsCaller, Alone, Idle
  <2> QED  BY <1>8, <2>1, ThreadsStay DEF JoinBeforeReleasing, core, acts
<1>9. CASE JoinRecorders
  <2>1. IsCaller' /\ Alone'
    BY <1>9 DEF JoinRecorders, StopInv, IsCaller, Alone, Idle
  <2> QED  BY <1>9, <2>1, ThreadsStay DEF JoinRecorders, core
<1>10. CASE Release
  <2>1. IsCaller' /\ Alone'
    BY <1>10 DEF Release, IsCaller, Alone, Idle
  <2> QED  BY <1>10, <2>1, ThreadsStay DEF Release, core, acts
<1> QED
  BY <1>1, <1>2, <1>3, <1>4, <1>5, <1>6, <1>7, <1>8, <1>9, <1>10
  DEF Calling, JoinBeforeArming, JoinBeforeTesting

(* What happens around the threads: a save, a firing, a failure, a         *)
(* repair, a callback and the recordings.                                  *)
LEMMA OthersStep ==
  ASSUME StopInv,
         \/ Update \/ Fault
         \/ \E r \in Rules : Fire(r)
         \/ \E s \in Fragile : Break(s) \/ Mend(s)
         \/ \E r \in DOMAIN recording : Recording(r)
  PROVE  StopInv'
<1>1. UNCHANGED <<threads, cancelled, epoch, caller>> /\ isSet \subseteq isSet'
  <2>1. CASE Update
    BY <2>1 DEF Update, core, acts
  <2>2. CASE Fault
    BY <2>2 DEF Fault, GiveUp, acts, calls
  <2>3. CASE \E r \in Rules : Fire(r)
    BY <2>3 DEF Fire, acts
  <2>4. CASE \E s \in Fragile : Break(s) \/ Mend(s)
    BY <2>4 DEF Break, Mend, core, acts, calls
  <2>5. CASE \E r \in DOMAIN recording : Recording(r)
    BY <2>5 DEF Recording, NextPhoto, PhotoDone, EndRecording, core, calls
  <2> QED  BY <2>1, <2>2, <2>3, <2>4, <2>5
<1>2. IsCaller' /\ Alone'
  BY <1>1 DEF StopInv, IsCaller, Alone
<1> QED  BY <1>1, <1>2, ThreadsStay

-----------------------------------------------------------------------------
(* Of its thread a step of a group changes the steps only. *)
LEMMA StepsMove ==
  ASSUME NEW t, NEW i, Step(t, i)
  PROVE  \E s : threads' = [threads EXCEPT ![t].steps = s]
<1>1. ASSUME NEW x, threads' = [threads EXCEPT ![t].steps[i] = x]
      PROVE  \E s : threads' = [threads EXCEPT ![t].steps = s]
  <2>1. threads' = [threads EXCEPT ![t].steps = [threads[t].steps EXCEPT ![i] = x]]
    BY <1>1
  <2> QED  BY <2>1
<1>2. CASE Check(t, i)
  <2>1. PICK x : threads' = [threads EXCEPT ![t].steps[i] = x]
    BY <1>2 DEF Check
  <2> QED  BY <1>1, <2>1
<1>3. CASE ListAlive(t, i)
  <2>1. PICK x : threads' = [threads EXCEPT ![t].steps[i] = x]
    BY <1>3 DEF ListAlive
  <2> QED  BY <1>1, <2>1
<1>4. CASE AssignAlive(t, i)
  <2>1. PICK x : threads' = [threads EXCEPT ![t].steps[i] = x]
    BY <1>4 DEF AssignAlive
  <2> QED  BY <1>1, <2>1
<1>5. CASE Act(t, i) \/ Lock(t, i) \/ Speak(t, i) \/ Frame(t, i) \/ Unavailable(t, i)
           \/ AppendRecorder(t, i) \/ StartRecorder(t, i)
  <2>1. PICK pc : StepTo(t, i, pc)
    BY <1>5 DEF Act, Lock, Speak, Frame, Unavailable, AppendRecorder, StartRecorder
  <2>2. PICK x : threads' = [threads EXCEPT ![t].steps[i] = x]
    BY <2>1 DEF StepTo
  <2> QED  BY <1>1, <2>2
<1> QED  BY <1>2, <1>3, <1>4, <1>5 DEF Step

(* A step of a group moves: the thread stays where it is. *)
LEMMA StepMoves ==
  ASSUME StopInv, NEW t, NEW i, At(t, "steps"), Step(t, i)
  PROVE  StopInv'
<1>1. t \in DOMAIN threads /\ IsThread(threads[t]) /\ Stands(t, threads[t])
  BY DEF At, StopInv, Listening
<1>2. UNCHANGED <<cancelled, epoch, caller, isSet>>
  BY DEF Step, Check, Act, Lock, Speak, Frame, Unavailable, ListAlive, AssignAlive,
         AppendRecorder, StartRecorder, core, calls
<1>3. PICK s : threads' = [threads EXCEPT ![t].steps = s]
  BY StepsMove
<1> DEFINE th == [threads[t] EXCEPT !.steps = s]
<1>4. IsThread(th) /\ th.pc = threads[t].pc /\ th.job = threads[t].job
  BY <1>1 DEF IsThread
<1>5. Stands(t, th)
  BY <1>1, <1>4 DEF Stands
<1>6. threads' = [threads EXCEPT ![t] = th]
  BY <1>3
<1> QED  BY <1>1, <1>2, <1>4, <1>5, <1>6, ThreadMoves

(* The thread itself: it enters a group only under the current arming. *)
LEMMA ThreadSteps ==
  ASSUME StopInv, NEW t, Working(t)
  PROVE  StopInv'
<1> DEFINE Moves(th) == /\ t \in DOMAIN threads
                        /\ IsThread(th) /\ Stands(t, th)
                        /\ threads' = [threads EXCEPT ![t] = th]
                        /\ UNCHANGED <<cancelled, epoch, caller>> /\ isSet \subseteq isSet'
<1>1. ASSUME NEW pc, At(t, pc)
      PROVE  t \in DOMAIN threads /\ IsThread(threads[t]) /\ Stands(t, threads[t])
  BY <1>1 DEF At, StopInv, Listening
<1>2. CASE Look(t)
  <2> DEFINE pc == IF Stopped THEN "exit" ELSE IF Failures(plan) = {} THEN "take" ELSE "unwell"
             f  == IF Stopped THEN {} ELSE Failures(plan)
  <2>1. pc # "steps"
    OBVIOUS
  <2>2. threads' = [threads EXCEPT ![t].failures = f, ![t].pc = pc] /\ At(t, "loop")
    BY <1>2 DEF Look
  <2> HIDE DEF pc, f
  <2>3. Moves([threads[t] EXCEPT !.failures = f, !.pc = pc])
    BY <1>1, <1>2, <2>1, <2>2 DEF Look, IsThread, Stands, core, calls
  <2> QED  BY <2>3, ThreadMoves
<1>3. CASE FailGlobally(t)
  <2>1. Moves([threads[t] EXCEPT !.pc = "exit"])
    BY <1>1, <1>3 DEF FailGlobally, Goto, GiveUp, IsThread, Stands, calls
  <2> QED  BY <2>1, ThreadMoves
<1>4. CASE Isolate(t)
  <2>1. Moves([threads[t] EXCEPT !.pc = "take"])
    BY <1>1, <1>4 DEF Isolate, Goto, IsThread, Stands, calls
  <2> QED  BY <2>1, ThreadMoves
<1>5. CASE IsolateAll(t)
  <2>1. Moves([threads[t] EXCEPT !.pc = "exit"])
    BY <1>1, <1>5 DEF IsolateAll, Goto, GiveUp, IsThread, Stands, calls
  <2> QED  BY <2>1, ThreadMoves
<1>6. CASE Take(t) /\ jobs = <<>>
  <2>1. Moves([threads[t] EXCEPT !.pc = "loop"])
    BY <1>1, <1>6 DEF Take, Goto, IsThread, Stands, calls
  <2> QED  BY <2>1, ThreadMoves
<1>7. CASE Take(t) /\ jobs # <<>>
  <2>1. Moves([threads[t] EXCEPT !.job = Head(jobs), !.pc = "run"])
    BY <1>1, <1>7 DEF Take, IsThread, Stands, calls
  <2> QED  BY <2>1, ThreadMoves
<1>8. CASE Exit(t)
  BY <1>8, ThreadEnds DEF Exit, core, calls
<1>9. CASE NextTested(t) /\ (Stopped \/ threads[t].todo = <<>>)
  BY <1>9, ThreadEnds DEF NextTested, core, calls
<1>10. CASE NextTested(t) /\ ~(Stopped \/ threads[t].todo = <<>>)
  <2>1. Moves([threads[t] EXCEPT !.job = Head(threads[t].todo), !.todo = Tail(threads[t].todo),
                                 !.pc = "run"])
    BY <1>1, <1>10 DEF NextTested, IsThread, Stands, core, calls
  <2> QED  BY <2>1, ThreadMoves
<1>11. CASE StartGroup(t) /\ MayRun(threads[t].job)
  <2>1. PICK s : threads' = [threads EXCEPT ![t] = [threads[t] EXCEPT !.pc = "steps", !.steps = s]]
    BY <1>1, <1>11 DEF StartGroup, IsThread
  <2>2. Moves([threads[t] EXCEPT !.pc = "steps", !.steps = s])
    BY <1>1, <1>11, <2>1 DEF StartGroup, MayRun, IsThread, Stands, core, calls
  <2> QED  BY <2>2, ThreadMoves
<1>12. CASE StartGroup(t) /\ ~MayRun(threads[t].job)
  <2>1. Moves([threads[t] EXCEPT !.pc = "loop"])
    BY <1>1, <1>12 DEF StartGroup, IsThread, Stands, core, calls
  <2> QED  BY <2>1, ThreadMoves
<1>13. CASE EndGroup(t)
  <2>1. PICK s : threads' = [threads EXCEPT ![t] = [threads[t] EXCEPT !.pc = "loop", !.steps = s]]
    BY <1>1, <1>13 DEF EndGroup, IsThread
  <2>2. Moves([threads[t] EXCEPT !.pc = "loop", !.steps = s])
    BY <1>1, <1>13, <2>1 DEF EndGroup, IsThread, Stands, core, calls
  <2> QED  BY <2>2, ThreadMoves
<1>14. CASE At(t, "steps") /\ \E i \in DOMAIN threads[t].steps : Step(t, i)
  BY <1>14, StepMoves
<1> QED
  BY <1>2, <1>3, <1>4, <1>5, <1>6, <1>7, <1>8, <1>9, <1>10, <1>11, <1>12, <1>13, <1>14
  DEF Working

-----------------------------------------------------------------------------
(* What a step of a group leaves alone: all of its thread but the steps. *)
LEMMA StepFrame ==
  ASSUME StopInv, NEW t, NEW i, At(t, "steps"), Step(t, i)
  PROVE  /\ t \in DOMAIN threads /\ threads[t].pc = "steps"
         /\ UNCHANGED <<core, eyes, world, calls>>
         /\ DOMAIN threads' = DOMAIN threads
         /\ \A u \in DOMAIN threads :
              /\ threads'[u].pc = threads[u].pc /\ threads'[u].kind = threads[u].kind
              /\ threads'[u].job = threads[u].job /\ threads'[u].todo = threads[u].todo
              /\ u # t => threads'[u] = threads[u]
<1>1. t \in DOMAIN threads /\ IsThread(threads[t]) /\ threads[t].pc = "steps"
  BY DEF At, StopInv, Listening
<1>2. UNCHANGED <<core, eyes, world, calls>>
  BY DEF Step, Check, Act, Lock, Speak, Frame, Unavailable, ListAlive, AssignAlive,
         AppendRecorder, StartRecorder
<1>3. PICK s : threads' = [threads EXCEPT ![t].steps = s]
  BY StepsMove
<1>4. threads' = [threads EXCEPT ![t] = [threads[t] EXCEPT !.steps = s]]
  BY <1>3
<1> DEFINE th == [threads[t] EXCEPT !.steps = s]
<1>5. /\ th.pc = threads[t].pc /\ th.kind = threads[t].kind
      /\ th.job = threads[t].job /\ th.todo = threads[t].todo
  BY <1>1 DEF IsThread
<1> HIDE DEF th
<1>6. threads' = [threads EXCEPT ![t] = th]
  BY <1>4 DEF th
<1> QED  BY <1>1, <1>2, <1>5, <1>6

-----------------------------------------------------------------------------
(* A stop reaches the thread: whatever callers, callbacks and threads do,  *)
(* no live action thread listens to an Event the engine has replaced, and  *)
(* none is in the middle of a group of an arming that ended unstopped      *)
(* (arm, test, disarm, _run).                                              *)
THEOREM StopAlwaysReachesTheThread == Spec => []StopReachesTheThread
<1>1. Init => StopInv
  BY DEF Init, StopInv, IsCaller, Listening, Alone, Idle
<1>2. StopInv /\ [Next]_vars => StopInv'
  <2> SUFFICES ASSUME StopInv, [Next]_vars PROVE StopInv'
    OBVIOUS
  <2>1. CASE Next
    BY <2>1, CallerSteps, OthersStep, ThreadSteps DEF Next
  <2>2. CASE UNCHANGED vars
    BY <2>2, ThreadsStay DEF vars, core, acts, calls, StopInv, IsCaller, Alone
  <2> QED  BY <2>1, <2>2
<1>3. StopInv => StopReachesTheThread
  BY DEF StopInv, Listening, Stands, StopReachesTheThread
<1> QED  BY <1>1, <1>2, <1>3, PTL DEF Spec

-----------------------------------------------------------------------------
(* While Sentry is armed its Event is not set, nobody is on the way to     *)
(* change that, and the worker is not on its way out.                      *)
IsPlan == plan = [detector |-> plan.detector, camera |-> plan.camera, vision |-> plan.vision,
                  ready |-> plan.ready, watched |-> plan.watched]

WorkerStays == \E t \in DOMAIN threads : threads[t].kind = "worker" /\ threads[t].pc # "exit"

ArmInv == /\ cancelled \in Nat /\ isSet \subseteq 0..cancelled
          /\ armed => caller.pc = "idle" /\ cancelled \notin isSet /\ IsPlan /\ WorkerStays

(* A thread that moves leaves its kind, and goes out only when stopped. *)
LEMMA WorkerMoves ==
  ASSUME StopInv, ArmInv, NEW t, Working(t)
  PROVE  ArmInv'
<1>1. UNCHANGED <<cancelled, caller>>
      /\ (isSet' = isSet \/ (isSet' = isSet \cup {cancelled} /\ armed' = FALSE))
      /\ (armed' = armed \/ armed' = FALSE)
  <2>1. CASE Look(t) \/ Take(t) \/ Exit(t) \/ NextTested(t) \/ StartGroup(t) \/ EndGroup(t)
    BY <2>1 DEF Look, Take, Exit, NextTested, StartGroup, EndGroup, core, calls
  <2>2. CASE FailGlobally(t) \/ Isolate(t) \/ IsolateAll(t)
    BY <2>2 DEF FailGlobally, Isolate, IsolateAll, GiveUp, calls
  <2>3. CASE At(t, "steps") /\ \E i \in DOMAIN threads[t].steps : Step(t, i)
    BY <2>3, StepFrame DEF core, calls
  <2> QED  BY <2>1, <2>2, <2>3 DEF Working
<1>2. cancelled' \in Nat /\ isSet' \subseteq 0..cancelled'
  <2>1. cancelled \in Nat /\ isSet \subseteq 0..cancelled /\ cancelled \in 0..cancelled
    BY DEF ArmInv
  <2> QED  BY <1>1, <2>1
<1>3. ASSUME armed'
      PROVE  IsPlan'
  <2>1. armed /\ IsPlan
    BY <1>1, <1>3 DEF ArmInv
  <2>2. CASE Isolate(t)
    <3>1. PICK v, r, d, c : plan' = [plan EXCEPT !.vision = v, !.ready = r, !.detector = d,
                                                 !.camera = c]
      BY <2>2 DEF Isolate
    <3> QED  BY <2>1, <3>1 DEF IsPlan
  <2>3. CASE ~Isolate(t)
    <3>1. plan' = plan
      <4>1. CASE Look(t) \/ Take(t) \/ Exit(t) \/ NextTested(t) \/ StartGroup(t) \/ EndGroup(t)
        BY <4>1 DEF Look, Take, Exit, NextTested, StartGroup, EndGroup, core
      <4>2. CASE FailGlobally(t) \/ IsolateAll(t)
        BY <4>2 DEF FailGlobally, IsolateAll
      <4>3. CASE At(t, "steps") /\ \E i \in DOMAIN threads[t].steps : Step(t, i)
        BY <4>3, StepFrame DEF core
      <4> QED  BY <2>3, <4>1, <4>2, <4>3 DEF Working
    <3> QED  BY <2>1, <3>1 DEF IsPlan
  <2> QED  BY <2>2, <2>3
<1>4. ASSUME armed'
      PROVE  WorkerStays'
  <2>1. armed /\ ~Stopped
    BY <1>1, <1>4 DEF ArmInv, Stopped
  <2>2. PICK w \in DOMAIN threads : threads[w].kind = "worker" /\ threads[w].pc # "exit"
    BY <2>1 DEF ArmInv, WorkerStays
  <2>3. w = cancelled /\ \A u \in DOMAIN threads : u = w /\ IsThread(threads[u])
    BY <2>2 DEF StopInv, Listening
  <2>4. CASE ~At(t, "steps")
    <3>1. t = w
      BY <2>3, <2>4 DEF Working, Look, FailGlobally, Isolate, IsolateAll, Take, Exit,
                        NextTested, StartGroup, EndGroup, At
    <3>2. ~FailGlobally(t) /\ ~IsolateAll(t) /\ ~Exit(t) /\ ~NextTested(t)
      BY <1>4, <2>2, <3>1 DEF FailGlobally, IsolateAll, GiveUp, Exit, NextTested, At
    <3>3. w \in DOMAIN threads' /\ threads'[w].kind = "worker" /\ threads'[w].pc # "exit"
      <4>1. CASE Look(t)
        <5> DEFINE pc == IF Stopped THEN "exit"
                         ELSE IF Failures(plan) = {} THEN "take" ELSE "unwell"
                   f  == IF Stopped THEN {} ELSE Failures(plan)
        <5>1. pc # "exit"
          BY <2>1
        <5>2. threads' = [threads EXCEPT ![t].failures = f, ![t].pc = pc]
          BY <4>1 DEF Look
        <5> HIDE DEF pc, f
        <5> QED  BY <2>2, <2>3, <3>1, <5>1, <5>2 DEF IsThread
      <4>2. CASE Isolate(t)
        BY <2>2, <2>3, <3>1, <4>2 DEF Isolate, Goto, IsThread
      <4>3. CASE Take(t)
        BY <2>2, <2>3, <3>1, <4>3 DEF Take, Goto, IsThread
      <4>4. CASE StartGroup(t)
        <5>1. CASE MayRun(threads[t].job)
          <6>1. PICK s : threads' = [threads EXCEPT ![t].pc = "steps", ![t].steps = s]
            BY <4>4, <5>1 DEF StartGroup
          <6> QED  BY <2>2, <2>3, <3>1, <6>1 DEF IsThread
        <5>2. CASE ~MayRun(threads[t].job)
          BY <2>2, <2>3, <3>1, <4>4, <5>2 DEF StartGroup, IsThread
        <5> QED  BY <5>1, <5>2
      <4> QED  BY <2>4, <3>2, <4>1, <4>2, <4>3, <4>4 DEF Working, EndGroup
    <3> QED  BY <3>3 DEF WorkerStays
  <2>5. CASE EndGroup(t)
    BY <2>2, <2>3, <2>5 DEF EndGroup, At, IsThread, WorkerStays
  <2>6. CASE At(t, "steps") /\ \E i \in DOMAIN threads[t].steps : Step(t, i)
    BY <2>2, <2>6, StepFrame DEF WorkerStays
  <2> QED
    BY <2>4, <2>5, <2>6 DEF Working, Look, FailGlobally, Isolate, IsolateAll, Take, Exit,
                            NextTested, StartGroup, At
<1>5. armed' => caller'.pc = "idle" /\ cancelled' \notin isSet'
  BY <1>1 DEF ArmInv
<1> QED  BY <1>2, <1>3, <1>4, <1>5 DEF ArmInv

(* The caller, and what happens around the threads. *)
LEMMA ArmingMoves ==
  ASSUME StopInv, ArmInv, StopInv',
         \/ Arm \/ Disarm \/ Calling \/ Update \/ Fault
         \/ \E r \in Rules : Test(r) \/ Fire(r)
         \/ \E s \in Fragile : Break(s) \/ Mend(s)
         \/ \E r \in DOMAIN recording : Recording(r)
  PROVE  ArmInv'
<1>1. cancelled \in Nat /\ isSet \subseteq 0..cancelled /\ cancelled \in 0..cancelled
  BY DEF ArmInv
<1>2. CASE CommitArming
  <2>1. cancelled' = cancelled + 1 /\ isSet' = isSet /\ caller'.pc = "idle"
    BY <1>2 DEF CommitArming, Idle
  <2>2. cancelled' \in Nat /\ isSet' \subseteq 0..cancelled' /\ cancelled' \notin isSet'
    BY <1>1, <2>1
  <2>3. IsPlan'
    BY <1>2 DEF CommitArming, MakePlan, IsPlan
  <2>4. cancelled' \in DOMAIN threads' /\ threads'[cancelled'] = Thread("worker", <<>>)
    BY <1>2 DEF CommitArming
  <2>5. WorkerStays'
    BY <2>4 DEF Thread, WorkerStays
  <2> QED  BY <2>1, <2>2, <2>3, <2>5 DEF ArmInv
<1>3. CASE StartTest
  <2>1. cancelled' = cancelled + 1 /\ isSet' = isSet /\ armed' = armed /\ caller.pc = "start"
    BY <1>3 DEF StartTest
  <2>2. cancelled' \in Nat /\ isSet' \subseteq 0..cancelled'
    BY <1>1, <2>1
  <2>3. ~armed
    BY <2>1 DEF ArmInv
  <2> QED  BY <2>1, <2>2, <2>3 DEF ArmInv
<1>4. CASE Disarm \/ (Fault /\ armed /\ policy = "global")
  <2>1. cancelled' = cancelled /\ isSet' = isSet \cup {cancelled} /\ armed' = FALSE
    BY <1>4 DEF Disarm, Fault, GiveUp
  <2> QED  BY <1>1, <2>1 DEF ArmInv
<1>5. CASE Arm \/ (\E r \in Rules : Test(r)) \/ (Calling /\ ~CommitArming /\ ~StartTest)
  <2>1. ~armed
    BY <1>5 DEF Arm, Test, Calling, JoinBeforeArming, JoinBeforeTesting, Joined, StartCameras,
                JoinBeforeReleasing, JoinRecorders, Release, ArmInv
  <2>2. UNCHANGED <<armed, cancelled, isSet>>
    BY <1>5 DEF Arm, Test, Calling, JoinBeforeArming, JoinBeforeTesting, Joined, StartCameras,
                JoinBeforeReleasing, JoinRecorders, Release, core
  <2> QED  BY <2>1, <2>2 DEF ArmInv
<1>6. CASE \/ Update \/ (Fault /\ ~(armed /\ policy = "global"))
           \/ \E r \in Rules : Fire(r)
           \/ \E s \in Fragile : Break(s) \/ Mend(s)
           \/ \E r \in DOMAIN recording : Recording(r)
  <2>1. UNCHANGED <<armed, cancelled, isSet, plan, threads, caller>>
    BY <1>6 DEF Update, Fault, Fire, Break, Mend, Recording, NextPhoto, PhotoDone, EndRecording,
                core, acts, calls
  <2> QED  BY <2>1 DEF ArmInv, IsPlan, WorkerStays
<1> QED  BY <1>2, <1>3, <1>4, <1>5, <1>6

EngineInv == StopInv /\ ArmInv

LEMMA EngineSteps ==
  ASSUME EngineInv, [Next]_vars
  PROVE  EngineInv'
<1>1. StopInv'
  <2>1. CASE Next
    BY <2>1, CallerSteps, OthersStep, ThreadSteps DEF Next, EngineInv
  <2>2. CASE UNCHANGED vars
    BY <2>2, ThreadsStay DEF EngineInv, vars, core, acts, calls, StopInv, IsCaller, Alone
  <2> QED  BY <2>1, <2>2
<1>2. ArmInv'
  <2>1. CASE Next
    BY <1>1, <2>1, ArmingMoves, WorkerMoves DEF Next, EngineInv
  <2>2. CASE UNCHANGED vars
    BY <2>2 DEF EngineInv, ArmInv, IsPlan, WorkerStays, vars, core, acts, calls
  <2> QED  BY <2>1, <2>2
<1> QED  BY <1>1, <1>2 DEF EngineInv

LEMMA EngineStarts ==
  ASSUME Init
  PROVE  EngineInv
BY DEF Init, EngineInv, StopInv, IsCaller, Listening, Alone, Idle, ArmInv

(* A worker on its way out belongs to an arming that is over. *)
LEMMA ExitIsDisarmed ==
  ASSUME EngineInv, NEW t, At(t, "exit")
  PROVE  ~armed
<1> SUFFICES ASSUME armed PROVE FALSE
  OBVIOUS
<1>1. PICK w \in DOMAIN threads : threads[w].pc # "exit"
  BY DEF EngineInv, ArmInv, WorkerStays
<1> QED  BY <1>1 DEF EngineInv, StopInv, Listening, At

-----------------------------------------------------------------------------
(* The cameras and sensors the plan is made of. *)
LEMMA NeedsAreKnown ==
  ASSUME NEW r \in Rules, NEW c \in Needs(r)
  PROVE  /\ c \in Cameras => c \in MakePlan.vision \cup MakePlan.ready
         /\ c = Primary => MakePlan.camera
<1> DEFINE looked == UNION {{Looks[q]} : q \in Rules}
           shot   == UNION {Shoots[q] : q \in Rules}
<1>1. /\ MakePlan.vision = looked \cap Cameras
      /\ MakePlan.ready = (shot \cap Cameras) \ looked
      /\ MakePlan.camera = (Primary \in looked \cup shot)
  BY DEF MakePlan, AllOf
<1>2. Looks[r] \in looked /\ Shoots[r] \subseteq shot
  OBVIOUS
<1>3. c \in Cameras \cup {Primary} => c = Looks[r] \/ c \in Shoots[r]
  BY SentryConstants, SourcesAreApart DEF Needs, Watches
<1> HIDE DEF looked, shot
<1> QED  BY <1>1, <1>2, <1>3

(* Pausing what depends on a failure takes nothing from the rest. *)
LEMMA IsolationKeepsTheRest ==
  ASSUME EngineInv, TheRestKeepTheirCameras, NEW t, Isolate(t), armed
  PROVE  TheRestKeepTheirCameras'
<1> DEFINE failures == threads[t].failures
           needed   == AllOf(Needs, Rules \ Paused(t))
           kept     == Kept(failures, needed)
           vision   == IF Detector \in failures THEN {} ELSE plan.vision \ failures
           lost     == plan.camera /\ Primary \in failures
           blind    == ~lost /\ plan.detector /\ Detector \in failures
           gone     == {l \in watching : l[1] \in ((failures \cup plan.vision) \ vision) \ kept}
<1>1. /\ suspended' = Paused(t) /\ watching' = watching \ gone
      /\ plan'.camera = IF lost THEN FALSE
                        ELSE IF blind THEN Primary \in needed \ failures ELSE plan.camera
  <2>1. IsPlan
    BY DEF EngineInv, ArmInv
  <2>2. PICK v, r, d : plan' = [plan EXCEPT !.vision = v, !.ready = r, !.detector = d,
             !.camera = IF lost THEN FALSE
                        ELSE IF blind THEN Primary \in needed \ failures ELSE plan.camera]
    BY DEF Isolate
  <2>3. suspended' = Paused(t) /\ watching' = watching \ gone
    BY DEF Isolate
  <2> HIDE DEF lost, blind, needed, failures, gone
  <2> QED  BY <2>1, <2>2, <2>3 DEF IsPlan
<1>2. ASSUME NEW r \in Rules \ Paused(t), NEW c \in Needs(r)
      PROVE  r \in Rules \ suspended /\ c \in needed \ failures
  BY <1>2 DEF Paused, AllOf
<1>3. ASSUME NEW r \in Rules \ Paused(t), NEW c \in Needs(r), c \in Cameras
      PROVE  \E l \in watching' : l[1] = c
  <2>1. PICK l \in watching : l[1] = c
    BY <1>2, <1>3 DEF TheRestKeepTheirCameras
  <2>2. c \notin ((failures \cup plan.vision) \ vision) \ kept
    BY <1>2, <1>3 DEF Kept
  <2>3. l \in watching'
    BY <1>1, <2>1, <2>2
  <2> QED  BY <2>1, <2>3
<1>4. ASSUME NEW r \in Rules \ Paused(t), Primary \in Needs(r)
      PROVE  plan'.camera
  <2>1. plan.camera /\ Primary \in needed \ failures
    BY <1>2, <1>4 DEF TheRestKeepTheirCameras
  <2> QED  BY <1>1, <2>1
<1> QED  BY <1>1, <1>3, <1>4 DEF TheRestKeepTheirCameras

LEMMA RestSteps ==
  ASSUME EngineInv, EngineInv', TheRestKeepTheirCameras, [Next]_vars
  PROVE  TheRestKeepTheirCameras'
<1> SUFFICES ASSUME armed' PROVE TheRestKeepTheirCameras'
  BY DEF TheRestKeepTheirCameras
<1>1. CASE UNCHANGED <<armed, suspended, watching, plan>>
  BY <1>1 DEF TheRestKeepTheirCameras
<1>2. CASE CommitArming
  <2>1. plan' = MakePlan
        /\ watching' = {<<c, epoch + 1>> : c \in MakePlan.vision \cup MakePlan.ready}
    BY <1>2 DEF CommitArming
  <2>2. ASSUME NEW c \in MakePlan.vision \cup MakePlan.ready
        PROVE  \E l \in watching' : l[1] = c
    <3>1. <<c, epoch + 1>> \in watching'
      BY <2>1
    <3> QED  BY <3>1
  <2> QED  BY <2>1, <2>2, NeedsAreKnown DEF TheRestKeepTheirCameras
<1>3. CASE \E t \in 1..MaxStarts : Working(t)
  <2>1. PICK t : Working(t)
    BY <1>3
  <2>2. CASE Isolate(t)
    BY <2>2, IsolationKeepsTheRest DEF Isolate
  <2>3. CASE Exit(t)
    BY <2>3, ExitIsDisarmed DEF Exit, core
  <2>4. CASE FailGlobally(t) \/ IsolateAll(t)
    BY <2>4 DEF FailGlobally, IsolateAll, GiveUp
  <2>5. CASE Look(t) \/ Take(t) \/ NextTested(t) \/ StartGroup(t) \/ EndGroup(t)
    BY <1>1, <2>5 DEF Look, Take, NextTested, StartGroup, EndGroup, core, eyes
  <2>6. CASE At(t, "steps") /\ \E i \in DOMAIN threads[t].steps : Step(t, i)
    BY <1>1, <2>6, StepFrame DEF core, eyes, EngineInv
  <2> QED  BY <2>1, <2>2, <2>3, <2>4, <2>5, <2>6 DEF Working
<1>4. CASE Calling /\ ~CommitArming
  <2>1. caller.pc # "idle" /\ armed' = armed
    BY <1>4 DEF Calling, JoinBeforeArming, JoinBeforeTesting, Joined, StartCameras, StartTest,
                JoinBeforeReleasing, JoinRecorders, Release, core
  <2> QED  BY <2>1 DEF EngineInv, ArmInv
<1>5. CASE Arm \/ Disarm \/ Update \/ Fault
  BY <1>1, <1>5 DEF Arm, Disarm, Update, Fault, GiveUp, core, eyes
<1>6. CASE \E r \in Rules : Test(r) \/ Fire(r)
  BY <1>1, <1>6 DEF Test, Fire, core, eyes
<1>7. CASE \/ \E s \in Fragile : Break(s) \/ Mend(s)
           \/ \E r \in DOMAIN recording : Recording(r)
  BY <1>1, <1>7 DEF Break, Mend, Recording, NextPhoto, PhotoDone, EndRecording, core, eyes
<1>8. CASE UNCHANGED vars
  BY <1>1, <1>8 DEF vars, core, eyes
<1> QED  BY <1>2, <1>3, <1>4, <1>5, <1>6, <1>7, <1>8 DEF Next

(* Pausing the rules that depend on a failed source takes no camera from   *)
(* the others: while armed each of them has the other cameras it uses on   *)
(* lease, and this node's camera in the plan (_isolate, _healthy).         *)
THEOREM PausingSparesTheRest == Spec => []TheRestKeepTheirCameras
<1>1. Init => EngineInv /\ TheRestKeepTheirCameras
  <2>1. Init => TheRestKeepTheirCameras
    BY DEF Init, TheRestKeepTheirCameras
  <2> QED  BY <2>1, EngineStarts
<1>2. EngineInv /\ TheRestKeepTheirCameras /\ [Next]_vars
      => EngineInv' /\ TheRestKeepTheirCameras'
  BY EngineSteps, RestSteps
<1> QED  BY <1>1, <1>2, PTL DEF Spec

-----------------------------------------------------------------------------
(* What is on lease.  Watching without being armed is watching that disarm *)
(* or the worker of a failed arming is about to end.                       *)
Leases == {<<c, epoch + 1>> : c \in MakePlan.vision \cup MakePlan.ready}

Disarming == caller.pc \in {"disarm", "recorders", "release"}

HasWorker == \E t \in DOMAIN threads : threads[t].kind = "worker"

FailedWorker == error /\ HasWorker

LeaseInv ==
  gaveUp \/ /\ held = (IF caller.pc = "commit" THEN Leases ELSE watching)
            /\ watching = {} \/ (armed /\ caller.pc = "idle") \/ Disarming \/ FailedWorker

(* A worker ends in Exit only. *)
LEMMA WorkerLives ==
  ASSUME EngineInv, NEW t, Working(t), ~Exit(t), HasWorker
  PROVE  HasWorker'
<1>1. PICK w \in DOMAIN threads : threads[w].kind = "worker"
  BY DEF HasWorker
<1>2. \A u \in DOMAIN threads : u = w /\ IsThread(threads[u])
  BY DEF EngineInv, StopInv, Listening
<1>3. CASE At(t, "steps") /\ \E i \in DOMAIN threads[t].steps : Step(t, i)
  BY <1>1, <1>3, StepFrame DEF EngineInv, HasWorker
<1>4. CASE ~(At(t, "steps") /\ \E i \in DOMAIN threads[t].steps : Step(t, i))
  <2>1. t = w
    BY <1>2, <1>4 DEF Working, Look, FailGlobally, Isolate, IsolateAll, Take, NextTested,
                      StartGroup, EndGroup, At
  <2>2. ~NextTested(t)
    BY <1>1, <2>1 DEF NextTested
  <2>3. t \in DOMAIN threads' /\ threads'[t].kind = "worker"
    <3>1. threads[t] = [kind |-> "worker", pc |-> threads[t].pc, todo |-> threads[t].todo,
                        job |-> threads[t].job, failures |-> threads[t].failures,
                        steps |-> threads[t].steps]
      BY <1>1, <1>2, <2>1 DEF IsThread
    <3>2. CASE Look(t)
      <4> DEFINE pc == IF Stopped THEN "exit"
                       ELSE IF Failures(plan) = {} THEN "take" ELSE "unwell"
                 f  == IF Stopped THEN {} ELSE Failures(plan)
      <4>1. threads' = [threads EXCEPT ![t].failures = f, ![t].pc = pc]
        BY <3>2 DEF Look
      <4> HIDE DEF pc, f
      <4> QED  BY <1>1, <2>1, <3>1, <4>1
    <3>3. CASE FailGlobally(t) \/ Isolate(t) \/ IsolateAll(t)
      <4>1. PICK pc : threads' = [threads EXCEPT ![t].pc = pc]
        BY <3>3 DEF FailGlobally, Isolate, IsolateAll, Goto
      <4> QED  BY <1>1, <2>1, <3>1, <4>1
    <3>4. CASE Take(t)
      <4>1. PICK j, pc : threads' = [threads EXCEPT ![t].job = j, ![t].pc = pc]
        <5>1. CASE jobs = <<>>
          <6>1. threads' = [threads EXCEPT ![t].job = threads[t].job, ![t].pc = "loop"]
            BY <3>1, <3>4, <5>1 DEF Take, Goto
          <6> QED  BY <6>1
        <5>2. CASE jobs # <<>>
          BY <3>4, <5>2 DEF Take
        <5> QED  BY <5>1, <5>2
      <4> QED  BY <1>1, <2>1, <3>1, <4>1
    <3>5. CASE StartGroup(t)
      <4>1. CASE MayRun(threads[t].job)
        <5>1. PICK s : threads' = [threads EXCEPT ![t].pc = "steps", ![t].steps = s]
          BY <3>5, <4>1 DEF StartGroup
        <5> QED  BY <1>1, <2>1, <3>1, <5>1
      <4>2. CASE ~MayRun(threads[t].job)
        <5>1. threads' = [threads EXCEPT ![t].pc = "loop"]
          BY <3>5, <4>2 DEF StartGroup
        <5> QED  BY <1>1, <2>1, <3>1, <5>1
      <4> QED  BY <4>1, <4>2
    <3>6. CASE EndGroup(t)
      <4>1. threads' = [threads EXCEPT ![t].pc = "loop", ![t].steps = <<>>]
        BY <3>6 DEF EndGroup
      <4> QED  BY <1>1, <2>1, <3>1, <4>1
    <3> QED  BY <1>4, <2>2, <3>2, <3>3, <3>4, <3>5, <3>6 DEF Working
  <2> QED  BY <2>3 DEF HasWorker
<1> QED  BY <1>3, <1>4

LEMMA LeaseSteps ==
  ASSUME EngineInv, EngineInv', LeaseInv, Next
  PROVE  LeaseInv'
<1> SUFFICES ASSUME ~gaveUp' PROVE LeaseInv'
  BY DEF LeaseInv
<1>1. ~gaveUp
  <2>1. gaveUp' = gaveUp \/ gaveUp' = (gaveUp \/ ThreadIsAlive)
        \/ gaveUp' = (gaveUp \/ StillRecording # {})
    <3>1. CASE \E t \in 1..MaxStarts : Working(t)
      <4>1. PICK t : Working(t)
        BY <3>1
      <4>2. CASE At(t, "steps") /\ \E i \in DOMAIN threads[t].steps : Step(t, i)
        BY <4>2, StepFrame DEF EngineInv, calls
      <4> QED
        BY <4>1, <4>2 DEF Working, Look, FailGlobally, Isolate, IsolateAll, Take, Exit,
                          NextTested, StartGroup, EndGroup, calls
    <3>2. CASE Calling
      BY <3>2 DEF Calling, JoinBeforeArming, JoinBeforeTesting, Joined, StartCameras,
                  CommitArming, StartTest, JoinBeforeReleasing, JoinRecorders, Release
    <3>3. CASE Arm \/ Disarm \/ Update \/ Fault \/ \E r \in Rules : Test(r) \/ Fire(r)
      BY <3>3 DEF Arm, Disarm, Update, Fault, Test, Fire, calls
    <3>4. CASE \/ \E s \in Fragile : Break(s) \/ Mend(s)
               \/ \E r \in DOMAIN recording : Recording(r)
      BY <3>4 DEF Break, Mend, Recording, NextPhoto, PhotoDone, EndRecording, calls
    <3> QED  BY <3>1, <3>2, <3>3, <3>4 DEF Next
  <2> QED  BY <2>1
<1>2. /\ held = (IF caller.pc = "commit" THEN Leases ELSE watching)
      /\ watching = {} \/ (armed /\ caller.pc = "idle") \/ Disarming \/ FailedWorker
  BY <1>1 DEF LeaseInv
<1>3. armed => caller.pc = "idle" /\ HasWorker
  BY DEF EngineInv, ArmInv, WorkerStays, HasWorker
<1>4. caller.pc \in {"cameras", "commit", "start"} => DOMAIN threads = {} /\ ~HasWorker
  BY DEF EngineInv, StopInv, Alone, HasWorker
<1>5. CASE Arm \/ Disarm \/ Update \/ \E r \in Rules : Test(r) \/ Fire(r)
  <2>1. UNCHANGED <<threads, held, watching, error>>
    BY <1>5 DEF Arm, Disarm, Update, Test, Fire, core, acts, eyes
  <2>2. CASE Arm \/ \E r \in Rules : Test(r)
    <3>1. caller.pc = "idle" /\ ~armed /\ caller'.pc \in {"arm", "test"}
      BY <2>2 DEF Arm, Test, Idle
    <3> QED  BY <1>2, <2>1, <3>1 DEF LeaseInv, Disarming, FailedWorker, HasWorker
  <2>3. CASE Disarm
    <3>1. caller.pc = "idle" /\ caller'.pc = "disarm"
      BY <2>3 DEF Disarm, Idle
    <3> QED  BY <1>2, <2>1, <3>1 DEF LeaseInv, Disarming
  <2>4. CASE Update \/ \E r \in Rules : Fire(r)
    <3>1. UNCHANGED <<armed, epoch, caller>>
      BY <2>4 DEF Update, Fire, core
    <3> QED  BY <1>2, <2>1, <3>1 DEF LeaseInv, Disarming, FailedWorker, HasWorker, Leases
  <2> QED  BY <1>5, <2>2, <2>3, <2>4
<1>6. CASE Fault
  <2>1. UNCHANGED <<threads, held, watching, epoch, caller>>
    BY <1>6 DEF Fault, GiveUp, acts, eyes, calls
  <2>2. CASE armed /\ policy = "global"
    <3>1. error' /\ armed' = FALSE /\ HasWorker'
      BY <1>3, <1>6, <2>1, <2>2 DEF Fault, GiveUp, HasWorker
    <3> QED  BY <1>2, <2>1, <3>1 DEF LeaseInv, FailedWorker, Leases
  <2>3. CASE ~(armed /\ policy = "global")
    <3>1. UNCHANGED <<armed, error>>
      BY <1>6, <2>3 DEF Fault
    <3> QED  BY <1>2, <2>1, <3>1 DEF LeaseInv, Disarming, FailedWorker, HasWorker, Leases
  <2> QED  BY <2>2, <2>3
<1>7. CASE \/ \E s \in Fragile : Break(s) \/ Mend(s)
           \/ \E r \in DOMAIN recording : Recording(r)
  <2>1. UNCHANGED <<threads, held, watching, epoch, caller, armed, error>>
    BY <1>7 DEF Break, Mend, Recording, NextPhoto, PhotoDone, EndRecording, core, acts, eyes, calls
  <2> QED  BY <1>2, <2>1 DEF LeaseInv, Disarming, FailedWorker, HasWorker, Leases
<1>8. CASE Calling
  <2>1. CASE StartCameras
    <3>1. watching = {} /\ held = {}
      BY <1>2, <1>3, <1>4, <2>1 DEF StartCameras, Disarming, FailedWorker
    <3>2. watching' = watching /\ epoch' = epoch
      BY <2>1 DEF StartCameras, core
    <3>3. \/ held' = held \cup Leases /\ caller' = [caller EXCEPT !.pc = "commit"]
          \/ held' = held /\ caller' = Idle
      BY <2>1 DEF StartCameras, Leases
    <3>4. IsCaller
      BY DEF EngineInv, StopInv
    <3>5. held' = IF caller'.pc = "commit" THEN Leases ELSE {}
      BY <3>1, <3>3, <3>4 DEF Idle, IsCaller
    <3> QED  BY <3>1, <3>2, <3>5 DEF LeaseInv, Leases
  <2>2. CASE CommitArming
    <3>1. held = Leases
      BY <1>2, <2>2 DEF CommitArming
    <3>2. held' = held /\ watching' = Leases /\ caller'.pc = "idle" /\ armed'
      BY <2>2 DEF CommitArming, Leases, Idle
    <3> QED  BY <3>1, <3>2 DEF LeaseInv
  <2>3. CASE StartTest
    <3>1. watching = {} /\ held = {}
      BY <1>2, <1>3, <1>4, <2>3 DEF StartTest, Disarming, FailedWorker
    <3>2. UNCHANGED <<watching, held>> /\ caller'.pc = "idle"
      BY <2>3 DEF StartTest, eyes, Idle
    <3> QED  BY <3>1, <3>2 DEF LeaseInv
  <2>4. ASSUME NEW from, NEW to, Joined(from, to), <<from, to>> \in {<<"arm", "cameras">>, <<"test", "start">>}
        PROVE  LeaseInv'
    <3>1. caller.pc = from /\ from # "idle" /\ from # "commit" /\ ~Disarming /\ to # "commit"
      BY <2>4 DEF Joined, Disarming
    <3>2. watching = {} \/ FailedWorker
      BY <1>2, <3>1
    <3>3. caller'.pc # "commit"
      BY <2>4, <3>1 DEF Joined, Idle, EngineInv, StopInv, IsCaller
    <3>4. UNCHANGED <<threads, held, watching, error>>
      BY <2>4 DEF Joined, core, acts, eyes
    <3> QED  BY <1>2, <3>1, <3>2, <3>3, <3>4 DEF LeaseInv, FailedWorker, HasWorker
  <2>5. CASE JoinBeforeReleasing \/ JoinRecorders
    <3>1. UNCHANGED <<held, watching>> /\ caller.pc # "commit"
      BY <2>5 DEF JoinBeforeReleasing, JoinRecorders, eyes
    <3>2. caller'.pc \in {"recorders", "release"}
      BY <1>1, <2>5 DEF JoinBeforeReleasing, JoinRecorders, EngineInv, StopInv, IsCaller
    <3> QED  BY <1>2, <3>1, <3>2 DEF LeaseInv, Disarming
  <2>6. CASE Release
    <3>1. held = watching
      BY <1>2, <2>6 DEF Release
    <3>2. held' = {} /\ watching' = {} /\ caller'.pc = "idle"
      BY <2>6, <3>1 DEF Release, StopCameras, Idle
    <3> QED  BY <3>2 DEF LeaseInv
  <2> QED
    BY <1>8, <2>1, <2>2, <2>3, <2>4, <2>5, <2>6 DEF Calling, JoinBeforeArming, JoinBeforeTesting
<1>9. ASSUME NEW t, Working(t)
      PROVE  LeaseInv'
  <2>1. t \in DOMAIN threads /\ caller.pc # "commit" /\ held = watching
    BY <1>2, <1>4, <1>9 DEF Working, Look, FailGlobally, Isolate, IsolateAll, Take, Exit,
                            NextTested, StartGroup, EndGroup, At
  <2>2. UNCHANGED <<caller, epoch>>
    <3>1. CASE At(t, "steps") /\ \E i \in DOMAIN threads[t].steps : Step(t, i)
      BY <3>1, StepFrame DEF EngineInv, core, calls
    <3> QED
      BY <1>9, <3>1 DEF Working, Look, FailGlobally, Isolate, IsolateAll, Take, Exit,
                        NextTested, StartGroup, EndGroup, GiveUp, core, calls
  <2>3. CASE Exit(t)
    <3>1. ~armed
      BY <2>3, ExitIsDisarmed DEF Exit
    <3>2. CASE error
      BY <2>1, <2>2, <2>3, <3>2 DEF Exit, StopCameras, LeaseInv
    <3>3. CASE ~error
      <4>1. UNCHANGED <<held, watching>>
        BY <2>3, <3>3 DEF Exit, eyes
      <4> QED  BY <1>2, <2>1, <2>2, <3>1, <3>3, <4>1 DEF LeaseInv, FailedWorker, Disarming
    <3> QED  BY <3>2, <3>3
  <2>4. CASE Isolate(t)
    <3>1. UNCHANGED <<armed, error>>
      BY <2>4 DEF Isolate
    <3>2. held' = watching' /\ watching' \subseteq watching
      BY <2>1, <2>4 DEF Isolate
    <3>3. HasWorker => HasWorker'
      BY <2>4, WorkerLives DEF Working, Exit, Isolate, At
    <3> QED  BY <1>2, <2>1, <2>2, <3>1, <3>2, <3>3 DEF LeaseInv, Disarming, FailedWorker
  <2>5. CASE FailGlobally(t) \/ IsolateAll(t)
    <3>1. UNCHANGED <<held, watching>> /\ error'
      BY <2>5 DEF FailGlobally, IsolateAll, GiveUp, eyes
    <3>2. HasWorker => HasWorker'
      BY <1>9, <2>5, WorkerLives DEF Exit, FailGlobally, IsolateAll, At
    <3> QED  BY <1>2, <1>3, <2>1, <2>2, <3>1, <3>2 DEF LeaseInv, Disarming, FailedWorker
  <2>6. CASE Look(t) \/ Take(t) \/ NextTested(t) \/ StartGroup(t) \/ EndGroup(t)
             \/ (At(t, "steps") /\ \E i \in DOMAIN threads[t].steps : Step(t, i))
    <3>1. UNCHANGED <<held, watching, error, armed>>
      <4>1. CASE At(t, "steps") /\ \E i \in DOMAIN threads[t].steps : Step(t, i)
        BY <4>1, StepFrame DEF EngineInv, core, eyes
      <4> QED
        BY <2>6, <4>1 DEF Look, Take, NextTested, StartGroup, EndGroup, core, eyes
    <3>2. HasWorker => HasWorker'
      BY <1>9, <2>6, WorkerLives DEF Exit, Look, Take, NextTested, StartGroup, EndGroup, At
    <3> QED  BY <1>2, <2>1, <2>2, <3>1, <3>2 DEF LeaseInv, Disarming, FailedWorker
  <2> QED  BY <1>9, <2>3, <2>4, <2>5, <2>6 DEF Working
<1> QED  BY <1>5, <1>6, <1>7, <1>8, <1>9 DEF Next

(* Every lease on a camera can be given back: whatever failed on the way,  *)
(* what the cameras hold for Sentry is what the engine remembers, unless a *)
(* disarm has raised (arm, _watch, _unwatch, _isolate, disarm).            *)
THEOREM LeasesAreKnown == Spec => []NoLeaseIsLost
<1>1. Init => EngineInv /\ LeaseInv
  <2>1. Init => LeaseInv
    BY DEF Init, LeaseInv, Idle
  <2> QED  BY <2>1, EngineStarts
<1>2. EngineInv /\ LeaseInv /\ [Next]_vars => EngineInv' /\ LeaseInv'
  <2>1. ASSUME UNCHANGED vars, LeaseInv
        PROVE  LeaseInv'
    BY <2>1 DEF vars, core, acts, eyes, calls, LeaseInv, Leases, Disarming, FailedWorker, HasWorker
  <2> QED  BY <2>1, EngineSteps, LeaseSteps
<1>3. LeaseInv => NoLeaseIsLost
  BY DEF LeaseInv, NoLeaseIsLost
<1> QED  BY <1>1, <1>2, <1>3, PTL DEF Spec

-----------------------------------------------------------------------------
(* The jobs still to be run: queued, waiting in a test, or being run.  One *)
(* sequence comes after the other, so the job being run is of the earliest *)
(* trigger; and of a trigger that was dropped the list of halted ones      *)
(* still knows unless every later job is of a later trigger.               *)
Sorted(q) == \A m, n \in DOMAIN q : m <= n => q[m].trigger <= q[n].trigger

InGroup(th) == th.pc \in {"run", "steps"}

Waiting == Range(jobs)
           \cup (UNION {Range(threads[t].todo) : t \in DOMAIN threads})
           \cup {threads[t].job : t \in {u \in DOMAIN threads : InGroup(threads[u])}}

InTurn(th) ==
  /\ th.todo \in Seq(Job) /\ Sorted(th.todo)
  /\ th.kind = "worker" => th.todo = <<>>
  /\ th.kind # "worker" => th.kind = "test" /\ th.pc \in {"loop", "run", "steps"}
  /\ InGroup(th) => th.job \in Job

Foremost(th) == InGroup(th) => \A j \in Waiting : th.job.trigger <= j.trigger

QueueInv ==
  /\ epoch \in Nat /\ triggers \in Nat
  /\ jobs \in Seq(Job) /\ Sorted(jobs)
  /\ armed \/ jobs = <<>>
  /\ \A t \in DOMAIN threads : InTurn(threads[t]) /\ Foremost(threads[t])
  /\ \A j \in Waiting : j \in Job /\ j.trigger <= triggers /\ j.group \in DOMAIN Groups[j.rule]

Remembering(p) == p[1] \in Range(halted) \/ \A j \in Waiting : p[1] < j.trigger

HaltInv ==
  /\ halted \in Seq(Nat)
  /\ \A p \in dropped : /\ p \in Nat \X Nat /\ p[1] <= triggers
                        /\ \A j \in Waiting : p[1] <= j.trigger
                        /\ Remembering(p)
  /\ \A t \in DOMAIN threads : threads[t].pc = "steps" =>
       \A p \in dropped : p[1] = threads[t].job.trigger => p[2] >= threads[t].job.group

(* Sequences of jobs. *)
LEMMA FirstJob ==
  ASSUME NEW q \in Seq(Job), q # <<>>, Sorted(q)
  PROVE  /\ Head(q) \in Job /\ Tail(q) \in Seq(Job) /\ Sorted(Tail(q))
         /\ Head(q) \in Range(q) /\ Range(Tail(q)) \subseteq Range(q)
         /\ \A j \in Range(q) : Head(q).trigger <= j.trigger
<1>1. Len(q) \in Nat /\ Len(q) >= 1 /\ DOMAIN q = 1..Len(q) /\ Head(q) = q[1]
  OBVIOUS
<1>2. /\ Tail(q) \in Seq(Job) /\ DOMAIN Tail(q) = 1..(Len(q) - 1)
      /\ \A n \in 1..(Len(q) - 1) : Tail(q)[n] = q[n + 1]
  BY <1>1
<1>3. Sorted(Tail(q))
  <2> SUFFICES ASSUME NEW m \in 1..(Len(q) - 1), NEW n \in 1..(Len(q) - 1), m <= n
               PROVE  Tail(q)[m].trigger <= Tail(q)[n].trigger
    BY <1>2 DEF Sorted
  <2>1. m + 1 \in DOMAIN q /\ n + 1 \in DOMAIN q /\ m + 1 <= n + 1
    BY <1>1
  <2> QED  BY <1>2, <2>1 DEF Sorted
<1>4. Range(Tail(q)) \subseteq Range(q)
  <2> SUFFICES ASSUME NEW n \in 1..(Len(q) - 1)
               PROVE  Tail(q)[n] \in Range(q)
    BY <1>2 DEF Range
  <2>1. n + 1 \in DOMAIN q
    BY <1>1
  <2> QED  BY <1>2, <2>1 DEF Range
<1>5. 1 \in DOMAIN q /\ \A n \in DOMAIN q : 1 <= n
  BY <1>1
<1>6. \A j \in Range(q) : Head(q).trigger <= j.trigger
  BY <1>1, <1>5 DEF Range, Sorted
<1>7. Head(q) \in Job /\ Head(q) \in Range(q)
  BY <1>1, <1>5 DEF Range
<1> QED  BY <1>2, <1>3, <1>4, <1>6, <1>7

LEMMA JobsJoined ==
  ASSUME NEW q \in Seq(Job), NEW s \in Seq(Job), Sorted(q), Sorted(s),
         \A i \in Range(q), j \in Range(s) : i.trigger <= j.trigger
  PROVE  q \o s \in Seq(Job) /\ Sorted(q \o s) /\ Range(q \o s) = Range(q) \cup Range(s)
<1>1. /\ q \o s \in Seq(Job) /\ Len(q) \in Nat /\ Len(s) \in Nat
      /\ DOMAIN q = 1..Len(q) /\ DOMAIN s = 1..Len(s)
      /\ DOMAIN (q \o s) = 1..(Len(q) + Len(s))
      /\ \A n \in DOMAIN (q \o s) : (q \o s)[n] = IF n <= Len(q) THEN q[n] ELSE s[n - Len(q)]
  OBVIOUS
<1>2. ASSUME NEW n \in DOMAIN (q \o s)
      PROVE  IF n <= Len(q) THEN n \in DOMAIN q ELSE n - Len(q) \in DOMAIN s
  BY <1>1
<1>3. Sorted(q \o s)
  <2> SUFFICES ASSUME NEW m \in DOMAIN (q \o s), NEW n \in DOMAIN (q \o s), m <= n
               PROVE  (q \o s)[m].trigger <= (q \o s)[n].trigger
    BY DEF Sorted
  <2>1. CASE n <= Len(q)
    BY <1>1, <1>2, <2>1 DEF Sorted
  <2>2. CASE m > Len(q)
    BY <1>1, <1>2, <2>2 DEF Sorted
  <2>3. CASE m <= Len(q) /\ n > Len(q)
    <3>1. q[m] \in Range(q) /\ s[n - Len(q)] \in Range(s)
      BY <1>1, <1>2, <2>3 DEF Range
    <3> QED  BY <1>1, <2>3, <3>1
  <2> QED  BY <1>1, <2>1, <2>2, <2>3
<1>4. Range(q \o s) \subseteq Range(q) \cup Range(s)
  BY <1>1, <1>2 DEF Range
<1>5. Range(q) \cup Range(s) \subseteq Range(q \o s)
  <2>1. ASSUME NEW n \in DOMAIN q
        PROVE  n \in DOMAIN (q \o s) /\ (q \o s)[n] = q[n]
    BY <1>1
  <2>2. ASSUME NEW n \in DOMAIN s
        PROVE  n + Len(q) \in DOMAIN (q \o s) /\ (q \o s)[n + Len(q)] = s[n]
    BY <1>1
  <2> QED  BY <2>1, <2>2 DEF Range
<1> QED  BY <1>1, <1>3, <1>4, <1>5

(* The sequence of a rule: all its jobs are of one trigger. *)
LEMMA OneTrigger ==
  ASSUME NEW r \in Rules, NEW id \in Nat, epoch \in Nat
  PROVE  /\ Sequence(r, id) \in Seq(Job) /\ Sorted(Sequence(r, id))
         /\ \A j \in Range(Sequence(r, id)) :
              j.trigger = id /\ j \in Job /\ j.group \in DOMAIN Groups[j.rule]
<1>1. Groups[r] \in Seq(Seq(Kinds))
  BY SentryConstants
<1>2. DOMAIN Groups[r] = 1..Len(Groups[r]) /\ Len(Groups[r]) \in Nat
  BY <1>1
<1>3. \A g \in DOMAIN Groups[r] :
        [rule |-> r, trigger |-> id, group |-> g, epoch |-> epoch] \in Job
  BY <1>2 DEF Job
<1>4. Sequence(r, id) \in Seq(Job)
  BY <1>2, <1>3 DEF Sequence
<1>5. \A g \in DOMAIN Sequence(r, id) :
        /\ Sequence(r, id)[g].trigger = id
        /\ Sequence(r, id)[g].group \in DOMAIN Groups[Sequence(r, id)[g].rule]
  BY DEF Sequence
<1>6. \A g \in DOMAIN Sequence(r, id) : Sequence(r, id)[g] \in Job
  BY <1>3 DEF Sequence
<1> QED  BY <1>4, <1>5, <1>6 DEF Sorted, Range

(* Nothing new is to be run but what was just triggered. *)
LEMMA HaltsStay ==
  ASSUME QueueInv, HaltInv, QueueInv', UNCHANGED <<halted, dropped>>,
         triggers <= triggers',
         \A j \in Waiting' : j \in Waiting \/ j.trigger > triggers,
         \A u \in DOMAIN threads' : threads'[u].pc = "steps" =>
           \/ /\ u \in DOMAIN threads /\ threads[u].pc = "steps"
              /\ threads'[u].job = threads[u].job
           \/ \A p \in dropped : p[1] # threads'[u].job.trigger
  PROVE  HaltInv'
<1>1. triggers \in Nat /\ triggers' \in Nat /\ \A j \in Waiting' : j.trigger \in Nat
  BY DEF QueueInv, Job
<1>2. ASSUME NEW p \in dropped
      PROVE  /\ p \in Nat \X Nat /\ p[1] \in Nat /\ p[1] <= triggers'
             /\ \A j \in Waiting' : p[1] <= j.trigger
             /\ p[1] \in Range(halted) \/ \A j \in Waiting' : p[1] < j.trigger
  <2>1. /\ p \in Nat \X Nat /\ p[1] <= triggers /\ \A j \in Waiting : p[1] <= j.trigger
        /\ p[1] \in Range(halted) \/ \A j \in Waiting : p[1] < j.trigger
    BY DEF HaltInv, Remembering
  <2>2. p[1] \in Nat
    BY <2>1
  <2> QED  BY <1>1, <2>1, <2>2
<1>3. \A u \in DOMAIN threads' : threads'[u].pc = "steps" =>
        \A p \in dropped : p[1] = threads'[u].job.trigger => p[2] >= threads'[u].job.group
  BY DEF HaltInv
<1> QED  BY <1>2, <1>3 DEF HaltInv, Remembering

(* Who waits, before and after a step. *)
LEMMA WhoWaits ==
  /\ \A j : j \in Waiting <=>
       \/ j \in Range(jobs)
       \/ \E t \in DOMAIN threads : j \in Range(threads[t].todo)
       \/ \E t \in DOMAIN threads : InGroup(threads[t]) /\ j = threads[t].job
  /\ \A j : j \in Waiting' <=>
       \/ j \in Range(jobs')
       \/ \E t \in DOMAIN threads' : j \in Range(threads'[t].todo)
       \/ \E t \in DOMAIN threads' : InGroup(threads'[t]) /\ j = threads'[t].job
BY DEF Waiting, InGroup

(* The one thread moves. *)
LEMMA TurnMoves ==
  ASSUME EngineInv, QueueInv, NEW t \in DOMAIN threads, NEW th,
         threads' = [threads EXCEPT ![t] = th], InTurn(th),
         Range(th.todo) \subseteq Waiting,
         InGroup(th) => th.job \in Waiting,
         InGroup(th) => \A j \in Range(th.todo) \cup Range(jobs') : th.job.trigger <= j.trigger,
         jobs' \in Seq(Job), Sorted(jobs'), armed' \/ jobs' = <<>>, Range(jobs') \subseteq Waiting,
         UNCHANGED <<triggers, epoch>>
  PROVE  QueueInv' /\ Waiting' \subseteq Waiting
<1>1. DOMAIN threads' = {t} /\ threads'[t] = th
  BY DEF EngineInv, StopInv, Listening
<1>2. Waiting' = Range(jobs') \cup Range(th.todo) \cup (IF InGroup(th) THEN {th.job} ELSE {})
  BY <1>1, WhoWaits
<1>3. Waiting' \subseteq Waiting
  BY <1>2
<1>4. \A j \in Waiting' : j \in Job /\ j.trigger <= triggers' /\ j.group \in DOMAIN Groups[j.rule]
  BY <1>3 DEF QueueInv
<1>5. InGroup(th) => \A j \in Waiting' : th.job.trigger <= j.trigger
  <2>1. InGroup(th) => th.job.trigger \in Nat
    BY DEF InTurn, Job
  <2> QED  BY <1>2, <2>1
<1>6. InGroup(threads'[t]) => \A j \in Waiting' : threads'[t].job.trigger <= j.trigger
  BY <1>1, <1>5
<1> QED  BY <1>1, <1>3, <1>4, <1>6 DEF QueueInv, Foremost

(* The one thread ends. *)
LEMMA TurnEnds ==
  ASSUME EngineInv, QueueInv, NEW t,
         threads' = Restrict(threads, DOMAIN threads \ {t}),
         UNCHANGED <<jobs, armed, triggers, epoch>>
  PROVE  QueueInv' /\ Waiting' \subseteq Waiting
<1>1. DOMAIN threads' \subseteq DOMAIN threads
      /\ \A u \in DOMAIN threads' : threads'[u] = threads[u]
  BY DEF Restrict
<1>2. Waiting' \subseteq Waiting
  <2> SUFFICES ASSUME NEW j \in Waiting' PROVE j \in Waiting
    OBVIOUS
  <2>1. \/ j \in Range(jobs)
        \/ \E u \in DOMAIN threads' : j \in Range(threads'[u].todo)
        \/ \E u \in DOMAIN threads' : InGroup(threads'[u]) /\ j = threads'[u].job
    BY WhoWaits
  <2> QED  BY <1>1, <2>1, WhoWaits
<1> QED  BY <1>1, <1>2 DEF QueueInv, Foremost

(* What a live thread has to do is waiting. *)
LEMMA Awaits ==
  ASSUME EngineInv, QueueInv, NEW t \in DOMAIN threads
  PROVE  /\ t = cancelled /\ IsThread(threads[t]) /\ InTurn(threads[t])
         /\ Range(threads[t].todo) \subseteq Waiting /\ Range(jobs) \subseteq Waiting
         /\ InGroup(threads[t]) => threads[t].job \in Waiting
         /\ InGroup(threads[t]) => \A j \in Range(threads[t].todo) \cup Range(jobs) :
                                      threads[t].job.trigger <= j.trigger
         /\ threads[t].kind # "worker" => ~armed /\ jobs = <<>>
<1>1. t = cancelled /\ IsThread(threads[t]) /\ InTurn(threads[t]) /\ Foremost(threads[t])
  BY DEF EngineInv, StopInv, Listening, QueueInv
<1>2. Range(threads[t].todo) \subseteq Waiting /\ Range(jobs) \subseteq Waiting
  BY WhoWaits
<1>3. InGroup(threads[t]) => threads[t].job \in Waiting
  BY WhoWaits
<1>4. armed => threads[t].kind = "worker"
  BY DEF EngineInv, ArmInv, WorkerStays, StopInv, Listening
<1> QED  BY <1>1, <1>2, <1>3, <1>4 DEF Foremost, QueueInv

LEMMA ThreadsTakeTurns ==
  ASSUME EngineInv, QueueInv, NEW t, Working(t)
  PROVE  QueueInv' /\ Waiting' \subseteq Waiting
<1>1. t \in DOMAIN threads
  BY DEF Working, Look, FailGlobally, Isolate, IsolateAll, Take, Exit, NextTested, StartGroup,
         EndGroup, At
<1>2. /\ IsThread(threads[t]) /\ InTurn(threads[t])
      /\ Range(threads[t].todo) \subseteq Waiting /\ Range(jobs) \subseteq Waiting
      /\ InGroup(threads[t]) => threads[t].job \in Waiting
      /\ InGroup(threads[t]) => \A j \in Range(threads[t].todo) \cup Range(jobs) :
                                   threads[t].job.trigger <= j.trigger
      /\ threads[t].kind # "worker" => jobs = <<>>
  BY <1>1, Awaits
<1>3. jobs \in Seq(Job) /\ Sorted(jobs) /\ (armed \/ jobs = <<>>)
  BY DEF QueueInv
<1>4. <<>> \in Seq(Job) /\ Sorted(<<>>) /\ Range(<<>>) = {}
  BY DEF Sorted, Range
<1>5. UNCHANGED <<triggers, epoch>>
  <2>1. CASE At(t, "steps") /\ \E i \in DOMAIN threads[t].steps : Step(t, i)
    BY <2>1, StepFrame DEF EngineInv, core, calls
  <2> QED
    BY <2>1 DEF Working, Look, FailGlobally, Isolate, IsolateAll, Take, Exit, NextTested,
                StartGroup, EndGroup, GiveUp, core, calls
(* Between two groups. *)
<1>6. ASSUME NEW f, NEW pc, NEW s,
             threads' = [threads EXCEPT ![t] = [threads[t] EXCEPT !.failures = f, !.pc = pc,
                                                                  !.steps = s]],
             pc \in {"loop", "take", "exit", "unwell"},
             threads[t].kind # "worker" => pc = "loop",
             jobs' = <<>> \/ UNCHANGED <<jobs, armed>>
      PROVE  QueueInv' /\ Waiting' \subseteq Waiting
  <2> DEFINE th == [threads[t] EXCEPT !.failures = f, !.pc = pc, !.steps = s]
  <2>1. th.pc = pc /\ th.kind = threads[t].kind /\ th.todo = threads[t].todo
    BY <1>2 DEF IsThread
  <2>2. InTurn(th) /\ ~InGroup(th)
    BY <1>2, <1>6, <2>1 DEF InTurn, InGroup
  <2>3. threads' = [threads EXCEPT ![t] = th]
    BY <1>6
  <2>4. jobs' \in Seq(Job) /\ Sorted(jobs') /\ (armed' \/ jobs' = <<>>) /\ Range(jobs') \subseteq Waiting
    <3>1. CASE jobs' = <<>>
      BY <1>4, <3>1
    <3>2. CASE UNCHANGED <<jobs, armed>>
      BY <1>2, <1>3, <3>2
    <3> QED  BY <1>6, <3>1, <3>2
  <2>5. Range(th.todo) \subseteq Waiting
    BY <1>2, <2>1
  <2> HIDE DEF th
  <2> QED  BY <1>1, <1>5, <2>2, <2>3, <2>4, <2>5, TurnMoves
<1>7. CASE Look(t)
  <2> DEFINE pc == IF Stopped THEN "exit" ELSE IF Failures(plan) = {} THEN "take" ELSE "unwell"
             f  == IF Stopped THEN {} ELSE Failures(plan)
  <2>1. pc \in {"loop", "take", "exit", "unwell"} /\ threads[t].kind = "worker"
    BY <1>7 DEF Look
  <2>2. threads' = [threads EXCEPT ![t].failures = f, ![t].pc = pc] /\ UNCHANGED <<jobs, armed>>
    BY <1>7 DEF Look, core
  <2> HIDE DEF pc, f
  <2>3. threads' = [threads EXCEPT ![t] = [threads[t] EXCEPT !.failures = f, !.pc = pc,
                                             !.steps = threads[t].steps]]
    BY <1>2, <2>2 DEF IsThread
  <2>4. jobs' = <<>> \/ UNCHANGED <<jobs, armed>>
    BY <2>2
  <2>5. threads[t].kind # "worker" => pc = "loop"
    BY <2>1
  <2>6. pc \in {"loop", "take", "exit", "unwell"}
    BY <2>1
  <2> QED  BY <1>6, <2>3, <2>4, <2>5, <2>6
<1>8. CASE FailGlobally(t) \/ Isolate(t) \/ IsolateAll(t) \/ (Take(t) /\ jobs = <<>>)
  <2>1. PICK pc \in {"loop", "take", "exit"} : threads' = [threads EXCEPT ![t].pc = pc]
    BY <1>8 DEF FailGlobally, Isolate, IsolateAll, Take, Goto
  <2>2. threads' = [threads EXCEPT ![t] = [threads[t] EXCEPT !.failures = threads[t].failures,
                                             !.pc = pc, !.steps = threads[t].steps]]
    BY <1>2, <2>1 DEF IsThread
  <2>3. threads[t].kind = "worker"
    BY <1>2, <1>8 DEF FailGlobally, Isolate, IsolateAll, Take, At, InTurn
  <2>4. jobs' = <<>> \/ UNCHANGED <<jobs, armed>>
    BY <1>8 DEF FailGlobally, Isolate, IsolateAll, Take, GiveUp
  <2> QED  BY <1>6, <2>2, <2>3, <2>4
<1>9. CASE EndGroup(t) \/ (StartGroup(t) /\ ~MayRun(threads[t].job))
  <2>1. PICK s : threads' = [threads EXCEPT ![t].pc = "loop", ![t].steps = s]
    <3>1. CASE EndGroup(t)
      BY <3>1 DEF EndGroup
    <3>2. CASE StartGroup(t) /\ ~MayRun(threads[t].job)
      <4>1. threads' = [threads EXCEPT ![t].pc = "loop", ![t].steps = threads[t].steps]
        BY <1>2, <3>2 DEF StartGroup, IsThread
      <4> QED  BY <4>1
    <3> QED  BY <1>9, <3>1, <3>2
  <2>2. threads' = [threads EXCEPT ![t] = [threads[t] EXCEPT !.failures = threads[t].failures,
                                             !.pc = "loop", !.steps = s]]
    BY <1>2, <2>1 DEF IsThread
  <2>3. UNCHANGED <<jobs, armed>>
    BY <1>9 DEF EndGroup, StartGroup, core
  <2> QED  BY <1>6, <2>2, <2>3
<1>10. CASE Exit(t) \/ (NextTested(t) /\ (Stopped \/ threads[t].todo = <<>>))
  <2>1. threads' = Restrict(threads, DOMAIN threads \ {t}) /\ UNCHANGED <<jobs, armed>>
    BY <1>10 DEF Exit, NextTested, core
  <2> QED  BY <1>5, <2>1, TurnEnds
(* Into a group. *)
<1>11. CASE Take(t) /\ jobs # <<>>
  <2> DEFINE th == [threads[t] EXCEPT !.job = Head(jobs), !.pc = "run"]
  <2>1. /\ threads' = [threads EXCEPT ![t].job = Head(jobs), ![t].pc = "run"]
        /\ jobs' = Tail(jobs) /\ armed' = armed
    BY <1>11 DEF Take
  <2>2. threads[t].kind = "worker"
    BY <1>2, <1>11 DEF Take, At, InTurn
  <2>3. /\ Head(jobs) \in Job /\ Tail(jobs) \in Seq(Job) /\ Sorted(Tail(jobs))
        /\ Head(jobs) \in Range(jobs) /\ Range(Tail(jobs)) \subseteq Range(jobs)
        /\ \A j \in Range(jobs) : Head(jobs).trigger <= j.trigger
    BY <1>3, <1>11, FirstJob
  <2>4. th.pc = "run" /\ th.kind = "worker" /\ th.todo = threads[t].todo /\ th.job = Head(jobs)
    BY <1>2, <2>2 DEF IsThread
  <2>5. InTurn(th) /\ Range(th.todo) = {}
    BY <1>2, <1>4, <2>2, <2>3, <2>4 DEF InTurn
  <2>6. threads' = [threads EXCEPT ![t] = th]
    BY <2>1
  <2>7. armed'
    BY <1>3, <1>11, <2>1
  <2> HIDE DEF th
  <2> QED  BY <1>1, <1>2, <1>5, <2>1, <2>3, <2>4, <2>5, <2>6, <2>7, TurnMoves
<1>12. CASE NextTested(t) /\ ~(Stopped \/ threads[t].todo = <<>>)
  <2> DEFINE todo == threads[t].todo
             th == [threads[t] EXCEPT !.job = Head(todo), !.todo = Tail(todo), !.pc = "run"]
  <2>1. /\ threads' = [threads EXCEPT ![t].job = Head(todo), ![t].todo = Tail(todo), ![t].pc = "run"]
        /\ UNCHANGED <<jobs, armed>> /\ threads[t].kind = "test"
    BY <1>12 DEF NextTested, core
  <2>2. todo \in Seq(Job) /\ Sorted(todo) /\ todo # <<>> /\ jobs = <<>>
    BY <1>2, <1>12, <2>1 DEF InTurn
  <2>3. th.pc = "run" /\ th.kind = "test" /\ th.todo = Tail(todo) /\ th.job = Head(todo)
    BY <1>2, <2>1 DEF IsThread
  <2>4. threads' = [threads EXCEPT ![t] = th]
    BY <2>1
  <2>5. Range(todo) \subseteq Waiting
    BY <1>2
  <2> HIDE DEF th, todo
  <2>6. /\ Head(todo) \in Job /\ Tail(todo) \in Seq(Job) /\ Sorted(Tail(todo))
        /\ Head(todo) \in Range(todo) /\ Range(Tail(todo)) \subseteq Range(todo)
        /\ \A j \in Range(todo) : Head(todo).trigger <= j.trigger
    BY <2>2, FirstJob
  <2>7. InTurn(th)
    BY <2>3, <2>6 DEF InTurn
  <2>8. jobs' = <<>> /\ jobs' \in Seq(Job) /\ Sorted(jobs') /\ Range(jobs') = {}
    BY <1>4, <2>1, <2>2
  <2> QED  BY <1>1, <1>5, <2>3, <2>4, <2>5, <2>6, <2>7, <2>8, TurnMoves
<1>13. CASE StartGroup(t) /\ MayRun(threads[t].job)
  <2>1. PICK s : threads' = [threads EXCEPT ![t].pc = "steps", ![t].steps = s]
    BY <1>13 DEF StartGroup
  <2> DEFINE th == [threads[t] EXCEPT !.pc = "steps", !.steps = s]
  <2>2. /\ th.pc = "steps" /\ th.kind = threads[t].kind /\ th.todo = threads[t].todo
        /\ th.job = threads[t].job
    BY <1>2 DEF IsThread
  <2>3. InGroup(threads[t])
    BY <1>13 DEF StartGroup, At, InGroup
  <2>4. InTurn(th)
    BY <1>2, <2>2, <2>3 DEF InTurn, InGroup
  <2>5. threads' = [threads EXCEPT ![t] = th] /\ UNCHANGED <<jobs, armed>>
    BY <1>13, <2>1 DEF StartGroup, core
  <2> HIDE DEF th
  <2> QED  BY <1>1, <1>2, <1>3, <1>5, <2>2, <2>3, <2>4, <2>5, TurnMoves
<1>14. CASE At(t, "steps") /\ \E i \in DOMAIN threads[t].steps : Step(t, i)
  <2>1. PICK i \in DOMAIN threads[t].steps : Step(t, i)
    BY <1>14
  <2>2. PICK s : threads' = [threads EXCEPT ![t].steps = s]
    BY <2>1, StepsMove
  <2> DEFINE th == [threads[t] EXCEPT !.steps = s]
  <2>3. /\ th.pc = "steps" /\ th.kind = threads[t].kind /\ th.todo = threads[t].todo
        /\ th.job = threads[t].job
    BY <1>2, <1>14 DEF IsThread, At
  <2>4. InGroup(threads[t])
    BY <1>14 DEF At, InGroup
  <2>5. InTurn(th)
    BY <1>2, <2>3, <2>4 DEF InTurn, InGroup
  <2>6. threads' = [threads EXCEPT ![t] = th] /\ UNCHANGED <<jobs, armed>>
    BY <1>14, <2>1, <2>2, StepFrame DEF EngineInv, core
  <2> HIDE DEF th
  <2> QED  BY <1>1, <1>2, <1>3, <1>5, <2>3, <2>4, <2>5, <2>6, TurnMoves
<1> QED
  BY <1>7, <1>8, <1>9, <1>10, <1>11, <1>12, <1>13, <1>14 DEF Working

(* No thread moves, and the queue is left alone or emptied. *)
LEMMA QueueStays ==
  ASSUME QueueInv, UNCHANGED <<threads, triggers>>, epoch' \in Nat,
         jobs' = <<>> \/ UNCHANGED <<jobs, armed>>
  PROVE  QueueInv' /\ Waiting' \subseteq Waiting
<1>1. <<>> \in Seq(Job) /\ Sorted(<<>>) /\ Range(<<>>) = {}
  BY DEF Sorted, Range
<1>2. jobs' \in Seq(Job) /\ Sorted(jobs') /\ (armed' \/ jobs' = <<>>) /\ Range(jobs') \subseteq Range(jobs)
  <2>1. CASE jobs' = <<>>
    BY <1>1, <2>1
  <2>2. CASE UNCHANGED <<jobs, armed>>
    BY <2>2 DEF QueueInv
  <2> QED  BY <2>1, <2>2
<1>3. Waiting' \subseteq Waiting
  BY <1>2, WhoWaits
<1> QED  BY <1>2, <1>3 DEF QueueInv, Foremost

(* A rule that is to be tested is one of the rules. *)
RuleTested == caller.pc \in {"test", "start"} => caller.rule \in Rules

LEMMA TestsKeepTheirRule ==
  ASSUME EngineInv, RuleTested, [Next]_vars
  PROVE  RuleTested'
<1> USE DEF RuleTested
<1>1. CASE caller' = caller
  BY <1>1 DEF RuleTested
<1>2. CASE \/ Arm \/ Disarm \/ StartCameras \/ CommitArming \/ StartTest \/ JoinBeforeReleasing
           \/ JoinRecorders \/ Release \/ JoinBeforeArming \/ JoinBeforeTesting
           \/ \E r \in Rules : Test(r)
  <2>1. IsCaller
    BY DEF EngineInv, StopInv
  <2>2. CASE Arm \/ Disarm \/ CommitArming \/ StartTest \/ Release
    BY <2>2 DEF Arm, Disarm, CommitArming, StartTest, Release, Idle
  <2>3. CASE StartCameras
    BY <2>1, <2>3 DEF StartCameras, IsCaller, Idle
  <2>4. CASE JoinBeforeReleasing \/ JoinRecorders
    BY <2>1, <2>4 DEF JoinBeforeReleasing, JoinRecorders, IsCaller, Idle
  <2>5. CASE JoinBeforeArming \/ JoinBeforeTesting
    BY <2>1, <2>5 DEF JoinBeforeArming, JoinBeforeTesting, Joined, IsCaller, Idle
  <2>6. CASE \E r \in Rules : Test(r)
    BY <2>6 DEF Test
  <2> QED  BY <1>2, <2>2, <2>3, <2>4, <2>5, <2>6
<1>3. CASE \E t \in 1..MaxStarts : Working(t)
  <2>1. PICK t \in 1..MaxStarts : Working(t)
    BY <1>3
  <2>2. caller' = caller
    BY <2>1 DEF Working, Look, FailGlobally, Isolate, IsolateAll, Take, Exit, NextTested,
                StartGroup, EndGroup, Step, Check, Act, Lock, Speak, Frame, Unavailable,
                ListAlive, AssignAlive, AppendRecorder, StartRecorder, calls
  <2> QED  BY <1>1, <2>2
<1>4. CASE Update \/ Fault \/ (\E r \in Rules : Fire(r)) \/ (\E s \in Fragile : Break(s) \/ Mend(s))
           \/ (\E r \in DOMAIN recording : Recording(r)) \/ UNCHANGED vars
  <2>1. caller' = caller
    BY <1>4 DEF Update, Fault, Fire, Break, Mend, Recording, NextPhoto, PhotoDone, EndRecording,
                vars, calls
  <2> QED  BY <1>1, <2>1
<1> QED  BY <1>2, <1>3, <1>4 DEF Next, Calling

(* What is done around the threads adds only what was just triggered, and  *)
(* sends no thread into a group.                                           *)
LEMMA OthersTakeTurns ==
  ASSUME EngineInv, QueueInv, RuleTested, Next, ~(\E t \in 1..MaxStarts : Working(t))
  PROVE  /\ QueueInv' /\ triggers <= triggers' /\ UNCHANGED <<halted, dropped>>
         /\ \A j \in Waiting' : j \in Waiting \/ j.trigger > triggers
         /\ \A u \in DOMAIN threads' : threads'[u].pc = "steps" =>
              u \in DOMAIN threads /\ threads'[u] = threads[u]
<1>1. triggers \in Nat /\ epoch \in Nat /\ triggers + 1 > triggers /\ triggers <= triggers
  BY DEF QueueInv
<1>2. <<>> \in Seq(Job) /\ Sorted(<<>>) /\ Range(<<>>) = {}
  BY DEF Sorted, Range
<1>3. CASE /\ UNCHANGED <<threads, triggers, halted, dropped>> /\ epoch' \in Nat
           /\ jobs' = <<>> \/ UNCHANGED <<jobs, armed>>
  <2>1. QueueInv' /\ Waiting' \subseteq Waiting
    BY <1>3, QueueStays
  <2> QED  BY <1>1, <1>3, <2>1
<1>4. CASE Arm \/ (\E r \in Rules : Test(r)) \/ StartCameras \/ JoinBeforeReleasing
           \/ JoinRecorders \/ Release \/ JoinBeforeArming \/ JoinBeforeTesting \/ Update
           \/ (\E s \in Fragile : Break(s) \/ Mend(s))
           \/ (\E r \in DOMAIN recording : Recording(r))
  <2>1. UNCHANGED <<threads, triggers, halted, dropped, epoch, jobs, armed>>
    BY <1>4 DEF Arm, Test, StartCameras, JoinBeforeReleasing, JoinRecorders, Release, Update,
                JoinBeforeArming, JoinBeforeTesting, Joined, Break, Mend, Recording, NextPhoto,
                PhotoDone, EndRecording, core, acts, calls
  <2> QED  BY <1>1, <1>3, <2>1
<1>5. CASE Disarm
  <2>1. epoch' \in Nat
    BY <1>1, <1>5 DEF Disarm
  <2> QED  BY <1>3, <1>5, <2>1 DEF Disarm, acts
<1>6. CASE Fault
  BY <1>1, <1>3, <1>6 DEF Fault, GiveUp, acts, calls
<1>7. CASE \E r \in Rules : Fire(r)
  <2>1. PICK r \in Rules : Fire(r)
    BY <1>7
  <2> DEFINE s == Sequence(r, triggers + 1)
  <2>2. /\ triggers' = triggers + 1 /\ (jobs' = jobs \/ jobs' = jobs \o s) /\ armed' /\ armed
        /\ UNCHANGED <<threads, epoch, halted, dropped>>
    BY <2>1 DEF Fire, Queued, acts
  <2>3. triggers + 1 \in Nat
    BY <1>1
  <2>4. /\ s \in Seq(Job) /\ Sorted(s)
        /\ \A j \in Range(s) :
             j.trigger = triggers + 1 /\ j \in Job /\ j.group \in DOMAIN Groups[j.rule]
    BY <1>1, <2>3, OneTrigger
  <2> HIDE DEF s
  <2>5. /\ jobs \in Seq(Job) /\ Sorted(jobs)
        /\ \A j \in Waiting : /\ j \in Job /\ j.trigger \in Nat /\ j.trigger <= triggers
                               /\ j.group \in DOMAIN Groups[j.rule]
    BY DEF QueueInv, Job
  <2>6. Range(jobs) \subseteq Waiting
    BY WhoWaits
  <2>7. \A i \in Range(jobs), j \in Range(s) : i.trigger <= j.trigger
    BY <1>1, <2>4, <2>5, <2>6
  <2>8. jobs' \in Seq(Job) /\ Sorted(jobs') /\ Range(jobs') \subseteq Range(jobs) \cup Range(s)
    <3>1. CASE jobs' = jobs
      BY <2>5, <3>1
    <3>2. CASE jobs' = jobs \o s
      BY <2>4, <2>5, <2>7, <3>2, JobsJoined
    <3> QED  BY <2>2, <3>1, <3>2
  <2>9. Waiting' \subseteq Waiting \cup Range(s)
    BY <2>2, <2>8, WhoWaits
  <2>10. \A j \in Waiting' : /\ j \in Job /\ j.trigger <= triggers' /\ j.group \in DOMAIN Groups[j.rule]
                             /\ j \in Waiting \/ j.trigger > triggers
    BY <1>1, <2>2, <2>4, <2>5, <2>9
  <2>11. ASSUME NEW u \in DOMAIN threads', InGroup(threads'[u]), NEW j \in Waiting'
         PROVE  threads'[u].job.trigger <= j.trigger
    <3>1. threads[u].job \in Waiting /\ \A k \in Waiting : threads[u].job.trigger <= k.trigger
      BY <2>2, <2>11, WhoWaits DEF QueueInv, Foremost
    <3> QED  BY <1>1, <2>2, <2>4, <2>5, <2>9, <3>1
  <2>12. \A u \in DOMAIN threads' : InTurn(threads'[u]) /\ (Foremost(threads[u]))'
    BY <2>2, <2>11 DEF QueueInv, Foremost
  <2>13. QueueInv'
    <3>1. epoch' \in Nat /\ triggers' \in Nat /\ (armed' \/ jobs' = <<>>)
      BY <1>1, <2>2, <2>3
    <3>2. \A j \in Waiting' : j \in Job /\ j.trigger <= triggers' /\ j.group \in DOMAIN Groups[j.rule]
      BY <2>10
    <3> QED  BY <2>8, <2>12, <3>1, <3>2 DEF QueueInv
  <2> QED  BY <1>1, <2>2, <2>10, <2>13
<1>8. ASSUME NEW kind, NEW todo, NEW c, DOMAIN threads = {},
             threads' = [t \in DOMAIN threads \cup {c} |->
                           IF t = c THEN Thread(kind, todo) ELSE threads[t]],
             kind \in {"worker", "test"}, kind = "worker" => todo = <<>>,
             todo \in Seq(Job), Sorted(todo), jobs' = <<>>,
             \A j \in Range(todo) : /\ j.trigger > triggers /\ j.trigger <= triggers'
                                    /\ j \in Job /\ j.group \in DOMAIN Groups[j.rule],
             epoch' \in Nat, triggers' \in Nat
      PROVE  /\ QueueInv'
             /\ \A j \in Waiting' : j \in Waiting \/ j.trigger > triggers
             /\ \A u \in DOMAIN threads' : threads'[u].pc # "steps"
  <2> DEFINE th == Thread(kind, todo)
  <2>1. th.pc = "loop" /\ th.kind = kind /\ th.todo = todo
    BY DEF Thread
  <2>2. InTurn(th) /\ ~InGroup(th)
    BY <1>8, <2>1 DEF InTurn, InGroup
  <2> HIDE DEF th
  <2>3. DOMAIN threads' = {c} /\ threads'[c] = th
    BY <1>8 DEF th
  <2>4. \A j \in Waiting' : j \in Range(todo)
    BY <1>2, <1>8, <2>1, <2>2, <2>3, WhoWaits
  <2>5. QueueInv'
    BY <1>2, <1>8, <2>2, <2>3, <2>4 DEF QueueInv, Foremost
  <2> QED  BY <1>8, <2>1, <2>3, <2>4, <2>5
<1>9. CASE CommitArming
  <2>1. DOMAIN threads = {}
    BY <1>9 DEF CommitArming, EngineInv, StopInv, Alone
  <2>2. epoch' \in Nat /\ triggers' = triggers /\ triggers' \in Nat /\ jobs' = <<>>
        /\ UNCHANGED <<halted, dropped>>
    BY <1>1, <1>9 DEF CommitArming
  <2>3. threads' = [t \in DOMAIN threads \cup {cancelled'} |->
                      IF t = cancelled' THEN Thread("worker", <<>>) ELSE threads[t]]
    BY <1>9 DEF CommitArming
  <2>4. /\ QueueInv' /\ \A j \in Waiting' : j \in Waiting \/ j.trigger > triggers
        /\ \A u \in DOMAIN threads' : threads'[u].pc # "steps"
    BY <1>2, <1>8, <2>1, <2>2, <2>3
  <2> QED  BY <1>1, <2>2, <2>4
<1>10. CASE StartTest
  <2>1. DOMAIN threads = {} /\ caller.rule \in Rules
    BY <1>10 DEF StartTest, EngineInv, StopInv, Alone, RuleTested
  <2> DEFINE s == Sequence(caller.rule, triggers + 1)
  <2>2. /\ epoch' = epoch /\ epoch' \in Nat /\ triggers' = triggers + 1 /\ triggers' \in Nat
        /\ jobs' = jobs /\ UNCHANGED <<halted, dropped>>
    BY <1>1, <1>10 DEF StartTest
  <2>3. ~armed
    BY <2>1 DEF EngineInv, ArmInv, WorkerStays
  <2>4. jobs' = <<>>
    BY <2>2, <2>3 DEF QueueInv
  <2>5. /\ s \in Seq(Job) /\ Sorted(s)
        /\ \A j \in Range(s) :
             j.trigger = triggers + 1 /\ j \in Job /\ j.group \in DOMAIN Groups[j.rule]
    BY <1>1, <2>1, <2>2, OneTrigger
  <2>6. threads' = [t \in DOMAIN threads \cup {cancelled'} |->
                      IF t = cancelled' THEN Thread("test", s) ELSE threads[t]]
    BY <1>10 DEF StartTest
  <2> HIDE DEF s
  <2>7. \A j \in Range(s) : /\ j.trigger > triggers /\ j.trigger <= triggers'
                            /\ j \in Job /\ j.group \in DOMAIN Groups[j.rule]
    BY <1>1, <2>2, <2>5
  <2>8. /\ QueueInv' /\ \A j \in Waiting' : j \in Waiting \/ j.trigger > triggers
        /\ \A u \in DOMAIN threads' : threads'[u].pc # "steps"
    BY <1>8, <2>1, <2>2, <2>4, <2>5, <2>6, <2>7
  <2> QED  BY <1>1, <2>2, <2>8
<1> QED
  BY <1>4, <1>5, <1>6, <1>7, <1>9, <1>10 DEF Next, Calling

(* The list of halted triggers forgets, but never the one it just learned. *)
LEMMA TheLastIsRemembered ==
  ASSUME halted \in Seq(Nat), NEW id \in Nat
  PROVE  Remembered(id) \in Seq(Nat) /\ id \in Range(Remembered(id))
<1> DEFINE h == Append(halted, id)
           n == Len(halted) + 1
<1>1. Len(halted) \in Nat /\ HaltedKept \in Nat /\ HaltedKept >= 1
  BY SentryConstants
<1>2. h \in Seq(Nat) /\ Len(h) = n /\ h[n] = id /\ n \in Nat /\ n >= 1
  BY <1>1
<1> HIDE DEF h, n
<1>3. CASE Len(h) > HaltedKept
  <2>1. h # <<>> /\ Len(Tail(h)) = n - 1 /\ n - 1 >= 1 /\ Tail(h) \in Seq(Nat)
    BY <1>1, <1>2, <1>3
  <2>2. n - 1 \in DOMAIN Tail(h) /\ Tail(h)[n - 1] = h[n]
    BY <1>2, <2>1
  <2>3. Remembered(id) = Tail(h)
    BY <1>3 DEF Remembered, h
  <2> QED  BY <1>2, <2>1, <2>2, <2>3 DEF Range
<1>4. CASE ~(Len(h) > HaltedKept)
  <2>1. n \in DOMAIN h
    BY <1>2
  <2>2. Remembered(id) = h
    BY <1>4 DEF Remembered, h
  <2> QED  BY <1>2, <2>1, <2>2 DEF Range
<1> QED  BY <1>3, <1>4

(* Only the start of a group takes a thread into one. *)
LEMMA GroupsEntered ==
  ASSUME EngineInv, NEW t, Working(t), NEW u \in DOMAIN threads', threads'[u].pc = "steps"
  PROVE  /\ u = t /\ t \in DOMAIN threads
         /\ \/ StartGroup(t) /\ MayRun(threads[t].job)
            \/ At(t, "steps") /\ \E i \in DOMAIN threads[t].steps : Step(t, i)
<1>1. t \in DOMAIN threads /\ \A v \in DOMAIN threads : v = t /\ IsThread(threads[v])
  BY DEF Working, Look, FailGlobally, Isolate, IsolateAll, Take, Exit, NextTested, StartGroup,
         EndGroup, At, EngineInv, StopInv, Listening
<1>2. ASSUME NEW th, threads' = [threads EXCEPT ![t] = th]
      PROVE  u = t /\ th.pc = "steps"
  BY <1>1, <1>2
<1>3. ASSUME NEW pc, threads' = [threads EXCEPT ![t].pc = pc], pc # "steps"
      PROVE  FALSE
  <2>1. threads' = [threads EXCEPT ![t] = [threads[t] EXCEPT !.pc = pc]]
    BY <1>3
  <2>2. [threads[t] EXCEPT !.pc = pc].pc = pc
    BY <1>1 DEF IsThread
  <2> QED  BY <1>2, <1>3, <2>1, <2>2
<1>4. CASE Look(t)
  <2> DEFINE pc == IF Stopped THEN "exit" ELSE IF Failures(plan) = {} THEN "take" ELSE "unwell"
             f  == IF Stopped THEN {} ELSE Failures(plan)
             th == [threads[t] EXCEPT !.failures = f, !.pc = pc]
  <2>1. pc # "steps" /\ threads' = [threads EXCEPT ![t].failures = f, ![t].pc = pc]
    BY <1>4 DEF Look
  <2> HIDE DEF pc, f
  <2>2. th.pc = pc /\ threads' = [threads EXCEPT ![t] = th]
    BY <1>1, <2>1 DEF IsThread
  <2> HIDE DEF th
  <2> QED  BY <1>2, <2>1, <2>2
<1>5. CASE FailGlobally(t) \/ Isolate(t) \/ IsolateAll(t) \/ (Take(t) /\ jobs = <<>>)
           \/ (StartGroup(t) /\ ~MayRun(threads[t].job))
  <2>1. PICK pc \in {"loop", "take", "exit"} : threads' = [threads EXCEPT ![t].pc = pc]
    BY <1>5 DEF FailGlobally, Isolate, IsolateAll, Take, StartGroup, Goto
  <2> QED  BY <1>3, <2>1
<1>6. CASE Take(t) /\ jobs # <<>>
  <2> DEFINE th == [threads[t] EXCEPT !.job = Head(jobs), !.pc = "run"]
  <2>1. th.pc = "run" /\ threads' = [threads EXCEPT ![t] = th]
    BY <1>1, <1>6 DEF IsThread, Take
  <2> HIDE DEF th
  <2> QED  BY <1>2, <2>1
<1>7. CASE NextTested(t) /\ ~(Stopped \/ threads[t].todo = <<>>)
  <2> DEFINE todo == threads[t].todo
             th == [threads[t] EXCEPT !.job = Head(todo), !.todo = Tail(todo), !.pc = "run"]
  <2>1. th.pc = "run" /\ threads' = [threads EXCEPT ![t] = th]
    BY <1>1, <1>7 DEF IsThread, NextTested
  <2> HIDE DEF th
  <2> QED  BY <1>2, <2>1
<1>8. CASE EndGroup(t)
  <2> DEFINE th == [threads[t] EXCEPT !.pc = "loop", !.steps = <<>>]
  <2>1. th.pc = "loop" /\ threads' = [threads EXCEPT ![t] = th]
    BY <1>1, <1>8 DEF IsThread, EndGroup
  <2> HIDE DEF th
  <2> QED  BY <1>2, <2>1
<1>9. CASE Exit(t) \/ (NextTested(t) /\ (Stopped \/ threads[t].todo = <<>>))
  <2>1. threads' = Restrict(threads, DOMAIN threads \ {t})
    BY <1>9 DEF Exit, NextTested
  <2> QED  BY <1>1, <2>1 DEF Restrict
<1>10. CASE StartGroup(t) /\ MayRun(threads[t].job)
  <2>1. PICK s : threads' = [threads EXCEPT ![t].pc = "steps", ![t].steps = s]
    BY <1>10 DEF StartGroup
  <2>2. DOMAIN threads' = DOMAIN threads
    BY <2>1
  <2> QED  BY <1>1, <1>10, <2>2
<1>11. CASE At(t, "steps") /\ \E i \in DOMAIN threads[t].steps : Step(t, i)
  BY <1>1, <1>11, StepFrame DEF EngineInv
<1> QED
  BY <1>4, <1>5, <1>6, <1>7, <1>8, <1>9, <1>10, <1>11 DEF Working

(* A thread enters a group only of a sequence that still stands. *)
LEMMA ThreadsEnterGroups ==
  ASSUME EngineInv, QueueInv, HaltInv, NEW t, Working(t),
         NEW u \in DOMAIN threads', threads'[u].pc = "steps"
  PROVE  /\ u \in DOMAIN threads /\ threads'[u].job = threads[u].job
         /\ \/ threads[u].pc = "steps"
            \/ \A p \in dropped : p[1] # threads'[u].job.trigger
<1>1. /\ u = t /\ t \in DOMAIN threads
      /\ \/ StartGroup(t) /\ MayRun(threads[t].job)
         \/ At(t, "steps") /\ \E i \in DOMAIN threads[t].steps : Step(t, i)
  BY GroupsEntered
<1>2. IsThread(threads[t])
  BY <1>1 DEF EngineInv, StopInv, Listening
<1>3. CASE At(t, "steps") /\ \E i \in DOMAIN threads[t].steps : Step(t, i)
  BY <1>1, <1>3, StepFrame DEF EngineInv
<1>4. CASE StartGroup(t) /\ MayRun(threads[t].job)
  <2>1. PICK s : threads' = [threads EXCEPT ![t].pc = "steps", ![t].steps = s]
    BY <1>4 DEF StartGroup
  <2> DEFINE th == [threads[t] EXCEPT !.pc = "steps", !.steps = s]
  <2>2. th.job = threads[t].job
    BY <1>2 DEF IsThread
  <2>3. threads' = [threads EXCEPT ![t] = th]
    BY <2>1
  <2> HIDE DEF th
  <2>4. u = t /\ threads'[u].job = threads[u].job
    BY <1>1, <2>3, <2>2
  <2>5. threads[t].job \in Waiting /\ threads[t].job \in Job
    BY <1>1, <1>4, Awaits DEF StartGroup, At, InGroup, InTurn
  <2>6. threads[t].job.trigger \notin Range(halted) /\ threads[t].job.trigger \in Nat
    BY <1>4, <2>5 DEF MayRun, Job
  <2>7. \A p \in dropped : p[1] # threads[t].job.trigger
    <3> SUFFICES ASSUME NEW p \in dropped PROVE p[1] # threads[t].job.trigger
      OBVIOUS
    <3>1. p \in Nat \X Nat /\ (p[1] \in Range(halted) \/ \A j \in Waiting : p[1] < j.trigger)
      BY DEF HaltInv, Remembering
    <3>2. p[1] \in Nat
      BY <3>1
    <3> QED  BY <2>5, <2>6, <3>1, <3>2
  <2> QED  BY <1>1, <2>4, <2>7
<1> QED  BY <1>1, <1>3, <1>4

(* Of the threads only a step without a frame stops a sequence. *)
LEMMA OnlyUnavailableHalts ==
  ASSUME NEW t, Working(t)
  PROVE  \/ UNCHANGED <<halted, dropped>>
         \/ /\ At(t, "steps")
            /\ \E i \in DOMAIN threads[t].steps : Step(t, i)
            /\ halted' = Remembered(threads[t].job.trigger)
            /\ dropped' = dropped \cup {<<threads[t].job.trigger, threads[t].job.group>>}
<1>1. CASE \/ Look(t) \/ FailGlobally(t) \/ Isolate(t) \/ IsolateAll(t) \/ Take(t) \/ Exit(t)
           \/ NextTested(t) \/ StartGroup(t) \/ EndGroup(t)
  BY <1>1 DEF Look, FailGlobally, Isolate, IsolateAll, Take, Exit, NextTested, StartGroup, EndGroup
<1>2. CASE At(t, "steps") /\ \E i \in DOMAIN threads[t].steps : Step(t, i)
  <2>1. PICK i \in DOMAIN threads[t].steps : Step(t, i)
    BY <1>2
  <2>2. CASE Unavailable(t, i)
    <3>1. \/ UNCHANGED <<halted, dropped>>
          \/ /\ halted' = Remembered(threads[t].job.trigger)
             /\ dropped' = dropped \cup {<<threads[t].job.trigger, threads[t].job.group>>}
      BY <2>2 DEF Unavailable
    <3> QED  BY <1>2, <3>1
  <2>3. CASE ~Unavailable(t, i)
    <3>1. UNCHANGED <<halted, dropped>>
      BY <2>1, <2>3 DEF Step, Check, Act, Lock, Speak, Frame, ListAlive, AssignAlive,
                        AppendRecorder, StartRecorder
    <3> QED  BY <3>1
  <2> QED  BY <2>2, <2>3
<1> QED  BY <1>1, <1>2 DEF Working

LEMMA HaltSteps ==
  ASSUME EngineInv, QueueInv, HaltInv, RuleTested, [Next]_vars
  PROVE  QueueInv' /\ HaltInv'
<1>1. triggers \in Nat /\ triggers <= triggers
  BY DEF QueueInv
<1>2. CASE UNCHANGED vars
  BY <1>2 DEF vars, core, acts, calls, QueueInv, HaltInv, Foremost, Waiting, Remembering
<1>3. CASE Next /\ ~(\E t \in 1..MaxStarts : Working(t))
  <2>1. /\ QueueInv' /\ triggers <= triggers' /\ UNCHANGED <<halted, dropped>>
        /\ \A j \in Waiting' : j \in Waiting \/ j.trigger > triggers
        /\ \A u \in DOMAIN threads' : threads'[u].pc = "steps" =>
             u \in DOMAIN threads /\ threads'[u] = threads[u]
    BY <1>3, OthersTakeTurns
  <2>2. \A u \in DOMAIN threads' : threads'[u].pc = "steps" =>
          /\ u \in DOMAIN threads /\ threads[u].pc = "steps"
          /\ threads'[u].job = threads[u].job
    BY <2>1
  <2> QED  BY <2>1, <2>2, HaltsStay
<1>4. ASSUME NEW t, Working(t)
      PROVE  QueueInv' /\ HaltInv'
  <2>1. QueueInv' /\ Waiting' \subseteq Waiting
    BY <1>4, ThreadsTakeTurns
  <2>2. triggers' = triggers
    <3>1. CASE At(t, "steps") /\ \E i \in DOMAIN threads[t].steps : Step(t, i)
      BY <3>1, StepFrame DEF EngineInv, calls
    <3> QED
      BY <1>4, <3>1 DEF Working, Look, FailGlobally, Isolate, IsolateAll, Take, Exit, NextTested,
                  StartGroup, EndGroup, calls
  <2>3. \A u \in DOMAIN threads' : threads'[u].pc = "steps" =>
          /\ u \in DOMAIN threads /\ threads'[u].job = threads[u].job
          /\ threads[u].pc = "steps" \/ \A p \in dropped : p[1] # threads'[u].job.trigger
    BY <1>4, ThreadsEnterGroups
  <2>4. CASE UNCHANGED <<halted, dropped>>
    BY <1>1, <2>1, <2>2, <2>3, <2>4, HaltsStay
  <2>5. CASE /\ At(t, "steps") /\ \E i \in DOMAIN threads[t].steps : Step(t, i)
             /\ halted' = Remembered(threads[t].job.trigger)
             /\ dropped' = dropped \cup {<<threads[t].job.trigger, threads[t].job.group>>}
    <3> DEFINE job == threads[t].job
               id == job.trigger
    <3>1. t \in DOMAIN threads /\ InGroup(threads[t]) /\ threads[t].pc = "steps"
      BY <2>5 DEF At, InGroup
    <3>2. job \in Waiting /\ job \in Job /\ \A j \in Waiting : id <= j.trigger
      BY <3>1, Awaits DEF InTurn, QueueInv, Foremost
    <3>3. id \in Nat /\ job.group \in Nat /\ id <= triggers
          /\ \A j \in Waiting : j.trigger \in Nat
      BY <3>2 DEF Job, QueueInv
    <3>4. halted' \in Seq(Nat) /\ id \in Range(halted')
      BY <2>5, <3>3, TheLastIsRemembered DEF HaltInv
    <3>5. /\ DOMAIN threads' = DOMAIN threads
          /\ \A u \in DOMAIN threads : threads'[u].pc = threads[u].pc /\ threads'[u].job = threads[u].job
      BY <2>5, StepFrame DEF EngineInv
    <3>6. \A u \in DOMAIN threads : u = t
      BY <3>1 DEF EngineInv, StopInv, Listening
    <3> HIDE DEF job, id
    <3>7. dropped' = dropped \cup {<<id, job.group>>}
      BY <2>5 DEF id, job
    <3>8. ASSUME NEW p \in dropped'
          PROVE  /\ p \in Nat \X Nat /\ p[1] <= triggers'
                 /\ \A j \in Waiting' : p[1] <= j.trigger
                 /\ p[1] \in Range(halted') \/ \A j \in Waiting' : p[1] < j.trigger
                 /\ p[1] = id => p[2] >= job.group
      <4>1. CASE p = <<id, job.group>>
        <5>1. p[1] = id /\ p[2] = job.group /\ job.group >= job.group /\ p \in Nat \X Nat
          BY <3>3, <4>1
        <5> QED  BY <2>1, <2>2, <3>2, <3>3, <3>4, <5>1
      <4>2. CASE p \in dropped
        <5>1. /\ p \in Nat \X Nat /\ p[1] <= triggers /\ \A j \in Waiting : p[1] <= j.trigger
          BY <4>2 DEF HaltInv
        <5>2. p[1] \in Nat /\ p[1] <= id
          BY <3>2, <5>1 DEF id
        <5>3. p[1] = id \/ \A j \in Waiting : p[1] < j.trigger
          BY <3>2, <3>3, <5>2
        <5>4. p[1] = id => p[2] >= job.group
          BY <3>1, <4>2 DEF HaltInv, id, job
        <5> QED  BY <2>1, <2>2, <3>4, <5>1, <5>3, <5>4
      <4> QED  BY <3>7, <4>1, <4>2
    <3>9. ASSUME NEW u \in DOMAIN threads', NEW p \in dropped', p[1] = threads'[u].job.trigger
          PROVE  p[2] >= threads'[u].job.group
      <4>1. threads'[u].job = job
        BY <3>5, <3>6 DEF job
      <4> QED  BY <3>8, <3>9, <4>1 DEF id
    <3> QED  BY <2>1, <3>4, <3>8, <3>9 DEF HaltInv, Remembering
  <2> QED  BY <1>4, <2>4, <2>5, OnlyUnavailableHalts
<1> QED  BY <1>2, <1>3, <1>4 DEF Next

LEMMA QueueStarts ==
  ASSUME Init
  PROVE  QueueInv /\ HaltInv /\ RuleTested
<1>1. <<>> \in Seq(Job) /\ Sorted(<<>>) /\ Range(<<>>) = {} /\ <<>> \in Seq(Nat)
  BY DEF Sorted, Range
<1>2. DOMAIN threads = {} /\ jobs = <<>> /\ epoch = 0 /\ triggers = 0
      /\ halted = <<>> /\ dropped = {} /\ caller.pc = "idle"
  BY DEF Init, Idle
<1>3. Waiting = {}
  BY <1>1, <1>2, WhoWaits
<1>4. QueueInv
  BY <1>1, <1>2, <1>3 DEF QueueInv
<1>5. HaltInv /\ RuleTested
  BY <1>1, <1>2 DEF HaltInv, RuleTested
<1> QED  BY <1>4, <1>5

(* Once a step has stopped its sequence, no later group of that sequence   *)
(* is ever started, in this arming or a later one, although the list of    *)
(* halted triggers forgets its oldest entries (_unavailable, _run).        *)
THEOREM HaltedIsFinal == Spec => []HaltedStaysHalted
<1> DEFINE Inv == EngineInv /\ QueueInv /\ HaltInv /\ RuleTested
<1>1. Init => Inv
  BY EngineStarts, QueueStarts
<1>2. Inv /\ [Next]_vars => Inv'
  BY EngineSteps, HaltSteps, TestsKeepTheirRule
<1>3. Inv => HaltedStaysHalted
  <2> SUFFICES ASSUME Inv, NEW t \in DOMAIN threads, threads[t].pc = "steps",
                      NEW g \in 1..(threads[t].job.group - 1),
                      <<threads[t].job.trigger, g>> \in dropped
               PROVE  FALSE
    BY DEF HaltedStaysHalted
  <2>1. threads[t].job.group \in Nat
    BY DEF QueueInv, InTurn, InGroup, Job
  <2>2. g >= threads[t].job.group
    BY DEF HaltInv
  <2> QED  BY <2>1, <2>2
<1> QED  BY <1>1, <1>2, <1>3, PTL DEF Spec

-----------------------------------------------------------------------------
(* What records in the background is on the list disarm waits for, which   *)
(* needs that no two steps of one group replace that list at once.         *)
Background == {"series", "record"}

OneInBackground ==
  \A r \in Rules : \A g \in DOMAIN Groups[r] : \A i, j \in DOMAIN Groups[r][g] :
    Groups[r][g][i] \in Background /\ Groups[r][g][j] \in Background => i = j

IsStep(s) == s = [pc |-> s.pc, ev |-> s.ev, kept |-> s.kept]

(* Where a step of the group that t runs stands with the list. *)
Listed(t, i) ==
  /\ IsStep(threads[t].steps[i])
  /\ threads[t].steps[i].pc = "look" => KindOf(t, i) \in Background \cup {"photo"}
  /\ threads[t].steps[i].pc \in {"list", "assign", "append", "begin"} => KindOf(t, i) \in Background
  /\ threads[t].steps[i].pc = "assign" => DOMAIN recording \subseteq threads[t].steps[i].kept
  /\ threads[t].steps[i].pc = "begin" => Recorder(t, i) \in recorders

(* The steps are those of the group. *)
StepsOf(t) ==
  /\ threads[t].job.rule \in Rules
  /\ threads[t].job.group \in DOMAIN Groups[threads[t].job.rule]
  /\ DOMAIN threads[t].steps \subseteq DOMAIN Groups[threads[t].job.rule][threads[t].job.group]

Speaking == \E t \in DOMAIN threads : \E i \in DOMAIN threads[t].steps :
              /\ threads[t].pc = "steps" /\ threads[t].steps[i].pc = "speak"
              /\ speaker = <<t, i>>

QuietInv ==
  /\ DOMAIN recording \subseteq recorders
  /\ \A t \in DOMAIN threads : threads[t].pc = "steps" =>
       StepsOf(t) /\ \A i \in DOMAIN threads[t].steps : Listed(t, i)
  /\ speaker = None \/ Speaking
  /\ caller.pc \in {"recorders", "release"} => DOMAIN threads = {}
  /\ caller.pc = "release" => DOMAIN recording = {}

(* The step i of the group that t runs becomes x. *)
StepIs(t, i, x) == threads' = [threads EXCEPT ![t].steps[i] = x]

LEMMA StepRecord ==
  ASSUME NEW s, IsStep(s), NEW a, NEW b
  PROVE  /\ [s EXCEPT !.pc = a] = [pc |-> a, ev |-> s.ev, kept |-> s.kept]
         /\ [s EXCEPT !.kept = b, !.pc = a] = [pc |-> a, ev |-> s.ev, kept |-> b]
<1>1. PICK p, e, k : s = [pc |-> p, ev |-> e, kept |-> k]
  BY DEF IsStep
<1>2. s.pc = p /\ s.ev = e /\ s.kept = k
  BY <1>1
<1>3. [s EXCEPT !.pc = a] = [pc |-> a, ev |-> e, kept |-> k]
  BY <1>1
<1>4. [s EXCEPT !.kept = b, !.pc = a] = [pc |-> a, ev |-> e, kept |-> b]
  <2>1. [s EXCEPT !.kept = b, !.pc = a] = [[s EXCEPT !.kept = b] EXCEPT !.pc = a]
    OBVIOUS
  <2>2. [s EXCEPT !.kept = b] = [pc |-> p, ev |-> e, kept |-> b]
    BY <1>1
  <2>3. [[pc |-> p, ev |-> e, kept |-> b] EXCEPT !.pc = a] = [pc |-> a, ev |-> e, kept |-> b]
    OBVIOUS
  <2> QED  BY <2>1, <2>2, <2>3
<1> QED  BY <1>2, <1>3, <1>4

(* One step of the group moves, and the others stay. *)
StepMoved(t, i, x) ==
  /\ t \in DOMAIN threads /\ DOMAIN threads' = {t} /\ threads'[t].pc = "steps"
  /\ threads'[t].job = threads[t].job /\ threads'[t].steps[i] = x
  /\ DOMAIN threads'[t].steps = DOMAIN threads[t].steps
  /\ \A j \in DOMAIN threads[t].steps : j # i => threads'[t].steps[j] = threads[t].steps[j]

LEMMA OneStepMoves ==
  ASSUME EngineInv, NEW t, NEW i, At(t, "steps"), i \in DOMAIN threads[t].steps, NEW x,
         StepIs(t, i, x)
  PROVE  StepMoved(t, i, x)
<1>1. t \in DOMAIN threads /\ IsThread(threads[t]) /\ DOMAIN threads = {t} /\ threads[t].pc = "steps"
  BY DEF At, EngineInv, StopInv, Listening
<1> DEFINE s == [threads[t].steps EXCEPT ![i] = x]
           th == [threads[t] EXCEPT !.steps = s]
<1>2. threads' = [threads EXCEPT ![t] = th]
  BY DEF StepIs
<1>3. DOMAIN s = DOMAIN threads[t].steps
      /\ \A j \in DOMAIN threads[t].steps : s[j] = IF j = i THEN x ELSE threads[t].steps[j]
  OBVIOUS
<1> HIDE DEF s
<1>4. th.steps = s /\ th.pc = threads[t].pc /\ th.job = threads[t].job
  BY <1>1 DEF IsThread
<1> HIDE DEF th
<1>5. DOMAIN threads' = {t} /\ threads'[t] = th
  BY <1>1, <1>2
<1> QED  BY <1>1, <1>3, <1>4, <1>5 DEF StepMoved

(* A step of a group. *)
LEMMA QuietSteps ==
  ASSUME OneInBackground, EngineInv, QuietInv, NEW t, NEW i,
         At(t, "steps"), i \in DOMAIN threads[t].steps, Step(t, i)
  PROVE  QuietInv'
<1>1. /\ t \in DOMAIN threads /\ threads[t].pc = "steps"
      /\ UNCHANGED caller /\ StepsOf(t)
      /\ \A j \in DOMAIN threads[t].steps : Listed(t, j)
      /\ \A u \in DOMAIN threads : u = t
  BY StepFrame DEF QuietInv, EngineInv, StopInv, Listening, calls
<1>2. DOMAIN recording \subseteq recorders
  BY DEF QuietInv
<1>3. IsStep(threads[t].steps[i])
  BY <1>1 DEF Listed
<1>4. caller'.pc \notin {"recorders", "release"}
  BY <1>1 DEF QuietInv
<1>5. \A j \in DOMAIN threads[t].steps : KindOf(t, i) \in Background /\ KindOf(t, j) \in Background => i = j
  BY <1>1 DEF OneInBackground, StepsOf, KindOf
(* What has to be shown of the step that moves and of the others. *)
<1>6. ASSUME NEW x, StepIs(t, i, x),
             DOMAIN recording' \subseteq recorders',
             (Listed(t, i))',
             \A j \in DOMAIN threads[t].steps : j # i /\ threads[t].steps[j].pc = "assign" =>
               DOMAIN recording' \subseteq threads[t].steps[j].kept,
             \A j \in DOMAIN threads[t].steps : j # i /\ threads[t].steps[j].pc = "begin" =>
               Recorder(t, j) \in recorders',
             speaker' = None \/ (speaker' = speaker /\ threads[t].steps[i].pc # "speak")
             \/ (speaker' = <<t, i>> /\ x.pc = "speak")
      PROVE  QuietInv'
  <2>1. /\ DOMAIN threads' = {t} /\ threads'[t].pc = "steps"
        /\ threads'[t].job = threads[t].job /\ threads'[t].steps[i] = x
        /\ DOMAIN threads'[t].steps = DOMAIN threads[t].steps
        /\ \A j \in DOMAIN threads[t].steps : j # i => threads'[t].steps[j] = threads[t].steps[j]
    <3>1. StepMoved(t, i, x)
      BY <1>6, OneStepMoves
    <3> QED  BY <3>1 DEF StepMoved
  <2>2. (StepsOf(t))'
    BY <1>1, <2>1 DEF StepsOf
  <2>3. ASSUME NEW j \in DOMAIN threads[t].steps, j # i
        PROVE  (Listed(t, j))'
    <3>1. threads'[t].steps[j] = threads[t].steps[j] /\ Listed(t, j)
      BY <1>1, <2>1, <2>3
    <3>2. (KindOf(t, j))' = KindOf(t, j) /\ (Recorder(t, j))' = Recorder(t, j)
      BY <2>1, <3>1 DEF KindOf, Recorder
    <3> QED  BY <1>6, <2>3, <3>1, <3>2 DEF Listed
  <2>4. speaker' = None \/ Speaking'
    <3>1. CASE speaker' = None
      BY <3>1
    <3>2. CASE speaker' = <<t, i>> /\ x.pc = "speak"
      BY <2>1, <3>2 DEF Speaking
    <3>3. CASE speaker' = speaker /\ threads[t].steps[i].pc # "speak" /\ speaker # None
      <4>1. PICK j \in DOMAIN threads[t].steps : threads[t].steps[j].pc = "speak" /\ speaker = <<t, j>>
        BY <1>1, <3>3 DEF QuietInv, Speaking
      <4> QED  BY <2>1, <3>3, <4>1 DEF Speaking
    <3> QED  BY <1>6, <3>1, <3>2, <3>3
  <2> QED  BY <1>4, <1>6, <2>1, <2>2, <2>3, <2>4 DEF QuietInv
(* The list, the recordings and what the others made of them stay. *)
<1>7. ASSUME NEW x, StepIs(t, i, x), UNCHANGED <<recorders, recording>>,
             x.pc = "look" => KindOf(t, i) \in Background \cup {"photo"},
             x.pc \in {"list", "assign"} => KindOf(t, i) \in Background,
             x.pc = "assign" => DOMAIN recording \subseteq x.kept,
             x.pc \notin {"append", "begin"}, IsStep(x),
             speaker' = None \/ (speaker' = speaker /\ threads[t].steps[i].pc # "speak")
             \/ (speaker' = <<t, i>> /\ x.pc = "speak")
      PROVE  QuietInv'
  <2>1. threads'[t].steps[i] = x /\ threads'[t].job = threads[t].job
    <3>1. StepMoved(t, i, x)
      BY <1>7, OneStepMoves
    <3> QED  BY <3>1 DEF StepMoved
  <2>2. (Listed(t, i))'
    BY <1>7, <2>1 DEF Listed, KindOf
  <2>3. \A j \in DOMAIN threads[t].steps :
          /\ threads[t].steps[j].pc = "assign" => DOMAIN recording' \subseteq threads[t].steps[j].kept
          /\ threads[t].steps[j].pc = "begin" => Recorder(t, j) \in recorders'
    BY <1>1, <1>7 DEF Listed
  <2> QED  BY <1>2, <1>6, <1>7, <2>2, <2>3
<1>8. ASSUME NEW pc, StepTo(t, i, pc)
      PROVE  StepIs(t, i, [pc |-> pc, ev |-> threads[t].steps[i].ev, kept |-> threads[t].steps[i].kept])
  <2>1. threads' = [threads EXCEPT ![t].steps[i] = [threads[t].steps[i] EXCEPT !.pc = pc]]
    BY <1>8 DEF StepTo
  <2> QED  BY <1>3, <2>1, StepRecord DEF StepIs
<1>9. CASE Check(t, i)
  <2>1. PICK pc \in (IF Stopped THEN {} ELSE {First(KindOf(t, i))}) \cup {"done"} :
          threads' = [threads EXCEPT ![t].steps[i] =
                        [threads[t].steps[i] EXCEPT !.pc = pc, !.ev = cancelled]]
    BY <1>9 DEF Check
  <2> DEFINE x == [pc |-> pc, ev |-> cancelled, kept |-> threads[t].steps[i].kept]
  <2>2. x.pc = pc /\ IsStep(x)
    BY DEF IsStep
  <2>3. KindOf(t, i) \in Kinds
    <3>1. Groups[threads[t].job.rule] \in Seq(Seq(Kinds))
      BY <1>1, SentryConstants DEF StepsOf
    <3>2. Groups[threads[t].job.rule][threads[t].job.group] \in Seq(Kinds)
      BY <1>1, <3>1 DEF StepsOf
    <3> QED  BY <1>1, <3>2 DEF StepsOf, KindOf
  <2>4. pc \in {"done", "act", "lock", "look"} /\ (pc = "look" => KindOf(t, i) \in Background \cup {"photo"})
    BY <2>1, <2>3 DEF First, Kinds, Background
  <2>5. UNCHANGED <<recorders, recording, speaker>> /\ threads[t].steps[i].pc # "speak"
    BY <1>9 DEF Check, StepAt
  <2>6. StepIs(t, i, x)
    <3>1. [threads[t].steps[i] EXCEPT !.pc = pc, !.ev = cancelled] = x
      <4>1. [threads[t].steps[i] EXCEPT !.pc = pc]
            = [pc |-> pc, ev |-> threads[t].steps[i].ev, kept |-> threads[t].steps[i].kept]
        BY <1>3, StepRecord
      <4>2. [threads[t].steps[i] EXCEPT !.pc = pc, !.ev = cancelled]
            = [[threads[t].steps[i] EXCEPT !.pc = pc] EXCEPT !.ev = cancelled]
        OBVIOUS
      <4>3. [[pc |-> pc, ev |-> threads[t].steps[i].ev, kept |-> threads[t].steps[i].kept]
               EXCEPT !.ev = cancelled] = x
        OBVIOUS
      <4> HIDE DEF x
      <4> QED  BY <4>1, <4>2, <4>3
    <3> HIDE DEF x
    <3> QED  BY <2>1, <3>1 DEF StepIs
  <2> HIDE DEF x
  <2> QED  BY <1>7, <2>2, <2>4, <2>5, <2>6
<1>10. CASE Act(t, i) \/ Unavailable(t, i)
  <2>1. StepTo(t, i, "done") /\ UNCHANGED <<recorders, recording, speaker>>
        /\ threads[t].steps[i].pc # "speak"
    BY <1>10 DEF Act, Unavailable, StepAt
  <2> DEFINE x == [pc |-> "done", ev |-> threads[t].steps[i].ev, kept |-> threads[t].steps[i].kept]
  <2>2. StepIs(t, i, x) /\ x.pc = "done" /\ IsStep(x)
    BY <1>8, <2>1 DEF IsStep
  <2> HIDE DEF x
  <2> QED  BY <1>7, <2>1, <2>2
<1>11. CASE Lock(t, i) \/ Speak(t, i)
  <2>1. PICK pc \in {"done", "speak"} :
          /\ StepTo(t, i, pc) /\ UNCHANGED <<recorders, recording>>
          /\ speaker' = None \/ (speaker' = speaker /\ threads[t].steps[i].pc # "speak")
             \/ (speaker' = <<t, i>> /\ pc = "speak")
    BY <1>11 DEF Lock, Speak, StepAt
  <2> DEFINE x == [pc |-> pc, ev |-> threads[t].steps[i].ev, kept |-> threads[t].steps[i].kept]
  <2>2. StepIs(t, i, x) /\ x.pc = pc /\ IsStep(x)
    BY <1>8, <2>1 DEF IsStep
  <2> HIDE DEF x
  <2> QED  BY <1>7, <2>1, <2>2
<1>12. CASE Frame(t, i)
  <2> DEFINE pc == IF KindOf(t, i) = "photo" THEN "done" ELSE "list"
             x == [pc |-> pc, ev |-> threads[t].steps[i].ev, kept |-> threads[t].steps[i].kept]
  <2>1. StepTo(t, i, pc) /\ UNCHANGED <<recorders, recording, speaker>>
        /\ threads[t].steps[i].pc = "look"
    BY <1>12 DEF Frame, StepAt
  <2>2. KindOf(t, i) \in Background \cup {"photo"}
    BY <1>1, <2>1 DEF Listed
  <2>3. pc \in {"done", "list"} /\ (pc = "list" => KindOf(t, i) \in Background)
    BY <2>2
  <2> HIDE DEF pc
  <2>4. StepIs(t, i, x) /\ x.pc = pc /\ IsStep(x)
    BY <1>8, <2>1 DEF IsStep
  <2> HIDE DEF x
  <2> QED  BY <1>7, <2>1, <2>3, <2>4
<1>13. CASE ListAlive(t, i)
  <2> DEFINE x == [pc |-> "assign", ev |-> threads[t].steps[i].ev, kept |-> StillRecording]
  <2>1. StepIs(t, i, x) /\ UNCHANGED <<recorders, recording, speaker>>
    <3>1. [threads[t].steps[i] EXCEPT !.kept = StillRecording, !.pc = "assign"] = x
      BY <1>3, StepRecord
    <3> HIDE DEF x
    <3> QED  BY <1>13, <3>1 DEF ListAlive, StepIs
  <2>2. x.pc = "assign" /\ x.kept = StillRecording /\ IsStep(x)
    BY DEF IsStep
  <2>3. threads[t].steps[i].pc = "list" /\ KindOf(t, i) \in Background
    BY <1>1, <1>13 DEF ListAlive, StepAt, Listed
  <2>4. DOMAIN recording \subseteq StillRecording
    BY <1>2 DEF StillRecording
  <2> HIDE DEF x
  <2> QED  BY <1>7, <2>1, <2>2, <2>3, <2>4
<1>14. CASE AssignAlive(t, i)
  <2> DEFINE x == [pc |-> "append", ev |-> threads[t].steps[i].ev, kept |-> {}]
  <2>1. /\ StepIs(t, i, x) /\ UNCHANGED <<recording, speaker>>
        /\ recorders' = threads[t].steps[i].kept /\ threads[t].steps[i].pc = "assign"
    <3>1. [threads[t].steps[i] EXCEPT !.kept = {}, !.pc = "append"] = x
      BY <1>3, StepRecord
    <3> HIDE DEF x
    <3> QED  BY <1>14, <3>1 DEF AssignAlive, StepAt, StepIs
  <2>2. x.pc = "append" /\ IsStep(x)
    BY DEF IsStep
  <2>3. KindOf(t, i) \in Background /\ DOMAIN recording' \subseteq recorders'
    BY <1>1, <2>1 DEF Listed
  <2> HIDE DEF x
  <2>4. (Listed(t, i))'
    <3>1. threads'[t].steps[i] = x /\ threads'[t].job = threads[t].job
      <4>1. StepMoved(t, i, x)
        BY <2>1, OneStepMoves
      <4> QED  BY <4>1 DEF StepMoved
    <3> QED  BY <2>2, <2>3, <3>1 DEF Listed, KindOf
  <2>5. \A j \in DOMAIN threads[t].steps : j # i => threads[t].steps[j].pc \notin {"assign", "begin"}
    BY <1>1, <1>5, <2>3 DEF Listed
  <2> QED  BY <1>6, <2>1, <2>3, <2>4, <2>5
<1>15. CASE AppendRecorder(t, i)
  <2> DEFINE x == [pc |-> "begin", ev |-> threads[t].steps[i].ev, kept |-> threads[t].steps[i].kept]
  <2>1. /\ StepTo(t, i, "begin") /\ UNCHANGED <<recording, speaker>>
        /\ recorders' = recorders \cup {Recorder(t, i)} /\ threads[t].steps[i].pc = "append"
    BY <1>15 DEF AppendRecorder, StepAt
  <2>2. /\ StepIs(t, i, x) /\ x.pc = "begin" /\ IsStep(x)
        /\ x.ev = threads[t].steps[i].ev
    BY <1>8, <2>1 DEF IsStep
  <2>3. KindOf(t, i) \in Background
    BY <1>1, <2>1 DEF Listed
  <2> HIDE DEF x
  <2>4. (Listed(t, i))'
    <3>1. threads'[t].steps[i] = x /\ threads'[t].job = threads[t].job
      <4>1. StepMoved(t, i, x)
        BY <2>2, OneStepMoves
      <4> QED  BY <4>1 DEF StepMoved
    <3>2. (Recorder(t, i))' = Recorder(t, i) /\ (KindOf(t, i))' = KindOf(t, i)
      BY <2>2, <3>1 DEF Recorder, KindOf
    <3> QED  BY <2>1, <2>2, <2>3, <3>1, <3>2 DEF Listed
  <2>5. \A j \in DOMAIN threads[t].steps : j # i => threads[t].steps[j].pc \notin {"assign", "begin"}
    BY <1>1, <1>5, <2>3 DEF Listed
  <2>6. DOMAIN recording' \subseteq recorders'
    BY <1>2, <2>1
  <2> QED  BY <1>6, <2>1, <2>2, <2>4, <2>5, <2>6
<1>16. CASE StartRecorder(t, i)
  <2> DEFINE x == [pc |-> "done", ev |-> threads[t].steps[i].ev, kept |-> threads[t].steps[i].kept]
  <2>1. /\ StepTo(t, i, "done") /\ UNCHANGED <<recorders, speaker>>
        /\ DOMAIN recording' = DOMAIN recording \cup {Recorder(t, i)}
        /\ threads[t].steps[i].pc = "begin"
    BY <1>16 DEF StartRecorder, StepAt
  <2>2. StepIs(t, i, x) /\ x.pc = "done" /\ IsStep(x)
    BY <1>8, <2>1 DEF IsStep
  <2>3. KindOf(t, i) \in Background /\ Recorder(t, i) \in recorders
    BY <1>1, <2>1 DEF Listed
  <2> HIDE DEF x
  <2>4. (Listed(t, i))'
    <3>1. threads'[t].steps[i] = x
      <4>1. StepMoved(t, i, x)
        BY <2>2, OneStepMoves
      <4> QED  BY <4>1 DEF StepMoved
    <3> QED  BY <2>2, <3>1 DEF Listed
  <2>5. \A j \in DOMAIN threads[t].steps : j # i => threads[t].steps[j].pc \notin {"assign", "begin"}
    BY <1>1, <1>5, <2>3 DEF Listed
  <2>6. DOMAIN recording' \subseteq recorders'
    BY <1>2, <2>1, <2>3
  <2> QED  BY <1>6, <2>1, <2>2, <2>4, <2>5, <2>6
<1> QED
  BY <1>9, <1>10, <1>11, <1>12, <1>13, <1>14, <1>15, <1>16 DEF Step

(* The thread between two groups, and the start and the end of one. *)
LEMMA QuietThreads ==
  ASSUME OneInBackground, EngineInv, QueueInv, QuietInv, NEW t, Working(t)
  PROVE  QuietInv'
<1>1. t \in DOMAIN threads /\ \A v \in DOMAIN threads : v = t /\ IsThread(threads[v])
  BY DEF Working, Look, FailGlobally, Isolate, IsolateAll, Take, Exit, NextTested, StartGroup,
         EndGroup, At, EngineInv, StopInv, Listening
<1>2. CASE At(t, "steps") /\ \E i \in DOMAIN threads[t].steps : Step(t, i)
  BY <1>2, QuietSteps
<1>3. CASE ~(At(t, "steps") /\ \E i \in DOMAIN threads[t].steps : Step(t, i))
  <2>1. UNCHANGED <<caller, recorders, recording, speaker>>
    BY <1>3 DEF Working, Look, FailGlobally, Isolate, IsolateAll, Take, Exit, NextTested,
                StartGroup, EndGroup, calls
  <2>2. speaker = None
    <3> SUFFICES ASSUME Speaking PROVE FALSE
      BY DEF QuietInv
    <3>1. PICK i \in DOMAIN threads[t].steps : threads[t].pc = "steps" /\ threads[t].steps[i].pc = "speak"
      BY <1>1 DEF Speaking
    <3>2. EndGroup(t)
      BY <1>3, <3>1 DEF Working, Look, FailGlobally, Isolate, IsolateAll, Take, Exit,
                        NextTested, StartGroup, At
    <3> QED  BY <3>1, <3>2 DEF EndGroup
  <2>3. caller.pc \notin {"recorders", "release"}
    BY <1>1 DEF QuietInv
  <2>4. ASSUME NEW u \in DOMAIN threads', threads'[u].pc = "steps"
        PROVE  (StepsOf(u))' /\ \A i \in DOMAIN threads'[u].steps : (Listed(u, i))'
    <3>1. u = t /\ StartGroup(t) /\ MayRun(threads[t].job)
      BY <1>3, <2>4, GroupsEntered
    <3> DEFINE job == threads[t].job
               s == [i \in DOMAIN Groups[job.rule][job.group] |->
                       [pc |-> "check", ev |-> None, kept |-> {}]]
               th == [threads[t] EXCEPT !.pc = "steps", !.steps = s]
    <3>2. threads' = [threads EXCEPT ![t].pc = "steps", ![t].steps = s]
      BY <3>1 DEF StartGroup
    <3>3. \A i \in DOMAIN s : i \in DOMAIN Groups[job.rule][job.group] /\ IsStep(s[i]) /\ s[i].pc = "check"
      BY DEF IsStep
    <3> HIDE DEF s
    <3>4. th.job = job /\ th.steps = s
      BY <1>1 DEF IsThread
    <3>5. threads' = [threads EXCEPT ![t] = th]
      BY <3>2
    <3>6. job \in Job /\ job.group \in DOMAIN Groups[job.rule] /\ job.rule \in Rules
      <4>1. job \in Waiting
        BY <1>1, <3>1, Awaits DEF StartGroup, At, InGroup
      <4> QED  BY <4>1 DEF QueueInv, Job
    <3> HIDE DEF th, job
    <3>7. threads'[t].job = job /\ threads'[t].steps = s
      BY <1>1, <3>4, <3>5
    <3>8. (StepsOf(t))'
      BY <3>3, <3>6, <3>7 DEF StepsOf
    <3>9. \A i \in DOMAIN threads'[t].steps : (Listed(t, i))'
      BY <3>3, <3>7 DEF Listed
    <3> QED  BY <3>1, <3>8, <3>9
  <2> QED  BY <2>1, <2>2, <2>3, <2>4 DEF QuietInv
<1> QED  BY <1>2, <1>3

(* What is done around the threads. *)
LEMMA QuietOthers ==
  ASSUME EngineInv, QuietInv, Next, ~(\E t \in 1..MaxStarts : Working(t))
  PROVE  QuietInv'
<1>1. IsCaller /\ DOMAIN recording \subseteq recorders
  BY DEF EngineInv, StopInv, QuietInv
(* No thread moves and no recording starts. *)
<1>2. ASSUME UNCHANGED <<threads, speaker>>,
             DOMAIN recording' \subseteq DOMAIN recording,
             recorders' = recorders \/ (DOMAIN threads = {} /\ DOMAIN recording' \subseteq recorders'),
             caller'.pc \in {"recorders", "release"} => DOMAIN threads = {},
             caller'.pc = "release" => DOMAIN recording' = {}
      PROVE  QuietInv'
  <2>1. ASSUME NEW u \in DOMAIN threads, threads[u].pc = "steps"
        PROVE  (StepsOf(u))' /\ \A i \in DOMAIN threads[u].steps : (Listed(u, i))'
    <3>1. StepsOf(u) /\ \A i \in DOMAIN threads[u].steps : Listed(u, i)
      BY <2>1 DEF QuietInv
    <3>2. (StepsOf(u))' /\ recorders' = recorders
      BY <1>2, <2>1, <3>1 DEF StepsOf
    <3>3. \A i \in DOMAIN threads[u].steps : (KindOf(u, i))' = KindOf(u, i) /\ (Recorder(u, i))' = Recorder(u, i)
      BY <1>2 DEF KindOf, Recorder
    <3> QED  BY <1>2, <3>1, <3>2, <3>3 DEF Listed
  <2>2. speaker' = None \/ Speaking'
    BY <1>2 DEF QuietInv, Speaking
  <2>3. DOMAIN recording' \subseteq recorders'
    BY <1>1, <1>2
  <2> QED  BY <1>2, <2>1, <2>2, <2>3 DEF QuietInv
<1>3. CASE \/ Update \/ Fault \/ (\E r \in Rules : Fire(r))
           \/ (\E s \in Fragile : Break(s) \/ Mend(s))
  <2>1. UNCHANGED <<threads, speaker, recording, recorders, caller>>
    BY <1>3 DEF Update, Fault, Fire, Break, Mend, acts, calls
  <2> QED  BY <1>2, <2>1 DEF QuietInv
<1>4. CASE \E r \in DOMAIN recording : Recording(r)
  <2>1. PICK r \in DOMAIN recording : Recording(r)
    BY <1>4
  <2>2. UNCHANGED <<threads, speaker, recorders, caller>>
    BY <2>1 DEF Recording, NextPhoto, PhotoDone, EndRecording, calls
  <2>3. DOMAIN recording' \subseteq DOMAIN recording
    BY <2>1 DEF Recording, NextPhoto, PhotoDone, EndRecording, Restrict
  <2> QED  BY <1>2, <2>2, <2>3 DEF QuietInv
<1>5. CASE Arm \/ Disarm \/ (\E r \in Rules : Test(r)) \/ Release \/ StartCameras
           \/ JoinBeforeArming \/ JoinBeforeTesting
  <2>1. UNCHANGED <<threads, speaker, recording, recorders>>
    BY <1>5 DEF Arm, Disarm, Test, Release, StartCameras, JoinBeforeArming, JoinBeforeTesting,
                Joined, acts
  <2>2. caller'.pc \notin {"recorders", "release"}
    <3>1. CASE Arm \/ Disarm \/ (\E r \in Rules : Test(r)) \/ Release
      BY <3>1 DEF Arm, Disarm, Test, Release, Idle
    <3>2. CASE StartCameras
      BY <1>1, <3>2 DEF StartCameras, Idle, IsCaller
    <3>3. CASE JoinBeforeArming \/ JoinBeforeTesting
      BY <1>1, <3>3 DEF JoinBeforeArming, JoinBeforeTesting, Joined, Idle, IsCaller
    <3> QED  BY <1>5, <3>1, <3>2, <3>3
  <2> QED  BY <1>2, <2>1, <2>2
<1>6. CASE JoinBeforeReleasing
  <2>1. UNCHANGED <<threads, speaker, recording, recorders>>
    BY <1>6 DEF JoinBeforeReleasing, acts
  <2>2. caller'.pc # "release" /\ (caller'.pc = "recorders" => ~ThreadIsAlive)
    BY <1>1, <1>6 DEF JoinBeforeReleasing, Idle, IsCaller
  <2>3. ThreadIsAlive \/ DOMAIN threads = {}
    BY DEF EngineInv, StopInv, Listening, ThreadIsAlive
  <2> QED  BY <1>2, <2>1, <2>2, <2>3
<1>7. CASE JoinRecorders
  <2>1. UNCHANGED <<threads, speaker, recording>> /\ recorders' = StillRecording /\ DOMAIN threads = {}
    BY <1>7 DEF JoinRecorders, QuietInv
  <2>2. caller'.pc = "release" => StillRecording = {}
    BY <1>1, <1>7 DEF JoinRecorders, Idle, IsCaller
  <2>3. DOMAIN recording \subseteq StillRecording
    BY <1>1 DEF StillRecording
  <2> QED  BY <1>2, <2>1, <2>2, <2>3
<1>8. CASE CommitArming \/ StartTest
  <2>1. UNCHANGED <<speaker, recording, recorders>> /\ caller' = Idle
    BY <1>8 DEF CommitArming, StartTest
  <2>2. DOMAIN threads = {}
    BY <1>8 DEF CommitArming, StartTest, EngineInv, StopInv, Alone
  <2>3. speaker = None
    BY <2>2 DEF QuietInv, Speaking
  <2>4. PICK kind, todo : threads' = [u \in DOMAIN threads \cup {cancelled'} |->
                       IF u = cancelled' THEN Thread(kind, todo) ELSE threads[u]]
    BY <1>8 DEF CommitArming, StartTest
  <2>5. \A u \in DOMAIN threads' : threads'[u].pc = "loop"
    BY <2>2, <2>4 DEF Thread
  <2> QED  BY <1>1, <2>1, <2>3, <2>5 DEF QuietInv, Idle
<1> QED
  BY <1>3, <1>4, <1>5, <1>6, <1>7, <1>8 DEF Next, Calling

(* The live threads and the recordings are functions, so that the ones     *)
(* without a domain are empty.                                             *)
AreFunctions == /\ threads = [t \in DOMAIN threads |-> threads[t]]
                /\ recording = [r \in DOMAIN recording |-> recording[r]]

LEMMA FunctionsStay ==
  ASSUME AreFunctions, [Next]_vars
  PROVE  AreFunctions'
<1> USE DEF AreFunctions
<1>1. CASE UNCHANGED <<threads, recording>>
  BY <1>1
<1>2. CASE \/ Arm \/ Disarm \/ Update \/ Fault \/ (\E r \in Rules : Test(r) \/ Fire(r))
           \/ (\E s \in Fragile : Break(s) \/ Mend(s))
           \/ JoinBeforeArming \/ StartCameras \/ JoinBeforeTesting \/ JoinBeforeReleasing
           \/ JoinRecorders \/ Release \/ UNCHANGED vars
  <2>1. UNCHANGED <<threads, recording>>
    BY <1>2 DEF Arm, Disarm, Update, Fault, Test, Fire, Break, Mend, JoinBeforeArming, StartCameras,
                JoinBeforeTesting, Joined, JoinBeforeReleasing, JoinRecorders, Release, vars, acts
  <2> QED  BY <1>1, <2>1
<1>3. CASE CommitArming \/ StartTest
  BY <1>3 DEF CommitArming, StartTest
<1>4. CASE \E r \in DOMAIN recording : Recording(r)
  BY <1>4 DEF Recording, NextPhoto, PhotoDone, EndRecording, Restrict
<1>5. ASSUME NEW t, Working(t)
      PROVE  AreFunctions'
  <2>1. CASE \/ Look(t) \/ FailGlobally(t) \/ Isolate(t) \/ IsolateAll(t) \/ Take(t) \/ Exit(t)
             \/ NextTested(t) \/ StartGroup(t) \/ EndGroup(t)
    <3>1. recording' = recording
      BY <2>1 DEF Look, FailGlobally, Isolate, IsolateAll, Take, Exit, NextTested, StartGroup, EndGroup
    <3>2. threads' = [u \in DOMAIN threads' |-> threads'[u]]
      BY <2>1 DEF Look, FailGlobally, Isolate, IsolateAll, Take, Exit, NextTested, StartGroup,
                  EndGroup, Goto, Restrict
    <3> QED  BY <3>1, <3>2
  <2>2. CASE \E i \in DOMAIN threads[t].steps : Step(t, i)
    <3>1. PICK i \in DOMAIN threads[t].steps : Step(t, i)
      BY <2>2
    <3>2. PICK s : threads' = [threads EXCEPT ![t].steps = s]
      BY <3>1, StepsMove
    <3>3. threads' = [u \in DOMAIN threads' |-> threads'[u]]
      BY <3>2
    <3>4. CASE StartRecorder(t, i)
      BY <3>3, <3>4 DEF StartRecorder
    <3>5. CASE ~StartRecorder(t, i)
      <4>1. recording' = recording
        BY <3>1, <3>5 DEF Step, Check, Act, Lock, Speak, Frame, Unavailable, ListAlive, AssignAlive,
                          AppendRecorder
      <4> QED  BY <3>3, <4>1
    <3> QED  BY <3>4, <3>5
  <2> QED  BY <1>5, <2>1, <2>2 DEF Working
<1> QED  BY <1>2, <1>3, <1>4, <1>5 DEF Next, Calling

(* When disarm lets the cameras go no action thread is left, nothing is    *)
(* being recorded and the speaker is free, provided that no group starts   *)
(* two recordings or series together (disarm, _in_background).             *)
THEOREM DisarmIsQuiet ==
  ASSUME OneInBackground
  PROVE  Spec => []QuietOnceDisarmed
<1> DEFINE Inv == EngineInv /\ QueueInv /\ HaltInv /\ RuleTested /\ QuietInv /\ AreFunctions
<1>1. Init => Inv
  <2> SUFFICES ASSUME Init PROVE Inv
    OBVIOUS
  <2>1. EngineInv /\ QueueInv /\ HaltInv /\ RuleTested
    BY EngineStarts, QueueStarts
  <2>2. QuietInv
    BY DEF Init, QuietInv, Idle
  <2>3. AreFunctions
    BY DEF Init, AreFunctions
  <2> QED  BY <2>1, <2>2, <2>3
<1>2. Inv /\ [Next]_vars => Inv'
  <2> SUFFICES ASSUME Inv, [Next]_vars PROVE Inv'
    OBVIOUS
  <2>1. EngineInv' /\ QueueInv' /\ HaltInv' /\ RuleTested' /\ AreFunctions'
    BY EngineSteps, HaltSteps, TestsKeepTheirRule, FunctionsStay
  <2>2. CASE UNCHANGED vars
    <3>1. UNCHANGED <<threads, recorders, recording, speaker, caller>>
      BY <2>2 DEF vars, acts, calls
    <3>2. QuietInv'
      <4>1. \A t : StepsOf(t)' <=> StepsOf(t)
        BY <3>1 DEF StepsOf
      <4>2. \A t, i : Listed(t, i)' <=> Listed(t, i)
        BY <3>1 DEF Listed, KindOf, Recorder
      <4>3. Speaking' <=> Speaking
        BY <3>1 DEF Speaking
      <4> QED  BY <3>1, <4>1, <4>2, <4>3 DEF QuietInv
    <3> QED  BY <2>1, <3>2
  <2>3. CASE \E t \in 1..MaxStarts : Working(t)
    BY <2>1, <2>3, QuietThreads
  <2>4. CASE Next /\ ~(\E t \in 1..MaxStarts : Working(t))
    BY <2>1, <2>4, QuietOthers
  <2> QED  BY <2>2, <2>3, <2>4 DEF Next
<1>3. Inv => QuietOnceDisarmed
  <2> SUFFICES ASSUME Inv, caller.pc = "release"
               PROVE  threads = <<>> /\ recording = <<>> /\ speaker = None
    BY DEF QuietOnceDisarmed
  <2>1. DOMAIN threads = {} /\ DOMAIN recording = {}
    BY DEF QuietInv
  <2>2. speaker = None
    BY <2>1 DEF QuietInv, Speaking
  <2>3. threads = <<>> /\ recording = <<>>
    BY <2>1 DEF AreFunctions
  <2> QED  BY <2>2, <2>3
<1> QED  BY <1>1, <1>2, <1>3, PTL DEF Spec

-----------------------------------------------------------------------------
(* The engine's types, with what they rest on: the counts are bounded from *)
(* the moment a caller has looked, there is a plan as long as a worker may *)
(* ask it, and what an arming is about to watch is already on lease.       *)
Typed(th) ==
  /\ th.pc \in ThreadPCs
  /\ \A i \in DOMAIN th.steps : IsStep(th.steps[i]) /\ th.steps[i].pc \in StepPCs

ThreadsTyped == \A t \in DOMAIN threads : t \in 1..MaxStarts /\ Typed(threads[t])

PlanTyped ==
  \/ plan = None /\ ~HasWorker
  \/ IsPlan /\ plan.vision \subseteq Cameras /\ plan.ready \subseteq Cameras

Counted ==
  /\ cancelled <= MaxStarts /\ triggers <= MaxTriggers
  /\ caller.pc \in {"arm", "cameras", "commit", "test", "start"} => cancelled < MaxStarts
  /\ caller.pc \in {"test", "start"} => triggers < MaxTriggers

OnLease == watching \subseteq held /\ (caller.pc = "commit" => Leases \subseteq held)

Plain ==
  /\ policy \in Policies /\ armed \in BOOLEAN /\ error \in BOOLEAN
  /\ suspended \subseteq Rules /\ Len(jobs) <= Slots /\ Len(halted) <= HaltedKept
  /\ monitoring \in BOOLEAN /\ broken \subseteq Fragile /\ calling \in BOOLEAN
  /\ gaveUp \in BOOLEAN

TypesInv == ThreadsTyped /\ PlanTyped /\ Counted /\ OnLease /\ Plain

(* A step of a group stays one. *)
LEMMA StepTypes ==
  ASSUME EngineInv, ThreadsTyped, NEW t, NEW i,
         At(t, "steps"), i \in DOMAIN threads[t].steps, Step(t, i)
  PROVE  ThreadsTyped'
<1>1. /\ t \in DOMAIN threads /\ t \in 1..MaxStarts
      /\ \A j \in DOMAIN threads[t].steps :
           IsStep(threads[t].steps[j]) /\ threads[t].steps[j].pc \in StepPCs
  BY DEF At, ThreadsTyped, Typed
<1> DEFINE s == threads[t].steps[i]
<1>2. IsStep(s)
  BY <1>1
<1>3. ASSUME NEW x, StepIs(t, i, x), IsStep(x), x.pc \in StepPCs
      PROVE  ThreadsTyped'
  <2>1. StepMoved(t, i, x)
    BY <1>3, OneStepMoves
  <2>2. \A j \in DOMAIN threads'[t].steps :
          IsStep(threads'[t].steps[j]) /\ threads'[t].steps[j].pc \in StepPCs
    BY <1>1, <1>3, <2>1 DEF StepMoved
  <2>3. "steps" \in ThreadPCs
    BY DEF ThreadPCs
  <2> QED  BY <1>1, <2>1, <2>2, <2>3 DEF StepMoved, ThreadsTyped, Typed
<1>4. ASSUME NEW pc \in StepPCs, StepTo(t, i, pc)
      PROVE  ThreadsTyped'
  <2>1. StepIs(t, i, [s EXCEPT !.pc = pc])
    BY <1>4 DEF StepTo, StepIs
  <2>2. IsStep([s EXCEPT !.pc = pc]) /\ [s EXCEPT !.pc = pc].pc = pc
    BY <1>2, StepRecord DEF IsStep
  <2> QED  BY <1>3, <2>1, <2>2
<1>5. ASSUME NEW pc \in StepPCs, NEW kept, StepIs(t, i, [s EXCEPT !.kept = kept, !.pc = pc])
      PROVE  ThreadsTyped'
  <2> DEFINE x == [s EXCEPT !.kept = kept, !.pc = pc]
  <2>1. x = [pc |-> pc, ev |-> s.ev, kept |-> kept]
    BY <1>2, StepRecord
  <2>2. StepIs(t, i, x)
    BY <1>5
  <2> HIDE DEF x
  <2>3. IsStep(x) /\ x.pc = pc
    BY <2>1 DEF IsStep
  <2> QED  BY <1>3, <2>2, <2>3
<1>6. CASE Check(t, i)
  <2>1. PICK pc : /\ pc \in (IF Stopped THEN {} ELSE {First(KindOf(t, i))}) \cup {"done"}
                  /\ threads' = [threads EXCEPT ![t].steps[i] = [@ EXCEPT !.pc = pc, !.ev = cancelled]]
    BY <1>6 DEF Check
  <2>2. pc \in StepPCs
    BY <2>1 DEF First, StepPCs
  <2> DEFINE x == [s EXCEPT !.pc = pc, !.ev = cancelled]
  <2>3. StepIs(t, i, x)
    BY <2>1 DEF StepIs
  <2>4. IsStep(x) /\ x.pc = pc
    <3>1. PICK p, e, k : s = [pc |-> p, ev |-> e, kept |-> k]
      BY <1>2 DEF IsStep
    <3>2. [s EXCEPT !.pc = pc] = [pc |-> pc, ev |-> e, kept |-> k]
      BY <3>1
    <3>3. x = [[s EXCEPT !.pc = pc] EXCEPT !.ev = cancelled]
      OBVIOUS
    <3>4. [[pc |-> pc, ev |-> e, kept |-> k] EXCEPT !.ev = cancelled]
            = [pc |-> pc, ev |-> cancelled, kept |-> k]
      OBVIOUS
    <3>5. x = [pc |-> pc, ev |-> cancelled, kept |-> k]
      BY <3>2, <3>3, <3>4
    <3> HIDE DEF x
    <3> QED  BY <3>5 DEF IsStep
  <2> QED  BY <1>3, <2>2, <2>3, <2>4
<1>7. CASE ListAlive(t, i) \/ AssignAlive(t, i)
  <2>1. CASE ListAlive(t, i)
    <3>1. StepIs(t, i, [s EXCEPT !.kept = StillRecording, !.pc = "assign"])
      BY <2>1 DEF ListAlive, StepIs
    <3> QED  BY <1>5, <3>1 DEF StepPCs
  <2>2. CASE AssignAlive(t, i)
    <3>1. StepIs(t, i, [s EXCEPT !.kept = {}, !.pc = "append"])
      BY <2>2 DEF AssignAlive, StepIs
    <3> QED  BY <1>5, <3>1 DEF StepPCs
  <2> QED  BY <1>7, <2>1, <2>2
<1>8. CASE Act(t, i) \/ Lock(t, i) \/ Speak(t, i) \/ Frame(t, i) \/ Unavailable(t, i)
           \/ AppendRecorder(t, i) \/ StartRecorder(t, i)
  <2>1. \E pc \in {"done", "speak", "list", "begin"} : StepTo(t, i, pc)
    BY <1>8 DEF Act, Lock, Speak, Frame, Unavailable, AppendRecorder, StartRecorder
  <2> QED  BY <1>4, <2>1 DEF StepPCs
<1> QED  BY <1>6, <1>7, <1>8 DEF Step

(* A live thread keeps its type, and its kind. *)
LEMMA ThreadTypes ==
  ASSUME EngineInv, QueueInv, ThreadsTyped, NEW t, Working(t)
  PROVE  ThreadsTyped' /\ (HasWorker' => HasWorker)
<1>1. /\ t \in DOMAIN threads /\ \A v \in DOMAIN threads : v = t
      /\ IsThread(threads[t]) /\ t \in 1..MaxStarts /\ Typed(threads[t])
  BY DEF Working, Look, FailGlobally, Isolate, IsolateAll, Take, Exit, NextTested, StartGroup,
         EndGroup, At, EngineInv, StopInv, Listening, ThreadsTyped
<1> DEFINE old == threads[t]
<1>2. ASSUME NEW th, threads' = [threads EXCEPT ![t] = th], th.kind = old.kind, Typed(th)
      PROVE  ThreadsTyped' /\ (HasWorker' => HasWorker)
  <2>1. DOMAIN threads' = {t} /\ threads'[t] = th
    BY <1>1, <1>2
  <2> QED  BY <1>1, <1>2, <2>1 DEF ThreadsTyped, HasWorker
<1>3. ASSUME threads' = Restrict(threads, DOMAIN threads \ {t})
      PROVE  ThreadsTyped' /\ (HasWorker' => HasWorker)
  <2>1. DOMAIN threads' = {}
    BY <1>1, <1>3 DEF Restrict
  <2> QED  BY <2>1 DEF ThreadsTyped, HasWorker
<1>4. \A i \in DOMAIN old.steps : IsStep(old.steps[i]) /\ old.steps[i].pc \in StepPCs
  BY <1>1 DEF Typed
<1>5. CASE Look(t)
  <2> DEFINE pc == IF Stopped THEN "exit" ELSE IF Failures(plan) = {} THEN "take" ELSE "unwell"
             f  == IF Stopped THEN {} ELSE Failures(plan)
             th == [old EXCEPT !.failures = f, !.pc = pc]
  <2>1. pc \in ThreadPCs
    BY DEF ThreadPCs
  <2>2. threads' = [threads EXCEPT ![t].failures = f, ![t].pc = pc]
    BY <1>5 DEF Look
  <2> HIDE DEF pc, f
  <2>3. threads' = [threads EXCEPT ![t] = th]
    BY <2>2
  <2>4. th.kind = old.kind /\ th.pc = pc /\ th.steps = old.steps
    BY <1>1 DEF IsThread
  <2> QED  BY <1>2, <1>4, <2>1, <2>3, <2>4 DEF Typed
<1>6. ASSUME NEW pc \in ThreadPCs, Goto(t, pc)
      PROVE  ThreadsTyped' /\ (HasWorker' => HasWorker)
  <2> DEFINE th == [old EXCEPT !.pc = pc]
  <2>1. threads' = [threads EXCEPT ![t] = th]
    BY <1>6 DEF Goto
  <2>2. th.kind = old.kind /\ th.pc = pc /\ th.steps = old.steps
    BY <1>1 DEF IsThread
  <2> QED  BY <1>2, <1>4, <2>1, <2>2 DEF Typed
<1>7. CASE FailGlobally(t) \/ Isolate(t) \/ IsolateAll(t) \/ (Take(t) /\ jobs = <<>>)
  <2>1. \E pc \in ThreadPCs : Goto(t, pc)
    BY <1>7 DEF FailGlobally, Isolate, IsolateAll, Take, ThreadPCs
  <2> QED  BY <1>6, <2>1
<1>8. ASSUME NEW j, NEW todo, threads' = [threads EXCEPT ![t] = [old EXCEPT !.job = j, !.todo = todo,
                                                                          !.pc = "run"]]
      PROVE  ThreadsTyped' /\ (HasWorker' => HasWorker)
  <2> DEFINE th == [old EXCEPT !.job = j, !.todo = todo, !.pc = "run"]
  <2>1. th.kind = old.kind /\ th.pc = "run" /\ th.steps = old.steps
    BY <1>1 DEF IsThread
  <2> QED  BY <1>2, <1>4, <1>8, <2>1 DEF Typed, ThreadPCs
<1>9. CASE Take(t) /\ jobs # <<>>
  <2>1. threads' = [threads EXCEPT ![t] = [old EXCEPT !.job = Head(jobs), !.todo = old.todo, !.pc = "run"]]
    BY <1>1, <1>9 DEF Take, IsThread
  <2> QED  BY <1>8, <2>1
<1>10. CASE NextTested(t)
  <2>1. CASE Stopped \/ old.todo = <<>>
    BY <1>3, <1>10, <2>1 DEF NextTested
  <2>2. CASE ~(Stopped \/ old.todo = <<>>)
    <3>1. threads' = [threads EXCEPT ![t] = [old EXCEPT !.job = Head(old.todo), !.todo = Tail(old.todo),
                                                        !.pc = "run"]]
      BY <1>10, <2>2 DEF NextTested
    <3> QED  BY <1>8, <3>1
  <2> QED  BY <2>1, <2>2
<1>11. CASE Exit(t)
  BY <1>3, <1>11 DEF Exit
<1>12. ASSUME NEW pc \in ThreadPCs, NEW s, threads' = [threads EXCEPT ![t].pc = pc, ![t].steps = s],
              \A i \in DOMAIN s : IsStep(s[i]) /\ s[i].pc \in StepPCs
       PROVE  ThreadsTyped' /\ (HasWorker' => HasWorker)
  <2> DEFINE th == [old EXCEPT !.pc = pc, !.steps = s]
  <2>1. threads' = [threads EXCEPT ![t] = th]
    BY <1>12
  <2>2. th.kind = old.kind /\ th.pc = pc /\ th.steps = s
    BY <1>1 DEF IsThread
  <2> QED  BY <1>2, <1>12, <2>1, <2>2 DEF Typed
<1>13. CASE StartGroup(t)
  <2>1. CASE MayRun(old.job)
    <3> DEFINE s == [i \in DOMAIN Groups[old.job.rule][old.job.group] |->
                       [pc |-> "check", ev |-> None, kept |-> {}]]
    <3>1. threads' = [threads EXCEPT ![t].pc = "steps", ![t].steps = s]
      BY <1>13, <2>1 DEF StartGroup
    <3>2. \A i \in DOMAIN s : IsStep(s[i]) /\ s[i].pc \in StepPCs
      BY DEF IsStep, StepPCs
    <3>3. "steps" \in ThreadPCs
      BY DEF ThreadPCs
    <3> HIDE DEF s
    <3> QED  BY <1>12, <3>1, <3>2, <3>3
  <2>2. CASE ~MayRun(old.job)
    <3>1. Goto(t, "loop")
      BY <1>13, <2>2 DEF StartGroup, Goto
    <3> QED  BY <1>6, <3>1 DEF ThreadPCs
  <2> QED  BY <2>1, <2>2
<1>14. CASE EndGroup(t)
  <2>1. threads' = [threads EXCEPT ![t].pc = "loop", ![t].steps = <<>>]
    BY <1>14 DEF EndGroup
  <2>2. "loop" \in ThreadPCs /\ DOMAIN <<>> = {}
    BY DEF ThreadPCs
  <2> QED  BY <1>12, <2>1, <2>2
<1>15. CASE At(t, "steps") /\ \E i \in DOMAIN old.steps : Step(t, i)
  <2>1. ThreadsTyped'
    BY <1>15, StepTypes
  <2>2. HasWorker' => HasWorker
    BY <1>15, StepFrame DEF HasWorker, EngineInv
  <2> QED  BY <2>1, <2>2
<1> QED
  BY <1>5, <1>7, <1>9, <1>10, <1>11, <1>13, <1>14, <1>15 DEF Working

(* What a working thread does besides: it lets a camera go together with   *)
(* its watching, and narrows the plan of an arming.                        *)
LEMMA WorkTypes ==
  ASSUME EngineInv, QueueInv, HaltInv, TypesInv, NEW t, Working(t)
  PROVE  TypesInv'
<1>1. ThreadsTyped' /\ (HasWorker' => HasWorker)
  BY ThreadTypes DEF TypesInv
<1>2. UNCHANGED <<cancelled, triggers, caller, epoch, policy, gaveUp, calling, broken>>
  <2>1. CASE At(t, "steps") /\ \E i \in DOMAIN threads[t].steps : Step(t, i)
    BY <2>1, StepFrame DEF EngineInv, core, calls, world
  <2> QED
    BY <2>1 DEF Working, Look, FailGlobally, Isolate, IsolateAll, Take, Exit, NextTested,
                StartGroup, EndGroup, GiveUp, core, calls, world
<1>3. Counted'
  BY <1>2 DEF TypesInv, Counted
<1>4. OnLease'
  <2>1. t \in DOMAIN threads
    BY DEF Working, Look, FailGlobally, Isolate, IsolateAll, Take, Exit, NextTested, StartGroup,
           EndGroup, At
  <2>2. caller.pc # "commit"
    BY <2>1 DEF EngineInv, StopInv, Alone
  <2>3. watching' \subseteq held'
    <3>1. CASE At(t, "steps") /\ \E i \in DOMAIN threads[t].steps : Step(t, i)
      BY <3>1, StepFrame DEF EngineInv, eyes, TypesInv, OnLease
    <3>2. CASE Isolate(t)
      <4>1. \E gone : watching' = watching \ gone /\ held' = held \ gone
        BY <3>2 DEF Isolate
      <4> QED  BY <4>1 DEF TypesInv, OnLease
    <3>3. CASE Exit(t)
      BY <3>3 DEF Exit, StopCameras, eyes, TypesInv, OnLease
    <3>4. CASE \/ Look(t) \/ FailGlobally(t) \/ IsolateAll(t) \/ Take(t) \/ NextTested(t)
               \/ StartGroup(t) \/ EndGroup(t)
      BY <3>4 DEF Look, FailGlobally, IsolateAll, Take, NextTested, StartGroup, EndGroup, eyes,
                  TypesInv, OnLease
    <3> QED  BY <3>1, <3>2, <3>3, <3>4 DEF Working
  <2> QED  BY <1>2, <2>2, <2>3 DEF OnLease
<1>5. PlanTyped'
  <2>1. CASE Isolate(t)
    <3> DEFINE failures == threads[t].failures
               needed   == AllOf(Needs, Rules \ Paused(t))
               kept     == Kept(failures, needed)
               vision   == IF Detector \in failures THEN {} ELSE plan.vision \ failures
    <3>1. t \in DOMAIN threads /\ threads[t].pc = "unwell"
      BY <2>1 DEF Isolate, At
    <3>2. HasWorker
      BY <3>1 DEF QueueInv, InTurn, HasWorker
    <3>3. IsPlan /\ plan.vision \subseteq Cameras /\ plan.ready \subseteq Cameras
      BY <3>2 DEF TypesInv, PlanTyped
    <3>4. vision \subseteq Cameras /\ kept \subseteq Cameras
      BY <3>3 DEF Kept
    <3>5. \E d, c : plan' = [plan EXCEPT !.vision = vision, !.ready = plan.ready \cup kept,
                                         !.detector = d, !.camera = c]
      BY <2>1 DEF Isolate
    <3> HIDE DEF vision, kept, failures, needed
    <3>6. PICK d, c : plan' = [plan EXCEPT !.vision = vision, !.ready = plan.ready \cup kept,
                                           !.detector = d, !.camera = c]
      BY <3>5
    <3>7. IsPlan' /\ plan'.vision = vision /\ plan'.ready = plan.ready \cup kept
      BY <3>3, <3>6 DEF IsPlan
    <3> QED  BY <3>3, <3>4, <3>7 DEF PlanTyped
  <2>2. CASE ~Isolate(t)
    <3>1. plan' = plan
      <4>1. CASE At(t, "steps") /\ \E i \in DOMAIN threads[t].steps : Step(t, i)
        BY <4>1, StepFrame DEF EngineInv, core
      <4> QED
        BY <2>2, <4>1 DEF Working, Look, FailGlobally, IsolateAll, Take, Exit, NextTested,
                          StartGroup, EndGroup, core
    <3> QED  BY <1>1, <3>1 DEF TypesInv, PlanTyped, IsPlan
  <2> QED  BY <2>1, <2>2
<1>6. Plain'
  <2> USE DEF TypesInv, Plain
  <2>1. CASE At(t, "steps") /\ \E i \in DOMAIN threads[t].steps : Step(t, i)
    <3>1. UNCHANGED <<core, eyes, world, calls>>
      BY <2>1, StepFrame DEF EngineInv
    <3>2. halted' = halted \/ halted' = Remembered(threads[t].job.trigger)
      BY <2>1 DEF Step, Check, Act, Lock, Speak, Frame, Unavailable, ListAlive, AssignAlive,
                  AppendRecorder, StartRecorder
    <3>3. Len(halted') <= HaltedKept
      <4>1. halted \in Seq(Nat) /\ t \in DOMAIN threads /\ threads[t].pc = "steps"
        BY <2>1 DEF HaltInv, At
      <4>2. threads[t].job.trigger \in Nat
        BY <4>1 DEF QueueInv, InTurn, InGroup, Job
      <4> DEFINE id == threads[t].job.trigger
                 h  == Append(halted, id)
      <4>3. Remembered(id) = IF Len(h) > HaltedKept THEN Tail(h) ELSE h
        BY DEF Remembered
      <4> HIDE DEF id
      <4>4. h \in Seq(Nat) /\ Len(h) = Len(halted) + 1 /\ h # <<>>
        BY <4>1, <4>2 DEF id
      <4> HIDE DEF h
      <4>5. Len(Tail(h)) = Len(h) - 1
        BY <4>4
      <4>6. Len(Remembered(id)) <= HaltedKept
        BY <4>1, <4>3, <4>4, <4>5, SentryConstants
      <4> QED  BY <3>2, <4>6 DEF id
    <3> QED  BY <3>1, <3>3 DEF core, eyes, world, calls
  <2>2. CASE ~(At(t, "steps") /\ \E i \in DOMAIN threads[t].steps : Step(t, i))
    <3>1. halted' = halted
      BY <2>2 DEF Working, Look, FailGlobally, Isolate, IsolateAll, Take, Exit, NextTested,
                  StartGroup, EndGroup
    <3>2. suspended' \subseteq Rules
      BY <2>2 DEF Working, Look, FailGlobally, Isolate, IsolateAll, Take, Exit, NextTested,
                  StartGroup, EndGroup, Paused, core
    <3>3. Len(jobs') <= Slots
      <4>1. jobs' = jobs \/ jobs' = <<>> \/ (jobs # <<>> /\ jobs' = Tail(jobs))
        BY <2>2 DEF Working, Look, FailGlobally, Isolate, IsolateAll, Take, Exit, NextTested,
                    StartGroup, EndGroup, GiveUp, core
      <4> QED  BY <4>1, SentryConstants DEF QueueInv
    <3>4. armed' \in BOOLEAN /\ error' \in BOOLEAN
      BY <2>2 DEF Working, Look, FailGlobally, Isolate, IsolateAll, Take, Exit, NextTested,
                  StartGroup, EndGroup, GiveUp, core
    <3>5. monitoring' \in BOOLEAN
      BY <2>2 DEF Working, Look, FailGlobally, Isolate, IsolateAll, Take, Exit, NextTested,
                  StartGroup, EndGroup, StopCameras, eyes
    <3> QED  BY <1>2, <3>1, <3>2, <3>3, <3>4, <3>5
  <2> QED  BY <2>1, <2>2
<1> QED  BY <1>1, <1>3, <1>4, <1>5, <1>6 DEF TypesInv

(* The caller, and what happens around the threads. *)
LEMMA NoJobs == Len(<<>>) <= Slots
BY SentryConstants

LEMMA ThreadsTypedStay ==
  ASSUME ThreadsTyped, PlanTyped, UNCHANGED <<threads, plan>>
  PROVE  ThreadsTyped' /\ PlanTyped'
BY DEF ThreadsTyped, PlanTyped, HasWorker, IsPlan

LEMMA CallerTypes ==
  ASSUME EngineInv, QueueInv, TypesInv, Arm \/ Disarm \/ Calling \/ (\E r \in Rules : Test(r))
  PROVE  TypesInv'
<1> USE DEF TypesInv
<1>1. IsCaller /\ cancelled \in Nat /\ triggers \in Nat
  BY DEF EngineInv, StopInv, ArmInv, QueueInv
<1>2. CASE Arm \/ (\E r \in Rules : Test(r))
  <2>1. UNCHANGED <<core, acts, eyes, world, triggers, gaveUp, policy>>
    BY <1>2 DEF Arm, Test
  <2>2. Counted'
    BY <1>2, <2>1 DEF Arm, Test, Idle, Counted, core
  <2>3. OnLease'
    BY <1>2, <2>1 DEF Arm, Test, Idle, OnLease, eyes
  <2>4. Plain'
    BY <2>1 DEF Plain, core, acts, eyes, world
  <2> QED  BY <2>1, <2>2, <2>3, <2>4, ThreadsTypedStay DEF core, acts
<1>3. CASE JoinBeforeArming \/ JoinBeforeTesting
  <2>1. /\ UNCHANGED <<core, acts, eyes, world, triggers, gaveUp, policy>>
        /\ \/ caller' = Idle
           \/ caller.pc = "arm" /\ caller' = [caller EXCEPT !.pc = "cameras"]
           \/ caller.pc = "test" /\ caller' = [caller EXCEPT !.pc = "start"]
    BY <1>3 DEF JoinBeforeArming, JoinBeforeTesting, Joined
  <2>2. \/ caller'.pc = "idle"
        \/ caller.pc = "arm" /\ caller'.pc = "cameras"
        \/ caller.pc = "test" /\ caller'.pc = "start"
    BY <1>1, <2>1 DEF IsCaller, Idle
  <2>3. Counted'
    BY <2>1, <2>2 DEF Counted, core
  <2>4. OnLease'
    BY <2>1, <2>2 DEF OnLease, eyes
  <2>5. Plain'
    BY <2>1 DEF Plain, core, acts, eyes, world
  <2> QED  BY <2>1, <2>3, <2>4, <2>5, ThreadsTypedStay DEF core, acts
<1>4. CASE StartCameras
  <2>1. /\ UNCHANGED <<core, acts, watching, world, triggers, gaveUp, policy>>
        /\ caller.pc = "cameras"
        /\ \/ held' = held \cup Leases /\ caller' = [caller EXCEPT !.pc = "commit"]
           \/ held' = held /\ caller' = Idle
        /\ monitoring' = (monitoring \/ MakePlan.camera)
           \/ monitoring' = (monitoring /\ ~MakePlan.camera)
    BY <1>4 DEF StartCameras, Leases
  <2>2. \/ held' = held \cup Leases /\ caller'.pc = "commit"
        \/ held' = held /\ caller'.pc = "idle"
    BY <1>1, <2>1 DEF IsCaller, Idle
  <2>3. Leases' = Leases
    BY <2>1 DEF Leases, core
  <2>4. Counted'
    BY <2>1, <2>2 DEF Counted, core
  <2>5. OnLease'
    BY <2>1, <2>2, <2>3 DEF OnLease
  <2>6. monitoring' \in BOOLEAN
    BY <2>1
  <2>7. Plain'
    BY <2>1, <2>6 DEF Plain, core, acts, world
  <2> QED  BY <2>1, <2>4, <2>5, <2>7, ThreadsTypedStay DEF core, acts
<1>5. ASSUME CommitArming \/ StartTest
      PROVE  ThreadsTyped' /\ Counted'
  <2>1. DOMAIN threads = {}
    BY <1>5 DEF CommitArming, StartTest, EngineInv, StopInv, Alone
  <2>2. cancelled' = cancelled + 1 /\ cancelled < MaxStarts /\ caller'.pc = "idle"
        /\ triggers' <= MaxTriggers
    <3>1. CASE CommitArming
      BY <3>1 DEF CommitArming, Counted, Idle
    <3>2. CASE StartTest
      BY <1>1, <3>2, SentryConstants DEF StartTest, Counted, Idle
    <3> QED  BY <1>5, <3>1, <3>2
  <2>3. Counted'
    BY <1>1, <2>2, SentryConstants DEF Counted
  <2>4. PICK kind, todo : threads' = [u \in DOMAIN threads \cup {cancelled'} |->
                       IF u = cancelled' THEN Thread(kind, todo) ELSE threads[u]]
    BY <1>5 DEF CommitArming, StartTest
  <2>5. DOMAIN threads' = {cancelled'} /\ threads'[cancelled'] = Thread(kind, todo)
    BY <2>1, <2>4
  <2>6. cancelled' \in 1..MaxStarts
    BY <1>1, <2>2, SentryConstants
  <2>7. Typed(Thread(kind, todo))
    BY DEF Typed, Thread, ThreadPCs
  <2> QED  BY <2>3, <2>5, <2>6, <2>7 DEF ThreadsTyped
<1>6. CASE CommitArming
  <2>1. PlanTyped'
    <3>1. plan' = MakePlan
      BY <1>6 DEF CommitArming
    <3>2. IsPlan'
      BY <3>1 DEF MakePlan, IsPlan
    <3>3. MakePlan.vision \subseteq Cameras /\ MakePlan.ready \subseteq Cameras
      BY DEF MakePlan
    <3> QED  BY <3>1, <3>2, <3>3 DEF PlanTyped
  <2>2. OnLease'
    <3>1. watching' = Leases /\ held' = held /\ caller.pc = "commit" /\ caller'.pc = "idle"
      BY <1>6 DEF CommitArming, Leases, Idle
    <3> QED  BY <3>1 DEF OnLease
  <2>3. Plain'
    BY <1>6, NoJobs DEF CommitArming, Plain, world
  <2> QED  BY <1>5, <1>6, <2>1, <2>2, <2>3
<1>7. CASE StartTest
  <2>1. PlanTyped'
    <3>1. plan' = plan /\ DOMAIN threads = {}
      BY <1>7 DEF StartTest, EngineInv, StopInv, Alone
    <3>2. ~HasWorker'
      BY <1>7, <3>1 DEF StartTest, HasWorker, Thread
    <3> QED  BY <3>1, <3>2 DEF PlanTyped, IsPlan
  <2>2. OnLease'
    BY <1>7 DEF StartTest, OnLease, Idle, eyes
  <2>3. Plain'
    BY <1>7 DEF StartTest, Plain, eyes, world
  <2> QED  BY <1>5, <1>7, <2>1, <2>2, <2>3
<1>8. CASE Disarm
  <2>1. Counted' /\ OnLease'
    BY <1>8 DEF Disarm, Counted, OnLease, Idle, eyes
  <2>2. Plain'
    BY <1>8, NoJobs DEF Disarm, Plain, acts, eyes, world
  <2> QED  BY <1>8, <2>1, <2>2, ThreadsTypedStay DEF Disarm, acts
<1>9. CASE JoinBeforeReleasing \/ JoinRecorders
  <2>1. /\ UNCHANGED <<core, threads, halted, eyes, world, triggers, policy>>
        /\ gaveUp' = (gaveUp \/ ThreadIsAlive) \/ gaveUp' = (gaveUp \/ StillRecording # {})
        /\ \/ caller' = Idle
           \/ caller' = [caller EXCEPT !.pc = "recorders"]
           \/ caller' = [caller EXCEPT !.pc = "release"]
    BY <1>9 DEF JoinBeforeReleasing, JoinRecorders, acts
  <2>2. caller'.pc \in {"idle", "recorders", "release"}
    BY <1>1, <2>1 DEF IsCaller, Idle
  <2>3. Counted' /\ OnLease'
    BY <2>1, <2>2 DEF Counted, OnLease, core, eyes
  <2>4. gaveUp' \in BOOLEAN
    BY <2>1
  <2>5. Plain'
    BY <2>1, <2>4 DEF Plain, core, eyes, world
  <2> QED  BY <2>1, <2>3, <2>5, ThreadsTypedStay DEF core
<1>10. CASE Release
  <2>1. Counted' /\ OnLease'
    BY <1>10 DEF Release, StopCameras, Counted, OnLease, Idle, core
  <2>2. Plain'
    BY <1>10 DEF Release, StopCameras, Plain, core, acts, world
  <2> QED  BY <1>10, <2>1, <2>2, ThreadsTypedStay DEF Release, core, acts
<1> QED
  BY <1>2, <1>3, <1>4, <1>6, <1>7, <1>8, <1>9, <1>10 DEF Calling

LEMMA AroundTypes ==
  ASSUME EngineInv, QueueInv, TypesInv,
         \/ Update \/ Fault
         \/ \E r \in Rules : Fire(r)
         \/ \E s \in Fragile : Break(s) \/ Mend(s)
         \/ \E r \in DOMAIN recording : Recording(r)
         \/ UNCHANGED vars
  PROVE  TypesInv'
<1> USE DEF TypesInv
<1>1. UNCHANGED <<threads, plan, cancelled, epoch, caller, watching, held>>
  <2>1. CASE Update
    BY <2>1 DEF Update, core, acts, eyes
  <2>2. CASE Fault
    BY <2>2 DEF Fault, GiveUp, acts, eyes, calls
  <2>3. CASE \E r \in Rules : Fire(r)
    BY <2>3 DEF Fire, acts, eyes
  <2>4. CASE \E s \in Fragile : Break(s) \/ Mend(s)
    BY <2>4 DEF Break, Mend, core, acts, eyes, calls
  <2>5. CASE \E r \in DOMAIN recording : Recording(r)
    BY <2>5 DEF Recording, NextPhoto, PhotoDone, EndRecording, core, eyes, calls
  <2>6. CASE UNCHANGED vars
    BY <2>6 DEF vars, core, acts, eyes, calls
  <2> QED  BY <2>1, <2>2, <2>3, <2>4, <2>5, <2>6
<1>2. ThreadsTyped' /\ PlanTyped' /\ OnLease'
  BY <1>1, ThreadsTypedStay DEF OnLease, Leases
<1>3. CASE \E r \in Rules : Fire(r)
  <2>1. PICK r \in Rules : Fire(r)
    BY <1>3
  <2>2. triggers \in Nat /\ triggers < MaxTriggers /\ triggers' = triggers + 1 /\ caller.pc = "idle"
    BY <2>1 DEF Fire, QueueInv, EngineInv, ArmInv
  <2>3. Counted'
    BY <1>1, <2>2, SentryConstants DEF Counted
  <2> DEFINE seq == Sequence(r, triggers')
  <2>4. Len(jobs') <= Slots
    <3>1. seq \in Seq(Job) /\ jobs \in Seq(Job)
      BY <2>2, OneTrigger DEF QueueInv
    <3>2. jobs' = IF Len(seq) > Slots - Len(jobs) THEN jobs ELSE jobs \o seq
      BY <2>1 DEF Fire, Queued
    <3> HIDE DEF seq
    <3> QED  BY <3>1, <3>2, SentryConstants DEF Plain
  <2>5. Plain'
    BY <2>1, <2>4 DEF Fire, Plain, acts, eyes, world
  <2> QED  BY <1>2, <2>3, <2>5
<1>4. CASE ~(\E r \in Rules : Fire(r))
  <2>1. triggers' = triggers
    BY <1>4 DEF Update, Fault, Break, Mend, Recording, NextPhoto, PhotoDone, EndRecording, vars, calls
  <2>2. Counted'
    BY <1>1, <2>1 DEF Counted
  <2>3. Plain'
    <3>1. CASE Update
      BY <3>1 DEF Update, Plain, core, acts, eyes, world
    <3>2. CASE Fault
      BY <3>2, NoJobs DEF Fault, GiveUp, Plain, acts, eyes, calls
    <3>3. CASE \E s \in Fragile : Break(s) \/ Mend(s)
      BY <3>3 DEF Break, Mend, Plain, core, acts, eyes, calls
    <3>4. CASE \E r \in DOMAIN recording : Recording(r)
      BY <3>4 DEF Recording, NextPhoto, PhotoDone, EndRecording, Plain, core, eyes, world, calls
    <3>5. CASE UNCHANGED vars
      BY <3>5 DEF vars, Plain, core, acts, eyes, world, calls
    <3> QED  BY <1>4, <3>1, <3>2, <3>3, <3>4, <3>5
  <2> QED  BY <1>2, <2>2, <2>3
<1> QED  BY <1>3, <1>4

(* The engine keeps what it is taken for: its queue and its memory of      *)
(* halted triggers stay within their sizes, a plan is made of cameras that *)
(* exist, and what is watched is on lease (arm, _isolate, _unavailable).   *)
THEOREM SentryIsTyped == Spec => []TypeOK
<1> DEFINE Inv == EngineInv /\ QueueInv /\ HaltInv /\ RuleTested /\ TypesInv
<1>1. Init => Inv
  <2> SUFFICES ASSUME Init PROVE Inv
    OBVIOUS
  <2>1. DOMAIN threads = {}
    BY DEF Init
  <2>2. ThreadsTyped /\ PlanTyped
    BY <2>1 DEF Init, ThreadsTyped, PlanTyped, HasWorker
  <2>3. Counted /\ OnLease
    BY SentryConstants DEF Init, Counted, OnLease, Idle
  <2>4. Plain
    <3>1. Len(jobs) <= Slots /\ Len(halted) <= HaltedKept
      BY NoJobs, SentryConstants DEF Init
    <3> QED  BY <3>1 DEF Init, Plain
  <2> QED  BY <2>2, <2>3, <2>4, EngineStarts, QueueStarts DEF TypesInv
<1>2. Inv /\ [Next]_vars => Inv'
  <2> SUFFICES ASSUME Inv, [Next]_vars PROVE Inv'
    OBVIOUS
  <2>1. EngineInv' /\ QueueInv' /\ HaltInv' /\ RuleTested'
    BY EngineSteps, HaltSteps, TestsKeepTheirRule
  <2>2. TypesInv'
    BY WorkTypes, CallerTypes, AroundTypes DEF Next
  <2> QED  BY <2>1, <2>2
<1>3. Inv => TypeOK
  <2> SUFFICES ASSUME EngineInv, QueueInv, TypesInv PROVE TypeOK
    OBVIOUS
  <2>1. cancelled \in 0..MaxStarts /\ isSet \subseteq 0..cancelled
    BY SentryConstants DEF EngineInv, ArmInv, TypesInv, Counted
  <2>2. triggers \in 0..MaxTriggers
    BY SentryConstants DEF QueueInv, TypesInv, Counted
  <2>3. plan = None \/ (plan.vision \cup plan.ready) \subseteq Cameras
    BY DEF TypesInv, PlanTyped
  <2>4. \A t \in DOMAIN threads :
          /\ t \in 1..MaxStarts /\ threads[t].pc \in ThreadPCs
          /\ \A i \in DOMAIN threads[t].steps : threads[t].steps[i].pc \in StepPCs
    BY DEF TypesInv, ThreadsTyped, Typed
  <2>5. jobs \in Seq(Job) /\ epoch \in Nat /\ watching \subseteq held
    BY DEF QueueInv, TypesInv, OnLease
  <2> QED  BY <2>1, <2>2, <2>3, <2>4, <2>5 DEF TypeOK, TypesInv, Plain
<1> HIDE DEF Inv
<1> QED  BY <1>1, <1>2, <1>3, PTL DEF Spec

=============================================================================
