------------------------------ MODULE Triggers ------------------------------
(***************************************************************************)
(* When a rule goes off (sentry/triggers.py, sentry/correlation.py and the *)
(* observing half of sentry/engine.py), beside the speaker of module Talk, *)
(* through which the engine speaks and which a sound rule must not hear.   *)
(*                                                                         *)
(* One armed rule is followed; its kind is chosen at the start.  Camera    *)
(* samples arrive late, twice or not at all; satellite events wait in the  *)
(* dispatcher's queue between being received and being observed, while the *)
(* clock, the camera and the operator go on.  Times are ticks of the hub's *)
(* monotonic clock, 0 standing for None.  A sample either shows enough     *)
(* matching objects or does not; a reading is one of the few values its    *)
(* kind of rule tells apart.                                               *)
(*                                                                         *)
(* The history log is what the engine was given since it was armed, in the *)
(* order in which it was given, with what it did about it: the properties  *)
(* say which logs justify a firing, without the rule's own state.          *)
(***************************************************************************)
EXTENDS Talk, Integers, SequencesExt

CONSTANTS
    Kinds,        \* the kinds of rule that are explored
    Observers,    \* for presence: the sources the rule names
    Consecutive,  \* consecutive_detections
    Rearm,        \* rearm_after_absence_seconds
    Within,       \* within_seconds, of a sequence
    MaxGap,       \* max(2, 3 / detection_fps): the longest gap in samples
    Hold,         \* for_seconds, of a threshold
    Cooldown,     \* cooldown_seconds
    Ttl,          \* action_ttl_seconds
    Echo,         \* ECHO_SECONDS
    MaxNow,       \* bound, by kind: ticks of the clock
    LastArm,      \* bound: the tick after which the operator does not arm
    MaxInbox,     \* bound: events waiting for the dispatcher
    MaxLog        \* bound, by kind: what the engine is given between two firings

ASSUME TriggersAssumption ==
    /\ Kinds \subseteq {"vision", "sequence", "sensor", "threshold", "sound",
                        "arrives", "leaves", "none"}
    /\ {Consecutive, Within, MaxGap, Ttl, Echo} \subseteq Nat \ {0}
    /\ {Rearm, Hold, Cooldown, LastArm, MaxInbox} \subseteq Nat
    /\ {MaxNow, MaxLog} \subseteq [Kinds -> Nat]

VARIABLES
    kind,       \* the kind of the rule's trigger, "none" if nothing is armed
    now,        \* time.monotonic()
    armed, armedAt,
    last,       \* samples[source]: the newest sample taken, 0 if none
    rule,       \* the rule's RuleState, and whether it is suspended
    inbox,      \* received events the dispatcher has not handed over
    jobs,       \* deadlines of the announcements the rule has queued
    quietFrom,  \* quiet_from
    ended,      \* history: when the engine was last playing
    log         \* history: what this arming was given and did

ruleVars == <<kind, now, armed, armedAt, last, rule, inbox, jobs, quietFrom, ended, log>>
vars == <<talkVars, ruleVars>>

Never == 0 - (Cooldown + Echo + 1)

NewState == [hits |-> 0, latched |-> FALSE, absentSince |-> 0, lastTrigger |-> Never,
             phase |-> "unknown", pendingSince |-> 0,
             seen |-> [o \in Observers |-> "unknown"],
             candidate |-> 0, openedUntil |-> Never, suspended |-> FALSE]

Init ==
    /\ TalkInit
    /\ kind \in Kinds
    /\ now = 1 /\ armed = FALSE /\ armedAt = 0 /\ last = 0
    /\ rule = NewState
    /\ inbox = <<>> /\ jobs = <<>>
    /\ quietFrom = Never /\ ended = Never
    /\ log = <<>>

Cooled(st, at) == at - st.lastTrigger >= Cooldown

----------------------------------------------------------------------------
(* Arming, disarming, pausing.                                             *)

Tick ==
    /\ now < MaxNow[kind]
    /\ now' = now + 1
    /\ UNCHANGED <<talkVars, kind, armed, armedAt, last, rule, inbox, jobs, quietFrom, ended, log>>

Arm ==
    /\ ~armed /\ kind # "none" /\ now <= LastArm
    /\ armed' = TRUE /\ armedAt' = now
    /\ rule' = NewState /\ last' = 0 /\ jobs' = <<>>
    /\ log' = <<>>
    /\ UNCHANGED <<talkVars, kind, now, inbox, quietFrom, ended>>

Disarm ==
    /\ armed
    /\ armed' = FALSE /\ jobs' = <<>> /\ log' = <<>>
    /\ UNCHANGED <<talkVars, kind, now, armedAt, last, rule, inbox, quietFrom, ended>>

(* drop: a candidate that can no longer be trusted.                        *)
Dropped(st) == IF st.candidate = 0 THEN st ELSE [st EXCEPT !.candidate = 0, !.hits = 0]

(* _isolate: something the rule needs failed; others stay armed.           *)
Suspend ==
    /\ armed /\ ~rule.suspended
    /\ rule' = [Dropped(rule) EXCEPT !.suspended = TRUE]
    /\ log' = <<>>
    /\ UNCHANGED <<talkVars, kind, now, armed, armedAt, last, inbox, jobs, quietFrom, ended>>

Watching == armed /\ ~rule.suspended

----------------------------------------------------------------------------
(* Camera samples.                                                         *)

(* Mutant of Expired: the window's end is not looked at. *)
ExpiredNever(st, at) == st

(* expire: a candidate whose window has run out by a given time.           *)
Expired(st, at) == IF st.candidate # 0 /\ at > st.candidate + Within
                   THEN Dropped(st) ELSE st

(* The sample shows too little: the absence starts or goes on, and rearms  *)
(* the rule once it is long enough.                                        *)
Absent(st, at) ==
    LET since == IF st.absentSince = 0 THEN at ELSE st.absentSince
    IN [st EXCEPT !.hits = 0, !.absentSince = since,
                  !.latched = @ /\ at - since < Rearm]

(* What an observation does to a rule: its next state, and whether it      *)
(* fires, is skipped for cooling down, or neither ("").                    *)
Outcome(st, did) == [state |-> st, did |-> did]

Fired(st, at) == Outcome([st EXCEPT !.latched = TRUE, !.lastTrigger = at], "fire")

(* confirm: one sample through a vision rule.                              *)
Confirm(st, object, at) ==
    IF ~object THEN Outcome(Absent(st, at), "")
    ELSE LET hit == [st EXCEPT !.absentSince = 0, !.hits = Min({Consecutive, @ + 1})]
         IN IF hit.latched \/ hit.hits < Consecutive \/ ~Cooled(hit, at)
            THEN Outcome(hit, "")
            ELSE Fired(hit, at)

(* sequence_sample: one sample through a sequence rule.                    *)
SequenceSample(before, object, at) ==
    LET st == Expired(before, at)
    IN IF ~object THEN Outcome(Absent(st, at), "")
       ELSE IF st.latched \/ st.candidate = 0 \/ at <= st.candidate
            THEN Outcome([st EXCEPT !.absentSince = 0, !.hits = 0], "")
            ELSE LET hit == [st EXCEPT !.absentSince = 0, !.hits = @ + 1]
                     used == [hit EXCEPT !.candidate = 0, !.hits = 0]
                 IN IF hit.hits < Consecutive THEN Outcome(hit, "")
                    ELSE IF Cooled(hit, at) THEN Fired(used, at)
                    ELSE Outcome(used, "skip")

Entry(what, value, from, at) ==
    [what |-> what, value |-> value, from |-> from, at |-> at, age |-> 0, did |-> ""]

(* What a firing is judged by: the stretch since something was last done,  *)
(* or, for the rules that judge each event by itself, the last thing done  *)
(* and the last word of every source.                                      *)
Stretches == {"vision", "sequence", "threshold"}

Remembered ==
    LET done   == {j \in DOMAIN log : log[j].did # ""}
        newest == {j \in DOMAIN log : \A k \in DOMAIN log : k > j => log[k].from # log[j].from}
        kept   == newest \cup (IF done = {} THEN {} ELSE {Max(done)})
        nth(n) == CHOOSE j \in kept : Cardinality({k \in kept : k <= j}) = n
    IN IF log = <<>> \/ (kind \in Stretches /\ Len(log) \notin done) THEN log
       ELSE [n \in 1 .. Cardinality(kept) |-> log[nth(n)]]

(* What the engine does with an outcome: the state, a firing's jobs (the   *)
(* announcement of a sound rule) and the history.                          *)
Apply(entry, outcome) ==
    /\ rule' = outcome.state
    /\ jobs' = IF outcome.did = "fire" /\ kind = "sound" /\ Len(jobs) < 2
               THEN Append(jobs, entry.at + Ttl) ELSE jobs
    /\ log' = Append(Remembered, [entry EXCEPT !.did = outcome.did,
                !.age = IF outcome.did = "fire" THEN now - entry.at ELSE 0])

(* A sample newer than the last one and than the arming, and not too old.  *)
Fresh(captured) == captured > last /\ captured > armedAt /\ now - captured <= MaxGap

(* Frames were missed: what was being counted starts again.                *)
AfterAGap(captured) ==
    IF last # 0 /\ captured - last > MaxGap
    THEN [Dropped(rule) EXCEPT !.hits = 0, !.absentSince = 0] ELSE rule

(* observe: detections from the camera the rule looks at.                  *)
Observe(captured, object) ==
    /\ kind \in {"vision", "sequence"}
    /\ armed /\ Fresh(captured) /\ Len(log) < MaxLog[kind]
    /\ last' = captured
    /\ IF rule.suspended
       THEN UNCHANGED <<rule, jobs, log>>
       ELSE Apply(Entry("frame", IF object THEN "object" ELSE "empty", 0, captured),
                  IF kind = "vision"
                  THEN Confirm(AfterAGap(captured), object, captured)
                  ELSE SequenceSample(AfterAGap(captured), object, captured))
    /\ UNCHANGED <<talkVars, kind, now, armed, armedAt, inbox, quietFrom, ended>>

----------------------------------------------------------------------------
(* Satellite events.                                                       *)

(* What a source of the rule may report; a doubtful reading is "doubt".    *)
(* A fall only makes a sequence look at the clock, as Expire does.         *)
Readings ==
    CASE kind = "sequence"               -> {"rise", "doubt"}
      [] kind = "sensor"                 -> {"rise", "fall", "doubt"}
      [] kind = "threshold"              -> {"past", "mid", "low", "doubt"}
      [] kind = "sound"                  -> {"loud", "echo", "doubt"}
      [] kind \in {"arrives", "leaves"}  -> {"present", "absent", "doubt"}
      [] kind \in {"vision", "none"}     -> {}

(* The sources of events the rule names.                                   *)
Named == IF kind \in {"arrives", "leaves"} THEN Observers ELSE {Min(Observers)}

(* A microphone hears the engine while it plays, and its report of it is   *)
(* in before ECHO_SECONDS have passed.                                     *)
MayHearTheEngine == holder = "engine" \/ now - ended < Echo

(* The ingress accepted an event and queued it.                            *)
Receive(value, from) ==
    /\ Len(inbox) < MaxInbox
    /\ value \in Readings
    /\ value = "echo" => MayHearTheEngine
    /\ inbox' = Append(inbox, [value |-> value, from |-> from, at |-> now])
    /\ UNCHANGED <<talkVars, kind, now, armed, armedAt, last, rule, jobs, quietFrom, ended, log>>

(* sequence_event: opens the window, unless one is open, a later one has   *)
(* been, or the object confirmed last time is still there.                 *)
SequenceEvent(before, e) ==
    LET st == Expired(before, e.at)
    IN CASE e.value = "doubt" -> Outcome(Dropped(st), "")
         [] e.value = "rise"  ->
              IF e.at <= st.openedUntil \/ st.candidate # 0 \/ st.latched
              THEN Outcome(st, "")
              ELSE Outcome([st EXCEPT !.candidate = e.at, !.openedUntil = e.at,
                                      !.hits = 0], "")

(* The cooldown, common to every rule an event fires.                      *)
Cooling(st, fires, at) ==
    IF ~fires THEN Outcome(st, "")
    ELSE IF Cooled(st, at) THEN Outcome([st EXCEPT !.lastTrigger = at], "fire")
    ELSE Outcome(st, "skip")

(* presence_fires: present if one observer says so, absent if they all do. *)
Combined(seen) ==
    IF \E o \in Observers : seen[o] = "present" THEN "present"
    ELSE IF \A o \in Observers : seen[o] = "absent" THEN "absent" ELSE "unknown"

PresenceEvent(st, e) ==
    LET said == IF e.value = "doubt" THEN "unknown" ELSE e.value
        seen == [st.seen EXCEPT ![e.from] = said]
        next == [st EXCEPT !.seen = seen, !.phase = Combined(seen)]
    IN Cooling(next, /\ next.phase # st.phase
                     /\ next.phase = (IF kind = "arrives" THEN "present" ELSE "absent"), e.at)

(* threshold_fires: past the limit for long enough, then silent until the  *)
(* value is well back.  "past" is past the limit, "low" is released, "mid" *)
(* is in the hysteresis between them.                                      *)
ThresholdEvent(st, e) ==
    CASE e.value = "doubt" ->
           Outcome(IF st.phase = "pending"
                   THEN [st EXCEPT !.phase = "clear", !.pendingSince = 0] ELSE st, "")
      [] e.value # "doubt" /\ st.phase = "unknown" ->
           Outcome([st EXCEPT !.phase = IF e.value = "past" THEN "active" ELSE "clear"], "")
      [] e.value # "doubt" /\ st.phase = "active" ->
           Outcome([st EXCEPT !.phase = IF e.value = "low" THEN "clear" ELSE @], "")
      [] e.value # "doubt" /\ st.phase \in {"clear", "pending"} ->
           IF e.value # "past"
           THEN Outcome([st EXCEPT !.phase = "clear", !.pendingSince = 0], "")
           ELSE LET since == IF st.phase = "clear" THEN e.at ELSE st.pendingSince
                    held  == e.at - since >= Hold
                IN Cooling([st EXCEPT !.phase = IF held THEN "active" ELSE "pending",
                                      !.pendingSince = IF held THEN 0 ELSE since],
                           held, e.at)

(* Mutant of Playing: only what plays at this moment is taken for its own. *)
PlayingNow(at) == holder # "nobody"

(* _playing: whether a microphone may be hearing this hub.                 *)
Playing(at) == holder # "nobody" \/ at - quietFrom < Echo

(* An event through the rule, by its kind.                                 *)
EventOutcome(e) ==
    CASE kind = "sequence"  -> SequenceEvent(rule, e)
      [] kind = "sensor"    -> Cooling(rule, e.value = "rise", e.at)
      [] kind = "threshold" -> ThresholdEvent(rule, e)
      [] kind = "sound"     -> Cooling(rule, e.value # "doubt" /\ ~Playing(e.at), e.at)
      [] kind \in {"arrives", "leaves"} -> PresenceEvent(rule, e)

(* observe_event, called by the dispatcher with the oldest event received: *)
(* not one from before the arming, nor one that has waited too long.       *)
ObserveEvent ==
    /\ inbox # <<>>
    /\ inbox' = Tail(inbox)
    /\ LET e == Head(inbox)
       IN IF Watching /\ e.at >= armedAt /\ now - e.at <= Ttl
          THEN /\ Len(log) < MaxLog[kind]
               /\ Apply(Entry("event", e.value, e.from, e.at), EventOutcome(e))
          ELSE UNCHANGED <<rule, jobs, log>>
    /\ UNCHANGED <<talkVars, kind, now, armed, armedAt, last, quietFrom, ended>>

(* _expire: the worker closes the windows nothing arrived to close.        *)
Expire ==
    /\ kind = "sequence" /\ Watching
    /\ Expired(rule, now) # rule
    /\ rule' = Expired(rule, now)
    /\ UNCHANGED <<talkVars, kind, now, armed, armedAt, last, inbox, jobs, quietFrom, ended, log>>

----------------------------------------------------------------------------
(* The worker speaks.                                                      *)

(* The lock came free before the job was stale or the arming over.         *)
Speak(n) ==
    /\ armed /\ jobs # <<>> /\ now <= Head(jobs)
    /\ holder = "nobody"
    /\ holder' = "engine" /\ left' = n
    /\ jobs' = Tail(jobs)
    /\ UNCHANGED <<talk, player, finish, told, closed, cut, kind, now, armed, armedAt, last,
                   rule, inbox, quietFrom, ended, log>>

(* The speaker stayed busy, or the job was stale when it came free.        *)
SpeechExpires ==
    /\ jobs # <<>> /\ now >= Head(jobs)
    /\ jobs' = Tail(jobs)
    /\ UNCHANGED <<talkVars, kind, now, armed, armedAt, last, rule, inbox, quietFrom, ended, log>>

(* finally: the moment is noted, and the lock given back.                  *)
SpeechEnds ==
    /\ holder = "engine" /\ left = 0
    /\ quietFrom' = now /\ ended' = now
    /\ holder' = "nobody"
    /\ UNCHANGED <<left, talk, player, finish, told, closed, cut, kind, now, armed, armedAt,
                   last, rule, inbox, jobs, log>>

Speaking == /\ holder = "engine" /\ (CommandEnds(~armed) \/ CommandFails)
            /\ UNCHANGED ruleVars

(* Of the speaker a rule that listens reads only whether the lock is held, *)
(* so it is explored beside the web players, which hold it as push-to-talk *)
(* does; the other kinds read nothing of it.  The whole of the speaker is  *)
(* explored with nothing armed.                                            *)
Next ==
    \/ Tick \/ Arm \/ Disarm \/ Suspend
    \/ \E captured \in 1 .. now, object \in BOOLEAN : Observe(captured, object)
    \/ \E value \in Readings, from \in Named : Receive(value, from)
    \/ ObserveEvent \/ Expire
    \/ (\E n \in Pieces : Speak(n)) \/ Speaking \/ SpeechExpires \/ SpeechEnds
    \/ kind = "sound" /\ WebStep /\ UNCHANGED ruleVars
    \/ kind = "none" /\ TalkStep /\ UNCHANGED ruleVars

Spec == Init /\ [][Next]_vars /\ TalkFairness
             /\ WF_vars(Speaking) /\ WF_vars(SpeechEnds)

----------------------------------------------------------------------------
(* Which logs justify a firing.                                            *)

Fires == {i \in DOMAIN log : log[i].did = "fire"}

(* The entries of a sort up to i, and the newest one before i at which     *)
(* something was done (0 if there is none).                                *)
Upto(i, what) == {j \in 1 .. i : log[j].what = what}
LastDone(i)   == Max({0} \cup {j \in 1 .. i - 1 : log[j].did # ""})

(* No two neighbouring samples of this set are further apart than MaxGap.  *)
Unbroken(js) == \A j \in js : j = Min(js) \/ log[j].at - log[Max({k \in js : k < j})].at <= MaxGap

(* A firing's samples: as many as the rule asks for, each another frame,   *)
(* taken while armed, in a row and all with the object.                    *)
Sighted(i) ==
    \E js \in SUBSET Upto(i, "frame") :
        /\ Cardinality({log[j].at : j \in js}) = Consecutive
        /\ Cardinality(js) = Consecutive /\ i \in js
        /\ \A j \in Upto(i, "frame") : j >= Min(js) => j \in js
        /\ \A j \in js : log[j].value = "object" /\ log[j].at > armedAt
        /\ Unbroken(js)

(* The event they confirm: received before every one of them, no longer    *)
(* than Within before the last, not used before and not doubted since.     *)
Confirmed(i) ==
    \E j \in Upto(i, "event") :
        /\ log[j].value = "rise" /\ j > LastDone(i)
        /\ log[i].at > log[j].at /\ log[i].at <= log[j].at + Within
        /\ Cardinality({k \in j .. i : log[k].value = "object"
                                       /\ log[k].at > log[j].at}) >= Consecutive
        /\ \A k \in j .. i : log[k].what = "event" => log[k].value # "doubt"

(* Since the last firing the object was really away: samples without it,   *)
(* and no gap among them, over Rearm or more.                              *)
AwaySince(h, i) ==
    \E js \in SUBSET {j \in Upto(i, "frame") : j > h} :
        /\ js # {} /\ Unbroken(js)
        /\ \A j \in Upto(i, "frame") : j >= Min(js) /\ j <= Max(js) => j \in js
        /\ \A j \in js : log[j].value = "empty"
        /\ log[Max(js)].at - log[Min(js)].at >= Rearm

(* The value was seen to be inside, and since then past the limit in every *)
(* reading for at least Hold; after a firing, or when it was past from the *)
(* beginning, it had come well back.                                       *)
HeldPast(i) ==
    \E j \in 1 .. i :
        /\ \A k \in j .. i : log[k].value = "past"
        /\ log[i].at - log[j].at >= Hold
        /\ LET good == {k \in 1 .. j - 1 : log[k].value # "doubt"}
           IN \/ \E k \in good : k > LastDone(i) /\ log[k].value = "low"
              \/ good # {} /\ LastDone(i) = 0 /\ log[Min(good)].value = "mid"

(* What the observers had last said by the entry i, all together.          *)
SaidBy(i) ==
    Combined([o \in Observers |->
        LET words == {j \in 1 .. i : log[j].from = o}
        IN IF words = {} \/ log[Max(words)].value = "doubt" THEN "unknown"
           ELSE log[Max(words)].value])

Wanted == IF kind = "arrives" THEN "present" ELSE "absent"

Deserved(i) ==
    /\ log[i].at >= armedAt /\ log[i].age <= (IF log[i].what = "frame" THEN MaxGap ELSE Ttl)
    /\ \A h \in Fires : h < i => log[i].at - log[h].at >= Cooldown
    /\ kind \in {"vision", "sequence"} =>
           /\ Sighted(i)
           /\ \A h \in Fires : h < i => AwaySince(h, i)
    /\ kind = "sequence" => Confirmed(i)
    /\ kind = "sensor" => log[i].value = "rise"
    /\ kind = "threshold" => HeldPast(i)
    /\ kind \in {"arrives", "leaves"} => /\ SaidBy(i) = Wanted
                                         /\ SaidBy(i - 1) # Wanted

(* A rule goes off only on what it was given: fresh, spaced by the         *)
(* cooldown, and by its kind an appearance confirmed by consecutive frames *)
(* that is not the one it went off for last (inside the window of an       *)
(* unused sensor event, for a sequence), a value past its limit for long   *)
(* enough after having been back, or a change in what all observers say,   *)
(* however samples and events were delayed, repeated, lost or interleaved. *)
FiresAreDeserved == Len(log) \in Fires => Deserved(Len(log))

(* A sound rule is never set off by what the engine itself plays, even if  *)
(* the event is observed long after the speaker fell silent: otherwise an  *)
(* announcement would set off the next one.  (The newest entry is asked;   *)
(* every firing is the newest when it happens.)                            *)
DeafToItself == Len(log) \in Fires => log[Len(log)].value # "echo"

=============================================================================
