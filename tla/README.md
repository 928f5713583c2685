# Sentry Mode: a verification development

TLA+ models of Sentry Mode: the satellites and their link to the hub, the sentry engine
and the devices it shares, checked with TLC on small instances and, where it matters
most, proved with TLAPS for every instance. Paths below are relative to the repository.

## The system

Sentry Mode is a hub (a Raspberry Pi with cameras, microphones and a rule engine) and
any number of satellites (Zero W boards that run a Python agent, and Pico boards behind
a serial bridge). A satellite reports readings over MQTT and sends pictures and sound
over connections of their own; the hub decides whom to believe, writes every event to a
journal before acknowledging it, and hands the ones that are live news to the rules.

| Component | State | Operations | Hard part |
|---|---|---|---|
| Agent spool (`satellite/.../spool.py`) | queue, byte count, drop counters | `put`, `take`, `requeue`, expiry | batches return while drivers put |
| Agent event path (`agent.py`, `commands.py`, `mqtt.py`) | sequence numbers, grant, link, batch in hand, command cache | `_record`, `_network`, `_send`, `_on_command`, `stop` | three kinds of thread share grant, spool and link |
| Remote configuration (`agent.py`, `remote.py`, `config.py`, `drivers.py`; hub `service.py`, `platforms.py`) | drivers, overlay, revision; the pending request | `configure`, `_configure`, roll back, `_on_ack` | a crash between swap and save, late answers, two publishing threads |
| Node registry (`satellites/identity.py`, `scripts/satellite_admin.py`) | one JSON file, a copy per process | `refresh`, `next_epoch`, `register`, `approve`, `revoke`, `forget`, `authenticate` | several processes, one file, no lock between them; kills |
| Sessions and grants (`satellites/sessions.py`, `service.py`) | a session per node, its grants, held hellos | `handle`, `_on_state`, `approve`, `revoke`, `renew_due_grants` | network, caller and housekeeping threads; late wills |
| Ingress and journal (`ingress.py`, `store.py`, `mqtt.py`) | marks, receipts, journal, queue | `accept`, `admit`, `settle`, `_dispatch`, `tidy` | repeats, reorderings, crashes, full queue, failing disk |
| Pico link and bridge (`link.py`, `scripts/pico_bridge.py`), firmware (`main.cpp`, `bridge.cpp`, `link.cpp`) | frame counters, the announcement, an MQTT client and its will | framing, `reach_the_broker`, `a_state_arrived`, `serve_the_bridge` | lost bytes, counter wrap, a cable pulled while the broker is away |
| Sources, media gateway, remote cameras (`sources/`, `vision/remote.py`, `media_gateway.py`, `network.py`; agent `_media`, `Publisher`) | leases, attempts, streams and tokens, handlers, a decoder | take, open, renew, serve, hang up, give back | timeouts against late connections, revocation half way |
| Vision (`vision/stream.py`, `detection.py`, `scheduler.py`) | camera lock, capture epoch, demands, the shared model | start, pause, arm, offer, infer, fail | results of a stopped epoch; threads that die holding a camera |
| Sentry engine (`sentry/engine.py`, `resources.py`) | arming epoch, Event, action queue, threads, recordings, plan, leases | `arm`, `test`, `disarm`, `_fire`, `_worker`, `_isolate`, `_step`, `fault` | threads and recordings that outlive a stop, sources failing meanwhile |
| Triggers (`sentry/triggers.py`, `correlation.py`, `engine.py`) | hits, absence, cooldown, windows, what each observer said | `observe`, `observe_event`, `expire` | late, missing and repeated samples; the node's own voice |
| Audio (`audio/`, `hardware/speaker.py`, audio routes of `web.py`) | `audio_lock`, one talk stream, taps and subscriptions | talk, play, `subscribe`, `unsubscribe` | two users of one device, joins that give up |
| Recording (`vision/recording.py`, `PipeInput`) | a folder, sidecars, a named pipe | save, commit, prune, sweep, delete | kills between two renames; an ffmpeg that never opens its pipe |

They interact by MQTT topics (agent to hub: `state`, `health`, `events`, `acks`; hub to
agent: `commands`), by media connections the hub asks for and the node dials, by the
registry file (shell to hub), by a bounded queue (ingress to rules), and by locks on the
camera and the speaker. `components` in PROJECT.json lists every part with what is left
out of it, `hazards` every place where one of these interactions is hard to test.

What makes each part correct: the spool loses nothing uncounted; an agent sends only
under a grant, runs the list of sources it would start with, and what the page calls
applied is on its disk; an epoch is never used twice and a ruling is never undone; a node
that is there and approved has a session, and one that is not has none, also behind a
bridge; rules hear of an event at most once, in order, and never on a clock in doubt;
nothing is acknowledged before it is written; a camera that is wanted is delivered and
one that is not falls silent; boxes belong to the frames shown; a rule goes off only on
what it was given and never on the node's own voice; a stop reaches everything the engine
started, and every camera, speaker and microphone taken is given back; nobody is shown
half a capture.

## The modules

**Spool, Agent, RemoteConfig, SourceLists, MCAgent.** `Spool` models the queue as a value:
each method that holds the spool's lock is an operator from spool to spool (`Put`,
`Taken`/`Take`, `Requeue`, `Expire`). `Agent` holds that value in a variable. An action is
what a thread does between two points where another can run: `_record` is `DriverReads`
(the number is taken) and `PutInSpool` (the event is put); `_send` is `Prepare` (grant,
delivery, encoding) and `Published` or `NotPublished`. `OnCommand` is `_on_command` with
`_apply`; a fresh grant leaves baselines to record, one `TakeBaseline` each. `stop` and
`request_stop` are `RequestStop`, `NetworkExits` and `Goodbye`. Sizes and times are small
numbers, contents are left out. `published` and `stale` are history. A publish that fails
is not counted as published; that the MQTT client may have queued it all the same is a
repetition like any other to the hub, which `Ingress` covers.

`RemoteConfig` adds the change of a node's sources: `Configure`, `PatienceEnds` and
`HubHears` on the hub, `BeginConfigure`, the configure thread's steps (`Works`), `Announce`
and `PublishState` on the node, and a kill or restart of either. Events and configuration
share only the link and the network thread, so a behaviour follows one of them
(`follows`). `SourceLists` says which lists either side accepts; what is in a list follows
from that, whether its drivers can be built, start and stay up is left open.

**Registry, AtomicRegistry.** One file, its stamp (time and size), the temporary name, and per process a
copy and the stamp it was read at. An operation is `Begin` (refresh, check, change in
memory), `WriteTemporary`, `MoveIntoPlace`, `Finish`; `Refresh` is what authenticate and
every refused operation leave behind; `PersistFails` and `Die` may happen in between.
`Overlap` says whether two processes may be in the middle of an operation at once.
`AtomicRegistry` is what the rest of the program may take it for: a ruling is one step of a
satellite's life, a stamp raises the epoch alone, and no process, copy or file is seen.
`RegistryIsAtomic` is `Atomic!Spec` with `nodes <- file.nodes`, `hub_epoch <- file.hub_epoch`.

**Ingress, MCIngress.** One source of one node. `Reason` and `Moved` are `_classify`,
`Position` is `_position`, `Refused` and `Admit` are `Store.admit` in its one
transaction, `Settle` the acknowledgement, `Finish` the end of `_on_events` (queue, full
queue, mark that cannot be written), `Dispatch`, `Tidy`. The broker is external and
modelled from how `HubTransport` connects: a new client id in every process
(`service.py:138`, `mqtt.py:220`) and MQTT 5 without a session expiry, so what it holds
unacknowledged ends with the connection. `floor` states an assumption: the state
messages of one node reach the hub in the order of its connections. What the rate
limiter, the decoder and the source registry refuse is `RefusedAtTheDoor`.
`lost` records the only two ways an eligible event may vanish: a crash after the
acknowledgement, and a drop that could not be marked because the disk failed.

**HubSessions.** One registered node. `handle` releases its locks between calls, so it is
one action per call: `Authenticate`, `Hold` or `TakeHeld`, then `HandleOther`,
`HandleGoodbye` or `HandleHello`, `Open`, `GrantEvents`, `SendGrant`; a held hello that is
read first remembers the message it interrupted. The network thread and a caller of
`approve`/`revoke` both run it; the housekeeping thread runs `DueForRenewal` and `Renew`;
`ShellRules` is `satellite_admin.py`, which only writes the file. Node and broker are
external: order per topic, the last state retained, the will of a dead connection
published, late if `LateWills`. A grant's life is fresh, due or expired. A publication
without a link waits in the MQTT client. `welcomed` is history.

**Media.** One satellite camera from a reader's lease to the node's `Publisher`: the
supervisor of `LeasedStream` with its attempts, the requests of `SatelliteService`, the
gateway's streams and handler threads, the decoder, and the node. An attempt is named by
the id of the one stream it opens; ids and handlers are reused once nothing refers to them,
which stands for the hub's random, never repeated ones. Time is counted in what is left
(`Tick`), so nothing grows. `Mishap` bounds what goes wrong.

**Bridge, Channel.** A frame is two parts, a head with magic and length and a rest with the
checksum, so that either can be lost and a damaged length makes the reader wait. The
bridge is its loop (`OpenThePort`, `ReadWhatArrived`, `KeepItGoing`, `HandOverCommands`,
`PortGone`), its MQTT client with its will, and how it is stopped or killed. The board is
the firmware's (`BoardHears`, `BoardSpeaks`, in the order of `serve_the_bridge`); the hub is
the session it would keep. `Channel` is the abstract promise: frames arrive in order, whole
and once, and a fault costs one of them at most, or those under way if it closes the port.
`CableIsAChannel` is `Cable!Spec` with `chan <- UnderWay`, `got <- bridge.taken`,
`faults <- mishaps`: what is under way is what the reader will hand over if nothing else
is lost.

**Vision.** The hub's camera, another camera and the one model they share. Each thread
works off a list of steps, one for each stretch of code between two releases of a lock.
An epoch is told apart only by whether it is still its detector's.

**Sentry, MCSentry.** The class `Sentry` as its threads see it. `arm`, `test` and `disarm`
hold the lifecycle lock, so there is one `caller`, whose `pc` says how far it is: `Arm`,
`JoinBeforeArming`, `StartCameras`, `CommitArming`; `Test`, `JoinBeforeTesting`,
`StartTest`; `Disarm`, `JoinBeforeReleasing`, `JoinRecorders`, `Release`. What is done
under the guard is one action; a join, and a read without the guard, ends one. A join with
a timeout may give up at any time while the thread lives. Events are numbered by the
start that made them, and an action thread has the number of its Event. The worker is
`Look` (`_healthy` reading every source), `FailGlobally`, `Isolate` or `IsolateAll`, `Take`,
`StartGroup`, `EndGroup`, `Exit`; a test's thread is `NextTested` with the same groups. A
step is `Check`, then `Act` (a wait, SSH, Telegram), `Lock` and `Speak` (announcement,
tune, file), or `Frame`/`Unavailable` and, for what runs in the background, the four reads
and writes of `_in_background`. The photo kept at the trigger, photo contents, audio and
messages are left out. A step with a deadline may find it passed at any check. When a rule
fires is left open here (`Fire`): any armed rule that is not paused, at any time; `Triggers`
decides it. Test mode,
which queues nothing, and the preview, which keeps this node's camera on for somebody
else, are not modelled. `dropped` and `gaveUp` are history.

**Talk, Triggers, MCTriggers.** `Talk` is the speaker: `audio_lock` with its holder (talk,
web or engine), talk sessions over the one shared `TalkStream`, and players as a number of
commands that end or fail. `Triggers` is one armed rule of a kind chosen at the start
(camera, sequence, sensor, threshold, sound, presence), what `observe` and `observe_event`
make of samples and events that come late, twice or not at all, and the engine's own
speech, which a sound rule must not hear. The history `log` is what the engine was given
and what it did about it; the properties judge a firing by the log alone.

**Microphone, Recorder, MCRecorder.** `Microphone` is the node's shared capture (taps, the
capture thread, the joins in `subscribe` and `unsubscribe`), the blocks with the gaps the hub
fills, and the subscription's bounded queue. `Recorder` adds the saves of the hub as threads
(`SaveStep`), the folder with its prune, sweep and removals, the pipe with its feeder and
`end`, ffmpeg as an external process, and a hub that is killed anywhere. A behaviour has one
kind of microphone: the hub's own, a satellite's that is recorded, or one that is heard.

**AgentProofs, HubProofs, IngressProofs, BridgeProofs, SentryProofs, MediaProofs,
RecorderProofs, TriggersProofs** hold the theorems about the modules they extend;
AgentProofs is about `MCAgent`, where the event path and the configuration meet,
RecorderProofs also about `Microphone`, HubProofs about HubSessions and `Registry`,
TriggersProofs about `Triggers`, `Talk` and `Vision`. Where one extends two modules that do not
know each other, each theorem names the specification it is about (`RegistrySpec`,
`VisionSpec`), and the other module's variables are free in it. Every module that keeps state
has a `TypeOK` or types in its comments. The `TypeOK` of Agent, HubSessions, Registry,
Ingress, Bridge, Media, Vision and Sentry is proved; the proofs about Recorder, Talk,
Triggers and RemoteConfig carry the types they need in their invariants.

## The runs

| Run | Checks | Bounds, and what they let happen |
|---|---|---|
| MCAgent | `EveryEventAccountedFor`, `AtMostOneAfterTheGrant`, `SpoolDrains`; `AppliedIsKept`, `RunsWhatItSaved`, `HubKnowsTheSources` | 3 events in a spool of 2, so a batch comes back to a full spool; sizes 1 and 2 against a limit of 3; a grant of one tick and one command of each kind, any of them repeated. Two requests among three lists (one that can run, one the node refuses, one the hub refuses), 2 connections, and a link loss, a stop, a kill, a hub restart or a repeated command |
| MCRegistry | `EpochsNeverRepeat`, `NoRulingIsLost` | hub and one tool taking turns, 3 changes, any number of kills and failed writes |
| MCIngress | `ActedInOrder`, `EligibleIsAccountedFor`, `DoubtReachesNoRule`, `AcknowledgedAfterCommit` | 5 messages over two boots, each as often as the broker likes, queue of 1, receipts forgotten after a tick |
| MCHub | `PresentIsNotBuried`, `ToldOfTheGrantHeld` | 2 connections with late wills, 3 sessions, a restart, revoke against hello and renewal |
| MCHubHeard | `ApprovedIsHeard` | 2 connections, one of another protocol, approval by shell and by the hub, revocation by the shell |
| MCSentry | `StopReachesTheThread`, `HaltedStaysHalted`, `QuietOnceDisarmed`, `NoLeaseIsLost` | 2 starts (armings or tests) and any number of disarmings, 2 firings of rules of two groups against a queue of 3, so the second does not fit unless a group was taken; one halted trigger remembered; this node's camera may fail |
| MCSentryFaults | `TheRestKeepTheirCameras`, `DeadSourceIsNoticed`, `FaultLetsTheCamerasGo` | one arming, 3 rules over 2 cameras, the detector and a sensor, each of which may fail and recover any number of times, under both policies |
| MCMedia | `EveryStreamHasAnOwner`, `RevokedIsCutOff`, `LeftAloneFallsSilent`, `WantedIsDelivered` | one reader that takes and gives back any number of times, 2 streams and 2 connections, so that an old one meets its successor; a life of 2 against renewal after 1; one mishap: a command lost, a request failed, a connection broken, a session changed or the node revoked |
| MCBridge | `UnpluggedIsOffline`, `CableIsAChannel`, `CarriedIsKnown` | 4 connection ids, reused; a counter of 2; 3 mishaps among lost parts, a pulled cable, a lost broker, a stopped or killed bridge, a board that restarts |
| MCVision | `BoxesAreCurrent`, `CameraGivenBack`, `NoWorkerIsForgotten` | 3 operations among start, stop, arm, watch, disarm and detection on or off; 2 inference threads alive; 2 mishaps among a camera that goes, a model that does not load, an inference that fails |
| MCTriggers | `FiresAreDeserved`, `DeafToItself`, `FinishedMeansHeard`, `SpeakerGivenBack` | each kind of rule with enough ticks to go off twice (7 for a camera), a queue of 1, 2 armings; 2 talk sessions of 2 chunks against a queue of 1 |
| MCRecorder | `OpenedOnce`, `NoReaderIsDeaf`, `ServedIsWhole`, `EndedIsOver` | two saves into a folder of one with a crash; one recording or one listener of 2 or 3 blocks against a queue of 1; one mishap |

They reach between a few hundred thousand and five million states each, in at most two
to three minutes. The bounds cut counters, not choices: every action is enabled in every
order. Most properties here are about the meeting of two or three events (a batch, a put and
a requeue; two connections and a will; a timeout, a late connection and a revocation),
which these instances contain several times over. Deadlock is checked where the system never
stops (Sentry, Media, Bridge); in the others a behaviour ends where a bound is reached or an
agent has stopped.

**Exceptions the properties name.** A few properties carve out what the code is known not to
do, each by a history variable set at the line that does it, and each described below:
`orphan` and `Mistaken` (Bridge), `abandoned` and `robbed` (Vision), `cut` (Talk), `slow`
(Microphone), `early` (Recorder), `overtaken` and `adrift` (RemoteConfig).

**Fairness.** Everywhere: threads that can run do, and nobody has to ask for anything, rule,
fail or mend. In particular:

- Agent: the network thread runs, and a transport asked again and again accepts an
  event sometime (strong fairness of `Published`), which is what a working link means;
  `SpoolDrains` only speaks of behaviours in which link and grant last. RemoteConfig: the
  configure thread and both publishers run and the hub hears what the broker holds.
- HubSessions: a caller's call returns, time passes and the link comes back; strong
  fairness of `Arrives` and `NodeBeats` says that a link that keeps coming back lets a
  message through sometime, and that a connected node goes on beating.
- Sentry: joins and calls return and a callback arrives.
- Media: the broker passes commands on, a node that lost its session comes back, time
  passes. Nobody has to take or give back a lease, or revoke.
- Bridge: the loop comes round, the MQTT library reconnects, a lost broker comes back and a
  board on the cable reads and answers.
- Vision: the model answers or fails. Talk: every player has a deadline, so a command
  ends or fails. Recorder: the hub's threads run and timeouts pass; nothing is assumed of
  ffmpeg.

## What is proved

Each theorem is about the specification the run checks, for every value of the constants
that satisfies the assumptions named here; none of the properties is inductive, and what
the invariant adds is said below.

`HubProofs` on Registry, for any nodes, certificates and tools, assuming
`~Overlap` (no two processes are between a change and its return at once):

- `EpochsAreUnique`: `RegistrySpec => []EpochsNeverRepeat`
- `RulingsAreKept`: `RegistrySpec => []NoRulingIsLost`
- `OnlyApprovedNodesAreBelieved`: `RegistrySpec => []BelievedOnlyIfApproved`
- `TurnsAreAtomic`: `RegistrySpec => RegistryIsAtomic`, the implementation of
  `AtomicRegistry`

The invariant adds: at most one process is busy; a written temporary file is its owner's
copy; an idle copy with the current stamp has the file's records and an epoch at least the
file's (higher after a failed `next_epoch`); a pending copy differs from the file by its own
operation; everything issued is at most the file's epoch, and below it while a stamp is
moved and not yet returned. For the implementation, `OneRuling` makes the third of these exact:
the pending copy is the file with that one ruling, which the file still allows, and only the
hub's epoch runs ahead of the file's. A move into place is then one `Rule`, one `Stamp` or, for
a description, nothing; a `next_epoch` that returns is a `HandOut`; no other step shows. TLC
found no violation of `OneRuling` and of `RegistryIsAtomic` with two nodes (four million
states) before they were proved; with `Overlap = TRUE` it refutes the second.

`IngressProofs`, for any messages and limits:

- `TypeCorrect`: `Spec => []TypeOK`
- `RulesHearInOrder`: `Spec => []ActedInOrder`
- `DoubtIsHistory`: `Spec => []DoubtReachesNoRule`
- `AcknowledgedIsKept`: `Spec => AcknowledgedAfterCommit` (an action property)
- `JournalAccounts`: `Spec => []EligibleIsAccountedFor`, assuming `IdentifiersStayApart`

The first invariant follows an event from the mark to the rules: what is queued, being
handled or heard is never ahead of the mark; the queue is in order and after everything
heard; the event being handled is after everything queued; and the session's connection is
not older than the mark's boot. It needs the assumption on `Messages` that a newer
connection is not of an older boot. `AcknowledgedIsKept` adds where the message being
handled is (`KeptInv`), `JournalAccounts` what each row stands for (`JournalInv`): the mark is
not behind a live row, and every row has its receipt if receipts last as long. The
assumption says that no identifier comes back over another event while the row of the
first is in the journal: receipts are kept as long as rows, or nodes use an identifier once.
It is needed, for `Store.outcome` marks rows by identifier alone, and by default receipts
go after 7 days and rows after 14 (`satellites/config.py:59,63`); the nodes draw a new
identifier for each event, so the second half holds of them. TLC finds the counterexample
without it.

`SentryProofs`, for any rules, groups, sources, policies and bounds, with the assumption
`SourcesAreApart` that a source has one id and one kind:

- `StopAlwaysReachesTheThread`: `Spec => []StopReachesTheThread`
- `PausingSparesTheRest`: `Spec => []TheRestKeepTheirCameras`
- `LeasesAreKnown`: `Spec => []NoLeaseIsLost`
- `HaltedIsFinal`: `Spec => []HaltedStaysHalted`
- `DisarmIsQuiet`: `Spec => []QuietOnceDisarmed`, assuming `OneInBackground`
- `SentryIsTyped`: `Spec => []TypeOK`

`StopInv` says that whoever has joined the last thread and not yet started the next finds no
thread alive, which is why the Event can be replaced. `ArmInv` says that while Sentry is armed
its Event is not set, no caller is on the way to change that and the worker is not on its
way out; `LeaseInv` that the leases held are those in `watching`, or those arming has just
taken, and that watching without being armed is about to be ended by a disarm or the worker
of a failed arming. `QueueInv` and `HaltInv` are about the groups: the queue is
in the order of triggers, the group at work is not after any that waits, and a trigger the
bounded list of halted ones forgets is older than everything waiting. `QuietInv` says
that whatever is recording is in `recorders`, and in the copy of that list a step is about
to write back. That is only true if a group has one such step (`OneInBackground`):
with two it is false, see the race below. `TypesInv` adds that there is a plan while a worker
may ask it, and that what an arming is about to watch is on lease already.

`HubProofs` on HubSessions, for any connections, sessions, messages and rulings:

- `TypeCorrect`: `Spec => []Shape` (`TypeOK`, and what a thread in `handle` has in hand)
- `OnlyTheNetworkHandles`: `Spec => []OneHandles`, if `approve` is not among the rulings
- `TheGrantToldIsHeld`: `Spec /\ []OneHandles => []ToldOfTheGrantHeld`
- `ThePresentStay`: `Spec /\ []OneHandles => []PresentIsNotBuried`, if `Foreign = {}`

`OneHandles` says that the network thread and a caller of `SatelliteService.approve` are never
both in `handle`. Nothing in the code sees to that; the two properties are false without it
(below), and `OnlyTheNetworkHandles` says where it comes for free: the hub started, nodes
approved from the shell. `Offered` follows a grant from the session to the command that
tells of it. `Presence` says of every message on its way, being read, retained or
held that a goodbye is not of the connection that is there and a hello not older than the
one a session was last opened for, that hellos travel in the order of their connections,
and that nothing is held once a session is about to be opened. `Foreign = {}` is needed, for
a goodbye of another protocol version carries no connection to compare.

`AgentProofs`, for any finite set of sources (a node's list of them) and any limits:

- `EventsAreAccountedFor`: `MCSpec => []EveryEventAccountedFor`
- `GrantIsAskedPerEvent`: `MCSpec => []AtMostOneAfterTheGrant`
- `AppliedIsOnDisk`: `MCSpec => []AppliedIsKept`
- `RunsWhatWasSaved`: `MCSpec => []RunsWhatItSaved`
- `SpoolIsBounded`: `MCSpec => []SpoolTakesRoom(Largest)`, for any bound `Largest` on the
  size of an event
- `AgentIsTyped`: `MCSpec => [](TypeOK /\ SeenOnce(seen))`

`AccountInv` adds what each thread has numbered and not yet put away, and that an event is in
hand only while the network thread is at work on it. The counts are sums over a set of
sources; `Adds` and the lemmas after it prove by a least counterexample what one more event
does to such a sum. The lemmas on the spool say what `Put`, `Take`, `Requeue` and expiry
do to its length plus its drops. `SpoolTakesRoom` says that the spool has at most `MaxCount`
events, that `nbytes` is what they weigh, and that it is at most `MaxBytes` and one batch of
the largest events. Without that batch it is false, as TLC shows: `requeue` trims by count
only, when other events may have taken the bytes meanwhile. `RoomInv` adds what is
in hand, which is at most a batch, to what is queued.
`SeenOnce` says that the cache of commands holds each once and not more than it has room
for. `ConfigInv` says that one request at most is at work, what
memory, drivers and disk hold at each place of `_configure` (`Stage`), and that an answer
kept, on its way or believed by the hub is about a list already written (`Promises`,
`HubRemembers`).

`MediaProofs`, for any readers, streams, connections and mishaps, assuming only that no
attempt and no publisher is called `None`:

- `StreamsHaveOwners`: `Spec => []EveryStreamHasAnOwner`
- `RevokedIsServedNothing`: `Spec => []RevokedIsCutOff`
- `MediaIsTyped`: `Spec => []TypeOK`

`MInv` says what the supervisor has in hand at each place: a stream is left to be closed only
while it is ending, and what was hung up on is out of the table for good. `CutInv` says that
after the revocation no connection of the node has a stream in the table. `Epochs` says that
every epoch on its way is one that was opened, and that each session but the first was paid
for by a mishap that ended the one before.

`RecorderProofs`, for any saves, readers, blocks, crashes and folder limits in `Nat`:

- `CapturesAreWhole`: `Spec => []ServedIsWhole`
- `DeviceIsOpenedOnce`: `Spec => []OpenedOnce`

`SaveInv` gives for each place of a save what is on the disk, and says that what is chosen for
removal is a capture and that a save which removes is pruning. `AliveIsCurrent` says that a capture
thread that is alive is the one `subscribe` knows of.

`TriggersProofs` on Vision, for any worker threads, operations and mishaps, assuming that
no epoch is called `None`:

- `BoxesStayCurrent`: `VisionSpec => [](VisionTypeOK /\ BoxesAreCurrent)`

A result becomes boxes if its epoch is that of the detector it is delivered to, and a new
beginning makes all that is about old. `BoxesInv` says that from there until the caller has
registered the demand of the new epoch, no demand, waiting frame or worker thread of the
camera carries an epoch that is current, and that a stopped detector has no result. That the
caller is in that stretch is seen from the steps it has left, so the invariant also says
in what order a list can hold them (`Lists`: a beginning is in one piece).

`BridgeProofs`, for any connections, parts on the cable, stretch a damaged length can claim,
and mishaps:

- `CableTyped`: `Spec => []CableInv` (`TypeOK`, and what is on the way)
- `CableCarries`: `Spec => CableIsAChannel`, assuming `WideCounter`: the implementation of
  `Channel`, every step a `Put`, a `Get`, a `Fault` or a stutter
- `NothingLeftBehind`: `Spec => []UnpluggedIsOffline`

The Line is what lies between the board's pen and the Reader's hands: what the Reader kept
and what is on the cable. `Intact` makes of it the frames that will arrive, and the lemmas on
`Intact` and `Feed` say that the Reader hands over and keeps exactly what was under way, in
whatever pieces it is fed (`Feeds`). A part that is lost or bent takes one frame out of it
(`LostCosts`, `BentCosts`), or none, if no two frames on the Line are alike: the rest of one
frame after the head of an equal one would be a frame again. `CableInv` therefore says that
the two parts of a frame are neighbours and no frame is on the Line twice (`Apart`), and how
old the frames on it can be (`Aged`): younger than the counter's width. `WideCounter`,
`CounterMod > MaxUp + Stretch + MaxMishaps`, is what that takes: the counter does not come
round while what it numbered is on its way, lost parts included. The firmware's counter has 32
bits (`link.cpp`), a cable holds some kilobytes, and `MaxMishaps` bounds the faults of a whole
behaviour: more than four billion of them. The instance TLC checks has `CounterMod = 2`, below
the hypothesis and enough for its two frames.

`NothingLeftBehind` needs no such thing. A session is of a connection; `orphan` is history for
the ones the bridge lost sight of. `KnownInv` adds to `CableInv` that the board's connections
can be ranked such that what is on the Line, what the bridge has in mind (state, will, queue,
what waits for the broker) and what the board may still say come in that order, goodbyes last
(`Minds`), and that a session the hub has, unless an orphan, is of the connection of the
bridge's client, whose last state is of that connection too (`Sees`). The ranking is a witness
the invariant only says exists, because connection numbers are used again.

The operators of this module are recursive functions and folds. What they compute is proved
all the same, without an induction theorem that takes an operator: `SizeInduction` is an
induction over a set by a size, from a least counterexample; `Recursion` gives that a function
that calls itself on something smaller exists and is what its definition says; and a fold is
followed by its stages.

`TriggersProofs` on Triggers and Talk, for any sessions, chunks, events and ticks:

- `ToldIsHeard`: `Spec => []FinishedMeansHeard`
- `OwnSoundIsIgnored`: `Spec => []DeafToItself`
- `FiringsAreDeserved`: `Spec => []FiresAreDeserved`

`TalkInv` tells the story of a session: only the current one has a thread that plays; while
nothing went wrong with it, what it sent and has not heard is in the queue; the end mark is
the last thing in it. `EchoInv` says of a report of the engine's own sound still on its way
that the engine is speaking, or fell silent too late for it.

`FiresAreDeserved` judges a firing by the whole log, while the engine goes by the few fields
it keeps per rule. `FiresInv` says what those fields are of the log (`Story`): `hits` frames in
a row that all show the object, behind an event nobody doubted if a window is open
(`Counting`); the stretch without it that `absentSince` began, and one of at least `Rearm`
since the last firing if the rule is not latched (`Leaving`); the reading that came back
before the ones past the limit (`Values`); the last word of every observer (`Present`); no
firing later than `lastTrigger` (`Spaced`). While the rule is not watching the log is empty;
and if the newest entry is a firing, `Fair` says why. A step is taken in two: `StoryRecalled`
says that a log which forgets all but `Remembered` loses none of the story, then one lemma per
kind of rule says that the entry which is added continues it. `FiresInv` holds for any
`Consecutive`, `Rearm`, `Within`, `MaxGap`, `Hold`, `Cooldown` and `Ttl`; TLC found no
violation of it on small instances before it was proved.

What stays with TLC, and why:

- Every `~>` (`SpoolDrains`, `HubKnowsTheSources`, `ApprovedIsHeard`, `DeadSourceIsNoticed`,
  `FaultLetsTheCamerasGo`, `LeftAloneFallsSilent`, `WantedIsDelivered`, `CarriedIsKnown`,
  `CameraGivenBack`, `NoWorkerIsForgotten`, `SpeakerGivenBack`, `NoReaderIsDeaf`,
  `EndedIsOver`): the provers do not do liveness under fairness.

Everything else the runs check is stated by a theorem: their 25 invariants, the action property
`AcknowledgedAfterCommit` and the refinement `CableIsAChannel`. `RegistryIsAtomic` and
`BelievedOnlyIfApproved` are proved and belong to no run.

## Where code and documentation part

Each of these has been seen as a counterexample of the model it names, on a smaller
instance than the ones kept.

1. `requeue` reverses a batch that could not be sent (`spool.py:91`: "without losing its place in time").
2. A stamp that overlaps a revocation from the shell writes the approval back
   (`docs/adr/satellite-trust.md:41-42`): with `Overlap = TRUE`, `NoRulingIsLost` fails.
3. A recording of a rule test keeps the Event it was started with; the next test or arming
   replaces the engine's, and the disarm after it does not stop that recording
   (`docs/captures.md:19-20`).
4. Two sources may claim one line (`satellite/.../config.py:229` says they may not) when both
   are buses: 1-Wire on line 2 beside I2C bus 1, or two I2S microphones under different
   device names. `check_conflicts` compares lines for gpio only.
5. A callback about an older attempt is not always ignored, as the docstring of `Attempt` in
   `sources/remote.py` has it: `_connected` takes the lock a second time and does not ask again
   whether the attempt is still the current one.
6. The engine is deaf to itself only: the players of the web application and of push-to-talk
   do not set `quiet_from`, against the docstring at `sentry/engine.py:116-117`, so a talk session
   can set off a sound rule.

Met while modelling, and left out of the passing runs' instances or named as exceptions:

- A reboot ends a clock fault without a baseline, against
  `docs/adr/satellite-journal.md:28-29`: in MCIngress a journalled event of the second boot
  is live while the first boot's doubt stands, which `DoubtReachesNoRule` therefore states
  per boot.
- The late will of another protocol version buries the node that is back, against
  `docs/adr/satellite-trust.md:58-59`: with `Foreign = {1}` in MCHub, `PresentIsNotBuried`
  fails.
- Revoked from the shell, a node keeps a session and a grant the hub goes on renewing,
  against `docs/satellites.md:259-260`: `ShellRules` changes the registry only.
- Two background steps of one group race in `_in_background`: each filters and replaces
  `recorders`, and one can fall out of it, so that disarm returns while it records. With
  the group `<<"record", "record">>` in MCSentry, `QuietOnceDisarmed` fails.
- After a disarm that raised, the next arming overwrites `watching`; the leases of the
  arming before are never released. Without its first disjunct `NoLeaseIsLost` fails.
- Between two photos a series waits on its own Event, but for a frame on the engine's
  (`_recent`), so a series of an earlier arming or test can save one photo in the next
  (`docs/rules-v2.md:276-277`).
- A camera used only by actions is not among what `_healthy` looks at, unless it is this
  node's, so rules that take photos from it are not paused (`docs/rules-v2.md:253`).
- SSH and Telegram steps read the configuration when they run, which may have been saved
  meanwhile during a test (`sentry/context.py:3`).
- `_isolate` holds the guard while `set_sentry` joins the capture thread for up to 30 s; that
  thread may be waiting for the guard in `fault`. A stall, not a deadlock.
- A grant's round of renewals ends at the first session that closed meanwhile; the grants
  of other nodes wait for the next (`satellites/service.py:902`).
- `requeue` trims by count only, so the spool can stand over its byte limit until the
  next `put`, against `docs/adr/satellite-agent.md:54`.
- The agent keeps its grant over a reconnection and sends under it until it runs out or
  a new one arrives; the hub refuses and acknowledges those events
  (`docs/satellites.md:283`).
- The overlap of item 2 also repeats an epoch: a tool that loaded before `next_epoch`
  and writes after it puts the old counter back.
- What the hub had been delivered and not written is not delivered again after a
  restart (`docs/satellites.md:301`): its client id is new.
- `revoke` can run between the authentication of a hello and the opening of its session,
  which is then there after the revocation. With `approve`, an older hello read by the
  caller can open its session after a newer one the network thread is handling.
- A node revoked through `SatelliteService.revoke` and approved again while connected is
  not heard until it says hello again: `revoke` forgets the held hello and the node has no
  reason to send another.
- With `approve` among the rulings and late wills, or with connections of another protocol,
  `PresentIsNotBuried` and `ToldOfTheGrantHeld` fail: two threads in `handle` at once are
  what `OneHandles` excludes in the theorems, and `Foreign = {}` the late will above.
- Bridge: the client keeps the will of the connection it was made for, because
  `reach_the_broker` returns at once when there is a client, so after a new announcement the
  broker would say goodbye for the old one. A board that falls silent for `QUIET_FOR` loses its
  state, and pulling it out afterwards publishes no goodbye (`orphan`). A state kept in
  `waiting_to_connect` can be older than the last announcement; if that one was lost, the hub
  stays with the older connection (`Mistaken`). After a reset of the board, `missed` grows by
  about 2^32.
- Vision: when `_restore_detection` raises, `disarm` never comes to `_stop_capture`
  (`abandoned`). Arming while a capture thread dies can lose the demand just registered
  (`robbed`). `set_detection` reads `capture_running` before it acts on it.
- Talk: `finish` answers "Transmission finished." after an overflow or a cancel (`cut`), and its
  late `cancelled.set()` can reach the next session.
- Microphone: a join that gives up after 5 s leaves a tap without a capture thread (`slow`).
  The hub's activity reader does not subscribe again.
- Recorder: `end()` knocks once, without waiting; if the feeder has not reached `open` and no
  ffmpeg came, the feeder waits for ever (`early`). A photo and a video of one rule in one
  millisecond share a sidecar. `_Sink.close` is not the atomic swap its comment says. A video
  longer than the captures after it can be pruned as soon as it is saved, for its name is the
  time it began. A killed hub leaves the pipe's folder in `/tmp`.
- RemoteConfig: `_publish_state` on the network thread can publish what it composed before the
  configure thread published something newer (`overtaken`). When the previous list cannot be
  rebuilt the node runs nothing, says nothing, and keeps the failed proposal as its
  configuration (`adrift`). `_configuring` is released before the outcome is remembered, so a
  repeated command may be applied twice.

## What is not modelled, and the plan

Not modelled: payload contents, TLS and certificates beyond their fingerprint, SQLite
migrations and backups, HTTP routing and sign-in, reports and health, neural networks, signal
processing, device I/O, presence scanning, the rule document with its validation and migration,
simulation and test mode, the Pico's own MQTT client, flash and sensors. The rate limiter is
any refusal; its arithmetic is left out. Of a crash the process is lost, never
what it had written: power loss is not modelled. Of RemoteConfig: an overlay that no longer passes the
checks (revision 0 again), drivers that do not stop within `join_seconds`, and a configure
thread that publishes between `stop`'s goodbye and the disconnection. HubSessions and Media
follow one node, Bridge one board, Triggers one rule.

Next: an exactly-once log, the receipts of the journal as its memory, that Ingress implements
for any messages and limits.
