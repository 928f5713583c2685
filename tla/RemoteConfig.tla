---------------------------- MODULE RemoteConfig ----------------------------
(***************************************************************************)
(* The list of sources a node reads, changed from the hub                  *)
(* (SatelliteService.configure, _on_ack and _on_state on the hub's side;   *)
(* agent.py's configure thread, remote.py and drivers.py on the node's).   *)
(*                                                                         *)
(* The hub numbers a list, sends it and remembers one request per node.    *)
(* The node answers at once, on the thread that keeps the link, and works  *)
(* on another: it stops its drivers, builds the new ones, watches them,    *)
(* saves the list as an overlay of the installed file and, when any of     *)
(* that fails, puts the previous list back.  Then it says its state again. *)
(* Node and hub may be killed anywhere, the link may be lost, commands may *)
(* come twice, and a request may be given up on before its answer comes.   *)
(*                                                                         *)
(* The link and the network thread are those of module Agent.  Events and  *)
(* configurations share nothing else, so a behaviour follows one of them.  *)
(* A list of sources is a name, and Contents says what it lists: whether   *)
(* the hub and the node accept it follows from that; whether its drivers   *)
(* can be built, start and stay up is left open.  Wills come on time       *)
(* (HubSessions has late ones), and the broker keeps the order of what one *)
(* client publishes.                                                       *)
(***************************************************************************)
EXTENDS Agent, SourceLists

CONSTANTS Lists,       \* lists of sources an operator may send
          Installed0,  \* the list of the file the node was installed with
          Contents,    \* what each list holds
          Profile,     \* the node's profile
          MaxSources,  \* platforms.MAX_SOURCES
          MaxConfigures, MaxDials, MaxMishaps, MaxUnread   \* bounds

ASSUME RemoteConstants ==
  /\ Installed0 \notin Lists
  /\ Contents \in [Lists \cup {Installed0} -> Seq(Source)]
  /\ Profile \in DOMAIN Allowed /\ MaxSources \in Nat
  /\ {MaxConfigures, MaxMishaps, MaxUnread} \subseteq Nat
  /\ MaxDials \in [{"events", "configuration"} -> Nat]

Ids   == 1 .. MaxConfigures
Known == Lists \cup {Installed0}
Idle  == [at |-> "idle", previous |-> Installed0, outcome |-> "received"]

VARIABLES
  follows,   \* what this behaviour is about: "events" or "configuration"
  command,   \* id -> the revision and the list the hub sent under it
  issued,    \* ids issued so far
  toNode,    \* commands on their way, by id
  toHub,     \* states and answers on their way
  retained,  \* the node's state as the broker keeps it
  config,    \* the node's config.sources and revision
  runs,      \* the list whose drivers run; None while they are stopped
  overlay,   \* the overlay on the node's disk; revision 0 is none
  worker,    \* id -> its configure thread
  busy,      \* who holds _configuring; 0 is nobody
  answered,  \* id -> what commands.Seen remembers of it
  saying,    \* the state the network thread has put together to publish
  hub,       \* the session, _configurations, _reported and the sources ready to use
  adrift,    \* history: the previous list could not be restarted
  overtaken, \* history: the node published an older state after a newer one
  mishaps    \* links lost, stops and kills of the node, restarts of the hub,
             \* commands that came twice

wireVars   == <<toNode, toHub, retained>>
nodeVars   == <<config, runs, overlay, worker, busy, answered, saying, adrift, overtaken>>
remoteVars == <<command, issued, wireVars, nodeVars, hub, mishaps, follows>>
nodeVars_  == <<config, runs, overlay, worker, busy>>
allVars    == <<vars, remoteVars>>

State(c, online) == [what |-> "state", conn |-> c, online |-> online, config |-> config]
Ack(id, outcome) == [what |-> "ack", id |-> id, outcome |-> outcome]

NothingSent == [id |-> 0, revision |-> 0, state |-> "none", overdue |-> FALSE]
NewHub      == [session |-> 0, revision |-> 0, ready |-> {}, pending |-> NothingSent]

RemoteInit ==
  /\ follows \in {"events", "configuration"}
  /\ command = [id \in Ids |-> [revision |-> 0, sources |-> Installed0]] /\ issued = 0
  /\ toNode = <<>> /\ toHub = <<>> /\ retained = None
  /\ config = [revision |-> 0, sources |-> Installed0]
  /\ runs = Installed0
  /\ overlay = [revision |-> 0, sources |-> Installed0]
  /\ worker = [id \in Ids |-> Idle] /\ busy = 0
  /\ answered = [id \in Ids |-> "unknown"]
  /\ saying = None
  /\ hub = NewHub
  /\ adrift = FALSE /\ overtaken = FALSE
  /\ mishaps = 0

----------------------------------------------------------------------------
Mishap == mishaps < MaxMishaps /\ mishaps' = mishaps + 1

(* The broker: a message goes through while the link is up.                *)

Publish(m) ==
  IF connected
  THEN /\ Len(toHub) < MaxUnread
       /\ toHub' = Append(toHub, m)
       /\ retained' = IF m.what = "state" THEN m ELSE retained
  ELSE UNCHANGED <<toHub, retained>>

(* What the broker does for a connection that is lost or closed.           *)
Gone == /\ toNode' = <<>>
        /\ toHub' = Append(toHub, State(conn, FALSE))
        /\ retained' = State(conn, FALSE)

----------------------------------------------------------------------------
(* The node's link, which says the state of the node on every connection.  *)

LinkStep ==
  \/ saying = None /\ Dial /\ conn' <= MaxDials[follows] /\ UNCHANGED remoteVars
  \/ saying = None /\ NetworkExits /\ UNCHANGED remoteVars
  \/ (LinkUp \/ GiveUp) /\ UNCHANGED remoteVars
  \/ /\ RequestStop /\ Mishap
     /\ UNCHANGED <<command, issued, wireVars, nodeVars, hub, follows>>
  \/ /\ (LinkDown /\ Mishap) \/ (Goodbye /\ connected /\ UNCHANGED mishaps)
     /\ Gone /\ UNCHANGED <<command, issued, nodeVars, hub, follows>>
  \/ Goodbye /\ ~connected /\ UNCHANGED remoteVars

(* _connect after the wait: the payload, and then its publication.         *)
Announce ==
  /\ Linked
  /\ saying' = State(conn, TRUE)
  /\ UNCHANGED <<command, issued, wireVars, nodeVars_, answered, hub, adrift, overtaken,
                 mishaps, follows>>

PublishState ==
  /\ saying # None /\ ~gone
  /\ Publish(saying)
  /\ saying' = None
  /\ UNCHANGED <<vars, command, issued, toNode, nodeVars_, answered, hub, adrift, overtaken,
                 mishaps, follows>>

----------------------------------------------------------------------------
(* The hub.                                                                *)

Larger(a, b) == IF a > b THEN a ELSE b

Unanswered == hub.pending.state \in {"sent", "received"}

(* configure: refused for a node that is offline, for a list it could not  *)
(* drive, and while a request of the last CONFIGURE_PATIENCE_SECONDS is    *)
(* unanswered; else numbered past all that was reported or sent, noted and *)
(* sent.  The broker takes the command or it does not, and forwards it to  *)
(* a node that is connected.                                               *)
Configure(list) ==
  LET id       == issued + 1
      revision == 1 + Larger(hub.revision, hub.pending.revision)
      entry(s) == [id |-> id, revision |-> revision, state |-> s, overdue |-> FALSE]
  IN /\ issued < MaxConfigures /\ hub.session # 0
     /\ CheckConfiguration(Contents[list], MaxSources)
     /\ Unanswered => hub.pending.overdue
     /\ issued' = id
     /\ command' = [command EXCEPT ![id] = [revision |-> revision, sources |-> list]]
     /\ \/ /\ hub' = [hub EXCEPT !.pending = entry("sent")]
           /\ toNode' = IF connected THEN Append(toNode, id) ELSE toNode
        \/ hub' = [hub EXCEPT !.pending = entry("failed")] /\ UNCHANGED toNode
     /\ UNCHANGED <<vars, toHub, retained, nodeVars, mishaps, follows>>

PatienceEnds ==
  /\ Unanswered /\ ~hub.pending.overdue
  /\ hub' = [hub EXCEPT !.pending.overdue = TRUE]
  /\ UNCHANGED <<vars, command, issued, wireVars, nodeVars, mishaps, follows>>

(* _adopt_sources: the sources a node declares and does not call disabled  *)
(* are ready; those it no longer declares stay known and are not.          *)
AdoptSources(sources) == DriversOf(Contents[sources])

(* Mutant of OnState: what a node says again on one connection is skipped. *)
OnStateOnce(m) ==
  hub' = IF m.online
         THEN IF hub.session = m.conn THEN hub
              ELSE [hub EXCEPT !.session = m.conn, !.revision = m.config.revision,
                               !.ready = AdoptSources(m.config.sources)]
         ELSE [hub EXCEPT !.session = IF @ = m.conn THEN 0 ELSE @]

(* _on_state: a session begins, goes on or ends; an online node's report   *)
(* replaces the one before, and its sources are adopted.                   *)
OnState(m) ==
  hub' = IF m.online
         THEN [hub EXCEPT !.session = m.conn, !.revision = m.config.revision,
                          !.ready = AdoptSources(m.config.sources)]
         ELSE [hub EXCEPT !.session = IF @ = m.conn THEN 0 ELSE @]

(* Mutant of OnAck: any answer of the node is taken for this one's. *)
OnAckOfAny(m) ==
  hub' = IF /\ hub.pending.id # 0
            /\ m.outcome = "received" => hub.pending.state = "sent"
         THEN [hub EXCEPT !.pending.state = m.outcome] ELSE hub

(* _on_ack: only the answer to the request remembered, and a late copy of  *)
(* the first answer says nothing new.                                      *)
OnAck(m) ==
  hub' = IF /\ hub.pending.id = m.id
            /\ m.outcome = "received" => hub.pending.state = "sent"
         THEN [hub EXCEPT !.pending.state = m.outcome] ELSE hub

HubHears ==
  /\ toHub # <<>>
  /\ LET m == Head(toHub) IN IF m.what = "state" THEN OnState(m) ELSE OnAck(m)
  /\ toHub' = Tail(toHub)
  /\ UNCHANGED <<vars, command, issued, toNode, retained, nodeVars, mishaps, follows>>

(* The hub forgets what it sent; the broker gives it the last state.       *)
HubRestarts ==
  /\ Mishap
  /\ hub' = NewHub
  /\ toHub' = IF retained = None THEN <<>> ELSE <<retained>>
  /\ UNCHANGED <<vars, command, issued, toNode, retained, nodeVars, follows>>

----------------------------------------------------------------------------
(* The node: a command.                                                    *)

(* _begin_configure: a command handled before gets the answer it got; one  *)
(* that comes while another is applied is refused and not remembered.  The *)
(* broker may send it again.                                               *)
BeginConfigure ==
  /\ connected /\ toNode # <<>>
  /\ LET id == Head(toNode)
     IN IF answered[id] # "unknown"
        THEN Publish(Ack(id, answered[id])) /\ UNCHANGED <<worker, busy, answered>>
        ELSE IF busy # 0
        THEN Publish(Ack(id, "failed")) /\ UNCHANGED <<worker, busy, answered>>
        ELSE /\ busy' = id
             /\ answered' = [answered EXCEPT ![id] = "received"]
             /\ Publish(Ack(id, "received"))
             /\ worker' = [worker EXCEPT ![id].at = "check"]
  /\ \/ toNode' = Tail(toNode) /\ UNCHANGED mishaps
     \/ UNCHANGED toNode /\ Mishap
  /\ UNCHANGED <<vars, command, issued, config, runs, overlay, saying, hub, adrift, overtaken,
                 follows>>

----------------------------------------------------------------------------
(* The node: the configure thread.                                         *)

At(id, place) == worker[id].at = place /\ ~gone
Goes(id, place) == worker' = [worker EXCEPT ![id].at = place]
Refuses(id, place) == worker' = [worker EXCEPT ![id].at = place, ![id].outcome = "failed"]

restOfConfigure == <<vars, command, issued, toNode, hub, mishaps, follows, saying>>

(* remote.check, and a trial build: nothing is touched by a refusal.       *)
Acceptable(c) == /\ c.revision > config.revision
                 /\ ParseSources(Contents[c.sources], Profile)

Check(id) ==
  /\ At(id, "check")
  /\ \/ Refuses(id, "release")
     \/ /\ Acceptable(command[id])
        /\ worker' = [worker EXCEPT ![id].at = "replace", ![id].previous = config.sources]
  /\ UNCHANGED <<restOfConfigure, toHub, retained, config, runs, overlay, busy, answered,
                 adrift, overtaken>>

(* _replace_drivers: the drivers that run are stopped and joined,          *)
StopDrivers(id) ==
  /\ At(id, "replace") \/ At(id, "restore")
  /\ runs' = None
  /\ Goes(id, IF worker[id].at = "replace" THEN "build" ELSE "rebuild")
  /\ UNCHANGED <<restOfConfigure, toHub, retained, config, overlay, busy, answered, adrift,
                 overtaken>>

(* and the new ones built and started.  One that cannot be built leaves    *)
(* none running.                                                           *)
Build(id) ==
  /\ At(id, "build")
  /\ \/ /\ config' = [config EXCEPT !.sources = command[id].sources]
        /\ runs' = command[id].sources
        /\ Goes(id, "probe")
     \/ Goes(id, "restore") /\ UNCHANGED <<config, runs>>
  /\ UNCHANGED <<restOfConfigure, toHub, retained, overlay, busy, answered, adrift, overtaken>>

(* _probe: a driver that stops or reports an error in probe_seconds, or an *)
(* agent that is stopping.                                                 *)
Probe(id) ==
  /\ At(id, "probe")
  /\ Goes(id, "save") \/ Goes(id, "restore")
  /\ UNCHANGED <<restOfConfigure, toHub, retained, config, runs, overlay, busy, answered,
                 adrift, overtaken>>

(* Mutant of Save: a disk that is full is not noticed. *)
SaveAnyway(id) ==
  /\ At(id, "save") /\ Goes(id, "commit")
  /\ overlay' = command[id] \/ UNCHANGED overlay
  /\ UNCHANGED <<restOfConfigure, toHub, retained, config, runs, busy, answered, adrift,
                 overtaken>>

(* Overlay.save, which replaces the file in one step or fails.             *)
Save(id) ==
  /\ At(id, "save")
  /\ \/ overlay' = command[id] /\ Goes(id, "commit")
     \/ UNCHANGED overlay /\ Goes(id, "restore")
  /\ UNCHANGED <<restOfConfigure, toHub, retained, config, runs, busy, answered, adrift,
                 overtaken>>

Commit(id) ==
  /\ At(id, "commit")
  /\ config' = [config EXCEPT !.revision = command[id].revision]
  /\ worker' = [worker EXCEPT ![id].at = "tell", ![id].outcome = "applied"]
  /\ adrift' = FALSE
  /\ UNCHANGED <<restOfConfigure, toHub, retained, runs, overlay, busy, answered, overtaken>>

(* The previous list is put back and said; when it cannot be built either, *)
(* the node is left without drivers and says nothing.                      *)
Restore(id) ==
  /\ At(id, "rebuild")
  /\ \/ /\ config' = [config EXCEPT !.sources = worker[id].previous]
        /\ runs' = worker[id].previous
        /\ Refuses(id, "tell") /\ UNCHANGED adrift
     \/ /\ Refuses(id, "release") /\ adrift' = TRUE
        /\ UNCHANGED <<config, runs>>
  /\ UNCHANGED <<restOfConfigure, toHub, retained, overlay, busy, answered, overtaken>>

(* _publish_state, while the network thread may be about to publish what   *)
(* it read before.                                                         *)
Tell(id) ==
  /\ At(id, "tell")
  /\ Publish(State(conn, TRUE))
  /\ Goes(id, "release")
  /\ overtaken' = (saying # None /\ saying.config.sources # config.sources)
  /\ UNCHANGED <<restOfConfigure, config, runs, overlay, busy, answered, adrift>>

(* _configuring is released before the answer is remembered and sent.      *)
Release(id) ==
  /\ At(id, "release") /\ Goes(id, "answer")
  /\ busy' = 0
  /\ UNCHANGED <<restOfConfigure, toHub, retained, config, runs, overlay, answered, adrift,
                 overtaken>>

Answer(id) ==
  /\ At(id, "answer") /\ Goes(id, "done")
  /\ answered' = [answered EXCEPT ![id] = worker[id].outcome]
  /\ Publish(Ack(id, worker[id].outcome))
  /\ UNCHANGED <<restOfConfigure, config, runs, overlay, busy, adrift, overtaken>>

Works(id) == \/ Check(id) \/ StopDrivers(id) \/ Build(id) \/ Probe(id) \/ Save(id)
             \/ Commit(id) \/ Restore(id) \/ Tell(id) \/ Release(id) \/ Answer(id)

(* The process ends or is killed, wherever its threads are, and starts     *)
(* again with the installed list and the overlay on top (Overlay.load).    *)
StartsAgain ==
  /\ Mishap
  /\ net' = "idle" /\ connected' = FALSE /\ stopping' = FALSE /\ gone' = FALSE /\ linkedAt' = 0
  /\ IF connected THEN Gone ELSE UNCHANGED wireVars
  /\ config' = overlay /\ runs' = overlay.sources
  /\ worker' = [id \in Ids |-> Idle] /\ busy' = 0
  /\ answered' = [id \in Ids |-> "unknown"]
  /\ saying' = None /\ adrift' = FALSE /\ overtaken' = FALSE
  /\ UNCHANGED <<now, spool, recording, baselines, hand, delivery, conn, grant, seen, refused,
                 output, command, issued, overlay, hub, follows>>

----------------------------------------------------------------------------
RemoteNext ==
  \/ LinkStep \/ Announce \/ PublishState
  \/ (\E list \in Lists : Configure(list)) \/ PatienceEnds \/ HubHears \/ HubRestarts
  \/ BeginConfigure \/ (\E id \in Ids : Works(id)) \/ StartsAgain

(* The threads of the node and of the hub keep running.                    *)
RemoteFairness ==
  /\ WF_allVars(Announce) /\ WF_allVars(PublishState) /\ WF_allVars(HubHears)
  /\ \A id \in Ids : WF_allVars(Works(id))

----------------------------------------------------------------------------
(* What the page calls applied is on the node's disk, under its number and *)
(* with the list that was sent, or under a later one: answers that come    *)
(* late, twice or to another request, a crash on either side and a request *)
(* given up on never make it say so of a list that would be gone after the *)
(* next start.                                                             *)
AppliedIsKept ==
  hub.pending.state = "applied" =>
    \/ overlay.revision > hub.pending.revision
    \/ overlay = command[hub.pending.id]

(* Whenever no request is being applied, the node runs what it would start *)
(* with: every way out of _configure, and every crash in it, leaves the    *)
(* drivers, the configuration in memory and the overlay in agreement (but  *)
(* for a previous list that could not be restarted).                       *)
RunsWhatItSaved ==
  busy = 0 /\ ~adrift /\ ~gone => runs = overlay.sources /\ config = overlay

(* What rules may count on is what the node runs, in the end, also when it *)
(* connected in the middle of a change that was then undone.  The          *)
(* exception: the network thread publishes a state it put together before  *)
(* the configure thread published a newer one.                             *)
Settled(list) ==
  /\ follows = "configuration" /\ connected /\ ~gone
  /\ busy = 0 /\ ~adrift /\ ~overtaken /\ runs = list

HubKnowsTheSources ==
  \A list \in Known :
    Settled(list) ~> (~Settled(list) \/ hub.ready = DriversOf(Contents[list]))

=============================================================================
