-------------------------------- MODULE Media --------------------------------
(***************************************************************************)
(* One satellite camera, from the lease a reader holds on it to the bytes  *)
(* its node sends: LeasedStream and its supervisor (src/sentry_mode/       *)
(* sources/remote.py, vision/remote.py), the requests SatelliteService     *)
(* makes for it (satellites/service.py), the gateway its connections come  *)
(* in through (vision/media_gateway.py), the decoder (vision/network.py),  *)
(* and the node's side: Agent._media and the Publisher thread.             *)
(*                                                                         *)
(* An attempt is named by the id of the one stream it opens.  Ids and      *)
(* handler threads are reused once nothing refers to them any more, which  *)
(* stands for the hub's random, never repeated ones.  Time is counted in   *)
(* what is left: Tick lets one unit pass everywhere.  Headers of an honest *)
(* node always match, so of the gateway's refusals only the ones that a    *)
(* race can cause are here: untrusted, unknown, expired, connected.        *)
(***************************************************************************)
EXTENDS Naturals, Sequences, FiniteSets

CONSTANTS Readers,    \* who may hold a lease
          Ids,        \* stream ids
          Handlers,   \* the gateway's connection threads
          None,
          Life,       \* stream_seconds
          RenewEvery, \* renew_every_seconds
          Patience,   \* connect_timeout_seconds
          Stall,      \* stall_seconds
          MaxWire,    \* bound: commands on their way
          MaxMishaps  \* bound: what may go wrong; see Mishap

ASSUME MediaConstants ==
  /\ None \notin Ids \cup Handlers
  /\ Life \in Nat /\ RenewEvery \in Nat /\ Patience \in Nat /\ Stall \in Nat
  /\ RenewEvery < Life /\ Patience < Life
  /\ MaxWire \in Nat /\ MaxMishaps \in Nat

Lower(n) == IF n = 0 THEN 0 ELSE n - 1
Raise(n, top) == IF n = top THEN top ELSE n + 1

(* An attempt that is over is None here: nothing tells the two apart. *)
Attempt == [id : Ids \cup {None}, age : 0..Patience, renewed : 0..RenewEvery,
            connected : BOOLEAN]

(* The gateway's _Stream.  at: in the table, taken out of it and not yet   *)
(* hung up, gone.  conn: whose connection.                                *)
Stream == [at : {"free", "table", "popped", "gone"}, left : 0..Life,
           conn : Handlers \cup {None}, ended : BOOLEAN]
NoStream == [at |-> "free", left |-> 0, conn |-> None, ended |-> FALSE]

Handler == [at : {"free", "trusted", "opening", "feeding", "ended"},
            id : Ids \cup {None}, over : BOOLEAN]
Unused == [at |-> "free", id |-> None, over |-> FALSE]

(* The node's Publisher, and the connection it has, if any.  One that is   *)
(* told to stop or replaced does nothing more than close it, so there is   *)
(* at most one to speak of.                                                *)
Publisher == [id : Ids, left : 0..Life, wire : Handlers \cup {None}]

Command == [do : {"start", "renew", "stop", "grant", "revoke"},
            id : Ids \cup {None}, epoch : Nat]

ASSUME NoneIsApart == None \notin Attempt /\ None \notin Publisher

Supervising == {"none", "loop", "asking", "ending", "last"}

VARIABLES
  held, changed,      \* DemandTable: the leases, and whose on_change has not run
  stopping,           \* _stop is waiting for the supervisor
  stopped,            \* LeasedStream.stopped
  sup,                \* where the supervisor is
  asked,              \* the epoch _start_media read
  attempt, sink,      \* LeasedStream's, guarded by its lock
  closing,            \* what _end_attempt took: the id to cancel and the sink to close
  stream,             \* MediaGateway._streams and what is left of those taken out
  handler,            \* MediaGateway._handlers
  decoders,           \* the handlers whose decoder process is running
  approved, revoking, \* the registry's word, and revoke's progress
  session, epochs,    \* the node's session (an epoch, 0 is none), and how many so far
  wire,               \* commands on their way to the node
  grant,              \* the epoch of the node's grant, 0 is none
  publisher,          \* Agent._videos for this source
  silent,             \* units since the last frame
  mishaps

vars == <<held, changed, stopping, stopped, sup, asked, attempt, sink, closing, stream,
          handler, decoders, approved, revoking, session, epochs, wire,
          grant, publisher, silent, mishaps>>

leases  == <<held, changed, stopping, stopped>>
superv  == <<sup, asked, attempt, sink, closing>>
gateway == <<stream, handler, decoders>>
sessions == <<approved, revoking, session, epochs>>
node    == <<grant, publisher>>

TypeOK ==
  /\ held \subseteq Readers /\ changed \subseteq Readers
  /\ stopping \in BOOLEAN /\ stopped \in BOOLEAN
  /\ sup \in Supervising /\ asked \in 0..(MaxMishaps + 1)
  /\ attempt \in Attempt \cup {None} /\ sink \in Handlers \cup {None}
  /\ closing \in [id : Ids \cup {None}, sink : Handlers \cup {None}]
  /\ stream \in [Ids -> Stream] /\ handler \in [Handlers -> Handler]
  /\ decoders \subseteq Handlers
  /\ approved \in BOOLEAN /\ revoking \in {"no", "sessions", "done"}
  /\ session \in 0..(MaxMishaps + 1) /\ epochs \in 0..(MaxMishaps + 1)
  /\ wire \in Seq(Command) /\ grant \in 0..(MaxMishaps + 1)
  /\ publisher \in Publisher \cup {None}
  /\ silent \in 0..(Stall + 1) /\ mishaps \in 0..MaxMishaps

Init ==
  /\ held = {} /\ changed = {} /\ stopping = FALSE /\ stopped = TRUE
  /\ sup = "none" /\ asked = 0 /\ attempt = None /\ sink = None
  /\ closing = [id |-> None, sink |-> None]
  /\ stream = [i \in Ids |-> NoStream] /\ handler = [h \in Handlers |-> Unused]
  /\ decoders = {}
  /\ approved = TRUE /\ revoking = "no" /\ session = 1 /\ epochs = 1
  /\ wire = << >> /\ grant = 1
  /\ publisher = None /\ silent = Stall + 1 /\ mishaps = 0

(* A command the link does not take or the broker loses, a request refused *)
(* for want of room, a decoder that does not start, a connection that      *)
(* breaks, a thread held up, a session that ends, a revocation.            *)
Mishap == mishaps < MaxMishaps /\ mishaps' = mishaps + 1

------------------------------------------------------------------------------
(* publish_command: the link takes it, or the link is down.  sent says     *)
(* which; a full wire cannot take it.                                      *)
Send(c, sent) ==
  IF sent THEN Len(wire) < MaxWire /\ wire' = Append(wire, c) /\ UNCHANGED mishaps
  ELSE Mishap /\ UNCHANGED wire

Message(do, id, epoch) == [do |-> do, id |-> id, epoch |-> epoch]

(* NetworkDecoder.start, and close, which stops the process and its        *)
(* threads.  A sink that takes another's place closes it.                  *)
OpenDecoder(h) == (decoders \cup {h}) \ {sink}
CloseDecoder(h) == decoders \ {h}

------------------------------------------------------------------------------
(* Leases.  The table changes under its own lock; on_change runs after it. *)
Hold(r) ==
  /\ r \notin held \cup changed
  /\ held' = held \cup {r} /\ changed' = changed \cup {r}
  /\ UNCHANGED <<stopping, stopped, superv, gateway, sessions, wire, node, silent, mishaps>>

Release(r) ==
  /\ r \in held \ changed
  /\ held' = held \ {r} /\ changed' = changed \cup {r}
  /\ UNCHANGED <<stopping, stopped, superv, gateway, sessions, wire, node, silent, mishaps>>

(* Mutant of Apply: a camera that is not streaming is not stopped. *)
ApplyOnlyStreaming(r) ==
  /\ r \in changed /\ ~stopping
  /\ IF held = {} /\ attempt # None
     THEN stopped' = TRUE /\ stopping' = TRUE /\ UNCHANGED <<sup, changed>>
     ELSE /\ stopped => sup = "none"
          /\ sup' = IF stopped /\ held # {} THEN "loop" ELSE sup
          /\ stopped' = (stopped /\ held = {})
          /\ changed' = changed \ {r} /\ UNCHANGED stopping
  /\ UNCHANGED <<held, asked, attempt, sink, closing, gateway, sessions, wire, node,
                 silent, mishaps>>

(* _apply, under the lifecycle lock: the leases are read in it.  Nothing a *)
(* supervisor does takes the ten seconds it is waited for, so the waits of *)
(* _start and _stop end with the supervisor here.                          *)
Apply(r) ==
  /\ r \in changed /\ ~stopping
  /\ IF held = {}
     THEN stopped' = TRUE /\ stopping' = TRUE /\ UNCHANGED <<sup, changed>>
     ELSE /\ stopped => sup = "none"
          /\ sup' = IF stopped THEN "loop" ELSE sup
          /\ stopped' = FALSE /\ changed' = changed \ {r} /\ UNCHANGED stopping
  /\ UNCHANGED <<held, asked, attempt, sink, closing, gateway, sessions, wire, node,
                 silent, mishaps>>

(* The rest of _stop: the supervisor has gone, _end_attempt and _idle. *)
Stopped(r) ==
  /\ r \in changed /\ stopping /\ sup = "none"
  /\ stopping' = FALSE /\ changed' = changed \ {r}
  /\ attempt' = None /\ sink' = None /\ decoders' = CloseDecoder(sink)
  /\ UNCHANGED <<held, stopped, sup, asked, closing, stream, handler, sessions, wire,
                 node, silent, mishaps>>

------------------------------------------------------------------------------
(* The supervisor. *)
Publishing(i) == publisher # None /\ publisher.id = i
Wired(h) == publisher # None /\ publisher.wire = h

Referred(i) ==
  \/ attempt # None /\ attempt.id = i
  \/ closing.id = i
  \/ stream[i].at \notin {"free", "gone"}
  \/ Publishing(i)
  \/ \E h \in Handlers : handler[h].id = i
  \/ \E n \in 1..Len(wire) : wire[n].id = i

FreshAttempt == [id |-> None, age |-> 0, renewed |-> 0, connected |-> FALSE]

(* _begin, and _start_media as far as the checks: the session is read here *)
(* and its epoch used once the stream is open.  A node that is not         *)
(* approved or has no session is asked for nothing.                        *)
Begin ==
  /\ sup = "loop" /\ ~stopped /\ attempt = None
  /\ approved /\ session # 0
  /\ attempt' = FreshAttempt /\ asked' = session /\ sup' = "asking"
  /\ UNCHANGED <<leases, sink, closing, gateway, sessions, wire, node, silent, mishaps>>

(* Mutant of Ask: the stream stays open when the command was not sent. *)
AskKeepsTheStream(sent) ==
  /\ sup = "asking" /\ sup' = "loop" /\ asked' = 0
  /\ \E i \in Ids : ~Referred(i)
  /\ LET i == CHOOSE j \in Ids : ~Referred(j) IN
       /\ stream' = [stream EXCEPT ![i] = [NoStream EXCEPT !.at = "table", !.left = Life]]
       /\ attempt' = IF sent THEN [attempt EXCEPT !.id = i] ELSE None
       /\ Send(Message("start", i, asked), sent)
  /\ UNCHANGED <<leases, sink, closing, handler, decoders, sessions, node, silent>>

(* The rest of it: MediaGateway.open, or its refusal when it has all the   *)
(* streams it may have, and the command; a stream whose command the link   *)
(* did not take is closed again.                                           *)
Ask(sent) ==
  /\ sup = "asking" /\ sup' = "loop" /\ asked' = 0
  /\ \E i \in Ids : ~Referred(i)
  /\ LET i == CHOOSE j \in Ids : ~Referred(j) IN
       /\ stream' = [stream EXCEPT ![i] =
            [NoStream EXCEPT !.at = IF sent THEN "table" ELSE "popped", !.left = Life]]
       /\ attempt' = IF sent THEN [attempt EXCEPT !.id = i] ELSE None
       /\ Send(Message("start", i, asked), sent)
  /\ UNCHANGED <<leases, sink, closing, handler, decoders, sessions, node, silent>>

NoRoom ==
  /\ sup = "asking" /\ sup' = "loop" /\ asked' = 0 /\ Mishap
  /\ attempt' = None
  /\ UNCHANGED <<leases, sink, closing, gateway, sessions, wire, node, silent>>

Current == sup = "loop" /\ ~stopped /\ attempt # None

(* _end_attempt under the lock; EndAttempt is the rest of it. *)
TakeAttempt(next) ==
  /\ closing' = [id |-> IF attempt = None THEN None ELSE attempt.id, sink |-> sink]
  /\ attempt' = None /\ sink' = None /\ sup' = next

Renew(sent) ==
  /\ Current /\ attempt.renewed >= RenewEvery
  /\ IF session # 0 /\ stream[attempt.id].at = "table"
     THEN /\ stream' = [stream EXCEPT ![attempt.id].left = Life]
          /\ Send(Message("renew", attempt.id, session), sent)
          /\ IF sent THEN attempt' = [attempt EXCEPT !.renewed = 0]
                          /\ UNCHANGED <<sup, sink, closing>>
             ELSE TakeAttempt("ending")
     ELSE sent /\ TakeAttempt("ending") /\ UNCHANGED <<stream, wire, mishaps>>
  /\ UNCHANGED <<leases, asked, handler, decoders, sessions, node, silent>>

(* _judge: neither frames nor a connection, for longer than a connection   *)
(* may take since the stream was opened.                                   *)
Hopeless == silent > Stall /\ ~attempt.connected /\ attempt.age >= Patience

(* Mutant of Judge: only a connection that has fallen silent is given up on. *)
JudgeTheConnected ==
  /\ Current /\ attempt.renewed < RenewEvery
  /\ silent > Stall /\ attempt.connected /\ attempt.age >= Patience
  /\ TakeAttempt("ending")
  /\ UNCHANGED <<leases, asked, gateway, sessions, wire, node, silent, mishaps>>

Judge ==
  /\ Current /\ attempt.renewed < RenewEvery
  /\ Hopeless
  /\ TakeAttempt("ending")
  /\ UNCHANGED <<leases, asked, gateway, sessions, wire, node, silent, mishaps>>

(* The loop sees that nobody is using it any more. *)
Leave ==
  /\ sup = "loop" /\ stopped
  /\ TakeAttempt("last")
  /\ UNCHANGED <<leases, asked, gateway, sessions, wire, node, silent, mishaps>>

(* The rest of _end_attempt: _stop_media takes the stream out of the       *)
(* gateway and tells the node, if it has a session; the sink is closed.    *)
EndAttempt(sent) ==
  /\ sup \in {"ending", "last"}
  /\ IF closing.id # None
     THEN /\ stream' = [stream EXCEPT ![closing.id].at = IF @ = "table" THEN "popped" ELSE @]
          /\ IF session # 0 THEN Send(Message("stop", closing.id, session), sent)
             ELSE sent /\ UNCHANGED <<wire, mishaps>>
     ELSE sent /\ UNCHANGED <<stream, wire, mishaps>>
  /\ decoders' = CloseDecoder(closing.sink)
  /\ closing' = [id |-> None, sink |-> None]
  /\ sup' = IF sup = "ending" THEN "loop" ELSE "none"
  /\ UNCHANGED <<leases, asked, attempt, sink, handler, sessions, node, silent>>

------------------------------------------------------------------------------
Wanted(i) == attempt # None /\ attempt.id = i

(* LeasedStream._ended, the gateway's on_end. *)
Ended(i, over) ==
  attempt' = IF ~Wanted(i) THEN attempt
             ELSE IF over THEN None ELSE [attempt EXCEPT !.connected = FALSE]

(* The gateway's expiry thread, and close_node for every stream there is. *)
Expire(i) ==
  /\ stream[i].at = "table" /\ stream[i].left = 0
  /\ stream' = [stream EXCEPT ![i].at = "popped"]
  /\ UNCHANGED <<leases, superv, handler, decoders, sessions, wire, node, silent, mishaps>>

CloseNode ==
  stream' = [i \in Ids |-> IF stream[i].at = "table"
                           THEN [stream[i] EXCEPT !.at = "popped"] ELSE stream[i]]

(* _hang_up: a connection is shut down and reports itself; without one the *)
(* report is made here.                                                    *)
HangUp(i) ==
  /\ stream[i].at = "popped"
  /\ stream' = [stream EXCEPT ![i] = [@ EXCEPT !.at = "gone", !.ended = TRUE, !.left = 0]]
  /\ IF stream[i].conn = None THEN Ended(i, TRUE) ELSE UNCHANGED attempt
  /\ UNCHANGED <<leases, sup, asked, sink, closing, handler, decoders, sessions, wire, node,
                 silent, mishaps>>

------------------------------------------------------------------------------
(* A connection: TLS and the registry first, the table after. *)
Free(h) == handler[h].at = "free" /\ sink # h /\ closing.sink # h

Refuse(h) ==
  /\ publisher' = IF Wired(h) THEN None ELSE publisher
  /\ handler' = [handler EXCEPT ![h] = Unused]

(* _admit under the lock, and LeasedStream._connected, which looks whether *)
(* this attempt is the one wanted; the decoder is started outside the lock *)
(* and stored in a second look at it.                                      *)
Admissible(i) ==
  stream[i].at = "table" /\ ~stream[i].ended /\ stream[i].left > 0 /\ stream[i].conn = None

Admit(h) ==
  /\ handler[h].at = "trusted"
  /\ LET i == handler[h].id IN
     IF Admissible(i)
     THEN /\ stream' = [stream EXCEPT ![i].conn = IF Wanted(i) THEN h ELSE None]
          /\ handler' = [handler EXCEPT ![h].at = IF Wanted(i) THEN "opening" ELSE "ended"]
          /\ UNCHANGED publisher
     ELSE Refuse(h) /\ UNCHANGED stream
  /\ UNCHANGED <<leases, superv, decoders, sessions, wire, grant, silent, mishaps>>

SinkOpened(h) ==
  /\ handler[h].at = "opening"
  /\ handler' = [handler EXCEPT ![h].at = "feeding"]
  /\ decoders' = OpenDecoder(h)
  /\ sink' = h
  /\ attempt' = IF Wanted(handler[h].id)
                THEN [attempt EXCEPT !.connected = TRUE] ELSE attempt
  /\ UNCHANGED <<leases, sup, asked, closing, stream, sessions, wire, node, silent, mishaps>>

(* The node's bytes become a frame, whoever's sink it is. *)
Flows(h) ==
  /\ handler[h].at = "feeding" /\ h \in decoders
  /\ ~stream[handler[h].id].ended
  /\ Wired(h)

Frame(h) ==
  /\ Flows(h) /\ silent > 0
  /\ silent' = 0
  /\ UNCHANGED <<leases, superv, gateway, sessions, wire, node, mishaps>>

(* _carry's finally, under the lock: nothing more comes (hung up, closed   *)
(* by the node), the decoder is gone or never started, or the connection   *)
(* broke or stalled.                                                       *)
CarryEnds(h) ==
  /\ handler[h].at \in {"opening", "feeding"}
  /\ IF handler[h].at = "opening" \/ Flows(h) THEN Mishap ELSE UNCHANGED mishaps
  /\ handler' = [handler EXCEPT ![h].at = "ended", ![h].over = stream[handler[h].id].ended]
  /\ stream' = [stream EXCEPT ![handler[h].id].conn = None]
  /\ UNCHANGED <<leases, superv, decoders, sessions, wire, node, silent>>

(* After it: the decoder is closed and the end reported; the node sees the *)
(* connection close and tries again.                                       *)
CarryReports(h) ==
  /\ handler[h].at = "ended"
  /\ LET i == handler[h].id IN
     /\ decoders' = CloseDecoder(h)
     /\ handler' = [handler EXCEPT ![h] = Unused]
     /\ Ended(i, handler[h].over)
     /\ publisher' = IF Wired(h) THEN [publisher EXCEPT !.wire = None] ELSE publisher
  /\ UNCHANGED <<leases, sup, asked, sink, closing, stream, sessions, wire, grant, silent,
                 mishaps>>

------------------------------------------------------------------------------
(* Agent._apply and _media.  Streams ride on the grant; a stop needs none. *)
AgentApplies(c) ==
  /\ grant' = CASE c.do = "grant" -> c.epoch [] c.do = "revoke" -> 0 [] OTHER -> grant
  /\ publisher' =
       CASE c.do = "revoke" -> None
         [] c.do = "stop" /\ Publishing(c.id) -> None
         [] c.do = "renew" /\ grant = c.epoch /\ Publishing(c.id) ->
              [publisher EXCEPT !.left = Life]
         [] c.do = "start" /\ grant = c.epoch ->
              [id |-> c.id, left |-> Life, wire |-> None]
         [] OTHER -> publisher

Deliver ==
  /\ wire # << >>
  /\ wire' = Tail(wire) /\ AgentApplies(Head(wire))
  /\ UNCHANGED <<leases, superv, gateway, sessions, silent, mishaps>>

(* A reconnection loses what the broker had not passed on. *)
Lose ==
  /\ wire # << >> /\ Head(wire).do # "grant" /\ Mishap
  /\ wire' = Tail(wire)
  /\ UNCHANGED <<leases, superv, gateway, sessions, node, silent>>

(* Publisher._run: connect, while not stopped and not expired; the gateway *)
(* asks the registry before it looks for the stream.                       *)
PublisherConnects ==
  /\ publisher # None /\ publisher.wire = None /\ publisher.left > 0
  /\ \E h \in Handlers : Free(h)
  /\ IF approved
     THEN LET h == CHOOSE k \in Handlers : Free(k) IN
          /\ handler' = [handler EXCEPT ![h] = [Unused EXCEPT !.at = "trusted",
                                                             !.id = publisher.id]]
          /\ publisher' = [publisher EXCEPT !.wire = h]
     ELSE publisher' = None /\ UNCHANGED handler
  /\ UNCHANGED <<leases, superv, stream, decoders, sessions, wire, grant, silent, mishaps>>

PublisherEnds ==
  /\ publisher # None /\ publisher.left = 0
  /\ publisher' = None
  /\ UNCHANGED <<leases, superv, gateway, sessions, wire, grant, silent, mishaps>>

------------------------------------------------------------------------------
(* The node's session: _on_state when it goes and when it comes back, with *)
(* a grant of the new epoch; close_node follows each change.               *)
SessionEnds ==
  /\ session # 0 /\ Mishap
  /\ session' = 0 /\ CloseNode
  /\ UNCHANGED <<leases, superv, handler, decoders, approved, revoking, epochs, wire, node,
                 silent>>

SessionOpens ==
  /\ approved /\ session = 0
  /\ Len(wire) < MaxWire
  /\ epochs' = epochs + 1 /\ session' = epochs + 1 /\ CloseNode
  /\ wire' = Append(wire, Message("grant", None, epochs + 1))
  /\ UNCHANGED <<leases, superv, handler, decoders, approved, revoking, node, silent, mishaps>>

(* SatelliteService.revoke, call by call. *)
RevokeRegistry ==
  /\ revoking = "no" /\ Mishap
  /\ approved' = FALSE /\ revoking' = "sessions"
  /\ UNCHANGED <<leases, superv, gateway, session, epochs, wire, node, silent>>

(* Mutant of RevokeSession: the node's streams are left to run out. *)
RevokeLeavesStreams ==
  /\ revoking = "sessions" /\ revoking' = "done"
  /\ session' = 0 /\ UNCHANGED stream
  /\ Len(wire) < MaxWire /\ wire' = Append(wire, Message("revoke", None, 0))
  /\ UNCHANGED <<leases, superv, handler, decoders, approved, epochs, node, silent, mishaps>>

RevokeSession ==
  /\ revoking = "sessions" /\ revoking' = "done"
  /\ session' = 0 /\ CloseNode
  /\ Len(wire) < MaxWire /\ wire' = Append(wire, Message("revoke", None, 0))
  /\ UNCHANGED <<leases, superv, handler, decoders, approved, epochs, node, silent, mishaps>>

------------------------------------------------------------------------------
(* A unit of time.  A thread that has something to do does it within one,  *)
(* the units being tens of seconds and the threads polling every half      *)
(* second; that one is held up for longer is a fault.                      *)
Due ==
  \/ changed # {} \/ sup \notin {"none", "loop"} \/ (sup = "loop" /\ stopped)
  \/ sup = "loop" /\ attempt = None /\ approved /\ session # 0
  \/ Current /\ (attempt.renewed >= RenewEvery \/ Hopeless)
  \/ wire # << >> \/ revoking = "sessions"
  \/ publisher # None /\ publisher.wire = None
  \/ \E i \in Ids : stream[i].at = "popped"
  \/ \E h \in Handlers : \/ handler[h].at \notin {"free", "feeding"}
                         \/ handler[h].at = "feeding" /\ ~Flows(h)
                         \/ Flows(h) /\ silent > 0

Tick ==
  /\ IF Due THEN Mishap ELSE UNCHANGED mishaps
  /\ silent' = Raise(silent, Stall + 1)
  /\ attempt' = IF attempt = None THEN None
                ELSE [attempt EXCEPT !.age = Raise(@, Patience),
                                     !.renewed = Raise(@, RenewEvery)]
  /\ stream' = [i \in Ids |-> [stream[i] EXCEPT !.left = Lower(@)]]
  /\ publisher' = IF publisher = None THEN None ELSE [publisher EXCEPT !.left = Lower(@)]
  /\ UNCHANGED <<leases, sup, asked, sink, closing, handler, decoders, sessions, wire, grant>>

------------------------------------------------------------------------------
Supervisor == \/ Begin \/ NoRoom \/ Judge \/ Leave
              \/ \E sent \in BOOLEAN : Ask(sent) \/ Renew(sent) \/ EndAttempt(sent)
Lifecycle == \E r \in Readers : Apply(r) \/ Stopped(r)
Gateway(i) == Expire(i) \/ HangUp(i)
Serve(h) == Admit(h) \/ SinkOpened(h) \/ Frame(h) \/ CarryEnds(h)
            \/ CarryReports(h)
Publishes == PublisherConnects \/ PublisherEnds

Next ==
  \/ \E r \in Readers : Hold(r) \/ Release(r)
  \/ Lifecycle \/ Supervisor
  \/ Publishes \/ \E i \in Ids : Gateway(i)
  \/ \E h \in Handlers : Serve(h)
  \/ Deliver \/ Lose \/ SessionEnds \/ SessionOpens
  \/ RevokeRegistry \/ RevokeSession \/ Tick

(* Every thread of the hub and of the node runs, the broker passes on what *)
(* it has, a node that went comes back, and time passes.  Nobody has to    *)
(* take a lease, give one back or revoke the node.                         *)
Fairness ==
  /\ WF_vars(Lifecycle) /\ WF_vars(Supervisor)
  /\ WF_vars(\E i \in Ids : Gateway(i)) /\ \A h \in Handlers : WF_vars(Serve(h))
  /\ WF_vars(Publishes) /\ WF_vars(Deliver \/ SessionOpens)
  /\ WF_vars(RevokeSession) /\ WF_vars(Tick)

Spec == Init /\ [][Next]_vars /\ Fairness

------------------------------------------------------------------------------
(* The gateway holds no stream that nobody will renew or close: a slot of  *)
(* max_streams is not lost when a request fails half way.                  *)
EveryStreamHasAnOwner ==
  \A i \in Ids : stream[i].at = "table" =>
    Wanted(i) \/ closing.id = i

(* From the moment revoke has closed the node's streams, no connection of  *)
(* the node is served that is not being hung up on, although requests,     *)
(* commands and handshakes begun before may still be under way.            *)
RevokedIsCutOff ==
  revoking = "done" =>
    \A h \in Handlers : handler[h].at \in {"opening", "feeding"} =>
      stream[handler[h].id].at # "table"

(* Once nobody holds the camera it falls silent, whatever was lost on the  *)
(* way: no stream is open, nothing on the node runs for it, no decoder is  *)
(* left.                                                                   *)
Quiet == /\ \A i \in Ids : stream[i].at \in {"free", "gone"}
         /\ publisher = None /\ decoders = {}
LeftAloneFallsSilent == (held = {}) ~> (Quiet \/ held # {})

(* While somebody holds the camera its frames come: again and again after  *)
(* every lost command, broken connection and change of session.            *)
Streaming == \E h \in Handlers : Flows(h) /\ silent = 0
WantedIsDelivered == (held # {}) ~> (Streaming \/ held = {} \/ ~approved)

=============================================================================
