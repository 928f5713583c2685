-------------------------------- MODULE Agent --------------------------------
(***************************************************************************)
(* The satellite agent's path from a reading to the hub                    *)
(* (satellite/src/sentry_satellite/agent.py, spool.py, commands.py).       *)
(*                                                                         *)
(* Three kinds of thread share the spool and the grant: one driver per     *)
(* source that records readings; the network thread, which dials the hub,  *)
(* takes a batch and sends it one event at a time; and the transport's own *)
(* callback thread, on which commands arrive and baselines are recorded.   *)
(* A step is what one thread does between two points where another can     *)
(* run: numbering a reading and putting it in the spool are two steps, and *)
(* so are reading the grant for an event and handing it to the transport.  *)
(*                                                                         *)
(* The hub is external: any command of Commands may arrive at any time,    *)
(* more than once and in any order.  Time is counted in ticks.             *)
(***************************************************************************)
EXTENDS Spool, FiniteSets

CONSTANTS Commands,      \* what the hub may send: see CommandType
          SeenCapacity,  \* commands.Seen capacity
          Batch,         \* spool.take(8)
          Sizes,         \* how big an encoded event can be
          EncodeLimit,   \* the largest the protocol lets out
          MaxTime, MaxSeq, MaxConn   \* bounds on the counters below

None == [none |-> TRUE]

CommandType == [id : Nat, action : {"grant", "renew", "revoke", "stop"},
                grant : Nat, epoch : Nat, duration : Nat, sequence : Nat]

ASSUME AgentConstants ==
  /\ Commands \subseteq CommandType
  /\ \A c, d \in Commands : c.id = d.id => c = d
  /\ SeenCapacity \in Nat \ {0} /\ Batch \in Nat \ {0}
  /\ Sizes \subseteq Nat \ {0} /\ EncodeLimit \in Nat
  /\ MaxTime \in Nat /\ MaxSeq \in Nat /\ MaxConn \in Nat
  /\ IsFiniteSet(Sources) /\ "command" \notin Sources

Threads == Sources \cup {"command"}

VARIABLES
  now,        \* the agent's monotonic clock
  spool,      \* Agent.spool
  nextSeq,    \* Sequencer._next
  making,     \* what a thread has numbered and not yet put in the spool
  baselines,  \* sources the command thread still has a baseline to record for
  net,        \* the network thread: idle, dialling, sending, exited
  hand,       \* the batch the network thread has taken out of the spool
  delivery,   \* the event it is sending, with the delivery it was given
  conn,       \* MqttTransport.connection_id
  connected,  \* MqttTransport._connected
  linkedAt,   \* Agent._linked_at
  grant,      \* Agent._grant
  seen,       \* commands.Seen, least recently used first
  stopping,   \* Agent._stop
  gone,       \* the goodbye is published and the transport disconnected
  refused,    \* Agent.refused
  published,  \* Agent.published
  stale       \* history: how many of the last sends no valid grant stood behind

vars == <<now, spool, nextSeq, making, baselines, net, hand, delivery, conn,
          connected, linkedAt, grant, seen, stopping, gone, refused, published, stale>>

recording == <<nextSeq, making>>
link      == <<conn, connected, linkedAt>>
commanded == <<grant, seen, baselines, stopping>>
output    == <<published, stale>>

Event == [source : Sources, seq : Nat]

Grant == [grant : Nat, epoch : Nat, expires : Nat, sequence : Nat]

Delivery == [held : Held, conn : Nat, epoch : Nat, grant : Nat,
             replayed : BOOLEAN]

TypeOK ==
  /\ now \in Nat /\ refused \in Nat /\ linkedAt \in Nat /\ conn \in Nat
  /\ spool \in Spools
  /\ nextSeq \in [Sources -> Nat]
  /\ making \in [Threads -> Event \cup {None}]
  /\ baselines \subseteq Sources
  /\ net \in {"idle", "dialling", "sending", "exited"}
  /\ hand \in Seq(Held)
  /\ delivery \in Delivery \cup {None}
  /\ connected \in BOOLEAN /\ stopping \in BOOLEAN /\ gone \in BOOLEAN
  /\ grant \in Grant \cup {None}
  /\ seen \in Seq(Nat)
  /\ published \in Nat /\ stale \in Nat

Init ==
  /\ now = 0 /\ refused = 0 /\ linkedAt = 0 /\ conn = 0
  /\ spool = EmptySpool
  /\ nextSeq = [s \in Sources |-> 0]
  /\ making = [t \in Threads |-> None]
  /\ baselines = {} /\ hand = << >> /\ delivery = None
  /\ net = "idle" /\ connected = FALSE /\ stopping = FALSE /\ gone = FALSE
  /\ grant = None /\ seen = << >> /\ published = 0 /\ stale = 0

(***************************************************************************)
(* Recording: _drive, _baselines and _record.                              *)
(***************************************************************************)
Numbered(t, s) ==
  /\ making[t] = None
  /\ nextSeq[s] < MaxSeq
  /\ nextSeq' = [nextSeq EXCEPT ![s] = @ + 1]
  /\ making' = [making EXCEPT ![t] = [source |-> s, seq |-> nextSeq[s]]]
  /\ UNCHANGED refused

(* _check_value runs after the number is taken: a reading that cannot be   *)
(* sent is counted as refused and leaves a gap in the numbering.           *)
Unsendable(t, s) ==
  /\ making[t] = None
  /\ nextSeq[s] < MaxSeq
  /\ nextSeq' = [nextSeq EXCEPT ![s] = @ + 1]
  /\ refused' = refused + 1
  /\ UNCHANGED making

DriverReads(s) ==
  /\ ~stopping
  /\ Numbered(s, s) \/ Unsendable(s, s)
  /\ UNCHANGED <<now, spool, baselines, net, hand, delivery, link, grant, seen,
                 stopping, gone, output>>

(* baseline(driver) may have nothing to say about a source. *)
TakeBaseline(s) ==
  /\ s \in baselines
  /\ making["command"] = None
  /\ baselines' = baselines \ {s}
  /\ \/ Numbered("command", s)
     \/ Unsendable("command", s)
     \/ UNCHANGED <<recording, refused>>
  /\ UNCHANGED <<now, spool, net, hand, delivery, link, grant, seen, stopping,
                 gone, output>>

PutInSpool(t) ==
  /\ making[t] # None
  /\ \E size \in Sizes :
       spool' = Put(spool, [source |-> making[t].source, seq |-> making[t].seq,
                            size |-> size, queued_at |-> now], now)
  /\ making' = [making EXCEPT ![t] = None]
  /\ UNCHANGED <<now, nextSeq, net, hand, delivery, link, commanded, gone,
                 refused, output>>

(***************************************************************************)
(* The network thread: _network, _connect, _send.                          *)
(***************************************************************************)
Valid(g, t) == g # None /\ t < g.expires

(* _granted.  The mutant forgets that a grant runs out. *)
MaySendAlways == grant # None

MaySend == Valid(grant, now)

(* _delivery: recorded before this link was up.                            *)
Replayed(held) == held.queued_at < linkedAt

Dial ==
  /\ net = "idle" /\ ~connected /\ ~stopping /\ conn < MaxConn
  /\ net' = "dialling" /\ conn' = conn + 1
  /\ UNCHANGED <<now, spool, recording, hand, delivery, connected, linkedAt,
                 commanded, gone, refused, output>>

(* MqttTransport._on_connect, on the callback thread.  The MQTT client     *)
(* redials a link it lost after a second at the earliest, and the network  *)
(* thread has noticed by then and dialled anew.                            *)
LinkUp ==
  /\ net = "dialling" /\ ~connected /\ ~gone
  /\ connected' = TRUE
  /\ UNCHANGED <<now, spool, recording, net, hand, delivery, conn, linkedAt,
                 commanded, gone, refused, output>>

LinkDown ==    \* MqttTransport._on_disconnect
  /\ connected
  /\ connected' = FALSE
  /\ UNCHANGED <<now, spool, recording, net, hand, delivery, conn, linkedAt,
                 commanded, gone, refused, output>>

(* The state is announced as online once the link is up.                   *)
Linked ==
  /\ net = "dialling" /\ connected
  /\ net' = "idle" /\ linkedAt' = now
  /\ UNCHANGED <<now, spool, recording, hand, delivery, conn, connected,
                 commanded, gone, refused, output>>

GiveUp ==
  /\ net = "dialling" /\ ~connected
  /\ net' = "idle"
  /\ UNCHANGED <<now, spool, recording, hand, delivery, link, commanded, gone,
                 refused, output>>

(* Mutant of TakeBatch: a batch that is not full waits. *)
TakeFullBatch ==
  /\ net = "idle" /\ connected /\ ~stopping
  /\ MaySend /\ Len(spool.items) >= Batch
  /\ hand' = Taken(spool, Batch, now)
  /\ spool' = Take(spool, Batch, now)
  /\ net' = IF hand' = << >> THEN "idle" ELSE "sending"
  /\ UNCHANGED <<now, recording, delivery, link, commanded, gone, refused, output>>

TakeBatch ==
  /\ net = "idle" /\ connected /\ ~stopping
  /\ MaySend
  /\ hand' = Taken(spool, Batch, now)
  /\ spool' = Take(spool, Batch, now)
  /\ net' = IF hand' = << >> THEN "idle" ELSE "sending"
  /\ UNCHANGED <<now, recording, delivery, link, commanded, gone, refused, output>>

AfterOne(rest) == IF rest = << >> THEN "idle" ELSE "sending"

(* _send up to the transport: an event with no valid grant goes back, one  *)
(* the protocol will not encode is refused, and the rest get a delivery.   *)
Prepare ==
  /\ net = "sending" /\ delivery = None
  /\ LET held == Head(hand) IN
     /\ hand' = Tail(hand)
     /\ \/ /\ ~MaySend
           /\ spool' = Requeue(spool, held)
           /\ net' = AfterOne(hand')
           /\ UNCHANGED <<delivery, refused>>
        \/ /\ MaySend /\ held.size > EncodeLimit
           /\ refused' = refused + 1
           /\ net' = AfterOne(hand')
           /\ UNCHANGED <<delivery, spool>>
        \/ /\ MaySend /\ held.size <= EncodeLimit
           /\ delivery' = [held |-> held, conn |-> conn, epoch |-> grant.epoch,
                           grant |-> grant.grant,
                           replayed |-> Replayed(held)]
           /\ UNCHANGED <<net, refused, spool>>
  /\ UNCHANGED <<now, recording, link, commanded, gone, output>>

(* The transport takes the event or it does not.  It can take one while    *)
(* the link is already down; without a client it never does.               *)
Published ==
  /\ delivery # None /\ ~gone
  /\ published' = published + 1
  /\ stale' = IF Valid(grant, now) THEN 0 ELSE stale + 1
  /\ delivery' = None
  /\ net' = AfterOne(hand)
  /\ UNCHANGED <<now, spool, recording, hand, link, commanded, gone, refused>>

NotPublished ==
  /\ delivery # None
  /\ spool' = Requeue(spool, delivery.held)
  /\ delivery' = None
  /\ net' = AfterOne(hand)
  /\ UNCHANGED <<now, recording, hand, link, commanded, gone, refused, output>>

(***************************************************************************)
(* Commands: _on_command and _apply, on the transport's callback thread.   *)
(***************************************************************************)
InSeen(id) == \E i \in 1..Len(seen) : seen[i] = id

(* Seen.remember and Seen.outcome both move what they touch to the end.    *)
Touched(id) ==
  LET at     == CHOOSE i \in 1..Len(seen) : seen[i] = id
      others == IF InSeen(id) THEN SubSeq(seen, 1, at - 1) \o SubSeq(seen, at + 1, Len(seen))
                ELSE seen
      all    == Append(others, id)
  IN  IF Len(all) > SeenCapacity THEN Tail(all) ELSE all

Installed(c) == [grant |-> c.grant, epoch |-> c.epoch, sequence |-> c.sequence,
                 expires |-> now + c.duration]

Renewable(c) == grant # None /\ grant.grant = c.grant /\ grant.sequence < c.sequence

Applied(c) ==
  CASE c.action = "revoke" -> grant' = None /\ UNCHANGED <<baselines, stopping>>
    [] c.action = "stop"   -> stopping' = TRUE /\ UNCHANGED <<grant, baselines>>
    [] c.action \in {"grant", "renew"} ->
         /\ UNCHANGED stopping
         /\ IF c.duration > 0 /\ (c.action = "renew" => Renewable(c))
            THEN /\ grant' = Installed(c)
                 /\ baselines' = IF grant = None \/ grant.grant # c.grant
                                 THEN Sources ELSE {}
            ELSE UNCHANGED <<grant, baselines>>

OnCommand(c) ==
  /\ connected
  /\ baselines = {} /\ making["command"] = None
  /\ seen' = Touched(c.id)
  /\ IF InSeen(c.id) THEN UNCHANGED <<grant, baselines, stopping>> ELSE Applied(c)
  /\ stale' = IF grant' \in {grant, None} THEN stale ELSE 0
  /\ UNCHANGED <<now, spool, recording, net, hand, delivery, link, gone,
                 refused, published>>

(***************************************************************************)
(* Stopping: request_stop, the end of _network, stop.                      *)
(***************************************************************************)
RequestStop ==
  /\ ~stopping
  /\ stopping' = TRUE
  /\ UNCHANGED <<now, spool, recording, baselines, net, hand, delivery, link,
                 grant, seen, gone, refused, output>>

NetworkExits ==
  /\ net = "idle" /\ stopping
  /\ net' = "exited"
  /\ UNCHANGED <<now, spool, recording, hand, delivery, link, commanded, gone,
                 refused, output>>

(* stop joins the threads for a while and goes on without those that stay. *)
Goodbye ==
  /\ stopping /\ ~gone
  /\ gone' = TRUE /\ connected' = FALSE
  /\ UNCHANGED <<now, spool, recording, net, hand, delivery, conn, linkedAt,
                 commanded, refused, output>>

Tick ==
  /\ now < MaxTime
  /\ now' = now + 1
  /\ UNCHANGED <<spool, recording, net, hand, delivery, link, commanded, gone,
                 refused, output>>

NetworkThread == Dial \/ Linked \/ GiveUp \/ TakeBatch \/ Prepare \/ Published
                 \/ NotPublished \/ NetworkExits

Next ==
  \/ \E s \in Sources : DriverReads(s) \/ TakeBaseline(s)
  \/ \E t \in Threads : PutInSpool(t)
  \/ NetworkThread
  \/ LinkUp \/ LinkDown
  \/ \E c \in Commands : OnCommand(c)
  \/ RequestStop \/ Goodbye
  \/ Tick

Spec == Init /\ [][Next]_vars

(* The network thread keeps running, and a transport asked again and again *)
(* takes an event sometime.                                                *)
FairSpec ==
  /\ Spec
  /\ WF_vars(NetworkThread)
  /\ SF_vars(Published)
==============================================================================
