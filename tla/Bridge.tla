-------------------------------- MODULE Bridge --------------------------------
(***************************************************************************)
(* A board without a radio (the firmware's main.cpp, bridge.cpp, link.cpp) *)
(* and the process that carries it to the broker (scripts/pico_bridge.py): *)
(* the cable and the Reader at its end (src/sentry_mode/satellites/        *)
(* link.py), one Carried with its MQTT client and will, and the session    *)
(* the hub keeps from what is published.                                   *)
(*                                                                         *)
(* Of a frame only its two parts are seen: the head, with the magic and    *)
(* the length, and the rest, with the checksum.  The frame counter is kept *)
(* modulo CounterMod, enough to tell neighbours apart; console lines, the  *)
(* time, events and the counts are left out.                               *)
(***************************************************************************)
EXTENDS Naturals, Sequences, FiniteSets, SequencesExt

CONSTANTS None,
          MaxConn,     \* connection ids, reused once nothing names them
          CounterMod,  \* the frame counter's width
          Stretch,     \* parts a head with a damaged length waits for
          MaxUp,       \* bound: parts on the cable
          MaxMishaps   \* bound: what may go wrong; see Mishap

ASSUME BridgeConstants ==
  /\ MaxConn \in Nat \ {0} /\ CounterMod \in Nat \ {0} /\ Stretch \in Nat \ {0}
  /\ MaxUp \in Nat /\ MaxUp > Stretch /\ MaxMishaps \in Nat

Conns == 1..MaxConn

(* What a frame carries: the announcement or the farewell of a connection, *)
(* or a report of its health.                                              *)
State == [kind : {"state"}, conn : Conns, online : BOOLEAN]
Said == State \cup [kind : {"health"}, conn : Conns, online : {TRUE}]
Message == [said : Said, counter : 0..(CounterMod - 1)]

Part == [part : {"head", "bent", "rest"}, of : Message]

Client == [will : Conns, up : BOOLEAN, queue : Seq(State)]

ASSUME NoneIsNothing == None \notin State /\ None \notin Client

VARIABLES
  board,      \* the firmware: here, conn, announced, owes, stopping, counter
  plugged,    \* the cable
  up, down,   \* what is on it, either way
  bridge,     \* Carried, and whether its process runs
  broker,     \* whether the broker can be reached
  hub,        \* the connection the hub has a session for
  orphan,     \* history: see Orphaned
  mishaps

vars == <<board, plugged, up, down, bridge, broker, hub, orphan, mishaps>>

(* Carried's fields.  taken: what was handed over last; said: what it has  *)
(* published in the step being taken.                                      *)
Carried == [alive : BOOLEAN, port : BOOLEAN, pending : Seq(Part), taken : Seq(Message),
            state : State \cup {None}, payload : State \cup {None},
            waiting : State \cup {None}, client : Client \cup {None},
            commands : Seq({"stop", "configure"}), said : Seq(State)]

NewCarried == [alive |-> TRUE, port |-> FALSE, pending |-> << >>, taken |-> << >>,
               state |-> None, payload |-> None, waiting |-> None, client |-> None,
               commands |-> << >>, said |-> << >>]

TypeOK ==
  /\ board \in [here : BOOLEAN, conn : Conns, announced : BOOLEAN, owes : BOOLEAN,
                stopping : BOOLEAN, counter : 0..(CounterMod - 1)]
  /\ plugged \in BOOLEAN /\ broker \in BOOLEAN /\ hub \in Conns \cup {None}
  /\ orphan \in BOOLEAN
  /\ up \in Seq(Part) /\ Len(up) <= MaxUp
  /\ down \in Seq({"hello", "stop", "configure"})
  /\ bridge \in Carried /\ bridge.said = << >>
  /\ mishaps \in 0..MaxMishaps

Init ==
  /\ board = [here |-> FALSE, conn |-> 1, announced |-> FALSE, owes |-> FALSE,
              stopping |-> FALSE, counter |-> 0]
  /\ plugged = TRUE /\ up = << >> /\ down = << >>
  /\ bridge = NewCarried /\ broker \in BOOLEAN /\ hub = None
  /\ orphan = FALSE /\ mishaps = 0

(* A byte lost, a board that resets or falls silent, a cable pulled out, a *)
(* broker that goes, a bridge killed or stopped, a board given a command.  *)
Mishap == mishaps < MaxMishaps /\ mishaps' = mishaps + 1

------------------------------------------------------------------------------
(* Reader.feed: _take until there is nothing more to take.  A head waits   *)
(* for as much as it claims; what does not end in the right checksum loses *)
(* its head and is searched again.                                         *)
Claims(p) == IF p.part = "bent" THEN Stretch ELSE 1

(* The first two parts are of one frame, and undamaged. *)
Joined(p) == Len(p) > 1 /\ p[1].part = "head" /\ p[2] = [part |-> "rest", of |-> p[1].of]

Feed[p \in Seq(Part)] ==
  IF p = << >> THEN [frames |-> << >>, pending |-> << >>]
  ELSE IF p[1].part = "rest" THEN Feed[Tail(p)]
  ELSE IF Len(p) <= Claims(p[1]) THEN [frames |-> << >>, pending |-> p]
  ELSE IF Joined(p)
  THEN LET more == Feed[SubSeq(p, 3, Len(p))]
       IN  [more EXCEPT !.frames = << p[1].of >> \o @]
  ELSE Feed[Tail(p)]

(* Mutant of Read: what fails the checksum is thrown away with what it     *)
(* claimed.                                                                *)
FeedSkips[p \in Seq(Part)] ==
  IF p = << >> THEN [frames |-> << >>, pending |-> << >>]
  ELSE IF p[1].part = "rest" THEN FeedSkips[Tail(p)]
  ELSE IF Len(p) <= Claims(p[1]) THEN [frames |-> << >>, pending |-> p]
  ELSE LET more == FeedSkips[SubSeq(p, Claims(p[1]) + 2, Len(p))]
       IN  IF Joined(p) THEN [more EXCEPT !.frames = << p[1].of >> \o @] ELSE more
ReadSkips(p) == FeedSkips[p]

Read(p) == Feed[p]

Pack(m) == << [part |-> "head", of |-> m], [part |-> "rest", of |-> m] >>

------------------------------------------------------------------------------
(* Carried, as operators on its value. *)
Publish(b, s) ==
  CASE b.client = None -> b
    [] b.client # None /\ b.client.up -> [b EXCEPT !.said = Append(@, s)]
    [] OTHER -> [b EXCEPT !.client.queue = Append(@, s)]

GoodbyeFor(s) == [s EXCEPT !.online = FALSE]

(* connect: a client whose will is the goodbye of what it was opened for. *)
Connect(b, s) ==
  [b EXCEPT !.client = [will |-> s.conn, up |-> FALSE, queue |-> << >>], !.state = s]

ReachTheBroker(b) ==
  IF b.waiting = None \/ b.client # None \/ ~broker THEN b
  ELSE [Connect(b, b.waiting) EXCEPT !.waiting = None]

(* Mutant of LetGo: the will is left to say it. *)
LetGoSilently(b) ==
  [b EXCEPT !.port = FALSE, !.state = None, !.payload = None, !.waiting = None, !.client = None]

LetGo(b) ==
  LET told == IF b.client # None /\ b.state # None THEN Publish(b, GoodbyeFor(b.state)) ELSE b
  IN  [told EXCEPT !.port = FALSE, !.state = None, !.payload = None, !.waiting = None,
                   !.client = None]

AStateArrived(b, s) ==
  LET new == b.state = None \/ b.state.conn # s.conn
      kept == [b EXCEPT !.state = s, !.payload = s]
  IN  Publish(IF new /\ s.online THEN ReachTheBroker([kept EXCEPT !.waiting = s]) ELSE kept, s)

Take(b, m) == IF m.said.kind = "state" THEN AStateArrived(b, m.said) ELSE b

(* SessionManager: what is published reaches the hub; a goodbye closes the *)
(* session of the connection it names and no other.                        *)
HubHears(h, s) == CASE s.online -> s.conn [] ~s.online /\ h = s.conn -> None [] OTHER -> h

Names(s, c) == s # None /\ s.conn = c

(* The session the hub has is one this bridge no longer knows it opened:   *)
(* the announcement was replaced, or forgotten in a quiet spell, under a   *)
(* client opened for another.                                              *)
Orphaned ==
  orphan' = /\ hub' # None
            /\ \/ orphan
               \/ bridge'.client # None /\ ~Names(bridge'.state, bridge'.client.will)

Becomes(b) ==
  /\ bridge' = [b EXCEPT !.said = << >>]
  /\ hub' = FoldLeft(HubHears, hub, b.said)
  /\ Orphaned

(* the_cable_went_quiet, with what a hello forgets: what the board owes    *)
(* belongs to the connection.                                              *)
CableWentQuiet(b) == 
  [b EXCEPT !.here = FALSE, !.announced = FALSE, !.owes = FALSE, !.stopping = FALSE]

------------------------------------------------------------------------------
(* The bridge's loop. *)
Running == bridge.alive

OpenThePort ==
  /\ Running /\ ~bridge.port /\ plugged
  /\ bridge' = [bridge EXCEPT !.port = TRUE, !.pending = << >>]
  /\ UNCHANGED <<board, plugged, up, down, broker, hub, orphan, mishaps>>

(* read_what_arrived: the parts that have come in, or a port that no       *)
(* longer answers.                                                         *)
ReadWhatArrived ==
  /\ Running /\ bridge.port /\ plugged /\ up # << >>
  /\ LET fed == Read(Append(bridge.pending, Head(up))) IN
       Becomes(FoldLeft(Take, [bridge EXCEPT !.pending = fed.pending,
                                 !.taken = IF fed.frames = << >> THEN @ ELSE fed.frames],
                        fed.frames))
  /\ up' = Tail(up)
  /\ UNCHANGED <<board, plugged, down, broker, mishaps>>

PortGone ==
  /\ Running /\ bridge.port /\ ~plugged
  /\ Becomes(LetGo(bridge))
  /\ UNCHANGED <<board, plugged, up, down, broker, mishaps>>

(* keep_it_going.  quiet: QUIET_FOR has passed with nothing heard.  A live *)
(* board reports three times in that while and answers a hello well before *)
(* it is repeated, so either with an answer under way is a mishap.         *)
AnswerUnderWay ==
  \/ "hello" \in Range(down)
  \/ board.here /\ ~board.announced
  \/ \E k \in 1..Len(up) : up[k].of.said.kind = "state"

(* Mutant of KeepItGoing: a board that has fallen silent is waited for. *)
KeepWaiting(quiet) ==
  /\ Running
  /\ LET reached == ReachTheBroker(bridge)
         asked == reached
         hello == bridge.port /\ asked.state = None
     IN  /\ quiet => bridge.port /\ plugged
         /\ Becomes(IF hello /\ ~plugged THEN LetGo(asked) ELSE asked)
         /\ down' = IF hello /\ plugged THEN Append(down, "hello") ELSE down
         /\ hello => Len(down) < 2
         /\ IF (quiet /\ (board.here \/ down # << >>)) \/ (hello /\ AnswerUnderWay)
            THEN Mishap ELSE UNCHANGED mishaps
  /\ UNCHANGED <<board, plugged, up, broker>>

KeepItGoing(quiet) ==
  /\ Running
  /\ LET reached == ReachTheBroker(bridge)
         asked == IF quiet THEN [reached EXCEPT !.state = None, !.payload = None] ELSE reached
         hello == bridge.port /\ asked.state = None
     IN  /\ quiet => bridge.port /\ plugged
         /\ Becomes(IF hello /\ ~plugged THEN LetGo(asked) ELSE asked)
         /\ down' = IF hello /\ plugged THEN Append(down, "hello") ELSE down
         /\ hello => Len(down) < 2
         /\ IF (quiet /\ (board.here \/ down # << >>)) \/ (hello /\ AnswerUnderWay)
            THEN Mishap ELSE UNCHANGED mishaps
  /\ UNCHANGED <<board, plugged, up, broker>>

(* hand_over_commands: down the cable, or nowhere without one. *)
HandOverCommands ==
  /\ Running /\ bridge.commands # << >>
  /\ IF bridge.port /\ ~plugged
     THEN Becomes(LetGo([bridge EXCEPT !.commands = Tail(@)])) /\ UNCHANGED down
     ELSE /\ bridge' = [bridge EXCEPT !.commands = Tail(@)] /\ UNCHANGED <<hub, orphan>>
          /\ down' = IF bridge.port THEN Append(down, Head(bridge.commands)) ELSE down
  /\ Len(down) < 2
  /\ UNCHANGED <<board, plugged, up, broker, mishaps>>

(* The loop is interrupted, and lets go on its way out. *)
Stop ==
  /\ Running /\ Mishap
  /\ Becomes([LetGo(bridge) EXCEPT !.alive = FALSE, !.pending = << >>, !.commands = << >>])
  /\ up' = << >> /\ down' = << >>
  /\ board' = CableWentQuiet(board)
  /\ UNCHANGED <<plugged, broker>>

------------------------------------------------------------------------------
(* The MQTT library's thread. *)
Will == [kind |-> "state", conn |-> bridge.client.will, online |-> FALSE]

(* _connected: what the board last announced is said again, then whatever  *)
(* was published while there was no connection.                            *)
Connected ==
  /\ Running /\ bridge.client # None /\ ~bridge.client.up /\ broker
  /\ Becomes([bridge EXCEPT !.client.up = TRUE, !.client.queue = << >>,
                !.said = (IF bridge.payload = None THEN << >> ELSE << bridge.payload >>)
                         \o bridge.client.queue])
  /\ UNCHANGED <<board, plugged, up, down, broker, mishaps>>

ACommandArrived ==
  /\ Running /\ bridge.client # None /\ bridge.client.up /\ hub # None /\ Mishap
  /\ \E c \in {"stop", "configure"} : bridge' = [bridge EXCEPT !.commands = Append(@, c)]
  /\ UNCHANGED <<board, plugged, up, down, broker, hub, orphan>>

(* The connection breaks, with the broker or without; the broker publishes *)
(* the will.                                                               *)
BrokerDrops(still) ==
  /\ Mishap /\ broker /\ broker' = still
  /\ IF bridge.client # None /\ bridge.client.up
     THEN bridge' = [bridge EXCEPT !.client.up = FALSE] /\ hub' = HubHears(hub, Will)
     ELSE UNCHANGED <<bridge, hub>>
  /\ Orphaned
  /\ UNCHANGED <<board, plugged, up, down>>

BrokerBack ==
  /\ ~broker /\ broker' = TRUE
  /\ UNCHANGED <<board, plugged, up, down, bridge, hub, orphan, mishaps>>

Killed ==
  /\ Running /\ Mishap
  /\ bridge' = [NewCarried EXCEPT !.alive = FALSE, !.taken = bridge.taken]
  /\ hub' = IF bridge.client # None /\ bridge.client.up THEN HubHears(hub, Will) ELSE hub
  /\ Orphaned
  /\ up' = << >> /\ down' = << >>
  /\ board' = CableWentQuiet(board)
  /\ UNCHANGED <<plugged, broker>>

Started ==
  /\ ~Running /\ bridge' = [NewCarried EXCEPT !.taken = bridge.taken]
  /\ UNCHANGED <<board, plugged, up, down, broker, hub, orphan, mishaps>>

------------------------------------------------------------------------------
(* The board (firmware/pico/src/device/main.cpp, its half of the cable in   *)
(* bridge.cpp).  A connection id is a fresh UUID.                          *)
Fresh(c) ==
  /\ board.conn # c /\ hub # c
  /\ ~Names(bridge.state, c) /\ ~Names(bridge.waiting, c)
  /\ bridge.client # None => bridge.client.will # c
  /\ \A k \in 1..Len(up \o bridge.pending) : (up \o bridge.pending)[k].of.said.conn # c

(* write_frame_out: the counter is never reset but by the power. *)
Write(kind, online) ==
  /\ Len(up) + 2 <= MaxUp
  /\ up' = up \o Pack([said |-> [kind |-> kind, conn |-> board.conn, online |-> online],
                       counter |-> board.counter])

(* a_bridge_said_hello: a new conversation is a new connection, and what   *)
(* the last one was being told is forgotten, a stop included.  A command   *)
(* before any hello is not answered.                                       *)
BoardHears ==
  /\ plugged /\ down # << >> /\ down' = Tail(down)
  /\ IF Head(down) = "hello"
     THEN /\ \E c \in Conns : Fresh(c)
          /\ board' = [CableWentQuiet(board) EXCEPT !.here = TRUE,
                                    !.conn = CHOOSE c \in Conns : Fresh(c)]
     ELSE board' = [board EXCEPT !.stopping = @ \/ (board.here /\ Head(down) = "stop"),
                                 !.owes = @ \/ (board.here /\ Head(down) = "configure")]
  /\ UNCHANGED <<plugged, up, bridge, broker, hub, orphan, mishaps>>

(* serve_the_bridge, in its order: the announcement; the announcement      *)
(* again, once a command has changed what runs; the farewell, and silence  *)
(* after it; a report.                                                     *)
BoardSpeaks ==
  /\ plugged /\ board.here
  /\ LET said == [board EXCEPT !.announced = TRUE, !.owes = board.owes /\ ~board.announced,
                               !.counter = (@ + 1) % CounterMod]
         still == board.announced /\ ~board.owes
     IN  \/ ~still /\ Write("state", TRUE) /\ board' = said
         \/ still /\ board.stopping /\ Write("state", FALSE) /\ board' = CableWentQuiet(said)
         \/ still /\ ~board.stopping /\ Write("health", TRUE) /\ board' = said
  /\ UNCHANGED <<plugged, down, bridge, broker, hub, orphan, mishaps>>

BoardResets ==
  /\ Mishap
  /\ board' = [CableWentQuiet(board) EXCEPT !.counter = 0]
  /\ down' = << >>
  /\ UNCHANGED <<plugged, up, bridge, broker, hub, orphan>>

------------------------------------------------------------------------------
(* The cable. *)
Unplug ==
  /\ plugged /\ Mishap
  /\ plugged' = FALSE /\ up' = << >> /\ down' = << >>
  /\ board' = CableWentQuiet(board)
  /\ UNCHANGED <<bridge, broker, hub, orphan>>

(* The bridge has noticed: a port that was closed and came back within one *)
(* turn of its loop is a new device to the system and stays closed to it.  *)
PlugIn ==
  /\ ~plugged /\ ~bridge.port /\ plugged' = TRUE
  /\ UNCHANGED <<board, up, down, bridge, broker, hub, orphan, mishaps>>

(* A byte of a part is lost: of the magic or of a payload, and the part is *)
(* as good as gone; of the length, and the head claims something else.     *)
LoseByte(k) ==
  /\ Mishap
  /\ \/ up' = RemoveAt(up, k)
     \/ up[k].part = "head" /\ up' = [up EXCEPT ![k].part = "bent"]
  /\ UNCHANGED <<board, plugged, down, bridge, broker, hub, orphan>>

LoseHello ==
  /\ down # << >> /\ Mishap
  /\ down' = Tail(down)
  /\ UNCHANGED <<board, plugged, up, bridge, broker, hub, orphan>>

------------------------------------------------------------------------------
Loop == OpenThePort \/ ReadWhatArrived \/ PortGone \/ HandOverCommands
        \/ \E quiet \in BOOLEAN : KeepItGoing(quiet)
Board == BoardHears \/ BoardSpeaks
Faults == \/ Stop \/ Killed \/ ACommandArrived \/ BoardResets \/ Unplug \/ LoseHello
          \/ \E still \in BOOLEAN : BrokerDrops(still)
          \/ \E k \in 1..Len(up) : LoseByte(k)

Next == Loop \/ Connected \/ Board \/ BrokerBack \/ Started \/ PlugIn \/ Faults

(* The loop comes round, the library reconnects, the board answers and     *)
(* reports, and the broker comes back.                                     *)
Fairness ==
  /\ WF_vars(OpenThePort) /\ WF_vars(ReadWhatArrived) /\ WF_vars(PortGone)
  /\ WF_vars(HandOverCommands)
  /\ \A quiet \in BOOLEAN : WF_vars(KeepItGoing(quiet) /\ mishaps' = mishaps)
  /\ WF_vars(Connected) /\ WF_vars(BrokerBack)
  /\ WF_vars(BoardHears) /\ WF_vars(BoardSpeaks)

Spec == Init /\ [][Next]_vars /\ Fairness

------------------------------------------------------------------------------
(* The cable is a Channel: whatever bytes it loses and in whatever pieces  *)
(* the rest arrives, frames are handed over in the order they were         *)
(* written, none twice, and one lost byte costs one frame at most.         *)
Parts == IF bridge.port /\ plugged THEN bridge.pending \o up ELSE << >>
Intact[p \in Seq(Part)] ==
  IF p = << >> THEN << >>
  ELSE (IF Joined(p) THEN << p[1].of >> ELSE << >>) \o Intact[Tail(p)]
UnderWay == Intact[Parts]

Cable == INSTANCE Channel WITH Messages <- Message, chan <- UnderWay, got <- bridge.taken,
         faults <- mishaps
CableIsAChannel == Cable!Spec

(* Whichever way a bridge ends, the cable pulled out, the process stopped  *)
(* or killed, the broker gone and back, it leaves no session behind on the *)
(* hub, by its goodbye or by its will; except one it had lost sight of.    *)
UnpluggedIsOffline == bridge.client = None /\ hub # None => orphan

(* While the cable is in and the bridge runs, the hub comes to know the    *)
(* board by the connection it is on, whatever was lost: the hello, the     *)
(* announcement, the broker or either process.  The one way out is a       *)
(* bridge that goes by an older announcement than the board's last.        *)
Mistaken == board.here /\ bridge.state # None /\ ~Names(bridge.payload, board.conn)
CarriedIsKnown ==
  (plugged /\ bridge.alive)
    ~> (~plugged \/ ~bridge.alive \/ Mistaken \/ (board.here /\ hub = board.conn))
===============================================================================
