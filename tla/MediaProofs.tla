---------------------------- MODULE MediaProofs ----------------------------
(***************************************************************************)
(* A satellite's camera, for any number of readers, streams and            *)
(* connections and any number of mishaps: the gateway holds no stream that *)
(* nobody will renew or close, and a revoked node is cut off.              *)
(*                                                                         *)
(* The first needs to know where the supervisor is: what it took from an   *)
(* attempt is still to be closed only while it is ending, so taking the    *)
(* next never forgets one.  The second that a connection's stream is never *)
(* the one being asked for: a revoked node gets no new connection, and a   *)
(* stream opened late has none.  The types need that a session costs a     *)
(* mishap to end, which bounds the epochs on their way.                    *)
(***************************************************************************)
EXTENDS Media, TLAPS

Commands == {c \in Command : c.do = "start" => c.id \in Ids}

Shapes ==
  /\ sup \in Supervising /\ asked \in Nat
  /\ attempt \in Attempt \cup {None} /\ sink \in Handlers \cup {None}
  /\ closing \in [id : Ids \cup {None}, sink : Handlers \cup {None}]
  /\ stream \in [Ids -> Stream] /\ handler \in [Handlers -> Handler]
  /\ revoking \in {"no", "sessions", "done"}
  /\ session \in Nat /\ epochs \in Nat
  /\ wire \in Seq(Commands) /\ publisher \in Publisher \cup {None}

(* Where the supervisor is says what it has in hand. *)
InHand ==
  /\ sup \in {"none", "ending", "last"} => attempt = None
  /\ sup = "asking" => attempt # None /\ attempt.id = None
  /\ sup = "loop" /\ attempt # None => attempt.id \in Ids
  /\ sup \notin {"ending", "last"} => closing.id = None

(* What was hung up on is out of the table for good. *)
EndedIsGone ==
  /\ \A i \in Ids : stream[i].ended => stream[i].at = "gone"
  /\ \A h \in Handlers :
       /\ handler[h].at # "free" => handler[h].id \in Ids
       /\ handler[h].over => handler[h].at = "ended" /\ stream[handler[h].id].at = "gone"

MInv == Shapes /\ InHand /\ EndedIsGone /\ EveryStreamHasAnOwner

(* No connection of a revoked node has a stream in the table. *)
CutInv ==
  /\ revoking # "no" => ~approved
  /\ revoking = "done" =>
       \A h \in Handlers : handler[h].id # None => stream[handler[h].id].at # "table"

------------------------------------------------------------------------------
(* The parts of the state stay well-formed.                                *)

LEMMA SendShapes ==
  ASSUME Shapes, NEW c \in Commands, NEW sent, Send(c, sent)
  PROVE  wire' \in Seq(Commands)
BY DEF Shapes, Send

LEMMA MessageIsCommand ==
  ASSUME NEW do \in {"start", "renew", "stop", "grant", "revoke"}, NEW id \in Ids \cup {None},
         NEW epoch \in Nat, do = "start" => id \in Ids
  PROVE  Message(do, id, epoch) \in Commands
BY DEF Message, Commands, Command

(* What the supervisor takes leaves nothing behind. *)
LEMMA Takes ==
  ASSUME Shapes, NEW next \in Supervising, TakeAttempt(next)
  PROVE  /\ attempt' = None /\ sink' = None /\ sup' = next
         /\ closing' \in [id : Ids \cup {None}, sink : Handlers \cup {None}]
         /\ closing'.id = IF attempt = None THEN None ELSE attempt.id
<1>1. (IF attempt = None THEN None ELSE attempt.id) \in Ids \cup {None}
  BY DEF Shapes, Attempt
<1> QED  BY <1>1 DEF Shapes, TakeAttempt

LEMMA CloseNodeFalls ==
  ASSUME Shapes, CloseNode
  PROVE  /\ stream' \in [Ids -> Stream]
         /\ \A i \in Ids : /\ stream'[i].ended = stream[i].ended
                           /\ stream'[i].at # "table"
                           /\ stream[i].at = "gone" => stream'[i].at = "gone"
<1>1. \A i \in Ids : /\ stream[i] \in Stream /\ [stream[i] EXCEPT !.at = "popped"] \in Stream
                     /\ [stream[i] EXCEPT !.at = "popped"].ended = stream[i].ended
                     /\ [stream[i] EXCEPT !.at = "popped"].at = "popped"
  BY DEF Shapes, Stream
<1> QED  BY <1>1 DEF CloseNode

(* Assigning to one part of a stream. *)
PutAt(s, place) == [s EXCEPT !.at = place]
PutLeft(s, left) == [s EXCEPT !.left = left]
PutConn(s, conn) == [s EXCEPT !.conn = conn]
PutEnded(s) == [s EXCEPT !.ended = TRUE]

LEMMA StreamParts ==
  ASSUME NEW s \in Stream
  PROVE  /\ \A p \in {"free", "table", "popped", "gone"} :
              PutAt(s, p) \in Stream /\ PutAt(s, p).at = p /\ PutAt(s, p).ended = s.ended
         /\ \A l \in 0..Life :
              /\ PutLeft(s, l) \in Stream
              /\ PutLeft(s, l).at = s.at /\ PutLeft(s, l).ended = s.ended
         /\ \A c \in Handlers \cup {None} :
              /\ PutConn(s, c) \in Stream
              /\ PutConn(s, c).at = s.at /\ PutConn(s, c).ended = s.ended
         /\ PutEnded(s) \in Stream /\ PutEnded(s).at = s.at
BY DEF Stream, PutAt, PutLeft, PutConn, PutEnded

LEMMA LifeIsALife == Life \in 0..Life /\ 0 \in 0..Life
BY MediaConstants

(* The steps that change no stream and no connection. *)
LEMMA QuietShapes ==
  ASSUME Shapes, UNCHANGED <<stream, handler>>,
         \/ \E r \in Readers : Hold(r) \/ Release(r) \/ Apply(r) \/ Stopped(r)
         \/ Begin \/ NoRoom \/ Judge \/ Leave \/ Lose \/ RevokeRegistry \/ PublisherEnds
         \/ \E h \in Handlers : Frame(h)
         \/ UNCHANGED vars
  PROVE  Shapes'
<1>1. CASE \/ \E r \in Readers : Hold(r) \/ Release(r) \/ Apply(r) \/ Stopped(r)
           \/ \E h \in Handlers : Frame(h)
  <2>1. /\ sup' \in Supervising /\ attempt' \in {attempt, None} /\ sink' \in {sink, None}
        /\ UNCHANGED <<asked, closing, stream, handler, revoking, session, epochs, wire, publisher>>
    BY <1>1 DEF Hold, Release, Apply, Stopped, Frame, superv, sessions, gateway, node, Shapes,
                Supervising
  <2> QED  BY <2>1 DEF Shapes
<1>2. CASE Begin
  <2>1. FreshAttempt \in Attempt
    BY MediaConstants DEF FreshAttempt, Attempt
  <2> QED  BY <1>2, <2>1 DEF Begin, Shapes, leases, gateway, sessions, node, Supervising
<1>3. CASE NoRoom
  BY <1>3 DEF NoRoom, Shapes, leases, gateway, sessions, node, Supervising
<1>4. CASE Judge \/ Leave
  <2>1. \E next \in Supervising : TakeAttempt(next)
    BY <1>4 DEF Judge, Leave, Supervising
  <2> QED  BY <1>4, <2>1, Takes DEF Judge, Leave, Shapes, leases, gateway, sessions, node
<1>5. CASE Lose
  <2>1. wire' \in Seq(Commands)
    BY <1>5 DEF Lose, Shapes
  <2> QED  BY <1>5, <2>1 DEF Lose, Shapes, superv, gateway, sessions, node
<1>6. CASE RevokeRegistry
  BY <1>6 DEF RevokeRegistry, Shapes, superv, gateway, node
<1>7. CASE PublisherEnds
  BY <1>7 DEF PublisherEnds, Shapes, superv, gateway, sessions
<1>8. CASE UNCHANGED vars
  BY <1>8 DEF vars, Shapes
<1> QED  BY <1>1, <1>2, <1>3, <1>4, <1>5, <1>6, <1>7, <1>8

(* Agent._media's streams are ones it was asked for. *)
LEMMA DeliverShapes == ASSUME Shapes, Deliver PROVE Shapes'
<1>1. wire' \in Seq(Commands) /\ Head(wire) \in Commands /\ AgentApplies(Head(wire))
  BY DEF Deliver, Shapes
<1>2. PICK c \in Commands : AgentApplies(c)
  BY <1>1
<1>3. publisher' \in Publisher \cup {None}
  <2>1. publisher # None => [publisher EXCEPT !.left = Life] \in Publisher
    BY MediaConstants DEF Shapes, Publisher
  <2>2. c.do = "start" => [id |-> c.id, left |-> Life, wire |-> None] \in Publisher
    BY MediaConstants DEF Commands, Publisher
  <2>3. \/ publisher' \in {None, publisher}
        \/ publisher # None /\ publisher' = [publisher EXCEPT !.left = Life]
        \/ c.do = "start" /\ publisher' = [id |-> c.id, left |-> Life, wire |-> None]
    BY <1>2 DEF AgentApplies, Publishing
  <2> QED  BY <2>1, <2>2, <2>3 DEF Shapes
<1> QED  BY <1>1, <1>3 DEF Deliver, Shapes, superv, gateway, sessions

------------------------------------------------------------------------------
(* Owners.                                                                 *)

(* Streams are only taken out of the table, with the attempt kept. *)
LEMMA StreamsFall ==
  ASSUME MInv, Shapes', sup' = sup, closing' = closing, handler' = handler,
         attempt' = None <=> attempt = None,
         attempt # None => attempt'.id = attempt.id,
         \A i \in Ids : /\ stream'[i].ended = stream[i].ended
                        /\ stream'[i].at = "table" => stream[i].at = "table"
                        /\ stream[i].at = "gone" => stream'[i].at = "gone"
  PROVE  MInv'
<1>1. InHand'
  BY DEF MInv, InHand
<1>2. EndedIsGone'
  BY DEF MInv, EndedIsGone
<1>3. EveryStreamHasAnOwner'
  BY DEF MInv, EveryStreamHasAnOwner, Wanted
<1> QED  BY <1>1, <1>2, <1>3 DEF MInv

(* The steps that change no stream and no connection. *)
LEMMA QuietOwners ==
  ASSUME MInv,
         \/ \E r \in Readers : Hold(r) \/ Release(r) \/ Apply(r) \/ Stopped(r)
         \/ Begin \/ NoRoom \/ Judge \/ Leave \/ Lose \/ RevokeRegistry \/ PublisherEnds
         \/ \E h \in Handlers : Frame(h)
         \/ UNCHANGED vars \/ Deliver
  PROVE  MInv' /\ UNCHANGED <<stream, handler>>
<1>1. UNCHANGED <<stream, handler>>
  BY DEF Hold, Release, Apply, Stopped, Begin, NoRoom, Judge, Leave, Lose, RevokeRegistry,
         PublisherEnds, Frame, vars, Deliver, gateway
<1>2. Shapes'
  BY <1>1, QuietShapes, DeliverShapes DEF MInv
<1>3. EndedIsGone'
  BY <1>1 DEF MInv, EndedIsGone
<1>4. InHand' /\ EveryStreamHasAnOwner'
  <2>1. CASE \/ Lose \/ RevokeRegistry \/ PublisherEnds \/ UNCHANGED vars \/ Deliver
             \/ \E r \in Readers : Hold(r) \/ Release(r)
             \/ \E h \in Handlers : Frame(h)
    <3>1. UNCHANGED <<sup, attempt, closing>>
      BY <2>1 DEF Lose, RevokeRegistry, PublisherEnds, vars, Deliver, Hold, Release, Frame, superv
    <3> QED  BY <1>1, <3>1 DEF MInv, InHand, EveryStreamHasAnOwner, Wanted
  <2>2. CASE \E r \in Readers : Apply(r) \/ Stopped(r)
    <3>1. /\ closing' = closing
          /\ attempt' = attempt \/ (attempt' = None /\ attempt = None)
          /\ sup' = sup \/ (sup = "none" /\ sup' = "loop")
      BY <2>2 DEF Apply, Stopped, MInv, InHand
    <3> QED  BY <1>1, <3>1 DEF MInv, InHand, EveryStreamHasAnOwner, Wanted
  <2>3. CASE Begin \/ NoRoom
    <3>1. /\ closing' = closing /\ \A i \in Ids : ~Wanted(i)
      BY <2>3, MediaConstants DEF Begin, NoRoom, MInv, InHand, Wanted
    <3>2. InHand'
      <4>1. FreshAttempt # None /\ FreshAttempt.id = None
        <5>1. FreshAttempt \in Attempt /\ FreshAttempt.id = None
          BY MediaConstants DEF FreshAttempt, Attempt
        <5> QED  BY <5>1, NoneIsApart
      <4> QED  BY <2>3, <4>1 DEF Begin, NoRoom, MInv, InHand
    <3> QED  BY <1>1, <3>1, <3>2 DEF MInv, EveryStreamHasAnOwner, Wanted
  <2>4. CASE Judge \/ Leave
    <3>1. sup = "loop" /\ \E next \in {"ending", "last"} : TakeAttempt(next)
      BY <2>4 DEF Judge, Leave, Current
    <3>2. /\ attempt' = None /\ sup' \in {"ending", "last"}
          /\ closing'.id = IF attempt = None THEN None ELSE attempt.id
      BY <3>1, Takes DEF MInv, Supervising
    <3>3. closing.id = None
      BY <3>1 DEF MInv, InHand
    <3> QED  BY <1>1, <3>2, <3>3, MediaConstants DEF MInv, InHand, EveryStreamHasAnOwner, Wanted
  <2> QED  BY <2>1, <2>2, <2>3, <2>4
<1> QED  BY <1>1, <1>2, <1>3, <1>4 DEF MInv

(* Expiry, the node's session, revocation and time. *)
LEMMA FallOwners ==
  ASSUME MInv, (\E i \in Ids : Expire(i)) \/ SessionEnds \/ SessionOpens \/ RevokeSession
  PROVE  /\ MInv' /\ handler' = handler
         /\ \A i \in Ids : stream'[i].at = "table" => stream[i].at = "table"
<1>1. UNCHANGED <<sup, asked, attempt, sink, closing, handler, publisher>>
  BY DEF Expire, SessionEnds, SessionOpens, RevokeSession, superv, node
<1>2. /\ stream' \in [Ids -> Stream]
      /\ \A i \in Ids : /\ stream'[i].ended = stream[i].ended
                        /\ stream'[i].at = "table" => stream[i].at = "table"
                        /\ stream[i].at = "gone" => stream'[i].at = "gone"
  <2>1. ASSUME NEW i \in Ids, Expire(i)
        PROVE  stream' \in [Ids -> Stream]
               /\ \A k \in Ids : /\ stream'[k].ended = stream[k].ended
                                 /\ stream'[k].at = "table" => stream[k].at = "table"
                                 /\ stream[k].at = "gone" => stream'[k].at = "gone"
    <3>1. stream' = [stream EXCEPT ![i].at = "popped"] /\ stream[i].at = "table"
      BY <2>1 DEF Expire
    <3> QED  BY <3>1 DEF MInv, Shapes, Stream
  <2>2. CASE SessionEnds \/ SessionOpens \/ RevokeSession
    BY <2>2, CloseNodeFalls DEF MInv, SessionEnds, SessionOpens, RevokeSession
  <2> QED  BY <2>1, <2>2
<1>3. Shapes'
  <2>1. wire' \in Seq(Commands)
    <3>1. CASE (\E i \in Ids : Expire(i)) \/ SessionEnds
      BY <3>1 DEF Expire, SessionEnds, MInv, Shapes
    <3>2. CASE SessionOpens
      <4>1. epochs + 1 \in Nat
        BY DEF MInv, Shapes
      <4>2. Message("grant", None, epochs + 1) \in Commands
        BY <4>1, MessageIsCommand
      <4> QED  BY <3>2, <4>2 DEF SessionOpens, MInv, Shapes
    <3>3. CASE RevokeSession
      <4>1. Message("revoke", None, 0) \in Commands
        BY MessageIsCommand
      <4> QED  BY <3>3, <4>1 DEF RevokeSession, MInv, Shapes
    <3> QED  BY <3>1, <3>2, <3>3
  <2>2. session' \in Nat /\ epochs' \in Nat /\ revoking' \in {"no", "sessions", "done"}
    BY DEF Expire, SessionEnds, SessionOpens, RevokeSession, sessions, MInv, Shapes
  <2> QED  BY <1>1, <1>2, <2>1, <2>2 DEF MInv, Shapes
<1> QED  BY <1>1, <1>2, <1>3, StreamsFall

LEMMA TickOwners ==
  ASSUME MInv, Tick
  PROVE  /\ MInv' /\ handler' = handler
         /\ \A i \in Ids : stream'[i].at = "table" => stream[i].at = "table"
<1>1. /\ stream' \in [Ids -> Stream]
      /\ \A i \in Ids : stream'[i].ended = stream[i].ended /\ stream'[i].at = stream[i].at
  <2>1. \A i \in Ids : /\ [stream[i] EXCEPT !.left = Lower(@)] \in Stream
                       /\ [stream[i] EXCEPT !.left = Lower(@)].ended = stream[i].ended
                       /\ [stream[i] EXCEPT !.left = Lower(@)].at = stream[i].at
    <3>1. \A n \in 0..Life : Lower(n) \in 0..Life
      BY MediaConstants DEF Lower
    <3> QED  BY <3>1 DEF MInv, Shapes, Stream
  <2>2. stream' = [i \in Ids |-> [stream[i] EXCEPT !.left = Lower(@)]]
    BY DEF Tick
  <2> QED  BY <2>1, <2>2
<1>2. /\ attempt' \in Attempt \cup {None}
      /\ attempt' = None <=> attempt = None
      /\ attempt # None => attempt'.id = attempt.id
  <2>1. CASE attempt = None
    BY <2>1 DEF Tick
  <2>2. CASE attempt # None
    <3>1. attempt \in Attempt
      BY <2>2 DEF MInv, Shapes
    <3>2. attempt' = [[attempt EXCEPT !.age = Raise(@, Patience)]
                               EXCEPT !.renewed = Raise(@, RenewEvery)]
      BY <2>2 DEF Tick
    <3>3. /\ Raise(attempt.age, Patience) \in 0..Patience
          /\ Raise(attempt.renewed, RenewEvery) \in 0..RenewEvery
      BY <3>1, MediaConstants DEF Attempt, Raise
    <3>4. attempt' \in Attempt /\ attempt'.id = attempt.id
      BY <3>1, <3>2, <3>3 DEF Attempt
    <3> QED  BY <2>2, <3>4, NoneIsApart
  <2> QED  BY <2>1, <2>2
<1>3. publisher' \in Publisher \cup {None}
  <2>1. ASSUME publisher # None PROVE [publisher EXCEPT !.left = Lower(@)] \in Publisher
    <3>1. publisher \in Publisher
      BY <2>1 DEF MInv, Shapes
    <3>2. \A l : l \in 0..Life => Lower(l) \in 0..Life
      BY MediaConstants DEF Lower
    <3>3. publisher.left \in 0..Life
      BY <3>1 DEF Publisher
    <3> QED  BY <3>1, <3>2, <3>3 DEF Publisher
  <2> QED  BY <2>1 DEF Tick
<1>4. UNCHANGED <<sup, asked, sink, closing, handler, revoking, session, epochs, wire>>
  BY DEF Tick, sessions
<1>5. Shapes'
  BY <1>1, <1>2, <1>3, <1>4 DEF MInv, Shapes
<1> QED  BY <1>1, <1>2, <1>4, <1>5, StreamsFall

(* A stream that comes into the table has no connection, and connections   *)
(* come only to an approved node.                                          *)
CutKept ==
  /\ \A i \in Ids : stream'[i].at = "table" =>
       stream[i].at = "table" \/ \A h \in Handlers : handler[h].id # i
  /\ \A h \in Handlers : handler'[h].id # None => handler'[h].id = handler[h].id \/ approved

(* MediaGateway.open, and the command. *)
LEMMA AskOwners ==
  ASSUME MInv, NEW sent \in BOOLEAN, Ask(sent)
  PROVE  MInv' /\ CutKept
<1>1. /\ sup = "asking" /\ sup' = "loop" /\ asked' = 0
      /\ UNCHANGED <<sink, closing, handler, revoking, session, epochs, publisher>>
  BY DEF Ask, sessions, node
<1> DEFINE c == CHOOSE j \in Ids : ~Referred(j)
<1>2. c \in Ids /\ ~Referred(c)
  BY DEF Ask
<1>3. /\ stream' = [stream EXCEPT ![c] =
            [NoStream EXCEPT !.at = IF sent THEN "table" ELSE "popped", !.left = Life]]
      /\ attempt' = IF sent THEN [attempt EXCEPT !.id = c] ELSE None
      /\ Send(Message("start", c, asked), sent)
  BY DEF Ask
<1> HIDE DEF c
<1>4. PICK i \in Ids :
        /\ ~Referred(i)
        /\ stream' = [stream EXCEPT ![i] =
             [NoStream EXCEPT !.at = IF sent THEN "table" ELSE "popped", !.left = Life]]
        /\ attempt' = IF sent THEN [attempt EXCEPT !.id = i] ELSE None
        /\ Send(Message("start", i, asked), sent)
  BY <1>2, <1>3
<1>5. /\ closing.id # i /\ \A h \in Handlers : handler[h].id # i
      /\ attempt \in Attempt /\ attempt # None /\ attempt.id = None
      /\ \A k \in Ids : ~Wanted(k)
  BY <1>1, <1>4, MediaConstants DEF Referred, MInv, Shapes, InHand, Wanted
<1> DEFINE new == [NoStream EXCEPT !.at = IF sent THEN "table" ELSE "popped", !.left = Life]
<1>6. new \in Stream /\ ~new.ended /\ new.at = IF sent THEN "table" ELSE "popped"
  <2> DEFINE place == IF sent THEN "table" ELSE "popped"
  <2>1. NoStream \in Stream /\ ~NoStream.ended
    BY LifeIsALife DEF NoStream, Stream
  <2>2. new = PutLeft(PutAt(NoStream, place), Life)
    BY DEF PutLeft, PutAt
  <2>3. place \in {"free", "table", "popped", "gone"}
    OBVIOUS
  <2> HIDE DEF place, NoStream, new
  <2>4. PutAt(NoStream, place) \in Stream /\ PutAt(NoStream, place).at = place
        /\ ~PutAt(NoStream, place).ended
    BY <2>1, <2>3, StreamParts
  <2>5. new \in Stream /\ ~new.ended /\ new.at = place
    BY <2>2, <2>4, StreamParts, LifeIsALife
  <2> QED  BY <2>5 DEF place
<1> HIDE DEF new
<1>7. stream' = [stream EXCEPT ![i] = new]
  BY <1>4 DEF new
<1>8. /\ stream' \in [Ids -> Stream] /\ stream'[i] = new
      /\ \A k \in Ids \ {i} : stream'[k] = stream[k]
  BY <1>6, <1>7 DEF MInv, Shapes
<1>9. /\ attempt' \in Attempt \cup {None} /\ (sent => attempt' # None /\ attempt'.id = i)
      /\ (~sent => attempt' = None)
  <2>1. [attempt EXCEPT !.id = i] \in Attempt /\ [attempt EXCEPT !.id = i].id = i
    BY <1>5 DEF Attempt
  <2> QED  BY <1>4, <2>1, NoneIsApart
<1>10. Shapes'
  <2>1. Message("start", i, asked) \in Commands
    BY MessageIsCommand DEF MInv, Shapes
  <2>2. wire' \in Seq(Commands)
    BY <1>4, <2>1, SendShapes DEF MInv
  <2> QED  BY <1>1, <1>8, <1>9, <2>2 DEF MInv, Shapes, Supervising
<1>11. InHand'
  BY <1>1, <1>9 DEF MInv, InHand
<1>12. EndedIsGone'
  BY <1>1, <1>5, <1>6, <1>8 DEF MInv, EndedIsGone
<1>13. EveryStreamHasAnOwner'
  <2> SUFFICES ASSUME NEW k \in Ids, stream'[k].at = "table" PROVE Wanted(k)' \/ closing.id = k
    BY <1>1 DEF EveryStreamHasAnOwner
  <2>1. CASE k = i
    BY <1>6, <1>8, <1>9, <2>1 DEF Wanted
  <2>2. CASE k # i
    BY <1>5, <1>8, <2>2 DEF MInv, EveryStreamHasAnOwner
  <2> QED  BY <2>1, <2>2
<1> QED  BY <1>1, <1>5, <1>8, <1>10, <1>11, <1>12, <1>13 DEF MInv, CutKept

(* The supervisor gives its attempt up, and the rest of _end_attempt. *)
LEMMA RenewOwners ==
  ASSUME MInv, NEW sent \in BOOLEAN, Renew(sent)
  PROVE  MInv' /\ CutKept
<1>1. /\ sup = "loop" /\ attempt # None /\ attempt \in Attempt /\ attempt.id \in Ids
      /\ closing.id = None
      /\ UNCHANGED <<asked, handler, revoking, session, epochs, publisher>>
  BY DEF Renew, Current, sessions, node, MInv, Shapes, InHand
<1>2. /\ stream' \in [Ids -> Stream]
      /\ \A i \in Ids : stream'[i].at = stream[i].at /\ stream'[i].ended = stream[i].ended
  <2>1. stream' = stream \/ stream' = [stream EXCEPT ![attempt.id].left = Life]
    BY DEF Renew
  <2>2. CASE stream' = [stream EXCEPT ![attempt.id].left = Life]
    <3>1. /\ stream' = [stream EXCEPT ![attempt.id] = PutLeft(stream[attempt.id], Life)]
          /\ stream[attempt.id] \in Stream
      BY <1>1, <2>2 DEF MInv, Shapes, PutLeft
    <3>2. /\ PutLeft(stream[attempt.id], Life) \in Stream
          /\ PutLeft(stream[attempt.id], Life).at = stream[attempt.id].at
          /\ PutLeft(stream[attempt.id], Life).ended = stream[attempt.id].ended
      BY <3>1, StreamParts, LifeIsALife
    <3> QED  BY <1>1, <3>1, <3>2 DEF MInv, Shapes
  <2> QED  BY <2>1, <2>2 DEF MInv, Shapes
<1>3. wire' \in Seq(Commands)
  <2>1. Message("renew", attempt.id, session) \in Commands
    BY <1>1, MessageIsCommand DEF MInv, Shapes
  <2> QED  BY <2>1, SendShapes DEF Renew, MInv, Shapes
<1>4. \/ TakeAttempt("ending")
      \/ /\ attempt' = [attempt EXCEPT !.renewed = 0] /\ UNCHANGED <<sup, sink, closing>>
  BY DEF Renew
<1>5. CASE TakeAttempt("ending")
  <2>1. /\ attempt' = None /\ sink' = None /\ sup' = "ending" /\ closing'.id = attempt.id
        /\ closing' \in [id : Ids \cup {None}, sink : Handlers \cup {None}]
    BY <1>1, <1>5, Takes DEF Supervising, MInv
  <2>2. Shapes'
    BY <1>1, <1>2, <1>3, <2>1 DEF MInv, Shapes, Supervising
  <2>3. InHand' /\ EndedIsGone'
    BY <1>1, <1>2, <2>1 DEF MInv, InHand, EndedIsGone
  <2>4. EveryStreamHasAnOwner'
    BY <1>1, <1>2, <2>1, MediaConstants DEF MInv, EveryStreamHasAnOwner, Wanted
  <2> QED  BY <1>1, <1>2, <2>2, <2>3, <2>4 DEF MInv, CutKept
<1>6. CASE attempt' = [attempt EXCEPT !.renewed = 0] /\ UNCHANGED <<sup, sink, closing>>
  <2>1. attempt' \in Attempt /\ attempt'.id = attempt.id
    BY <1>1, <1>6, MediaConstants DEF Attempt
  <2>2. attempt' # None
    BY <2>1, NoneIsApart
  <2>3. Shapes'
    BY <1>1, <1>2, <1>3, <1>6, <2>1 DEF MInv, Shapes
  <2> QED  BY <1>1, <1>2, <1>6, <2>1, <2>2, <2>3, StreamsFall DEF CutKept
<1> QED  BY <1>4, <1>5, <1>6

LEMMA EndAttemptOwners ==
  ASSUME MInv, NEW sent \in BOOLEAN, EndAttempt(sent)
  PROVE  MInv' /\ CutKept
<1>1. /\ sup \in {"ending", "last"} /\ sup' \in {"loop", "none"} /\ attempt = None
      /\ closing' = [id |-> None, sink |-> None]
      /\ UNCHANGED <<asked, attempt, sink, handler, revoking, session, epochs, publisher>>
  BY DEF EndAttempt, sessions, node, MInv, InHand
<1>2. /\ stream' \in [Ids -> Stream]
      /\ \A i \in Ids : /\ stream'[i].ended = stream[i].ended
                        /\ stream'[i].at = "table" => stream[i].at = "table" /\ closing.id # i
                        /\ stream[i].at = "gone" => stream'[i].at = "gone"
  <2>1. CASE closing.id = None
    BY <2>1, MediaConstants DEF EndAttempt, MInv, Shapes
  <2>2. CASE closing.id # None
    <3>1. PICK i \in Ids : i = closing.id
      BY <2>2 DEF MInv, Shapes
    <3>2. stream' = [stream EXCEPT ![i].at = IF @ = "table" THEN "popped" ELSE @]
      BY <2>2, <3>1 DEF EndAttempt
    <3> DEFINE place == IF stream[i].at = "table" THEN "popped" ELSE stream[i].at
    <3>3. place \in {"free", "popped", "gone"} /\ (stream[i].at = "gone" => place = "gone")
      BY DEF MInv, Shapes, Stream
    <3>4. stream' = [stream EXCEPT ![i] = PutAt(stream[i], place)] /\ stream[i] \in Stream
      BY <3>2 DEF MInv, Shapes, PutAt
    <3> HIDE DEF place
    <3>5. /\ PutAt(stream[i], place) \in Stream /\ PutAt(stream[i], place).at = place
          /\ PutAt(stream[i], place).ended = stream[i].ended
      BY <3>3, <3>4, StreamParts
    <3> QED  BY <3>1, <3>3, <3>4, <3>5 DEF MInv, Shapes
  <2> QED  BY <2>1, <2>2
<1>3. wire' \in Seq(Commands)
  <2>1. Message("stop", closing.id, session) \in Commands
    BY MessageIsCommand DEF MInv, Shapes
  <2> QED  BY <2>1, SendShapes DEF EndAttempt, MInv, Shapes
<1>4. Shapes'
  BY <1>1, <1>2, <1>3 DEF MInv, Shapes, Supervising
<1>5. InHand' /\ EndedIsGone'
  BY <1>1, <1>2 DEF MInv, InHand, EndedIsGone
<1>6. EveryStreamHasAnOwner'
  BY <1>1, <1>2 DEF MInv, EveryStreamHasAnOwner, Wanted
<1> QED  BY <1>1, <1>2, <1>4, <1>5, <1>6 DEF MInv, CutKept

(* The gateway reports an end: an attempt is forgotten only when its       *)
(* stream is out of the table.                                             *)
LEMMA EndedForgets ==
  ASSUME MInv, NEW i \in Ids, NEW over, Ended(i, over)
  PROVE  \/ attempt' \in Attempt /\ attempt' # None /\ attempt # None /\ attempt'.id = attempt.id
         \/ attempt' = None /\ attempt = None
         \/ attempt' = None /\ over /\ attempt.id = i /\ sup = "loop"
<1>1. CASE ~Wanted(i)
  BY <1>1 DEF Ended, MInv, Shapes
<1>2. CASE Wanted(i)
  <2>1. attempt \in Attempt /\ attempt # None /\ attempt.id = i /\ sup = "loop"
    BY <1>2, MediaConstants DEF MInv, Shapes, Wanted, InHand, Supervising
  <2>2. [attempt EXCEPT !.connected = FALSE] \in Attempt
        /\ [attempt EXCEPT !.connected = FALSE].id = i
    BY <2>1 DEF Attempt
  <2> QED  BY <1>2, <2>1, <2>2, NoneIsApart DEF Ended
<1> QED  BY <1>1, <1>2

LEMMA HangUpOwners ==
  ASSUME MInv, NEW i \in Ids, HangUp(i)
  PROVE  MInv' /\ CutKept
<1>1. /\ UNCHANGED <<sup, asked, sink, closing, handler, revoking, session, epochs, wire, publisher>>
      /\ stream[i].at = "popped"
  BY DEF HangUp, sessions, node
<1> DEFINE last == [stream[i] EXCEPT !.at = "gone", !.ended = TRUE, !.left = 0]
<1>2. last \in Stream /\ last.at = "gone"
  <2>1. last = PutLeft(PutEnded(PutAt(stream[i], "gone")), 0)
    BY DEF PutLeft, PutEnded, PutAt
  <2>2. PutAt(stream[i], "gone") \in Stream /\ PutAt(stream[i], "gone").at = "gone"
    BY StreamParts DEF MInv, Shapes
  <2>3. /\ PutEnded(PutAt(stream[i], "gone")) \in Stream
        /\ PutEnded(PutAt(stream[i], "gone")).at = "gone"
    BY <2>2, StreamParts
  <2> HIDE DEF last
  <2>4. PICK s \in Stream : s = PutEnded(PutAt(stream[i], "gone")) /\ s.at = "gone"
    BY <2>3
  <2>5. PutLeft(s, 0) \in Stream /\ PutLeft(s, 0).at = "gone"
    <3>1. PutLeft(s, 0) \in Stream /\ PutLeft(s, 0).at = s.at
      BY StreamParts, LifeIsALife
    <3> QED  BY <2>4, <3>1
  <2> QED  BY <2>1, <2>4, <2>5
<1>3. stream' = [stream EXCEPT ![i] = last]
  BY DEF HangUp, MInv, Shapes
<1> HIDE DEF last
<1>4. /\ stream' \in [Ids -> Stream] /\ stream'[i].at = "gone"
      /\ \A k \in Ids \ {i} : stream'[k] = stream[k]
  BY <1>2, <1>3 DEF MInv, Shapes
<1>5. \/ attempt' \in Attempt /\ attempt' # None /\ attempt # None /\ attempt'.id = attempt.id
      \/ attempt' = None /\ attempt = None
      \/ attempt' = None /\ attempt.id = i /\ sup = "loop"
  BY EndedForgets DEF HangUp, MInv, Shapes
<1>6. Shapes'
  BY <1>1, <1>4, <1>5 DEF MInv, Shapes
<1>7. InHand'
  BY <1>1, <1>5 DEF MInv, InHand
<1>8. EndedIsGone'
  BY <1>1, <1>4 DEF MInv, EndedIsGone
<1>9. EveryStreamHasAnOwner'
  BY <1>1, <1>4, <1>5 DEF MInv, EveryStreamHasAnOwner, Wanted
<1> QED  BY <1>1, <1>4, <1>6, <1>7, <1>8, <1>9 DEF MInv, CutKept

(* Assigning to the place of a connection's thread. *)
Comes(w, place) == [w EXCEPT !.at = place]

LEMMA HandlerParts ==
  ASSUME NEW w \in Handler, NEW p \in {"free", "trusted", "opening", "feeding", "ended"}
  PROVE  /\ Comes(w, p) \in Handler /\ Comes(w, p).at = p
         /\ Comes(w, p).id = w.id /\ Comes(w, p).over = w.over
BY DEF Handler, Comes

LEMMA UnusedIsFree == Unused \in Handler /\ Unused.at = "free" /\ Unused.id = None /\ ~Unused.over
BY DEF Unused, Handler

(* A step of one connection's thread that keeps the streams' places. *)
LEMMA OneHandler ==
  ASSUME MInv, Shapes', NEW h \in Handlers, sup' = sup, closing' = closing,
         attempt' = None <=> attempt = None,
         attempt # None => attempt'.id = attempt.id,
         \A i \in Ids : stream'[i].ended = stream[i].ended /\ stream'[i].at = stream[i].at,
         \A k \in Handlers \ {h} : handler'[k] = handler[k],
         handler'[h].at # "free" => handler'[h].id \in Ids,
         handler'[h].over => handler'[h].at = "ended" /\ stream[handler'[h].id].at = "gone"
                             /\ handler'[h].id \in Ids,
         handler'[h].id = None \/ handler'[h].id = handler[h].id \/ approved
  PROVE  MInv' /\ CutKept
<1>1. InHand'
  BY DEF MInv, InHand
<1>2. EndedIsGone'
  BY DEF MInv, EndedIsGone
<1>3. EveryStreamHasAnOwner'
  BY DEF MInv, EveryStreamHasAnOwner, Wanted
<1> QED  BY <1>1, <1>2, <1>3 DEF MInv, CutKept

(* _admit. *)
LEMMA AdmitOwners ==
  ASSUME MInv, NEW h \in Handlers, Admit(h)
  PROVE  MInv' /\ CutKept
<1>1. /\ UNCHANGED <<sup, asked, attempt, sink, closing, revoking, session, epochs, wire>>
      /\ handler[h].at = "trusted" /\ handler[h] \in Handler /\ handler[h].id \in Ids
      /\ ~handler[h].over
  BY DEF Admit, superv, sessions, MInv, Shapes, EndedIsGone
<1>2. CASE Admissible(handler[h].id)
  <2> DEFINE i == handler[h].id
             conn == IF Wanted(i) THEN h ELSE None
             place == IF Wanted(i) THEN "opening" ELSE "ended"
  <2>1. /\ stream' = [stream EXCEPT ![i] = PutConn(stream[i], conn)] /\ publisher' = publisher
        /\ handler' = [handler EXCEPT ![h] = Comes(handler[h], place)]
        /\ stream[i] \in Stream /\ conn \in Handlers \cup {None} /\ i \in Ids
        /\ place \in {"opening", "ended"}
    BY <1>1, <1>2 DEF Admit, PutConn, Comes, MInv, Shapes
  <2> HIDE DEF conn, place, i
  <2>2. /\ PutConn(stream[i], conn) \in Stream
        /\ PutConn(stream[i], conn).at = stream[i].at
        /\ PutConn(stream[i], conn).ended = stream[i].ended
    BY <2>1, StreamParts
  <2>3. /\ Comes(handler[h], place) \in Handler /\ Comes(handler[h], place).at = place
        /\ Comes(handler[h], place).id = handler[h].id /\ ~Comes(handler[h], place).over
    BY <1>1, <2>1, HandlerParts
  <2>4. /\ stream' \in [Ids -> Stream]
        /\ \A k \in Ids : stream'[k].ended = stream[k].ended /\ stream'[k].at = stream[k].at
    BY <2>1, <2>2 DEF MInv, Shapes
  <2>5. /\ handler' \in [Handlers -> Handler] /\ handler'[h] = Comes(handler[h], place)
        /\ \A k \in Handlers \ {h} : handler'[k] = handler[k]
    BY <2>1, <2>3 DEF MInv, Shapes
  <2>6. Shapes'
    BY <1>1, <2>1, <2>4, <2>5 DEF MInv, Shapes
  <2> QED  BY <1>1, <2>3, <2>4, <2>5, <2>6, OneHandler
<1>3. CASE ~Admissible(handler[h].id)
  <2>1. /\ stream' = stream /\ publisher' \in {None, publisher}
        /\ handler' = [handler EXCEPT ![h] = Unused]
    BY <1>3 DEF Admit, Refuse
  <2>2. /\ handler' \in [Handlers -> Handler] /\ handler'[h] = Unused
        /\ \A k \in Handlers \ {h} : handler'[k] = handler[k]
    BY <2>1, UnusedIsFree DEF MInv, Shapes
  <2>3. Shapes'
    BY <1>1, <2>1, <2>2 DEF MInv, Shapes
  <2> QED  BY <1>1, <2>1, <2>2, <2>3, UnusedIsFree, OneHandler
<1> QED  BY <1>2, <1>3

(* The second look of _connected. *)
LEMMA SinkOpenedOwners ==
  ASSUME MInv, NEW h \in Handlers, SinkOpened(h)
  PROVE  MInv' /\ CutKept
<1>1. /\ UNCHANGED <<sup, asked, closing, stream, revoking, session, epochs, wire, publisher>>
      /\ sink' = h /\ handler[h].at = "opening" /\ handler[h] \in Handler
      /\ handler[h].id \in Ids /\ ~handler[h].over
      /\ handler' = [handler EXCEPT ![h] = Comes(handler[h], "feeding")]
  BY DEF SinkOpened, sessions, node, MInv, Shapes, EndedIsGone, Comes
<1>2. /\ Comes(handler[h], "feeding") \in Handler /\ Comes(handler[h], "feeding").at = "feeding"
      /\ Comes(handler[h], "feeding").id = handler[h].id /\ ~Comes(handler[h], "feeding").over
  BY <1>1, HandlerParts
<1>3. /\ handler' \in [Handlers -> Handler] /\ handler'[h] = Comes(handler[h], "feeding")
      /\ \A k \in Handlers \ {h} : handler'[k] = handler[k]
  BY <1>1, <1>2 DEF MInv, Shapes
<1>4. /\ attempt' \in Attempt \cup {None}
      /\ attempt' = None <=> attempt = None
      /\ attempt # None => attempt'.id = attempt.id
  <2>1. CASE ~Wanted(handler[h].id)
    BY <2>1 DEF SinkOpened, MInv, Shapes
  <2>2. CASE Wanted(handler[h].id)
    <3>1. attempt # None /\ attempt \in Attempt /\ attempt' = [attempt EXCEPT !.connected = TRUE]
      BY <2>2 DEF SinkOpened, Wanted, MInv, Shapes
    <3>2. attempt' \in Attempt /\ attempt'.id = attempt.id
      BY <3>1 DEF Attempt
    <3> QED  BY <3>1, <3>2, NoneIsApart
  <2> QED  BY <2>1, <2>2
<1>5. Shapes'
  BY <1>1, <1>3, <1>4 DEF MInv, Shapes
<1> QED  BY <1>1, <1>2, <1>3, <1>4, <1>5, OneHandler

(* _carry's finally. *)
LEMMA CarryEndsOwners ==
  ASSUME MInv, NEW h \in Handlers, CarryEnds(h)
  PROVE  MInv' /\ CutKept
<1>1. /\ UNCHANGED <<sup, asked, attempt, sink, closing, revoking, session, epochs, wire, publisher>>
      /\ handler[h].at \in {"opening", "feeding"} /\ handler[h] \in Handler /\ handler[h].id \in Ids
  BY DEF CarryEnds, superv, sessions, node, MInv, Shapes, EndedIsGone
<1> DEFINE i == handler[h].id
           over == stream[i].ended
           done == [Comes(handler[h], "ended") EXCEPT !.over = over]
<1>2. /\ stream[i] \in Stream /\ i \in Ids /\ over \in BOOLEAN
      /\ over => stream[i].at = "gone"
  BY <1>1 DEF MInv, Shapes, Stream, EndedIsGone
<1>3. done \in Handler /\ done.at = "ended" /\ done.id = i /\ done.over = over
  <2>1. Comes(handler[h], "ended") \in Handler /\ Comes(handler[h], "ended").at = "ended"
        /\ Comes(handler[h], "ended").id = i
    BY <1>1, HandlerParts
  <2> HIDE DEF over, i
  <2> QED  BY <1>2, <2>1 DEF Handler
<1>4. /\ stream' = [stream EXCEPT ![i] = PutConn(stream[i], None)]
      /\ handler' = [handler EXCEPT ![h] = done]
  BY <1>1 DEF CarryEnds, PutConn, Comes, MInv, Shapes
<1> HIDE DEF done, over, i
<1>5. /\ PutConn(stream[i], None) \in Stream
      /\ PutConn(stream[i], None).at = stream[i].at
      /\ PutConn(stream[i], None).ended = stream[i].ended
  <2>1. None \in Handlers \cup {None}
    OBVIOUS
  <2> QED  BY <1>2, <2>1, StreamParts
<1>6. /\ stream' \in [Ids -> Stream]
      /\ \A k \in Ids : stream'[k].ended = stream[k].ended /\ stream'[k].at = stream[k].at
  BY <1>2, <1>4, <1>5 DEF MInv, Shapes
<1>7. /\ handler' \in [Handlers -> Handler] /\ handler'[h] = done
      /\ \A k \in Handlers \ {h} : handler'[k] = handler[k]
  BY <1>3, <1>4 DEF MInv, Shapes
<1>8. Shapes'
  BY <1>1, <1>6, <1>7 DEF MInv, Shapes
<1>9. i = handler[h].id
  BY DEF i
<1> QED  BY <1>1, <1>2, <1>3, <1>6, <1>7, <1>8, <1>9, OneHandler

LEMMA CarryReportsOwners ==
  ASSUME MInv, NEW h \in Handlers, CarryReports(h)
  PROVE  MInv' /\ CutKept
<1>1. /\ UNCHANGED <<sup, asked, sink, closing, stream, revoking, session, epochs, wire>>
      /\ handler[h].at = "ended" /\ handler[h].id \in Ids
      /\ Ended(handler[h].id, handler[h].over)
      /\ handler' = [handler EXCEPT ![h] = Unused]
  BY DEF CarryReports, sessions, MInv, EndedIsGone
<1>2. /\ handler' \in [Handlers -> Handler] /\ handler'[h] = Unused
      /\ \A k \in Handlers \ {h} : handler'[k] = handler[k]
  BY <1>1, UnusedIsFree DEF MInv, Shapes
<1>3. publisher' \in Publisher \cup {None}
  <2>1. Wired(h) => [publisher EXCEPT !.wire = None] \in Publisher
    BY DEF Wired, MInv, Shapes, Publisher
  <2> QED  BY <2>1 DEF CarryReports, MInv, Shapes
<1>4. \/ attempt' \in Attempt /\ attempt' # None /\ attempt # None /\ attempt'.id = attempt.id
      \/ attempt' = None /\ attempt = None
      \/ /\ attempt' = None /\ attempt.id = handler[h].id /\ sup = "loop"
         /\ stream[handler[h].id].at = "gone"
  BY <1>1, EndedForgets DEF MInv, EndedIsGone
<1>5. Shapes'
  BY <1>1, <1>2, <1>3, <1>4 DEF MInv, Shapes
<1>6. InHand'
  BY <1>1, <1>4 DEF MInv, InHand
<1>7. EndedIsGone'
  BY <1>1, <1>2, UnusedIsFree DEF MInv, EndedIsGone
<1>8. EveryStreamHasAnOwner'
  BY <1>1, <1>4 DEF MInv, EveryStreamHasAnOwner, Wanted
<1> QED  BY <1>1, <1>2, <1>5, <1>6, <1>7, <1>8, UnusedIsFree DEF MInv, CutKept

(* The node connects, if the registry still knows it. *)
LEMMA ConnectsOwners ==
  ASSUME MInv, PublisherConnects
  PROVE  MInv' /\ CutKept
<1>1. /\ UNCHANGED <<sup, asked, attempt, sink, closing, stream, revoking, session, epochs, wire>>
      /\ publisher # None /\ publisher \in Publisher /\ publisher.id \in Ids
  BY DEF PublisherConnects, superv, sessions, MInv, Shapes, Publisher
<1>2. CASE ~approved
  <2>1. publisher' = None /\ handler' = handler
    BY <1>2 DEF PublisherConnects
  <2>2. Shapes'
    BY <1>1, <2>1 DEF MInv, Shapes
  <2>3. MInv'
    BY <1>1, <2>1, <2>2, StreamsFall
  <2> QED  BY <1>1, <2>1, <2>3 DEF CutKept
<1>3. CASE approved
  <2> DEFINE c == CHOOSE k \in Handlers : Free(k)
  <2>1. c \in Handlers
    BY DEF PublisherConnects
  <2>2. /\ handler' = [handler EXCEPT ![c] =
             [Unused EXCEPT !.at = "trusted", !.id = publisher.id]]
        /\ publisher' = [publisher EXCEPT !.wire = c]
    BY <1>3 DEF PublisherConnects
  <2> HIDE DEF c
  <2>3. PICK h \in Handlers :
          /\ handler' = [handler EXCEPT ![h] = [Unused EXCEPT !.at = "trusted", !.id = publisher.id]]
          /\ publisher' = [publisher EXCEPT !.wire = h]
    BY <2>1, <2>2
  <2> DEFINE new == [Unused EXCEPT !.at = "trusted", !.id = publisher.id]
  <2>4. new \in Handler /\ new.at = "trusted" /\ new.id = publisher.id /\ ~new.over
    <3>1. new = [Comes(Unused, "trusted") EXCEPT !.id = publisher.id]
      BY DEF Comes
    <3>2. /\ Comes(Unused, "trusted") \in Handler /\ Comes(Unused, "trusted").at = "trusted"
          /\ ~Comes(Unused, "trusted").over
      BY UnusedIsFree, HandlerParts
    <3> HIDE DEF new
    <3> QED  BY <1>1, <3>1, <3>2 DEF Handler
  <2>5. handler' = [handler EXCEPT ![h] = new]
    BY <2>3
  <2> HIDE DEF new
  <2>6. /\ handler' \in [Handlers -> Handler] /\ handler'[h] = new
        /\ \A k \in Handlers \ {h} : handler'[k] = handler[k]
    BY <2>4, <2>5 DEF MInv, Shapes
  <2>7. publisher' \in Publisher
    BY <1>1, <2>3 DEF Publisher
  <2>8. Shapes'
    BY <1>1, <2>6, <2>7 DEF MInv, Shapes
  <2> QED  BY <1>1, <1>3, <2>4, <2>6, <2>8, OneHandler
<1> QED  BY <1>2, <1>3

------------------------------------------------------------------------------
LEMMA InitMInv == Init => MInv /\ CutInv
<1> SUFFICES ASSUME Init PROVE MInv /\ CutInv
  OBVIOUS
<1>1. NoStream \in Stream /\ NoStream.at = "free" /\ ~NoStream.ended
  BY LifeIsALife DEF NoStream, Stream
<1>2. /\ stream \in [Ids -> Stream] /\ \A i \in Ids : stream[i].at = "free" /\ ~stream[i].ended
  BY <1>1 DEF Init
<1>3. handler \in [Handlers -> Handler] /\ \A h \in Handlers : handler[h] = Unused
  BY UnusedIsFree DEF Init
<1>4. wire \in Seq(Commands)
  BY DEF Init
<1>5. Shapes
  BY <1>2, <1>3, <1>4 DEF Init, Shapes, Supervising
<1>6. InHand /\ EndedIsGone
  BY <1>2, <1>3, UnusedIsFree DEF Init, InHand, EndedIsGone
<1>7. EveryStreamHasAnOwner /\ CutInv
  BY <1>2 DEF Init, EveryStreamHasAnOwner, CutInv
<1> QED  BY <1>5, <1>6, <1>7 DEF MInv

LEMMA MSteps == ASSUME MInv, [Next]_vars PROVE MInv' /\ CutKept
<1>1. ASSUME MInv' /\ handler' = handler
             /\ \A i \in Ids : stream'[i].at = "table" => stream[i].at = "table"
      PROVE  CutKept
  BY <1>1 DEF CutKept
<1>2. CASE \/ Deliver \/ Lose \/ SessionEnds \/ SessionOpens \/ RevokeRegistry \/ RevokeSession
           \/ Tick \/ (\E r \in Readers : Hold(r) \/ Release(r)) \/ UNCHANGED vars
           \/ Lifecycle
  BY <1>1, <1>2, QuietOwners, FallOwners, TickOwners DEF Lifecycle
<1>3. CASE Supervisor
  BY <1>1, <1>3, QuietOwners, AskOwners, RenewOwners, EndAttemptOwners DEF Supervisor
<1>4. CASE Publishes
  BY <1>1, <1>4, QuietOwners, ConnectsOwners DEF Publishes
<1>5. ASSUME NEW i \in Ids, Gateway(i) PROVE MInv' /\ CutKept
  BY <1>1, <1>5, FallOwners, HangUpOwners DEF Gateway
<1>6. ASSUME NEW h \in Handlers, Serve(h) PROVE MInv' /\ CutKept
  BY <1>1, <1>6, QuietOwners, AdmitOwners, SinkOpenedOwners, CarryEndsOwners, CarryReportsOwners
  DEF Serve
<1> QED  BY <1>2, <1>3, <1>4, <1>5, <1>6 DEF Next

(* Revocation closes what there is, and nothing of it comes back. *)
LEMMA CutSteps == ASSUME MInv, CutInv, [Next]_vars PROVE CutInv'
<1>1. MInv' /\ CutKept
  BY MSteps
<1>2. CASE RevokeSession
  <2>1. \A i \in Ids : stream'[i].at # "table"
    BY <1>2, CloseNodeFalls DEF RevokeSession, MInv
  <2>2. \A h \in Handlers : handler'[h].id \in Ids \cup {None}
    BY <1>1 DEF MInv, Shapes, Handler
  <2>3. ~approved'
    BY <1>2 DEF RevokeSession, CutInv
  <2> QED  BY <2>1, <2>2, <2>3 DEF CutInv
<1>3. CASE RevokeRegistry
  BY <1>3 DEF RevokeRegistry, CutInv
<1>4. CASE UNCHANGED <<revoking, approved>>
  <2> SUFFICES ASSUME NEW h \in Handlers, revoking = "done", handler'[h].id # None
               PROVE  stream'[handler'[h].id].at # "table"
    BY <1>4 DEF CutInv
  <2>1. ~approved
    BY DEF CutInv
  <2>2. handler'[h].id = handler[h].id /\ handler'[h].id \in Ids
    BY <1>1, <2>1 DEF CutKept, MInv, Shapes, Handler
  <2>3. stream[handler[h].id].at # "table"
    BY <2>2 DEF CutInv
  <2> QED  BY <1>1, <2>2, <2>3 DEF CutKept
<1>5. RevokeSession \/ RevokeRegistry \/ UNCHANGED <<revoking, approved>>
  <2>1. CASE \/ Deliver \/ Lose \/ SessionEnds \/ SessionOpens \/ Tick \/ UNCHANGED vars \/ Publishes
             \/ (\E r \in Readers : Hold(r) \/ Release(r)) \/ Lifecycle \/ Supervisor
    BY <2>1 DEF Deliver, Lose, SessionEnds, SessionOpens, Tick, vars, Publishes, PublisherConnects,
                PublisherEnds, Hold, Release, Lifecycle, Apply, Stopped, Supervisor, Begin, NoRoom,
                Judge, Leave, Ask, Renew, EndAttempt, sessions
  <2>2. CASE (\E i \in Ids : Gateway(i)) \/ (\E h \in Handlers : Serve(h))
    BY <2>2 DEF Gateway, Expire, HangUp, Serve, Admit, SinkOpened, Frame, CarryEnds, CarryReports,
                sessions
  <2> QED  BY <2>1, <2>2 DEF Next
<1> QED  BY <1>2, <1>3, <1>4, <1>5

(* The gateway holds no stream that nobody will renew or close: a slot of  *)
(* max_streams is not lost when a request fails half way (_start_media,    *)
(* _end_attempt and the gateway's own ends).                               *)
THEOREM StreamsHaveOwners == Spec => []EveryStreamHasAnOwner
<1>1. MInv => EveryStreamHasAnOwner
  BY DEF MInv
<1>2. MInv /\ [Next]_vars => MInv'
  BY MSteps
<1> QED  BY <1>1, <1>2, InitMInv, PTL DEF Spec

(* From the moment revoke has closed the node's streams, no connection of  *)
(* the node is served that is not being hung up on, whatever was under way *)
(* (SatelliteService.revoke, the gateway's trust and _admit).              *)
THEOREM RevokedIsServedNothing == Spec => []RevokedIsCutOff
<1>1. MInv /\ CutInv => RevokedIsCutOff
  BY MediaConstants DEF MInv, EndedIsGone, CutInv, RevokedIsCutOff
<1>2. MInv /\ CutInv /\ [Next]_vars => MInv' /\ CutInv'
  BY MSteps, CutSteps
<1> QED  BY <1>1, <1>2, InitMInv, PTL DEF Spec

------------------------------------------------------------------------------
(* Every number.                                                           *)

(* Epochs are counted by what ends one: a session goes by a mishap, or by  *)
(* the revocation that cost one, and then no other opens.                  *)
Epochs ==
  /\ mishaps \in 0..MaxMishaps /\ epochs <= mishaps + 1
  /\ approved /\ session = 0 => epochs <= mishaps
  /\ session <= epochs /\ asked <= epochs
  /\ grant \in Nat /\ grant <= epochs
  /\ \A n \in 1..Len(wire) : wire[n].epoch <= epochs

Plain ==
  /\ held \subseteq Readers /\ changed \subseteq Readers /\ decoders \subseteq Handlers
  /\ stopping \in BOOLEAN /\ stopped \in BOOLEAN /\ approved \in BOOLEAN
  /\ silent \in 0..(Stall + 1)

(* What is on its way after one more command, after one less. *)
LEMMA OneMore ==
  ASSUME Shapes, NEW c \in Commands, NEW top \in Nat, c.epoch <= top, epochs <= top,
         wire' = Append(wire, c), \A n \in 1..Len(wire) : wire[n].epoch <= epochs
  PROVE  \A n \in 1..Len(wire') : wire'[n].epoch <= top
<1>1. wire \in Seq(Commands) /\ epochs \in Nat
  BY DEF Shapes
<1>2. /\ Len(wire') = Len(wire) + 1 /\ wire'[Len(wire) + 1] = c
      /\ \A n \in 1..Len(wire) : wire'[n] = wire[n]
  BY <1>1
<1>3. \A n \in 1..Len(wire) : wire[n].epoch \in Nat
  BY <1>1 DEF Commands, Command
<1>4. SUFFICES ASSUME NEW n \in 1..Len(wire') PROVE wire'[n].epoch <= top
  OBVIOUS
<1>5. n \in 1..Len(wire) \/ n = Len(wire) + 1
  BY <1>1, <1>2
<1> QED  BY <1>1, <1>2, <1>3, <1>5

LEMMA OneLess ==
  ASSUME Shapes, wire # << >>, wire' = Tail(wire),
         \A n \in 1..Len(wire) : wire[n].epoch <= epochs
  PROVE  /\ \A n \in 1..Len(wire') : wire'[n].epoch <= epochs
         /\ Head(wire).epoch <= epochs /\ Head(wire).epoch \in Nat
<1>1. wire \in Seq(Commands) /\ Len(wire) \in Nat \ {0}
  BY DEF Shapes
<1>2. /\ Len(wire') = Len(wire) - 1
      /\ \A n \in 1..Len(wire') : wire'[n] = wire[n + 1] /\ n + 1 \in 1..Len(wire)
  BY <1>1
<1>3. Head(wire) = wire[1] /\ 1 \in 1..Len(wire) /\ wire[1] \in Commands
  BY <1>1
<1> QED  BY <1>2, <1>3 DEF Commands, Command

(* A command of the session that is there, or of the one asked for. *)
LEMMA Sending ==
  ASSUME Shapes, Epochs, NEW do \in {"start", "renew", "stop"}, NEW id \in Ids,
         NEW epoch \in Nat, epoch <= epochs, NEW sent, Send(Message(do, id, epoch), sent),
         asked' \in {asked, 0}, UNCHANGED <<sessions, grant>>
  PROVE  Epochs'
<1>1. Message(do, id, epoch) \in Commands /\ Message(do, id, epoch).epoch = epoch
  BY MessageIsCommand DEF Message
<1>2. CASE sent
  <2>1. \A n \in 1..Len(wire') : wire'[n].epoch <= epochs
    BY <1>1, <1>2, OneMore DEF Send, Epochs, Shapes
  <2> QED  BY <1>2, <2>1 DEF Send, Epochs, sessions, Shapes
<1>3. CASE ~sent
  BY <1>3, MediaConstants DEF Send, Mishap, Epochs, sessions, Shapes
<1> QED  BY <1>2, <1>3

(* Nothing is sent and no session changes, whatever goes wrong. *)
LEMMA SameEpochs ==
  ASSUME Shapes, Epochs, UNCHANGED <<sessions, wire, grant>>, asked' \in {asked, 0},
         Mishap \/ mishaps' = mishaps
  PROVE  Epochs'
BY MediaConstants DEF Epochs, Mishap, sessions, Shapes

LEMMA EpochSteps == ASSUME MInv, CutInv, Epochs, [Next]_vars PROVE Epochs'
<1> USE DEF MInv
<1>1. CASE \/ \E r \in Readers : Hold(r) \/ Release(r) \/ Apply(r) \/ Stopped(r)
           \/ NoRoom \/ Judge \/ Leave \/ Tick \/ UNCHANGED vars
           \/ \E i \in Ids : Gateway(i)
  BY <1>1, SameEpochs
  DEF Hold, Release, Apply, Stopped, NoRoom, Judge, Leave, TakeAttempt, Tick, vars, Gateway,
      Expire, HangUp, superv, sessions, node
<1>2. CASE Publishes \/ \E h \in Handlers : Serve(h)
  BY <1>2, SameEpochs
  DEF Publishes, PublisherConnects, PublisherEnds, Serve, Admit, Refuse, SinkOpened, Frame,
      CarryEnds, CarryReports, superv, sessions, node
<1>3. CASE Begin
  BY <1>3 DEF Begin, Epochs, Shapes, sessions, node
<1>4. ASSUME NEW sent \in BOOLEAN, Ask(sent) PROVE Epochs'
  <2>1. PICK i \in Ids : Send(Message("start", i, asked), sent)
    <3>1. (CHOOSE j \in Ids : ~Referred(j)) \in Ids
      BY <1>4 DEF Ask
    <3> QED  BY <1>4, <3>1 DEF Ask
  <2> QED  BY <1>4, <2>1, Sending DEF Ask, node, Epochs, Shapes
<1>5. ASSUME NEW sent \in BOOLEAN, Renew(sent) PROVE Epochs'
  <2>1. attempt.id \in Ids
    BY <1>5 DEF Renew, Current, InHand
  <2>2. CASE Send(Message("renew", attempt.id, session), sent)
    <3>1. asked' = asked /\ UNCHANGED <<sessions, grant>>
      BY <1>5 DEF Renew, node
    <3> QED  BY <2>1, <2>2, <3>1, Sending DEF Epochs, Shapes
  <2>3. CASE UNCHANGED <<wire, mishaps>>
    BY <1>5, <2>3, SameEpochs DEF Renew, node
  <2> QED  BY <1>5, <2>2, <2>3 DEF Renew
<1>6. ASSUME NEW sent \in BOOLEAN, EndAttempt(sent) PROVE Epochs'
  <2>1. asked' = asked /\ UNCHANGED <<sessions, grant>>
    BY <1>6 DEF EndAttempt, node
  <2>2. CASE closing.id # None /\ Send(Message("stop", closing.id, session), sent)
    <3>1. closing.id \in Ids
      BY <2>2 DEF Shapes
    <3> QED  BY <2>1, <2>2, <3>1, Sending DEF Epochs, Shapes
  <2>3. CASE UNCHANGED <<wire, mishaps>>
    BY <2>1, <2>3, SameEpochs
  <2> QED  BY <1>6, <2>2, <2>3 DEF EndAttempt
<1>7. CASE Deliver
  <2>1. /\ \A n \in 1..Len(wire') : wire'[n].epoch <= epochs
        /\ Head(wire).epoch <= epochs /\ Head(wire).epoch \in Nat
    BY <1>7, OneLess DEF Deliver, Epochs
  <2>2. grant' \in {Head(wire).epoch, 0, grant}
    BY <1>7 DEF Deliver, AgentApplies
  <2> QED  BY <1>7, <2>1, <2>2 DEF Deliver, Epochs, Shapes, superv, sessions
<1>8. CASE Lose
  <2>1. \A n \in 1..Len(wire') : wire'[n].epoch <= epochs
    BY <1>8, OneLess DEF Lose, Epochs
  <2> QED  BY <1>8, <2>1, MediaConstants DEF Lose, Mishap, Epochs, Shapes, superv, sessions, node
<1>9. CASE SessionEnds
  BY <1>9, MediaConstants DEF SessionEnds, Mishap, Epochs, Shapes, superv, node
<1>10. CASE SessionOpens
  <2>1. Message("grant", None, epochs + 1) \in Commands
        /\ Message("grant", None, epochs + 1).epoch = epochs + 1
    BY MessageIsCommand DEF Message, Shapes
  <2>2. \A n \in 1..Len(wire') : wire'[n].epoch <= epochs + 1
    BY <1>10, <2>1, OneMore DEF SessionOpens, Epochs, Shapes
  <2> QED  BY <1>10, <2>2 DEF SessionOpens, Epochs, Shapes, superv, node
<1>11. CASE RevokeRegistry
  BY <1>11, MediaConstants DEF RevokeRegistry, Mishap, Epochs, Shapes, superv, node
<1>12. CASE RevokeSession
  <2>1. Message("revoke", None, 0) \in Commands /\ Message("revoke", None, 0).epoch = 0
    BY MessageIsCommand DEF Message
  <2>2. \A n \in 1..Len(wire') : wire'[n].epoch <= epochs
    BY <1>12, <2>1, OneMore DEF RevokeSession, Epochs, Shapes
  <2> QED  BY <1>12, <2>2 DEF RevokeSession, CutInv, Epochs, Shapes, superv, node
<1> QED  BY <1>1, <1>2, <1>3, <1>4, <1>5, <1>6, <1>7, <1>8, <1>9, <1>10, <1>11, <1>12
         DEF Next, Lifecycle, Supervisor

LEMMA PlainSteps == ASSUME MInv, Plain, [Next]_vars PROVE Plain'
<1>1. CASE \/ \E r \in Readers : Hold(r) \/ Release(r) \/ Apply(r) \/ Stopped(r)
           \/ UNCHANGED vars
  BY <1>1 DEF Hold, Release, Apply, Stopped, CloseDecoder, Plain, leases, sessions, gateway, vars
<1>2. CASE Supervisor
  BY <1>2 DEF Supervisor, Begin, NoRoom, Judge, Leave, Ask, Renew, EndAttempt, CloseDecoder,
              Plain, leases, sessions, gateway
<1>3. CASE Publishes \/ \E i \in Ids : Gateway(i)
  BY <1>3 DEF Publishes, PublisherConnects, PublisherEnds, Gateway, Expire, HangUp, Plain,
              leases, sessions, gateway
<1>4. ASSUME NEW h \in Handlers, Serve(h) PROVE Plain'
  BY <1>4, MediaConstants DEF Serve, Admit, SinkOpened, Frame, CarryEnds, CarryReports,
              OpenDecoder, CloseDecoder, Plain, leases, sessions, gateway
<1>5. CASE \/ Deliver \/ Lose \/ SessionEnds \/ SessionOpens \/ RevokeRegistry \/ RevokeSession
  BY <1>5 DEF Deliver, Lose, SessionEnds, SessionOpens, RevokeRegistry, RevokeSession, Plain,
              leases, sessions, gateway
<1>6. CASE Tick
  <2>1. silent' \in 0..(Stall + 1)
    BY <1>6, MediaConstants DEF Tick, Raise, Plain
  <2> QED  BY <1>6, <2>1 DEF Tick, Plain, leases, sessions
<1> QED  BY <1>1, <1>2, <1>3, <1>4, <1>5, <1>6 DEF Next, Lifecycle

(* Leases, supervisor, gateway and node keep what they are taken for, and  *)
(* no more sessions open than mishaps ended one (Media).                   *)
THEOREM MediaIsTyped == Spec => []TypeOK
<1> DEFINE Inv == MInv /\ CutInv /\ Epochs /\ Plain
<1>1. Init => Inv
  <2>1. Init => Epochs
    BY MediaConstants DEF Init, Epochs
  <2>2. Init => Plain
    <3>1. silent = Stall + 1 => silent \in 0..(Stall + 1)
      BY MediaConstants
    <3> QED  BY <3>1 DEF Init, Plain
  <2> QED  BY <2>1, <2>2, InitMInv
<1>2. Inv /\ [Next]_vars => Inv'
  BY MSteps, CutSteps, EpochSteps, PlainSteps
<1>3. Inv => TypeOK
  <2> SUFFICES ASSUME Shapes, Epochs, Plain PROVE TypeOK
    BY DEF MInv
  <2>1. /\ asked \in 0..(MaxMishaps + 1) /\ session \in 0..(MaxMishaps + 1)
        /\ epochs \in 0..(MaxMishaps + 1) /\ grant \in 0..(MaxMishaps + 1)
    BY MediaConstants DEF Shapes, Epochs
  <2>2. wire \in Seq(Command)
    <3>1. Commands \subseteq Command
      BY DEF Commands
    <3> QED  BY <3>1 DEF Shapes
  <2> QED  BY <2>1, <2>2 DEF TypeOK, Shapes, Plain, Epochs
<1> HIDE DEF Inv
<1> QED  BY <1>1, <1>2, <1>3, PTL DEF Spec

=============================================================================
