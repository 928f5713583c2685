------------------------------- MODULE HubProofs -------------------------------
(***************************************************************************)
(* What the hub knows of its satellites: their sessions, and the registry  *)
(* that rules who they are.                                                *)
(*                                                                         *)
(* What HubSessions keeps for any number of connections, sessions,         *)
(* restarts and messages on the way.  The two promises are kept while the  *)
(* network thread and a caller of approve are not handling messages of the *)
(* node at once (OneHandles); nothing in service.py sees to that, and      *)
(* without approve nobody but the network thread handles any.              *)
(*                                                                         *)
(* What Registry keeps while no two processes work on the file at the same *)
(* time: epochs never repeat and no ruling is lost, for any number of      *)
(* nodes, tools, kills, restarts and failed writes.                        *)
(***************************************************************************)
EXTENDS HubSessions, Registry, TLAPS

Lives == {"fresh", "due", "expired"}

InHandle == {"arrived", "refused", "believed", "decoded", "opening", "opened", "granted"}

Handles(t) == work[t].at \in InHandle

(* Of the two threads that run handle, at most one is in it. *)
OneHandles == ~(Handles("network") /\ Handles("caller"))

IsHello(m) == m.channel = "state" /\ m.online

------------------------------------------------------------------------------
(* The operators the actions are built from. *)

LEMMA GoIs ==
  ASSUME work \in [Threads -> Work], NEW t \in Threads, NEW s \in Steps, Go(t, s)
  PROVE  /\ work' \in [Threads -> Work]
         /\ work'[t].at = s /\ work'[t].msg = work[t].msg
         /\ work'[t].after = work[t].after /\ work'[t].grant = work[t].grant
         /\ \A u \in Threads : u # t => work'[u] = work[u]
<1>1. work[t] \in Work
  OBVIOUS
<1> DEFINE w == [work[t] EXCEPT !.at = s]
<1>2. w \in Work /\ w.at = s /\ w.msg = work[t].msg /\ w.after = work[t].after
      /\ w.grant = work[t].grant
  BY <1>1 DEF Work
<1>3. work' = [work EXCEPT ![t] = w]
  BY DEF Go
<1> HIDE DEF w
<1> QED  BY <1>2, <1>3

LEMMA SetIs ==
  ASSUME work \in [Threads -> Work], NEW t \in Threads, NEW w \in Work,
         work' = [work EXCEPT ![t] = w]
  PROVE  /\ work' \in [Threads -> Work] /\ work'[t] = w
         /\ \A u \in Threads : u # t => work'[u] = work[u]
OBVIOUS

LEMMA RestingIs == Resting \in Work /\ Resting.at = "idle" /\ Resting.after = None
BY DEF Resting, Work, Steps

LEMMA ReadingIs ==
  ASSUME NEW m \in Message, NEW after \in Message \cup {None}
  PROVE  LET w == Reading(m, after) IN
         w \in Work /\ w.at = "arrived" /\ w.msg = m /\ w.after = after
BY DEF Reading, Work, Steps

LEMMA ReturnIs ==
  ASSUME work \in [Threads -> Work], NEW t \in Threads, Return(t)
  PROVE  /\ work' \in [Threads -> Work]
         /\ work'[t].at \in {"idle", "decoded"} /\ work'[t].after = None
         /\ work'[t].at = "decoded" => work[t].after # None /\ work'[t].msg = work[t].after
         /\ \A u \in Threads : u # t => work'[u] = work[u]
<1>1. CASE work[t].after = None
  <2>1. work' = [work EXCEPT ![t] = Resting]
    BY <1>1 DEF Return
  <2>2. work'[t] = Resting
    BY <2>1
  <2> QED  BY <2>1, <2>2, RestingIs, SetIs
<1>2. CASE work[t].after # None
  <2> DEFINE w == [at |-> "decoded", msg |-> work[t].after, after |-> None, grant |-> None]
  <2>1. work' = [work EXCEPT ![t] = w]
    BY <1>2 DEF Return
  <2>2. work[t].after \in Message
    BY <1>2 DEF Work
  <2>3. w \in Work /\ w.at = "decoded" /\ w.after = None /\ w.msg = work[t].after
    BY <2>2 DEF Work, Steps
  <2> HIDE DEF w
  <2>4. work'[t] = w
    BY <2>1
  <2> QED  BY <1>2, <2>1, <2>3, <2>4, SetIs
<1> QED  BY <1>1, <1>2

LEMMA MessagesAre ==
  /\ \A c \in Nat : Hello(c) \in Message /\ Goodbye(c) \in Message /\ Heartbeat(c) \in Message
  /\ Erased \in Message
BY DEF Message, Hello, Goodbye, Heartbeat, Erased

LEMMA NothingIsASequence == << >> \in Seq(Message)
OBVIOUS

LEMMA PublishedIs ==
  ASSUME TypeOK, NEW m \in Message, PublishState(m)
  PROVE  wire' \in Seq(Message) /\ retained' = m /\ linked' = linked
BY DEF PublishState, TypeOK

LEMMA EndedIs ==
  ASSUME session \in Session
  PROVE  Ended \in Session /\ Ended.closed
<1>1. /\ Ended.conn = session.conn /\ Ended.epoch = session.epoch /\ Ended.closed = TRUE
      /\ Ended.grant = None
  BY DEF Session, Ended
<1>2. Ended \in Session
  BY DEF Session, Ended
<1> QED  BY <1>1, <1>2

(* A grant is given, taken back or ages: nothing else of the session does. *)
LEMMA RegrantedIs ==
  ASSUME session \in Session, NEW g \in Grant \cup {None}
  PROVE  LET s == [session EXCEPT !.grant = g] IN
         /\ s \in Session /\ s.conn = session.conn /\ s.epoch = session.epoch
         /\ s.closed = session.closed /\ s.grant = g
BY DEF Session

LEMMA AgedIs ==
  ASSUME session \in Session, session.grant \in Grant, NEW l \in Lives
  PROVE  \E g \in Grant : /\ [session EXCEPT !.grant.life = l] = [session EXCEPT !.grant = g]
                          /\ g.by = session.grant.by /\ g.epoch = session.grant.epoch
<1> DEFINE g == [session.grant EXCEPT !.life = l]
<1>1. g \in Grant /\ g.by = session.grant.by /\ g.epoch = session.grant.epoch
  BY DEF Grant, Lives
<1>2. [session EXCEPT !.grant.life = l] = [session EXCEPT !.grant = g]
  OBVIOUS
<1> QED  BY <1>1, <1>2


------------------------------------------------------------------------------
(* The types, and what a thread has in hand at each step of handle.  The   *)
(* network thread does nothing but handle; what a held hello interrupts is *)
(* never a state; a session is opened for a hello.                         *)
HandlingOf(t) ==
  /\ Handles(t) => work[t].msg \in Message
  /\ work[t].after # None => work[t].after.channel = "other"
  /\ At(t, "opening") => IsHello(work[t].msg)
  /\ t = "network" => Handles(t) \/ At(t, "idle")

Shape == TypeOK /\ \A t \in Threads : HandlingOf(t)

LEMMA ShapeStart == Init => Shape
<1> SUFFICES ASSUME Init PROVE Shape
  OBVIOUS
<1>1. TypeOK
  BY RestingIs, NothingIsASequence DEF Init, TypeOK
<1>2. ASSUME NEW t \in Threads PROVE HandlingOf(t)
  BY RestingIs DEF Init, HandlingOf, Handles, At, InHandle
<1> QED  BY <1>1, <1>2 DEF Shape

LEMMA OthersKeep ==
  ASSUME Shape, NEW t \in Threads, HandlingOf(t)',
         \A u \in Threads : u # t => work'[u] = work[u]
  PROVE  \A u \in Threads : HandlingOf(u)'
BY DEF Shape, HandlingOf, Handles, At

LEMMA NobodyMoves ==
  ASSUME Shape, UNCHANGED work
  PROVE  \A u \in Threads : HandlingOf(u)'
BY DEF Shape, HandlingOf, Handles, At

(* The node, the broker, the link. *)
LEMMA NodeShape ==
  ASSUME Shape,
         \/ NodeConnects \/ NodeSaysAgain \/ NodeSaysGoodbye \/ NodeDies \/ NodeBeats
         \/ \E c \in 1..MaxConn : WillPublished(c)
         \/ LinkDown \/ LinkUp
  PROVE  Shape'
<1>1. UNCHANGED hub
  BY DEF NodeConnects, NodeSaysAgain, NodeSaysGoodbye, NodeDies, NodeBeats, WillPublished,
         LinkDown, LinkUp
<1>2. UNCHANGED <<status, held, session, epoch, work, due, told, restarts, welcomed>>
  BY <1>1 DEF hub, history
<1>3. wire' \in Seq(Message) /\ retained' \in Message \cup {None} /\ linked' \in BOOLEAN
  <2>1. CASE NodeConnects
    BY <2>1, PublishedIs, MessagesAre DEF NodeConnects, Shape, TypeOK
  <2>2. CASE NodeSaysAgain
    BY <2>2, PublishedIs, MessagesAre DEF NodeSaysAgain, Shape, TypeOK
  <2>3. CASE NodeSaysGoodbye
    BY <2>3, PublishedIs, MessagesAre DEF NodeSaysGoodbye, Shape, TypeOK
  <2>4. CASE NodeDies
    BY <2>4 DEF NodeDies, broker, Shape, TypeOK
  <2>5. CASE NodeBeats
    BY <2>5, MessagesAre DEF NodeBeats, Shape, TypeOK
  <2>6. ASSUME NEW c \in 1..MaxConn, WillPublished(c)
        PROVE  wire' \in Seq(Message) /\ retained' \in Message \cup {None} /\ linked' \in BOOLEAN
    <3>1. c \in Nat
      BY HubConstants
    <3> QED  BY <3>1, <2>6, PublishedIs, MessagesAre DEF WillPublished, Shape, TypeOK
  <2>7. CASE LinkDown
    BY <2>7, NothingIsASequence DEF LinkDown, Shape, TypeOK
  <2>8. CASE LinkUp
    BY <2>8 DEF LinkUp, Shape, TypeOK
  <2> QED  BY <2>1, <2>2, <2>3, <2>4, <2>5, <2>6, <2>7, <2>8
<1>4. conn' \in Nat /\ made' \in Nat /\ wills' \subseteq Nat
  <2>1. conn \in Nat /\ made \in Nat /\ wills \subseteq Nat /\ made + 1 \in Nat
    BY DEF Shape, TypeOK
  <2>2. CASE NodeConnects
    BY <2>1, <2>2 DEF NodeConnects
  <2>3. CASE NodeSaysGoodbye
    BY <2>1, <2>3 DEF NodeSaysGoodbye
  <2>5. CASE NodeDies
    BY <2>1, <2>5 DEF NodeDies
  <2>6. CASE \E c \in 1..MaxConn : WillPublished(c)
    BY <2>1, <2>6 DEF WillPublished
  <2>4. CASE NodeSaysAgain \/ NodeBeats \/ LinkDown \/ LinkUp
    BY <2>1, <2>4 DEF NodeSaysAgain, NodeBeats, LinkDown, LinkUp, node
  <2> QED  BY <2>2, <2>3, <2>4, <2>5, <2>6
<1>5. TypeOK'
  BY <1>2, <1>3, <1>4 DEF Shape, TypeOK
<1> QED  BY <1>2, <1>5, NobodyMoves DEF Shape

LEMMA HubRestartsShape == ASSUME Shape, HubRestarts PROVE Shape'
<1>1. work' = [t \in Threads |-> Resting]
  BY DEF HubRestarts
<1>2. \A t \in Threads : HandlingOf(t)'
  BY <1>1, RestingIs DEF HandlingOf, Handles, At, InHandle
<1>3. work' \in [Threads -> Work]
  BY <1>1, RestingIs
<1>4. told' \in Grant \cup {None}
  BY DEF HubRestarts, Shape, TypeOK
<1>6. restarts' \in Nat /\ UNCHANGED <<status, retained, conn, made, wills, epoch>>
  BY DEF HubRestarts, node, Shape, TypeOK
<1>7. linked' = FALSE /\ wire' = << >> /\ held' = None /\ session' = None /\ due' = FALSE
      /\ welcomed' = 0
  BY DEF HubRestarts
<1>5. TypeOK'
  BY <1>3, <1>4, <1>6, <1>7, NothingIsASequence DEF Shape, TypeOK
<1> QED  BY <1>2, <1>5 DEF Shape

(* The rulings and the renewals. *)
LEMMA RulingShape ==
  ASSUME Shape,
         \/ \E s \in {"approved", "revoked"} : ShellRules(s)
         \/ Approve \/ Revoke \/ CallerStep
  PROVE  Shape'
<1>1. CASE \E s \in {"approved", "revoked"} : ShellRules(s)
  <2>1. TypeOK'
    BY <1>1 DEF ShellRules, broker, node, history, Shape, TypeOK
  <2> QED  BY <1>1, <2>1, NobodyMoves DEF ShellRules, Shape
<1>2. ASSUME NEW s \in {"approved", "revoked", "unheld", "ungranted", "closed", "idle"},
             Go("caller", s)
      PROVE  work' \in [Threads -> Work] /\ \A t \in Threads : HandlingOf(t)'
  <2>1. "caller" \in Threads /\ s \in Steps /\ work \in [Threads -> Work]
    BY DEF Threads, Steps, Shape, TypeOK
  <2>2. /\ work' \in [Threads -> Work] /\ work'["caller"].at = s
        /\ work'["caller"].after = work["caller"].after
        /\ \A u \in Threads : u # "caller" => work'[u] = work[u]
    BY <1>2, <2>1, GoIs
  <2>3. HandlingOf("caller")'
    BY <2>1, <2>2 DEF HandlingOf, Handles, At, InHandle, Shape
  <2> QED  BY <2>1, <2>2, <2>3, OthersKeep
<1>3. CASE Approve \/ Revoke
  <2>1. work' \in [Threads -> Work] /\ \A t \in Threads : HandlingOf(t)'
    BY <1>2, <1>3 DEF Approve, Revoke
  <2> QED  BY <1>3, <2>1 DEF Approve, Revoke, broker, node, history, Shape, TypeOK
<1>4. CASE ApproveReads
  <2>1. "caller" \in Threads /\ work \in [Threads -> Work] /\ held \in Message \cup {None}
    BY DEF Threads, Shape, TypeOK
  <2> DEFINE w == IF held = None THEN Resting ELSE Reading(held, None)
  <2>2. w \in Work /\ w.after = None /\ (w.at = "idle" \/ (w.at = "arrived" /\ w.msg \in Message))
    <3>1. CASE held = None
      <4>1. w = Resting
        BY <3>1
      <4> HIDE DEF w
      <4> QED  BY <4>1, RestingIs
    <3>2. CASE held # None
      <4>1. w = Reading(held, None) /\ held \in Message /\ None \in Message \cup {None}
        BY <2>1, <3>2
      <4> HIDE DEF w
      <4> QED  BY <4>1, ReadingIs
    <3> QED  BY <3>1, <3>2
  <2>6. work' = [work EXCEPT !["caller"] = w]
    BY <1>4 DEF ApproveReads
  <2> HIDE DEF w
  <2>3. /\ work' \in [Threads -> Work] /\ work'["caller"] = w
        /\ \A u \in Threads : u # "caller" => work'[u] = work[u]
    BY <2>1, <2>2, <2>6, SetIs
  <2>4. HandlingOf("caller")'
    BY <2>2, <2>3 DEF HandlingOf, Handles, At, InHandle
  <2>5. \A t \in Threads : HandlingOf(t)'
    BY <2>1, <2>3, <2>4, OthersKeep
  <2> QED  BY <1>4, <2>3, <2>5 DEF ApproveReads, broker, node, history, Shape, TypeOK
<1>5. CASE RevokeUnholds \/ RevokeTakesGrants \/ RevokeCloses \/ RevokeTells
  <2>1. work' \in [Threads -> Work] /\ \A t \in Threads : HandlingOf(t)'
    BY <1>2, <1>5 DEF RevokeUnholds, RevokeTakesGrants, RevokeCloses, RevokeTells
  <2>2. session' \in Session \cup {None}
    <3>1. session \in Session \cup {None}
      BY DEF Shape, TypeOK
    <3>2. session \in Session => [session EXCEPT !.grant = None] \in Session
      BY RegrantedIs
    <3>3. session \in Session => Ended \in Session
      BY EndedIs
    <3> QED  BY <1>5, <3>1, <3>2, <3>3
             DEF RevokeUnholds, RevokeTakesGrants, RevokeCloses, RevokeTells
  <2>3. wire' \in Seq(Message)
    BY <1>5, MessagesAre DEF RevokeUnholds, RevokeTakesGrants, RevokeCloses, RevokeTells,
       broker, Shape, TypeOK
  <2> QED  BY <1>5, <2>1, <2>2, <2>3
           DEF RevokeUnholds, RevokeTakesGrants, RevokeCloses, RevokeTells, broker, node,
               history, Shape, TypeOK
<1> QED  BY <1>1, <1>3, <1>4, <1>5 DEF CallerStep


LEMMA RenewalShape ==
  ASSUME Shape, Ages \/ Lapses \/ DueForRenewal \/ Renew
  PROVE  Shape'
<1>1. /\ UNCHANGED <<status, linked, wire, retained, conn, made, wills, held, epoch, work, told,
                     restarts, welcomed>>
      /\ due' \in BOOLEAN
  BY DEF Ages, Lapses, DueForRenewal, Renew, broker, node, history, Shape, TypeOK
<1>2. session \in Session \cup {None}
  BY DEF Shape, TypeOK
<1>3. Granted => session \in Session /\ session.grant \in Grant
  BY <1>2 DEF Granted, Current, Session
<1>4. ASSUME Granted, NEW l \in Lives PROVE [session EXCEPT !.grant.life = l] \in Session
  <2>1. PICK g \in Grant : [session EXCEPT !.grant.life = l] = [session EXCEPT !.grant = g]
    BY <1>3, <1>4, AgedIs
  <2> QED  BY <1>3, <1>4, <2>1, RegrantedIs
<1>5. session' \in Session \cup {None}
  <2>1. CASE UNCHANGED session
    BY <1>2, <2>1
  <2>2. ASSUME Granted, NEW l \in Lives, session' = [session EXCEPT !.grant.life = l]
        PROVE  session' \in Session
    BY <1>4, <2>2
  <2>3. "due" \in Lives /\ "expired" \in Lives /\ "fresh" \in Lives
    BY DEF Lives
  <2>4. CASE Ages
    BY <2>2, <2>3, <2>4 DEF Ages
  <2>5. CASE Lapses
    BY <2>2, <2>3, <2>5 DEF Lapses
  <2>6. CASE Renew
    BY <2>1, <2>2, <2>3, <2>6 DEF Renew
  <2> QED  BY <2>1, <2>4, <2>5, <2>6 DEF DueForRenewal
<1>6. TypeOK'
  BY <1>1, <1>5 DEF Shape, TypeOK
<1> QED  BY <1>1, <1>6, NobodyMoves DEF Shape

(* A message of the wire, or one of handle's steps. *)
LEMMA ArrivesMoves ==
  ASSUME Shape, Arrives
  PROVE  /\ wire # << >> /\ work' \in [Threads -> Work]
         /\ LET w == work'["network"] IN
            w.at = "arrived" /\ w.msg = wire[1] /\ wire[1] \in Message /\ w.after = None
         /\ work'["caller"] = work["caller"]
         /\ At("network", "idle") /\ wire' = Tail(wire)
         /\ UNCHANGED <<status, linked, retained, node, held, session, epoch, due, told, history>>
<1>1. wire # << >> /\ wire \in Seq(Message) /\ work \in [Threads -> Work]
  BY DEF Arrives, Shape, TypeOK
<1>2. Head(wire) = wire[1] /\ wire[1] \in Message /\ None \in Message \cup {None}
  BY <1>1
<1> DEFINE w == Reading(wire[1], None)
<1>3. w \in Work /\ w.at = "arrived" /\ w.msg = wire[1] /\ w.after = None
  BY <1>2, ReadingIs
<1>4. work' = [work EXCEPT !["network"] = w]
  BY <1>2 DEF Arrives
<1> HIDE DEF w
<1>5. "network" \in Threads /\ "caller" \in Threads /\ "caller" # "network"
  BY DEF Threads
<1>6. work' \in [Threads -> Work] /\ work'["network"] = w /\ work'["caller"] = work["caller"]
  BY <1>1, <1>3, <1>4, <1>5, SetIs
<1> QED  BY <1>1, <1>2, <1>3, <1>6 DEF Arrives

LEMMA ArrivesShape == ASSUME Shape, Arrives PROVE Shape'
<1>1. HandlingOf("network")'
  BY ArrivesMoves DEF HandlingOf, Handles, At, InHandle
<1>2. \A u \in Threads : u # "network" => work'[u] = work[u]
  BY ArrivesMoves DEF Threads
<1>3. \A u \in Threads : HandlingOf(u)'
  BY <1>1, <1>2, OthersKeep DEF Threads
<1>4. wire' \in Seq(Message)
  <2>1. wire \in Seq(Message) /\ wire # << >> /\ wire' = Tail(wire)
    BY ArrivesMoves DEF Shape, TypeOK
  <2> QED  BY <2>1
<1>5. TypeOK'
  BY <1>4, ArrivesMoves DEF Shape, TypeOK, node, history
<1> QED  BY <1>3, <1>5 DEF Shape


LEMMA AuthenticateMoves ==
  ASSUME Shape, NEW t \in Threads, Authenticate(t)
  PROVE  /\ At(t, "arrived")
         /\ work' \in [Threads -> Work] /\ work'[t].at \in {"believed", "refused"}
         /\ work'[t].msg = work[t].msg /\ work'[t].after = work[t].after
         /\ \A u \in Threads : u # t => work'[u] = work[u]
         /\ UNCHANGED <<status, broker, node, held, session, epoch, due, told, history>>
<1>1. work \in [Threads -> Work] /\ "believed" \in Steps /\ "refused" \in Steps
  BY DEF Shape, TypeOK, Steps
<1>2. Go(t, "believed") \/ Go(t, "refused")
  BY DEF Authenticate
<1> QED  BY <1>1, <1>2, GoIs DEF Authenticate

LEMMA TakeHeldMoves ==
  ASSUME Shape, NEW t \in Threads, TakeHeld(t)
  PROVE  /\ At(t, "believed") /\ work[t].msg \in Message
         /\ work' \in [Threads -> Work]
         /\ \/ /\ held # None /\ held \in Message /\ work[t].msg.channel # "state"
               /\ work'[t].at = "arrived" /\ work'[t].msg = held
               /\ work'[t].after = work[t].msg
            \/ /\ held = None \/ work[t].msg.channel = "state"
               /\ work'[t].at = "decoded" /\ work'[t].msg = work[t].msg
               /\ work'[t].after = work[t].after
         /\ \A u \in Threads : u # t => work'[u] = work[u]
         /\ held' = None
         /\ UNCHANGED <<status, broker, node, session, epoch, due, told, history>>
<1>1. work \in [Threads -> Work] /\ work[t] \in Work /\ held \in Message \cup {None}
  BY DEF Shape, TypeOK
<1>2. work[t].msg \in Message
  BY DEF TakeHeld, At, Shape, HandlingOf, Handles, InHandle
<1>3. CASE held # None /\ work[t].msg.channel # "state"
  <2>1. work' = [work EXCEPT ![t] = Reading(held, work[t].msg)]
    BY <1>1, <1>3 DEF TakeHeld
  <2>2. held \in Message
    BY <1>1, <1>3
  <2>3. PICK w : w = Reading(held, work[t].msg)
    OBVIOUS
  <2>4. w \in Work /\ w.at = "arrived" /\ w.msg = held /\ w.after = work[t].msg
    BY <1>2, <2>2, <2>3, ReadingIs
  <2>5. work' \in [Threads -> Work] /\ work'[t] = w
        /\ \A u \in Threads : u # t => work'[u] = work[u]
    BY <1>1, <2>1, <2>3, <2>4, SetIs
  <2> QED  BY <1>2, <1>3, <2>2, <2>4, <2>5 DEF TakeHeld
<1>4. CASE ~(held # None /\ work[t].msg.channel # "state")
  <2>1. Go(t, "decoded")
    BY <1>1, <1>4 DEF TakeHeld, Go
  <2>2. "decoded" \in Steps
    BY DEF Steps
  <2> QED  BY <1>1, <1>2, <1>4, <2>1, <2>2, GoIs DEF TakeHeld
<1> QED  BY <1>3, <1>4

(* Handling that ends here: the thread rests, or goes back to the message  *)
(* that waited.                                                            *)
LEMMA EndsMoves ==
  ASSUME Shape, NEW t \in Threads, Return(t)
  PROVE  /\ work' \in [Threads -> Work]
         /\ work'[t].after = None
         /\ \/ work'[t].at = "idle"
            \/ /\ work'[t].at = "decoded" /\ work'[t].msg \in Message
               /\ work'[t].msg.channel = "other"
         /\ \A u \in Threads : u # t => work'[u] = work[u]
<1>1. work \in [Threads -> Work] /\ work[t] \in Work
  BY DEF Shape, TypeOK
<1>2. work[t].after \in Message \cup {None}
  BY <1>1 DEF Work
<1>3. work[t].after # None => work[t].after.channel = "other"
  BY DEF Shape, HandlingOf
<1> QED  BY <1>1, <1>2, <1>3, ReturnIs

LEMMA HandleHelloMoves ==
  ASSUME Shape, NEW t \in Threads, HandleHello(t), Go(t, "opening")
  PROVE  /\ work' \in [Threads -> Work] /\ work'[t].at = "opening"
         /\ work'[t].msg = work[t].msg /\ work'[t].after = work[t].after
         /\ work[t].msg \in Message /\ IsHello(work[t].msg)
         /\ \A u \in Threads : u # t => work'[u] = work[u]
<1>1. work \in [Threads -> Work] /\ "opening" \in Steps
  BY DEF Shape, TypeOK, Steps
<1>2. work[t].msg \in Message
  BY DEF HandleHello, At, Shape, HandlingOf, Handles, InHandle
<1>3. IsHello(work[t].msg)
  BY DEF HandleHello, IsHello
<1> QED  BY <1>1, <1>2, <1>3, GoIs

LEMMA OpenMoves ==
  ASSUME Shape, NEW t \in Threads, Open(t)
  PROVE  /\ At(t, "opening") /\ work[t].msg \in Message /\ IsHello(work[t].msg)
         /\ work' \in [Threads -> Work] /\ work'[t].at = "opened"
         /\ work'[t].msg = work[t].msg /\ work'[t].after = work[t].after
         /\ \A u \in Threads : u # t => work'[u] = work[u]
         /\ session' \in Session /\ session'.conn = work[t].msg.conn
         /\ session'.grant = None /\ ~session'.closed
<1>1. work \in [Threads -> Work] /\ "opened" \in Steps /\ epoch \in Nat
  BY DEF Shape, TypeOK, Steps
<1>2. work[t].msg \in Message /\ IsHello(work[t].msg)
  BY DEF Open, At, Shape, HandlingOf, Handles, InHandle
<1>3. Go(t, "opened")
  BY DEF Open
<1>4. work[t].msg.conn \in Nat
  BY <1>2 DEF Message
<1>5. session' = [conn |-> work[t].msg.conn, epoch |-> epoch + 1, closed |-> FALSE,
                  grant |-> None]
  BY DEF Open
<1>6. session' \in Session /\ session'.conn = work[t].msg.conn /\ session'.grant = None
      /\ ~session'.closed
  BY <1>1, <1>4, <1>5 DEF Session
<1> QED  BY <1>1, <1>2, <1>3, <1>6, GoIs DEF Open


LEMMA GrantEventsMoves ==
  ASSUME Shape, NEW t \in Threads, GrantEvents(t)
  PROVE  /\ At(t, "opened")
         /\ work' \in [Threads -> Work]
         /\ \A u \in Threads : u # t => work'[u] = work[u]
         /\ \/ /\ ~Current /\ work'[t] = Resting /\ session' = session
            \/ /\ Current /\ session \in Session /\ session' \in Session
               /\ session'.conn = session.conn /\ session'.epoch = session.epoch
               /\ session'.closed = session.closed
               /\ work'[t].at = "granted"
               /\ work'[t].msg = work[t].msg /\ work'[t].after = work[t].after
               /\ work'[t].grant = session'.grant
               /\ session'.grant \in Grant /\ session'.grant.epoch = session.epoch
<1>1. work \in [Threads -> Work] /\ work[t] \in Work /\ session \in Session \cup {None}
  BY DEF Shape, TypeOK
<1>2. CASE ~Current /\ work' = [work EXCEPT ![t] = Resting] /\ session' = session
  BY <1>1, <1>2, RestingIs, SetIs DEF GrantEvents
<1>3. CASE Current
  <2> DEFINE g == [by |-> t, epoch |-> session.epoch, life |-> "fresh"]
             w == [work[t] EXCEPT !.at = "granted", !.grant = g]
  <2>1. session \in Session
    BY <1>1, <1>3 DEF Current
  <2>2. g \in Grant /\ g.epoch = session.epoch
    BY <2>1 DEF Session, Grant
  <2>3. session' = [session EXCEPT !.grant = g] /\ work' = [work EXCEPT ![t] = w]
    BY <1>1, <1>3 DEF GrantEvents
  <2> HIDE DEF g
  <2>4. w.at = "granted" /\ w.grant = g /\ w.msg = work[t].msg /\ w.after = work[t].after
    BY <1>1 DEF Work
  <2>5. w \in Work
    BY <1>1, <2>2 DEF Work, Steps
  <2> HIDE DEF w
  <2>6. work' \in [Threads -> Work] /\ work'[t] = w
        /\ \A u \in Threads : u # t => work'[u] = work[u]
    BY <1>1, <2>3, <2>5, SetIs
  <2>7. /\ session' \in Session /\ session'.conn = session.conn /\ session'.epoch = session.epoch
        /\ session'.closed = session.closed /\ session'.grant = g
    BY <2>1, <2>2, <2>3, RegrantedIs
  <2> QED  BY <1>3, <2>1, <2>2, <2>4, <2>6, <2>7 DEF GrantEvents
<1> QED  BY <1>2, <1>3 DEF GrantEvents

LEMMA HandleShape == ASSUME Shape, NEW t \in Threads, HandleStep(t) PROVE Shape'
<1>1. ASSUME work' \in [Threads -> Work], \A u \in Threads : u # t => work'[u] = work[u],
             HandlingOf(t)', held' \in Message \cup {None}, session' \in Session \cup {None},
             epoch' \in Nat, welcomed' \in Nat, told' \in Grant \cup {None},
             UNCHANGED <<status, broker, node, due, restarts>>
      PROVE  Shape'
  <2>1. TypeOK'
    BY <1>1 DEF broker, node, Shape, TypeOK
  <2> QED  BY <1>1, <2>1, OthersKeep DEF Shape
<1>2. /\ held \in Message \cup {None} /\ session \in Session \cup {None} /\ epoch \in Nat
      /\ welcomed \in Nat /\ told \in Grant \cup {None} /\ work[t] \in Work
      /\ HandlingOf(t)
  BY DEF Shape, TypeOK
<1>3. CASE Authenticate(t)
  <2>1. HandlingOf(t)'
    BY <1>2, <1>3, AuthenticateMoves DEF HandlingOf, Handles, At, InHandle
  <2> QED  BY <1>1, <1>2, <1>3, <2>1, AuthenticateMoves DEF history
<1>4. ASSUME Return(t)
      PROVE  /\ work' \in [Threads -> Work] /\ \A u \in Threads : u # t => work'[u] = work[u]
             /\ HandlingOf(t)'
  BY <1>4, EndsMoves DEF HandlingOf, Handles, At, InHandle
<1>5. CASE Hold(t)
  <2>1. held' \in Message \cup {None}
    BY <1>2, <1>5 DEF Hold, At, HandlingOf, Handles, InHandle
  <2> QED  BY <1>1, <1>2, <1>4, <1>5, <2>1 DEF Hold, history
<1>6. CASE TakeHeld(t)
  <2>1. work[t].msg \in Message /\ (work[t].msg.channel # "state" => work[t].msg.channel = "other")
    BY <1>6, TakeHeldMoves DEF Message
  <2>2. HandlingOf(t)'
    BY <1>2, <1>6, <2>1, TakeHeldMoves DEF HandlingOf, Handles, At, InHandle
  <2> QED  BY <1>1, <1>2, <1>6, <2>2, TakeHeldMoves DEF history
<1>7. CASE HandleOther(t)
  BY <1>1, <1>2, <1>4, <1>7 DEF HandleOther, history
<1>8. CASE HandleGoodbye(t)
  <2>1. session' \in Session \cup {None}
    BY <1>2, <1>8, EndedIs DEF HandleGoodbye, Closes
  <2> QED  BY <1>1, <1>2, <1>4, <1>8, <2>1 DEF HandleGoodbye, history
<1>9. CASE HandleHello(t)
  <2>1. CASE Return(t)
    BY <1>1, <1>2, <1>4, <1>9, <2>1 DEF HandleHello, history
  <2>2. CASE Go(t, "opening")
    <3>1. HandlingOf(t)'
      BY <1>2, <1>9, <2>2, HandleHelloMoves DEF HandlingOf, Handles, At, InHandle, IsHello
    <3> QED  BY <1>1, <1>2, <1>9, <2>2, <3>1, HandleHelloMoves DEF HandleHello, history
  <2> QED  BY <1>9, <2>1, <2>2 DEF HandleHello
<1>10. CASE Open(t)
  <2>1. HandlingOf(t)'
    BY <1>2, <1>10, OpenMoves DEF HandlingOf, Handles, At, InHandle
  <2>2. epoch' \in Nat
    BY <1>2, <1>10 DEF Open
  <2>3. welcomed' \in Nat
    BY <1>2, <1>10, OpenMoves DEF Open, Message
  <2> QED  BY <1>1, <1>2, <1>10, <2>1, <2>2, <2>3, OpenMoves DEF Open
<1>11. CASE GrantEvents(t)
  <2>1. HandlingOf(t)'
    BY <1>2, <1>11, GrantEventsMoves, RestingIs DEF HandlingOf, Handles, At, InHandle
  <2>2. session' \in Session \cup {None}
    BY <1>2, <1>11, GrantEventsMoves
  <2> QED  BY <1>1, <1>2, <1>11, <2>1, <2>2, GrantEventsMoves DEF GrantEvents, history
<1>12. CASE SendGrant(t)
  <2>1. told' \in Grant \cup {None}
    BY <1>2, <1>12 DEF SendGrant, Work
  <2> QED  BY <1>1, <1>2, <1>4, <1>12, <2>1 DEF SendGrant, history
<1> QED  BY <1>3, <1>5, <1>6, <1>7, <1>8, <1>9, <1>10, <1>11, <1>12 DEF HandleStep

LEMMA ShapeKept == Shape /\ [Next]_vars => Shape'
<1> SUFFICES ASSUME Shape, [Next]_vars PROVE Shape'
  OBVIOUS
<1>1. CASE UNCHANGED vars
  <2>1. TypeOK'
    BY <1>1 DEF vars, Shape, TypeOK
  <2> QED  BY <1>1, <2>1, NobodyMoves DEF vars, Shape
<1>2. CASE Next
  BY <1>2, NodeShape, HubRestartsShape, ArrivesShape, HandleShape, RulingShape, RenewalShape
     DEF Next
<1> QED  BY <1>1, <1>2

(* The hub's memory, the wire and the threads' work have their types, and  *)
(* the network thread is always in handle or waiting.                      *)
THEOREM TypeCorrect == Spec => []Shape
<1> QED  BY ShapeStart, ShapeKept, PTL DEF Spec


------------------------------------------------------------------------------
(* Without a caller of approve only the network thread handles messages.   *)
CallerIsOut == ~Handles("caller") /\ ~At("caller", "approved")

THEOREM OnlyTheNetworkHandles ==
  ASSUME "approve" \notin Rulings
  PROVE  Spec => []OneHandles
<1>1. Init => CallerIsOut
  BY RestingIs DEF Init, CallerIsOut, Handles, At, InHandle, Threads
<1>2. Shape /\ CallerIsOut /\ [Next]_vars => CallerIsOut'
  <2> SUFFICES ASSUME Shape, CallerIsOut, [Next]_vars PROVE CallerIsOut'
    OBVIOUS
  <2> DEFINE Elsewhere == {"idle", "revoked", "unheld", "ungranted", "closed"}
  <2>1. "caller" \in Threads /\ "network" \in Threads /\ Elsewhere \subseteq Steps
        /\ work \in [Threads -> Work]
    BY DEF Threads, Steps, Shape, TypeOK
  <2>2. CASE UNCHANGED work["caller"]
    BY <2>2 DEF CallerIsOut, Handles, At
  <2>3. ASSUME NEW s \in Elsewhere, Go("caller", s) PROVE CallerIsOut'
    <3>1. work'["caller"].at = s
      BY <2>1, <2>3, GoIs
    <3> QED  BY <3>1 DEF CallerIsOut, Handles, At, InHandle
  <2>4. CASE HubRestarts
    <3>1. work' = [t \in Threads |-> Resting]
      BY <2>4 DEF HubRestarts
    <3> QED  BY <2>1, <3>1, RestingIs DEF CallerIsOut, Handles, At, InHandle
  <2>5. CASE Arrives
    BY <2>2, <2>5, ArrivesMoves
  <2>6. ASSUME NEW t \in Threads, HandleStep(t) PROVE CallerIsOut'
    <3>1. Handles(t)
      BY <2>6 DEF HandleStep, Authenticate, Hold, TakeHeld, HandleOther, HandleGoodbye,
         HandleHello, Open, GrantEvents, SendGrant, At, Handles, InHandle
    <3>2. t # "caller"
      BY <3>1 DEF CallerIsOut
    <3>3. work'["caller"] = work["caller"]
      BY <2>1, <2>6, <3>2, AuthenticateMoves, TakeHeldMoves, EndsMoves, HandleHelloMoves,
         OpenMoves, GrantEventsMoves
         DEF HandleStep, Hold, HandleOther, HandleGoodbye, HandleHello, SendGrant
    <3> QED  BY <2>2, <3>3
  <2>7. CASE \/ Revoke \/ RevokeUnholds \/ RevokeTakesGrants \/ RevokeCloses \/ RevokeTells
    BY <2>3, <2>7 DEF Revoke, RevokeUnholds, RevokeTakesGrants, RevokeCloses, RevokeTells
  <2>8. CASE Approve \/ ApproveReads
    BY <2>8 DEF Approve, ApproveReads, CallerIsOut
  <2>9. CASE UNCHANGED work
    BY <2>2, <2>9
  <2>10. CASE \/ NodeConnects \/ NodeSaysAgain \/ NodeSaysGoodbye \/ NodeDies \/ NodeBeats
              \/ \E c \in 1..MaxConn : WillPublished(c)
              \/ LinkDown \/ LinkUp
    BY <2>9, <2>10 DEF NodeConnects, NodeSaysAgain, NodeSaysGoodbye, NodeDies, NodeBeats,
       WillPublished, LinkDown, LinkUp, hub
  <2>11. CASE \/ Ages \/ Lapses \/ DueForRenewal \/ Renew
              \/ \E s \in {"approved", "revoked"} : ShellRules(s)
    BY <2>9, <2>11 DEF Ages, Lapses, DueForRenewal, Renew, ShellRules
  <2> QED  BY <2>4, <2>5, <2>6, <2>7, <2>8, <2>9, <2>10, <2>11 DEF Next, CallerStep, vars
<1>3. CallerIsOut => OneHandles
  BY DEF CallerIsOut, OneHandles
<1> QED  BY <1>1, <1>2, <1>3, TypeCorrect, PTL DEF Spec

------------------------------------------------------------------------------
(* A session's grant is of its epoch; it has none only while handle is     *)
(* about to give one or revoke about to close it.  A grant given and not   *)
(* sent is the one held, unless revoke took it back; with none to be sent, *)
(* the one told is the one held.                                           *)
Offered ==
  /\ Current /\ session.grant # None => session.grant.epoch = session.epoch
  /\ Current /\ session.grant = None =>
       At("caller", "ungranted") \/ \E t \in Threads : At(t, "opened")
  /\ \A t \in Threads : At(t, "granted") =>
       /\ work[t].grant \in Grant
       /\ Current /\ session.grant # None =>
            work[t].grant.epoch = session.epoch /\ work[t].grant.by = session.grant.by
  /\ Current /\ session.grant # None /\ told # None
     /\ (\A t \in Threads : ~At(t, "opened") /\ ~At(t, "granted")) =>
       told.epoch = session.epoch /\ told.by = session.grant.by

LEMMA OfferedStays ==
  ASSUME Offered, UNCHANGED <<session, told>>,
         \A t \in Threads :
           \/ work'[t] = work[t]
           \/ /\ ~At(t, "opened") /\ ~At(t, "granted") /\ ~At(t, "ungranted")
              /\ work'[t].at \notin {"opened", "granted"}
  PROVE  Offered'
<1>1. Current' = Current
  BY DEF Current
<1>2. "caller" \in Threads
  BY DEF Threads
<1>3. Current /\ session.grant = None =>
       (At("caller", "ungranted") \/ \E t \in Threads : At(t, "opened"))'
  BY <1>2 DEF Offered, At
<1>4. \A t \in Threads : At(t, "granted")' => At(t, "granted") /\ work'[t] = work[t]
  BY DEF At
<1>5. (\A t \in Threads : ~At(t, "opened") /\ ~At(t, "granted"))'
      => \A t \in Threads : ~At(t, "opened") /\ ~At(t, "granted")
  BY DEF At
<1> QED  BY <1>1, <1>3, <1>4, <1>5 DEF Offered

LEMMA NothingOffered ==
  ASSUME ~Current', \A t \in Threads : At(t, "granted")' => work'[t].grant \in Grant
  PROVE  Offered'
BY DEF Offered


(* The steps that touch neither the session nor what the node was told. *)
LEMMA OfferedElsewhere ==
  ASSUME Shape, Offered,
         \/ NodeConnects \/ NodeSaysAgain \/ NodeSaysGoodbye \/ NodeDies \/ NodeBeats
         \/ \E c \in 1..MaxConn : WillPublished(c)
         \/ LinkDown \/ LinkUp \/ DueForRenewal
         \/ \E s \in {"approved", "revoked"} : ShellRules(s)
  PROVE  Offered'
<1>1. UNCHANGED <<session, told, work>>
  BY DEF NodeConnects, NodeSaysAgain, NodeSaysGoodbye, NodeDies, NodeBeats, WillPublished,
     LinkDown, LinkUp, DueForRenewal, ShellRules, hub
<1> QED  BY <1>1, OfferedStays

LEMMA OfferedReading ==
  ASSUME Shape, Offered, Arrives \/ ApproveReads PROVE Offered'
<1>1. UNCHANGED <<session, told>>
  BY DEF Arrives, ApproveReads
<1>2. CASE Arrives
  BY <1>1, <1>2, ArrivesMoves, OfferedStays DEF Threads, At
<1>3. CASE ApproveReads
  <2>1. "caller" \in Threads /\ work \in [Threads -> Work]
    BY DEF Threads, Shape, TypeOK
  <2> DEFINE w == IF held = None THEN Resting ELSE Reading(held, None)
  <2>2. w.at \notin {"opened", "granted"}
    BY RestingIs DEF Reading
  <2>3. work' = [work EXCEPT !["caller"] = w] /\ At("caller", "approved")
    BY <1>3 DEF ApproveReads
  <2> HIDE DEF w
  <2>4. work'["caller"] = w /\ \A u \in Threads : u # "caller" => work'[u] = work[u]
    BY <2>1, <2>3
  <2> QED  BY <1>1, <2>2, <2>3, <2>4, OfferedStays DEF At
<1> QED  BY <1>2, <1>3

LEMMA OfferedRuling ==
  ASSUME Shape, Offered, Approve \/ Revoke \/ RevokeUnholds \/ RevokeTakesGrants
                         \/ RevokeCloses \/ RevokeTells
  PROVE  Offered'
<1>1. "caller" \in Threads /\ work \in [Threads -> Work] /\ session \in Session \cup {None}
  BY DEF Threads, Shape, TypeOK
<1>2. ASSUME NEW s \in {"approved", "revoked", "unheld", "ungranted", "closed", "idle"},
             Go("caller", s)
      PROVE  /\ work'["caller"].at = s
             /\ \A u \in Threads : u # "caller" => work'[u] = work[u]
  <2>1. s \in Steps
    BY DEF Steps
  <2> QED  BY <1>1, <1>2, <2>1, GoIs
<1>3. CASE Approve \/ Revoke \/ RevokeUnholds
  BY <1>2, <1>3, OfferedStays DEF Approve, Revoke, RevokeUnholds, At
<1>4. ASSUME NEW t \in Threads, At(t, "granted")',
             RevokeTakesGrants \/ RevokeCloses \/ RevokeTells
      PROVE  t # "caller" /\ work'[t] = work[t] /\ At(t, "granted") /\ work'[t].grant \in Grant
  BY <1>2, <1>4 DEF RevokeTakesGrants, RevokeCloses, RevokeTells, At, Offered
<1>5. CASE RevokeTakesGrants
  <2>1. CASE session = None
    <3>1. ~Current'
      BY <1>5, <2>1 DEF RevokeTakesGrants, Current
    <3> QED  BY <1>4, <1>5, <3>1, NothingOffered
  <2>2. CASE session # None
    <3>1. session'.grant = None
      BY <1>1, <1>5, <2>2, RegrantedIs DEF RevokeTakesGrants
    <3>2. At("caller", "ungranted")'
      BY <1>2, <1>5 DEF RevokeTakesGrants, At
    <3> QED  BY <1>4, <1>5, <3>1, <3>2 DEF Offered
  <2> QED  BY <2>1, <2>2
<1>6. CASE RevokeCloses
  <2>1. ~Current'
    BY <1>1, <1>6, EndedIs DEF RevokeCloses, Current
  <2> QED  BY <1>4, <1>6, <2>1, NothingOffered
<1>7. CASE RevokeTells
  <2>1. told' = None /\ UNCHANGED session /\ At("caller", "closed") /\ Go("caller", "idle")
    BY <1>7 DEF RevokeTells
  <2>2. Current' = Current
    BY <2>1 DEF Current
  <2>3. \A t \in Threads : At(t, "opened") => At(t, "opened")'
    BY <1>2, <2>1 DEF At
  <2>4. Current /\ session.grant = None => \E t \in Threads : At(t, "opened")
    BY <2>1 DEF Offered, At
  <2> QED  BY <1>4, <1>7, <2>1, <2>2, <2>3, <2>4 DEF Offered
<1> QED  BY <1>3, <1>5, <1>6, <1>7

LEMMA OfferedRenewal ==
  ASSUME Shape, Offered, Ages \/ Lapses \/ Renew PROVE Offered'
<1>1. UNCHANGED <<told, work>>
  BY DEF Ages, Lapses, Renew
<1>2. CASE UNCHANGED session
  BY <1>1, <1>2, OfferedStays
<1>3. ASSUME Granted, NEW l \in Lives, session' = [session EXCEPT !.grant.life = l]
      PROVE  Offered'
  <2>1. session \in Session /\ session.grant \in Grant /\ Current
    BY <1>3 DEF Granted, Current, Shape, TypeOK, Session
  <2>2. PICK g \in Grant : /\ session' = [session EXCEPT !.grant = g]
                           /\ g.by = session.grant.by /\ g.epoch = session.grant.epoch
    BY <1>3, <2>1, AgedIs
  <2>3. /\ session'.epoch = session.epoch /\ session'.grant = g /\ g # None /\ session.grant # None
    BY <2>1, <2>2, RegrantedIs, NoneIsApart
  <2> QED  BY <1>1, <2>1, <2>2, <2>3 DEF Offered, At
<1>4. "due" \in Lives /\ "expired" \in Lives /\ "fresh" \in Lives
  BY DEF Lives
<1> QED  BY <1>2, <1>3, <1>4 DEF Ages, Lapses, Renew

(* Only here does it matter that one thread handles at a time: two grants  *)
(* of one session could be sent in the order opposite to their giving.     *)
LEMMA OfferedHandling ==
  ASSUME Shape, Offered, OneHandles, NEW t \in Threads, HandleStep(t)
  PROVE  Offered'
<1>1. "caller" \in Threads /\ work \in [Threads -> Work] /\ session \in Session \cup {None}
      /\ Threads = {"network", "caller"}
  BY DEF Threads, Shape, TypeOK
<1>2. ASSUME \A u \in Threads : u # t => work'[u] = work[u],
             work'[t].at \notin {"opened", "granted"},
             ~At(t, "opened"), ~At(t, "granted"), ~At(t, "ungranted"),
             UNCHANGED <<session, told>>
      PROVE  Offered'
  BY <1>2, OfferedStays
<1>3. ASSUME Return(t)
      PROVE  /\ \A u \in Threads : u # t => work'[u] = work[u]
             /\ work'[t].at \in {"idle", "decoded"}
  BY <1>3, EndsMoves
<1>4. CASE Authenticate(t)
  BY <1>2, <1>4, AuthenticateMoves DEF At
<1>5. CASE TakeHeld(t)
  BY <1>2, <1>5, TakeHeldMoves DEF At
<1>6. CASE Hold(t) \/ HandleOther(t)
  BY <1>2, <1>3, <1>6 DEF Hold, HandleOther, At
<1>7. CASE HandleHello(t)
  BY <1>2, <1>3, <1>7, HandleHelloMoves DEF HandleHello, At
<1>8. CASE HandleGoodbye(t)
  <2>1. CASE UNCHANGED session
    BY <1>2, <1>3, <1>8, <2>1 DEF HandleGoodbye, At
  <2>2. CASE session # None /\ session' = Ended
    <3>1. ~Current'
      BY <1>1, <2>2, EndedIs DEF Current
    <3>2. \A u \in Threads : At(u, "granted")' => work'[u].grant \in Grant
      BY <1>3, <1>8 DEF HandleGoodbye, At, Offered
    <3> QED  BY <3>1, <3>2, NothingOffered
  <2> QED  BY <1>8, <2>1, <2>2 DEF HandleGoodbye, Closes
<1>9. CASE Open(t)
  <2>1. session'.grant = None /\ work'[t].at = "opened"
        /\ \A u \in Threads : u # t => work'[u] = work[u]
    BY <1>9, OpenMoves
  <2>2. \A u \in Threads : At(u, "granted")' => work'[u].grant \in Grant
    BY <2>1 DEF At, Offered
  <2> QED  BY <2>1, <2>2 DEF At, Offered
<1>10. CASE GrantEvents(t)
  <2>1. \A u \in Threads : u # t => work'[u] = work[u]
    BY <1>10, GrantEventsMoves
  <2>2. \A u \in Threads : u # t => ~At(u, "granted") /\ ~At(u, "opened")
    BY <1>1, <1>10 DEF GrantEvents, OneHandles, Handles, At, InHandle
  <2>3. CASE ~Current /\ work'[t] = Resting /\ session' = session
    <3>1. ~Current'
      BY <2>3 DEF Current
    <3> QED  BY <2>1, <2>2, <2>3, <3>1, NothingOffered, RestingIs DEF At
  <2>4. CASE /\ Current /\ session'.epoch = session.epoch /\ session' \in Session
             /\ work'[t].at = "granted" /\ work'[t].grant = session'.grant
             /\ session'.grant \in Grant /\ session'.grant.epoch = session.epoch
    <3>1. session'.grant # None
      BY <2>4, NoneIsApart
    <3>2. ~(\A u \in Threads : ~At(u, "opened") /\ ~At(u, "granted"))'
      BY <2>4 DEF At
    <3>3. \A u \in Threads : At(u, "granted")' => u = t
      BY <2>1, <2>2 DEF At
    <3> QED  BY <2>4, <3>1, <3>2, <3>3 DEF Offered
  <2> QED  BY <1>10, <2>3, <2>4, GrantEventsMoves
<1>11. CASE SendGrant(t)
  <2>1. told' = work[t].grant /\ At(t, "granted") /\ UNCHANGED session /\ Return(t)
    BY <1>11 DEF SendGrant
  <2>2. Current' = Current
    BY <2>1 DEF Current
  <2>3. \A u \in Threads : (At(u, "opened") => At(u, "opened")')
                           /\ (At(u, "granted")' => At(u, "granted") /\ work'[u] = work[u])
    BY <1>3, <2>1 DEF At
  <2>4. At("caller", "ungranted") => At("caller", "ungranted")'
    BY <1>1, <1>3, <2>1 DEF At
  <2>5. Current /\ session.grant # None =>
          told'.epoch = session.epoch /\ told'.by = session.grant.by
    BY <2>1 DEF Offered
  <2> QED  BY <2>1, <2>2, <2>3, <2>4, <2>5 DEF Offered
<1> QED  BY <1>4, <1>5, <1>6, <1>7, <1>8, <1>9, <1>10, <1>11 DEF HandleStep

LEMMA OfferedKept == Shape /\ OneHandles /\ Offered /\ [Next]_vars => Offered'
<1> SUFFICES ASSUME Shape, OneHandles, Offered, [Next]_vars PROVE Offered'
  OBVIOUS
<1>1. CASE UNCHANGED vars
  BY <1>1, OfferedStays DEF vars
<1>2. CASE HubRestarts
  <2>1. work' = [t \in Threads |-> Resting] /\ session' = None
    BY <1>2 DEF HubRestarts
  <2> QED  BY <2>1, RestingIs, NothingOffered DEF Current, At
<1>3. CASE Next
  BY <1>2, <1>3, OfferedElsewhere, OfferedReading, OfferedRuling, OfferedRenewal,
     OfferedHandling DEF Next, CallerStep
<1> QED  BY <1>1, <1>3

(* While one thread handles at a time, the grant the hub holds for a node  *)
(* is, when all is quiet, the one the node was told of last.               *)
THEOREM TheGrantToldIsHeld == Spec /\ []OneHandles => []ToldOfTheGrantHeld
<1>1. Init => Offered
  BY RestingIs DEF Init, Offered, Current, At, Threads
<1>2. Offered => ToldOfTheGrantHeld
  <2>1. Quiet => ~At("caller", "ungranted")
                 /\ \A t \in Threads : ~At(t, "opened") /\ ~At(t, "granted")
    BY DEF Quiet, At, Threads
  <2> QED  BY <2>1 DEF Offered, ToldOfTheGrantHeld
<1> QED  BY <1>1, <1>2, OfferedKept, TypeCorrect, PTL DEF Spec


------------------------------------------------------------------------------
(* What a message says of connection c, when d were made and a session     *)
(* opened for w: a goodbye is never of the connection that is there, a     *)
(* hello never older than the one welcomed.                                *)
Sound(m, c, d, w) ==
  m.channel = "state" =>
    /\ m.conn <= d
    /\ m.online => w <= m.conn
    /\ ~m.online /\ c # 0 => m.conn # c

(* The hellos of s come in the order of their connections, and behind m. *)
InLine(s) ==
  \A i, j \in 1..Len(s) : i < j /\ IsHello(s[i]) /\ IsHello(s[j]) => s[i].conn <= s[j].conn

Before(m, s) == IsHello(m) => \A i \in 1..Len(s) : IsHello(s[i]) => m.conn <= s[i].conn

AllSound(s, c, d, w) == \A i \in 1..Len(s) : Sound(s[i], c, d, w)

LEMMA SoundStays ==
  ASSUME NEW c \in Nat, NEW d \in Nat, NEW w \in Nat,
         NEW c2 \in Nat, NEW d2 \in Nat, NEW w2 \in Nat,
         d <= d2, w2 <= w, c2 \in {0, c} \/ d < c2
  PROVE  \A m \in Message : Sound(m, c, d, w) => Sound(m, c2, d2, w2)
BY DEF Sound, Message

LEMMA AppendedIs ==
  ASSUME NEW s \in Seq(Message), NEW m \in Message
  PROVE  /\ Append(s, m) \in Seq(Message) /\ Len(Append(s, m)) = Len(s) + 1
         /\ Len(s) \in Nat /\ \A i \in 1..Len(s) : Append(s, m)[i] = s[i] /\ s[i] \in Message
         /\ Append(s, m)[Len(s) + 1] = m
OBVIOUS

LEMMA AppendKeepsLine ==
  ASSUME NEW s \in Seq(Message), NEW m \in Message,
         NEW c \in Nat, NEW d \in Nat, NEW w \in Nat,
         AllSound(s, c, d, w), InLine(s), Sound(m, c, d, w), IsHello(m) => m.conn = d
  PROVE  /\ AllSound(Append(s, m), c, d, w) /\ InLine(Append(s, m))
         /\ \A x \in Message : Sound(x, c, d, w) /\ Before(x, s) => Before(x, Append(s, m))
<1> DEFINE n == Len(s)
           a == Append(s, m)
<1>1. /\ n \in Nat /\ Len(a) = n + 1 /\ a[n + 1] = m
      /\ \A i \in 1..n : a[i] = s[i] /\ s[i] \in Message
  BY AppendedIs
<1>2. \A i \in 1..n : IsHello(s[i]) => s[i].conn <= d
  BY DEF AllSound, Sound, IsHello
<1>3. m.conn \in Nat /\ \A i \in 1..n : s[i].conn \in Nat
  BY <1>1 DEF Message
<1> HIDE DEF a
<1>4. \A i \in 1..Len(a) : i = n + 1 \/ i \in 1..n
  BY <1>1
<1>5. AllSound(a, c, d, w)
  BY <1>1, <1>4 DEF AllSound
<1>6. InLine(a)
  <2> SUFFICES ASSUME NEW i \in 1..Len(a), NEW j \in 1..Len(a), i < j,
                      IsHello(a[i]), IsHello(a[j])
               PROVE  a[i].conn <= a[j].conn
    BY DEF InLine
  <2>1. i \in 1..n
    BY <1>1, <1>4
  <2>2. CASE j \in 1..n
    BY <1>1, <2>1, <2>2 DEF InLine
  <2>3. CASE j = n + 1
    BY <1>1, <1>2, <2>1, <2>3
  <2> QED  BY <1>4, <2>2, <2>3
<1>7. ASSUME NEW x \in Message, Sound(x, c, d, w), Before(x, s) PROVE Before(x, a)
  <2>1. IsHello(x) => x.conn <= d
    BY <1>7 DEF Sound, IsHello
  <2>2. ASSUME IsHello(x), NEW i \in 1..Len(a), IsHello(a[i]) PROVE x.conn <= a[i].conn
    <3>1. CASE i \in 1..n
      BY <1>1, <1>7, <2>2, <3>1 DEF Before
    <3>2. CASE i = n + 1
      BY <1>1, <2>1, <2>2, <3>2
    <3> QED  BY <1>4, <3>1, <3>2
  <2> QED  BY <2>2 DEF Before
<1> QED  BY <1>5, <1>6, <1>7 DEF a

LEMMA TailKeepsLine ==
  ASSUME NEW s \in Seq(Message), s # << >>,
         NEW c \in Nat, NEW d \in Nat, NEW w \in Nat,
         AllSound(s, c, d, w), InLine(s)
  PROVE  /\ AllSound(Tail(s), c, d, w) /\ InLine(Tail(s))
         /\ Sound(s[1], c, d, w) /\ Before(s[1], Tail(s))
         /\ \A x : Before(x, s) => Before(x, Tail(s))
<1> DEFINE n == Len(s)
           a == Tail(s)
<1>1. /\ n \in Nat /\ n >= 1 /\ Len(a) = n - 1
      /\ \A i \in 1..(n - 1) : a[i] = s[i + 1] /\ i + 1 \in 1..n
  OBVIOUS
<1> HIDE DEF a
<1>2. AllSound(a, c, d, w)
  BY <1>1 DEF AllSound
<1>3. InLine(a)
  <2> SUFFICES ASSUME NEW i \in 1..Len(a), NEW j \in 1..Len(a),
                      i < j, IsHello(a[i]), IsHello(a[j])
               PROVE  a[i].conn <= a[j].conn
    BY DEF InLine
  <2>1. /\ i + 1 \in 1..n /\ j + 1 \in 1..n /\ i + 1 < j + 1
        /\ a[i] = s[i + 1] /\ a[j] = s[j + 1]
    BY <1>1
  <2> QED  BY <2>1 DEF InLine
<1>4. Sound(s[1], c, d, w)
  BY <1>1 DEF AllSound
<1>5. Before(s[1], a)
  <2> SUFFICES ASSUME IsHello(s[1]), NEW i \in 1..Len(a), IsHello(a[i])
               PROVE  s[1].conn <= a[i].conn
    BY DEF Before
  <2>1. 1 \in 1..n /\ i + 1 \in 1..n /\ 1 < i + 1 /\ a[i] = s[i + 1]
    BY <1>1
  <2> QED  BY <2>1 DEF InLine
<1>6. \A x : Before(x, s) => Before(x, a)
  BY <1>1 DEF Before
<1> QED  BY <1>2, <1>3, <1>4, <1>5, <1>6 DEF a


(* What is on the wire, held or in hand; a state being opened for, or      *)
(* about to be, leaves nothing held.                                       *)
Good(m) == Sound(m, conn, made, welcomed) /\ Before(m, wire)

Opens(t) == At(t, "opening") \/ (At(t, "decoded") /\ work[t].msg.channel = "state")

Travelling ==
  /\ AllSound(wire, conn, made, welcomed) /\ InLine(wire)
  /\ held # None => Good(held)
  /\ \A t \in Threads : Handles(t) => Good(work[t].msg)
  /\ \A t \in Threads : Opens(t) => held = None

Counted ==
  /\ conn \in {0, made} /\ welcomed <= made
  /\ \A c \in wills : c <= made /\ (conn # 0 => c # conn)
  /\ retained # None => /\ Sound(retained, conn, made, welcomed)
                        /\ IsHello(retained) => retained.conn = made

Presence == Counted /\ Travelling /\ PresentIsNotBuried

(* Nothing in hand changes, and whatever was good stays so. *)
LEMMA TravelOn ==
  ASSUME Shape, Travelling, UNCHANGED <<held, work>>,
         AllSound(wire', conn', made', welcomed'), InLine(wire'),
         \A m \in Message : Good(m) => Sound(m, conn', made', welcomed') /\ Before(m, wire')
  PROVE  Travelling'
<1>1. held # None => held \in Message
  BY DEF Shape, TypeOK
<1>2. \A t \in Threads : Handles(t) => work[t].msg \in Message
  BY DEF Shape, HandlingOf
<1>3. held' # None => Sound(held', conn', made', welcomed') /\ Before(held', wire')
  BY <1>1 DEF Travelling
<1>4. ASSUME NEW t \in Threads, Handles(t)'
      PROVE  Sound(work'[t].msg, conn', made', welcomed') /\ Before(work'[t].msg, wire')
  BY <1>2, <1>4 DEF Travelling, Handles
<1>5. \A t \in Threads : Opens(t)' => held' = None
  BY DEF Travelling, Opens, At
<1> QED  BY <1>3, <1>4, <1>5 DEF Travelling, Good

LEMMA PublishTravels ==
  ASSUME Shape, Counted, Travelling, UNCHANGED <<held, work, welcomed>>,
         conn' \in Nat, made' \in Nat, made <= made',
         conn' \in {0, conn} \/ made < conn',
         NEW m \in Message, PublishState(m), Sound(m, conn', made', welcomed'),
         IsHello(m) => m.conn = made'
  PROVE  Travelling'
<1>1. wire \in Seq(Message) /\ conn \in Nat /\ made \in Nat /\ welcomed \in Nat
  BY DEF Shape, TypeOK
<1>2. \A x \in Message : Sound(x, conn, made, welcomed) => Sound(x, conn', made', welcomed')
  <2>1. PICK c \in Nat, d \in Nat : c = conn' /\ d = made' /\ made <= d /\ (c \in {0, conn} \/ made < c)
    OBVIOUS
  <2>2. welcomed' = welcomed /\ welcomed <= welcomed
    BY <1>1
  <2>3. \A x \in Message : Sound(x, conn, made, welcomed) => Sound(x, c, d, welcomed)
    BY <1>1, <2>1 DEF Sound, Message
  <2> QED  BY <2>1, <2>2, <2>3
<1>3. AllSound(wire, conn', made', welcomed')
  <2>1. \A i \in 1..Len(wire) : wire[i] \in Message /\ Sound(wire[i], conn, made, welcomed)
    BY <1>1 DEF Travelling, AllSound
  <2> QED  BY <1>2, <2>1 DEF AllSound
<1>4. InLine(wire) /\ \A x \in Message : Good(x) => Sound(x, conn', made', welcomed')
                                                  /\ Before(x, wire)
  BY <1>2 DEF Travelling, Good
<1>5. CASE wire' = wire
  BY <1>3, <1>4, <1>5, TravelOn
<1>6. CASE wire' = Append(wire, m)
  <2>1. welcomed' \in Nat
    BY <1>1
  <2>2. /\ AllSound(wire', conn', made', welcomed') /\ InLine(wire')
        /\ \A x \in Message : Sound(x, conn', made', welcomed') /\ Before(x, wire)
                               => Before(x, wire')
    BY <1>1, <1>3, <1>4, <1>6, <2>1, AppendKeepsLine
  <2> QED  BY <1>4, <2>2, TravelOn
<1> QED  BY <1>5, <1>6 DEF PublishState


LEMMA NobodyIsBuried ==
  ASSUME PresentIsNotBuried, UNCHANGED <<session, welcomed>>,
         conn' \in {0, conn} \/ welcomed < conn', welcomed \in Nat, conn' \in Nat
  PROVE  PresentIsNotBuried'
<1>1. Current' = Current
  BY DEF Current
<1>2. conn' # 0 /\ welcomed' = conn' => conn' = conn
  OBVIOUS
<1> QED  BY <1>1, <1>2 DEF PresentIsNotBuried

LEMMA NodePresence ==
  ASSUME Shape, Presence,
         \/ NodeConnects \/ NodeSaysAgain \/ NodeSaysGoodbye \/ NodeDies \/ NodeBeats
         \/ \E c \in 1..MaxConn : WillPublished(c)
         \/ LinkDown \/ LinkUp
  PROVE  Presence'
<1>1. UNCHANGED <<held, session, work, welcomed>>
  BY DEF NodeConnects, NodeSaysAgain, NodeSaysGoodbye, NodeDies, NodeBeats, WillPublished,
     LinkDown, LinkUp, hub, history
<1>2. /\ wire \in Seq(Message) /\ conn \in Nat /\ made \in Nat /\ welcomed \in Nat
      /\ retained \in Message \cup {None} /\ wills \subseteq Nat
  BY DEF Shape, TypeOK
<1>3. Counted /\ Travelling /\ PresentIsNotBuried
  BY DEF Presence
<1>4. CASE NodeConnects
  <2>1. made' = made + 1 /\ conn' = made + 1 /\ wills' = wills /\ PublishState(Hello(made + 1))
    BY <1>4 DEF NodeConnects
  <2> DEFINE m == Hello(made + 1)
  <2>2. m \in Message /\ IsHello(m) /\ m.channel = "state" /\ m.online /\ m.conn = made + 1
    BY <1>2 DEF Hello, Message, IsHello
  <2> HIDE DEF m
  <2>3. welcomed <= made
    BY <1>3 DEF Counted
  <2>4. Sound(m, conn', made', welcomed')
    BY <1>1, <1>2, <2>1, <2>2, <2>3 DEF Sound
  <2>5. Travelling'
    BY <1>1, <1>2, <1>3, <2>1, <2>2, <2>4, PublishTravels DEF m
  <2>6. retained' = m
    BY <2>1 DEF PublishState, m
  <2>7. \A c \in wills : c <= made' /\ c # conn'
    BY <1>2, <1>3, <2>1 DEF Counted
  <2>8. Counted'
    BY <1>1, <1>2, <2>1, <2>2, <2>3, <2>4, <2>6, <2>7 DEF Counted
  <2>9. PresentIsNotBuried'
    BY <1>1, <1>2, <1>3, <2>1, <2>3, NobodyIsBuried
  <2> QED  BY <2>5, <2>8, <2>9 DEF Presence
<1>5. CASE NodeSaysAgain
  <2>1. UNCHANGED <<made, conn, wills>> /\ PublishState(Hello(conn)) /\ conn # 0
    BY <1>5 DEF NodeSaysAgain, node
  <2> DEFINE m == Hello(conn)
  <2>2. m \in Message /\ m.channel = "state" /\ m.online /\ m.conn = conn
    BY <1>2 DEF Hello, Message
  <2> HIDE DEF m
  <2>3. welcomed <= made /\ conn = made
    BY <1>3, <2>1 DEF Counted
  <2>4. Sound(m, conn', made', welcomed')
    BY <1>1, <1>2, <2>1, <2>2, <2>3 DEF Sound
  <2>5. Travelling'
    BY <1>1, <1>2, <1>3, <2>1, <2>2, <2>3, <2>4, PublishTravels DEF m
  <2>6. retained' = m
    BY <2>1 DEF PublishState, m
  <2>7. Counted'
    BY <1>1, <1>3, <2>1, <2>2, <2>3, <2>4, <2>6 DEF Counted
  <2>8. PresentIsNotBuried'
    BY <1>1, <1>2, <1>3, <2>1, NobodyIsBuried
  <2> QED  BY <2>5, <2>7, <2>8 DEF Presence
<1>6. CASE NodeSaysGoodbye
  <2>1. UNCHANGED <<made, wills>> /\ conn' = 0 /\ PublishState(Goodbye(conn))
    BY <1>6 DEF NodeSaysGoodbye
  <2> DEFINE m == Goodbye(conn)
  <2>2. m \in Message /\ m.channel = "state" /\ ~m.online /\ m.conn = conn
    BY <1>2 DEF Goodbye, Message
  <2> HIDE DEF m
  <2>3. conn <= made
    BY <1>2, <1>3 DEF Counted
  <2>4. Sound(m, conn', made', welcomed')
    BY <2>1, <2>2, <2>3 DEF Sound
  <2>5. Travelling'
    BY <1>1, <1>2, <1>3, <2>1, <2>2, <2>4, PublishTravels DEF m, IsHello
  <2>6. retained' = m
    BY <2>1 DEF PublishState, m
  <2>7. Counted'
    BY <1>1, <1>2, <1>3, <2>1, <2>2, <2>4, <2>6 DEF Counted, IsHello
  <2>8. PresentIsNotBuried'
    BY <1>1, <1>2, <1>3, <2>1, NobodyIsBuried
  <2> QED  BY <2>5, <2>7, <2>8 DEF Presence
<1>7. ASSUME NEW c \in 1..MaxConn, WillPublished(c) PROVE Presence'
  <2>1. UNCHANGED <<made, conn>> /\ wills' = wills \ {c} /\ PublishState(Goodbye(c)) /\ c \in wills
    BY <1>7 DEF WillPublished
  <2> DEFINE m == Goodbye(c)
  <2>2. m \in Message /\ m.channel = "state" /\ ~m.online /\ m.conn = c
    BY <1>2, <2>1 DEF Goodbye, Message
  <2> HIDE DEF m
  <2>3. c <= made /\ (conn # 0 => c # conn)
    BY <1>3, <2>1 DEF Counted
  <2>4. Sound(m, conn', made', welcomed')
    BY <2>1, <2>2, <2>3 DEF Sound
  <2>5. Travelling'
    BY <1>1, <1>2, <1>3, <2>1, <2>2, <2>4, PublishTravels DEF m, IsHello
  <2>6. retained' = m
    BY <2>1 DEF PublishState, m
  <2>7. Counted'
    BY <1>1, <1>2, <1>3, <2>1, <2>2, <2>4, <2>6 DEF Counted, IsHello
  <2>8. PresentIsNotBuried'
    BY <1>1, <1>2, <1>3, <2>1, NobodyIsBuried
  <2> QED  BY <2>5, <2>7, <2>8 DEF Presence
<1>8. CASE NodeDies
  <2>1. UNCHANGED <<made, wire, retained>> /\ conn' = 0 /\ wills' = wills \cup {conn} /\ conn # 0
    BY <1>8 DEF NodeDies, broker
  <2>2. \A m \in Message : Sound(m, conn, made, welcomed) => Sound(m, conn', made', welcomed')
    BY <1>1, <2>1 DEF Sound
  <2>3. AllSound(wire', conn', made', welcomed')
    BY <1>2, <1>3, <2>1, <2>2 DEF Travelling, AllSound
  <2>4. Travelling'
    BY <1>1, <1>3, <2>1, <2>2, <2>3, TravelOn DEF Travelling, Good
  <2>5. \A c \in wills' : c <= made' /\ conn' = 0
    BY <1>2, <1>3, <2>1 DEF Counted
  <2>6. Counted'
    BY <1>1, <1>2, <1>3, <2>1, <2>2, <2>5 DEF Counted
  <2>7. PresentIsNotBuried'
    BY <1>1, <1>2, <1>3, <2>1, NobodyIsBuried
  <2> QED  BY <2>4, <2>6, <2>7 DEF Presence
<1>9. CASE NodeBeats
  <2>1. UNCHANGED <<made, conn, wills, retained>> /\ wire' = Append(wire, Heartbeat(conn))
    BY <1>9 DEF NodeBeats, node
  <2> DEFINE m == Heartbeat(conn)
  <2>2. m \in Message /\ m.channel # "state"
    BY <1>2 DEF Heartbeat, Message
  <2> HIDE DEF m
  <2>3. AllSound(wire, conn, made, welcomed) /\ InLine(wire) /\ Sound(m, conn, made, welcomed)
        /\ (IsHello(m) => m.conn = made)
    BY <1>3, <2>2 DEF Travelling, Sound, IsHello
  <2>4. /\ AllSound(Append(wire, m), conn, made, welcomed) /\ InLine(Append(wire, m))
        /\ \A x \in Message : Sound(x, conn, made, welcomed) /\ Before(x, wire)
                               => Before(x, Append(wire, m))
    BY <1>2, <2>2, <2>3, AppendKeepsLine
  <2>5. Travelling'
    BY <1>1, <1>3, <2>1, <2>4, TravelOn DEF Good, m
  <2>6. Counted'
    BY <1>1, <1>3, <2>1 DEF Counted
  <2>7. PresentIsNotBuried'
    BY <1>1, <1>2, <1>3, <2>1, NobodyIsBuried
  <2> QED  BY <2>5, <2>6, <2>7 DEF Presence
<1>10. CASE LinkDown \/ LinkUp
  <2>1. UNCHANGED <<made, conn, wills, retained>>
        /\ (wire' = << >> \/ (retained \in Message /\ wire' = <<retained>>))
    BY <1>2, <1>10 DEF LinkDown, LinkUp, node
  <2>2. AllSound(wire', conn', made', welcomed') /\ InLine(wire')
        /\ \A x \in Message : Sound(x, conn, made, welcomed) => Before(x, wire')
    <3>1. CASE wire' = << >>
      BY <3>1 DEF AllSound, InLine, Before
    <3>2. CASE retained \in Message /\ wire' = <<retained>>
      <4>1. Len(wire') = 1 /\ wire'[1] = retained
        BY <3>2
      <4>2. Sound(retained, conn, made, welcomed) /\ (IsHello(retained) => retained.conn = made)
        BY <1>3, <3>2, NoneIsApart DEF Counted
      <4>3. AllSound(wire', conn', made', welcomed') /\ InLine(wire')
        BY <1>1, <2>1, <4>1, <4>2 DEF AllSound, InLine
      <4>4. \A x \in Message : Sound(x, conn, made, welcomed) => Before(x, wire')
        BY <4>1, <4>2 DEF Sound, Before, IsHello
      <4> QED  BY <4>3, <4>4
    <3> QED  BY <2>1, <3>1, <3>2
  <2>3. Travelling'
    BY <1>1, <1>3, <2>1, <2>2, TravelOn DEF Good
  <2>4. Counted'
    BY <1>1, <1>3, <2>1 DEF Counted
  <2>5. PresentIsNotBuried'
    BY <1>1, <1>2, <1>3, <2>1, NobodyIsBuried
  <2> QED  BY <2>3, <2>4, <2>5 DEF Presence
<1> QED  BY <1>4, <1>5, <1>6, <1>7, <1>8, <1>9, <1>10


(* Steps that leave the node and the broker alone and welcome nobody: what *)
(* is held or in hand was good before, or is nobody's hello.               *)
LEMMA HandsStayGood ==
  ASSUME Travelling, UNCHANGED <<conn, made, welcomed, wire>>,
         held' = held \/ held' = None \/ Good(held'),
         NEW t \in Threads, \A u \in Threads : u # t => work'[u] = work[u],
         Handles(t)' => Good(work'[t].msg),
         Opens(t)' => held' = None,
         held' = held \/ held' = None \/ \A u \in Threads : u # t => ~Handles(u)
  PROVE  Travelling'
<1>1. held' # None => Good(held')
  BY DEF Travelling
<1>2. \A u \in Threads : Handles(u)' => Good(work'[u].msg)
  BY DEF Travelling, Handles
<1>3. ASSUME NEW u \in Threads, Opens(u)', u # t PROVE held' = None
  <2>1. Opens(u) /\ Handles(u)
    BY <1>3 DEF Opens, At, Handles, InHandle
  <2> QED  BY <1>3, <2>1 DEF Travelling
<1>4. \A u \in Threads : Opens(u)' => held' = None
  BY <1>3
<1>5. \A m : Good(m) => Sound(m, conn', made', welcomed') /\ Before(m, wire')
  BY DEF Good
<1> QED  BY <1>1, <1>2, <1>4, <1>5 DEF Travelling, Good

LEMMA OthersAreGood == ASSUME NEW m, m.channel = "other" PROVE Good(m)
BY DEF Good, Sound, Before, IsHello

(* Nobody is buried by a step that leaves node, session and welcome alone. *)
LEMMA PresenceStays ==
  ASSUME Presence, Travelling', UNCHANGED <<conn, made, wills, retained, session, welcomed>>
  PROVE  Presence'
<1>1. Counted'
  BY DEF Presence, Counted
<1>2. PresentIsNotBuried'
  BY DEF Presence, PresentIsNotBuried, Current
<1> QED  BY <1>1, <1>2 DEF Presence

LEMMA ArrivesPresence == ASSUME Shape, Presence, Arrives PROVE Presence'
<1>1. /\ wire # << >> /\ wire \in Seq(Message) /\ wire' = Tail(wire)
      /\ work'["network"].msg = wire[1] /\ work'["network"].at = "arrived"
      /\ work'["caller"] = work["caller"]
      /\ UNCHANGED <<conn, made, wills, retained, session, welcomed, held>>
  BY ArrivesMoves DEF node, history, Shape, TypeOK
<1>2. conn \in Nat /\ made \in Nat /\ welcomed \in Nat /\ Threads = {"network", "caller"}
  BY DEF Shape, TypeOK, Threads
<1>3. Travelling
  BY DEF Presence
<1>4. /\ AllSound(wire', conn, made, welcomed) /\ InLine(wire')
      /\ Sound(wire[1], conn, made, welcomed) /\ Before(wire[1], wire')
      /\ \A m : Before(m, wire) => Before(m, wire')
  BY <1>1, <1>2, <1>3, TailKeepsLine DEF Travelling
<1>5. \A m : Good(m) => Sound(m, conn', made', welcomed') /\ Before(m, wire')
  BY <1>1, <1>4 DEF Good
<1>6. \A t \in Threads : Handles(t)' =>
        Sound(work'[t].msg, conn', made', welcomed') /\ Before(work'[t].msg, wire')
  BY <1>1, <1>2, <1>3, <1>4, <1>5 DEF Travelling, Handles
<1>7. \A t \in Threads : Opens(t)' => held' = None
  BY <1>1, <1>2, <1>3 DEF Travelling, Opens, At
<1>8. held' # None => Sound(held', conn', made', welcomed') /\ Before(held', wire')
  BY <1>1, <1>3, <1>5 DEF Travelling
<1>9. Travelling'
  BY <1>1, <1>4, <1>6, <1>7, <1>8 DEF Travelling, Good
<1> QED  BY <1>1, <1>9, PresenceStays

LEMMA OpenPresence ==
  ASSUME Shape, Presence, OneHandles, NEW t \in Threads, Open(t)
  PROVE  Presence'
<1>1. /\ At(t, "opening") /\ work[t].msg \in Message /\ IsHello(work[t].msg)
      /\ work'[t].at = "opened" /\ work'[t].msg = work[t].msg
      /\ \A u \in Threads : u # t => work'[u] = work[u]
      /\ session' \in Session /\ session'.conn = work[t].msg.conn /\ ~session'.closed
  BY OpenMoves
<1>2. PICK m \in Message : m = work[t].msg
  BY <1>1
<1>3. /\ UNCHANGED <<conn, made, wills, retained, wire, held>>
      /\ welcomed' = IF m.conn > welcomed THEN m.conn ELSE welcomed
  BY <1>2 DEF Open, broker, node
<1>4. /\ conn \in Nat /\ made \in Nat /\ welcomed \in Nat /\ m.conn \in Nat
      /\ wire \in Seq(Message) /\ retained \in Message \cup {None}
  BY <1>2 DEF Shape, TypeOK, Message
<1>5. Counted /\ Travelling /\ PresentIsNotBuried
  BY DEF Presence
<1>6. Handles(t) /\ Opens(t) /\ held = None
  BY <1>1, <1>5 DEF Handles, Opens, At, InHandle, Travelling
<1>7. \A u \in Threads : u # t => ~Handles(u)
  BY <1>6 DEF OneHandles, Threads
<1>8. Sound(m, conn, made, welcomed) /\ Before(m, wire)
  BY <1>2, <1>5, <1>6 DEF Travelling, Good
<1>9. welcomed <= m.conn /\ m.conn <= made /\ welcomed' = m.conn
  BY <1>1, <1>2, <1>3, <1>4, <1>8 DEF Sound, IsHello
<1>10. \A i \in 1..Len(wire) : Sound(wire[i], conn, made, welcomed')
  BY <1>1, <1>2, <1>5, <1>8, <1>9 DEF Travelling, AllSound, Sound, Before, IsHello
<1>11. Sound(m, conn, made, welcomed')
  BY <1>8, <1>9, <1>4 DEF Sound
<1>12. Travelling'
  <2>1. AllSound(wire', conn', made', welcomed') /\ InLine(wire')
    BY <1>3, <1>5, <1>10 DEF Travelling, AllSound
  <2>2. \A u \in Threads : Handles(u)' =>
          Sound(work'[u].msg, conn', made', welcomed') /\ Before(work'[u].msg, wire')
    <3>1. \A u \in Threads : u # t => ~Handles(u)'
      BY <1>1, <1>7 DEF Handles
    <3> QED  BY <1>1, <1>2, <1>3, <1>8, <1>11, <3>1
  <2> QED  BY <1>3, <1>6, <2>1, <2>2 DEF Travelling, Good
<1>13. retained # None => Sound(retained, conn, made, welcomed')
  BY <1>4, <1>5, <1>9 DEF Counted, Sound, IsHello
<1>14. Counted'
  BY <1>3, <1>5, <1>9, <1>13 DEF Counted
<1>15. session' # None /\ PresentIsNotBuried'
  <2>1. session' # None
    BY <1>1, NoneIsApart
  <2> QED  BY <1>1, <1>2, <1>9, <2>1 DEF PresentIsNotBuried, Current
<1> QED  BY <1>12, <1>14, <1>15 DEF Presence


LEMMA HandlingPresence ==
  ASSUME Foreign = {}, Shape, Presence, OneHandles, NEW t \in Threads, HandleStep(t)
  PROVE  Presence'
<1>1. Travelling /\ work[t] \in Work /\ held \in Message \cup {None}
  BY DEF Presence, Shape, TypeOK
<1>2. Handles(t)
  BY DEF HandleStep, Authenticate, Hold, TakeHeld, HandleOther, HandleGoodbye,
     HandleHello, Open, GrantEvents, SendGrant, At, Handles, InHandle
<1>3. Good(work[t].msg) /\ \A u \in Threads : u # t => ~Handles(u)
  BY <1>1, <1>2 DEF Travelling, OneHandles, Threads
<1>4. ASSUME Return(t), UNCHANGED <<conn, made, welcomed, wire>>,
             held' = held \/ held' = None \/ Good(held')
      PROVE  Travelling'
  <2>1. /\ \A u \in Threads : u # t => work'[u] = work[u]
        /\ \/ work'[t].at = "idle"
           \/ work'[t].at = "decoded" /\ work'[t].msg.channel = "other"
    BY <1>4, EndsMoves
  <2>2. Handles(t)' => Good(work'[t].msg)
    BY <2>1, OthersAreGood DEF Handles, InHandle
  <2>3. ~Opens(t)'
    BY <2>1 DEF Opens, At
  <2> QED  BY <1>1, <1>3, <1>4, <2>1, <2>2, <2>3, HandsStayGood
<1>5. CASE Authenticate(t)
  <2>1. /\ \A u \in Threads : u # t => work'[u] = work[u]
        /\ work'[t].msg = work[t].msg /\ work'[t].at \in {"believed", "refused"}
        /\ UNCHANGED <<conn, made, wills, wire, retained, held, session, welcomed>>
    BY <1>5, AuthenticateMoves DEF broker, node, history
  <2>2. ~Opens(t)' /\ (Handles(t)' => Good(work'[t].msg))
    BY <1>3, <2>1 DEF Opens, At
  <2>3. Travelling'
    BY <1>1, <2>1, <2>2, HandsStayGood
  <2> QED  BY <2>1, <2>3, PresenceStays
<1>6. CASE Hold(t)
  <2>1. /\ Return(t) /\ held' = IF work[t].msg.channel = "state" THEN work[t].msg ELSE held
        /\ UNCHANGED <<conn, made, wills, wire, retained, session, welcomed>>
    BY <1>6 DEF Hold, broker, node, history
  <2>2. held' = held \/ held' = work[t].msg
    BY <2>1
  <2>3. held' = held \/ held' = None \/ Good(held')
    BY <1>3, <2>2
  <2>4. Travelling'
    BY <1>4, <2>1, <2>3
  <2> QED  BY <2>1, <2>4, PresenceStays
<1>7. CASE TakeHeld(t)
  <2>1. /\ \A u \in Threads : u # t => work'[u] = work[u]
        /\ held' = None
        /\ UNCHANGED <<conn, made, wills, wire, retained, session, welcomed>>
        /\ (held # None /\ work'[t].msg = held) \/ work'[t].msg = work[t].msg
    BY <1>7, TakeHeldMoves DEF broker, node, history
  <2>2. Handles(t)' => Good(work'[t].msg)
    BY <1>1, <1>3, <2>1 DEF Travelling
  <2>3. Travelling'
    BY <1>1, <2>1, <2>2, HandsStayGood
  <2> QED  BY <2>1, <2>3, PresenceStays
<1>8. CASE HandleOther(t)
  <2>1. Return(t) /\ UNCHANGED <<conn, made, wills, wire, retained, session, welcomed, held>>
    BY <1>8 DEF HandleOther, broker, node, history
  <2>2. Travelling'
    BY <1>4, <2>1
  <2> QED  BY <2>1, <2>2, PresenceStays
<1>9. CASE HandleGoodbye(t)
  <2>1. /\ Return(t) /\ UNCHANGED <<conn, made, wills, wire, retained, welcomed, held>>
        /\ work[t].msg.channel = "state" /\ ~work[t].msg.online
        /\ session' = IF Closes(work[t].msg) THEN Ended ELSE session
    BY <1>9 DEF HandleGoodbye, broker, node, history
  <2>2. Travelling'
    BY <1>4, <2>1
  <2>3. conn # 0 => work[t].msg.conn # conn
    BY <1>3, <2>1 DEF Good, Sound
  <2>4. conn # 0 /\ welcomed = conn => session' = session
    <3>1. conn # 0 /\ welcomed = conn => session.conn = conn
      BY DEF Presence, PresentIsNotBuried
    <3> QED  BY <2>1, <2>3, <3>1 DEF Closes
  <2>5. PresentIsNotBuried'
    BY <2>1, <2>4 DEF Presence, PresentIsNotBuried, Current
  <2>6. Counted'
    BY <2>1 DEF Presence, Counted
  <2> QED  BY <2>2, <2>5, <2>6 DEF Presence
<1>10. CASE HandleHello(t)
  <2>1. /\ Return(t) \/ Go(t, "opening")
        /\ UNCHANGED <<conn, made, wills, wire, retained, session, welcomed, held>>
        /\ Opens(t)
    BY <1>10 DEF HandleHello, broker, node, history, Opens
  <2>2. CASE Return(t)
    BY <1>4, <2>1, <2>2, PresenceStays
  <2>3. CASE Go(t, "opening")
    <3>1. work'[t].msg = work[t].msg /\ \A u \in Threads : u # t => work'[u] = work[u]
      BY <1>10, <2>3, HandleHelloMoves
    <3>2. held' = None
      BY <1>1, <2>1 DEF Travelling
    <3>3. Travelling'
      BY <1>1, <1>3, <2>1, <3>1, <3>2, HandsStayGood
    <3> QED  BY <2>1, <3>3, PresenceStays
  <2> QED  BY <2>1, <2>2, <2>3
<1>11. CASE GrantEvents(t)
  <2>1. /\ \A u \in Threads : u # t => work'[u] = work[u]
        /\ UNCHANGED <<conn, made, wills, wire, retained, welcomed, held>>
        /\ \/ work'[t] = Resting /\ session' = session
           \/ /\ work'[t].at = "granted" /\ work'[t].msg = work[t].msg
              /\ Current /\ session' \in Session
              /\ session'.conn = session.conn /\ session'.closed = session.closed
    BY <1>11, GrantEventsMoves DEF GrantEvents, broker, node, history
  <2>2. ~Opens(t)' /\ (Handles(t)' => Good(work'[t].msg))
    BY <1>3, <2>1, RestingIs DEF Opens, Handles, At, InHandle
  <2>3. Travelling'
    BY <1>1, <2>1, <2>2, HandsStayGood
  <2>4. PresentIsNotBuried'
    BY <2>1, NoneIsApart DEF Presence, PresentIsNotBuried, Current
  <2>5. Counted'
    BY <2>1 DEF Presence, Counted
  <2> QED  BY <2>3, <2>4, <2>5 DEF Presence
<1>12. CASE SendGrant(t)
  <2>1. Return(t) /\ UNCHANGED <<conn, made, wills, wire, retained, session, welcomed, held>>
    BY <1>12 DEF SendGrant, broker, node, history
  <2>2. Travelling'
    BY <1>4, <2>1
  <2> QED  BY <2>1, <2>2, PresenceStays
<1> QED  BY <1>5, <1>6, <1>7, <1>8, <1>9, <1>10, <1>11, <1>12, OpenPresence DEF HandleStep


(* Nothing in hand changes but what the caller does outside of handle. *)
LEMMA CallerTravels ==
  ASSUME Shape, Travelling, held' \in {held, None},
         AllSound(wire', conn', made', welcomed'), InLine(wire'),
         \A m \in Message : Good(m) => Sound(m, conn', made', welcomed') /\ Before(m, wire'),
         \A u \in Threads : work'[u] = work[u] \/ work'[u].at \notin InHandle
  PROVE  Travelling'
<1>1. held' # None => Sound(held', conn', made', welcomed') /\ Before(held', wire')
  BY DEF Shape, TypeOK, Travelling
<1>2. ASSUME NEW u \in Threads, Handles(u)'
      PROVE  Sound(work'[u].msg, conn', made', welcomed') /\ Before(work'[u].msg, wire')
  <2>1. work'[u] = work[u] /\ Handles(u)
    BY <1>2 DEF Handles
  <2>2. work[u].msg \in Message /\ Good(work[u].msg)
    BY <2>1 DEF Shape, HandlingOf, Travelling
  <2> QED  BY <2>1, <2>2
<1>3. ASSUME NEW u \in Threads, Opens(u)' PROVE held' = None
  <2>1. work'[u] = work[u]
    BY <1>3 DEF Opens, At, InHandle
  <2>2. Opens(u)
    BY <1>3, <2>1 DEF Opens, At
  <2> QED  BY <2>2 DEF Travelling
<1> QED  BY <1>1, <1>2, <1>3 DEF Travelling, Good

LEMMA RulingPresence ==
  ASSUME Shape, Presence,
         \/ \E s \in {"approved", "revoked"} : ShellRules(s)
         \/ Approve \/ Revoke \/ RevokeUnholds \/ RevokeTakesGrants \/ RevokeCloses
         \/ RevokeTells
  PROVE  Presence'
<1>1. /\ wire \in Seq(Message) /\ conn \in Nat /\ made \in Nat /\ welcomed \in Nat
      /\ session \in Session \cup {None} /\ "caller" \in Threads /\ work \in [Threads -> Work]
  BY DEF Shape, TypeOK, Threads
<1>2. Counted /\ Travelling /\ PresentIsNotBuried
  BY DEF Presence
<1>3. UNCHANGED <<conn, made, wills>> /\ held' \in {held, None}
  BY DEF ShellRules, Approve, Revoke, RevokeUnholds, RevokeTakesGrants, RevokeCloses,
     RevokeTells, node
<1>4. \A u \in Threads : work'[u] = work[u] \/ work'[u].at \notin InHandle
  <2>1. ASSUME NEW s \in {"approved", "revoked", "unheld", "ungranted", "closed", "idle"},
               Go("caller", s)
        PROVE  \A u \in Threads : work'[u] = work[u] \/ work'[u].at \notin InHandle
    <3>1. s \in Steps /\ s \notin InHandle
      BY DEF Steps, InHandle
    <3> QED  BY <1>1, <2>1, <3>1, GoIs
  <2>2. UNCHANGED work \/ \E s \in {"approved", "revoked", "unheld", "ungranted", "closed",
                                    "idle"} : Go("caller", s)
    BY DEF ShellRules, Approve, Revoke, RevokeUnholds, RevokeTakesGrants, RevokeCloses,
       RevokeTells
  <2> QED  BY <2>1, <2>2
<1>5. ASSUME UNCHANGED <<wire, welcomed>> PROVE Travelling'
  BY <1>2, <1>3, <1>4, <1>5, CallerTravels DEF Travelling, Good
<1>6. CASE \/ \E s \in {"approved", "revoked"} : ShellRules(s)
           \/ Approve \/ Revoke \/ RevokeUnholds
  <2>1. UNCHANGED <<wire, retained, session, welcomed>>
    BY <1>6 DEF ShellRules, Approve, Revoke, RevokeUnholds, broker, history
  <2> QED  BY <1>3, <1>5, <2>1, PresenceStays
<1>7. CASE RevokeTakesGrants
  <2>1. /\ UNCHANGED <<wire, retained, welcomed>>
        /\ session' = IF session = None THEN None ELSE [session EXCEPT !.grant = None]
    BY <1>7 DEF RevokeTakesGrants, broker, history
  <2>2. session \in Session => /\ session' \in Session /\ session'.conn = session.conn
                               /\ session'.closed = session.closed
    BY <2>1, RegrantedIs, NoneIsApart
  <2>3. PresentIsNotBuried'
    BY <1>1, <1>2, <1>3, <2>1, <2>2, NoneIsApart DEF PresentIsNotBuried, Current
  <2>4. Counted'
    BY <1>2, <1>3, <2>1 DEF Counted
  <2> QED  BY <1>5, <2>1, <2>3, <2>4 DEF Presence
<1>8. CASE RevokeCloses
  <2>1. welcomed' = 0 /\ UNCHANGED <<wire, retained>>
    BY <1>8 DEF RevokeCloses, broker
  <2>2. \A m \in Message : Sound(m, conn, made, welcomed) => Sound(m, conn', made', welcomed')
    BY <1>1, <1>3, <2>1, SoundStays
  <2>3. AllSound(wire', conn', made', welcomed')
    BY <1>1, <1>2, <2>1, <2>2 DEF Travelling, AllSound
  <2>4. Travelling'
    BY <1>2, <1>3, <1>4, <2>1, <2>2, <2>3, CallerTravels DEF Travelling, Good
  <2>5. Counted'
    BY <1>1, <1>2, <1>3, <2>1, <2>2 DEF Counted, Shape, TypeOK
  <2>6. PresentIsNotBuried'
    BY <2>1 DEF PresentIsNotBuried
  <2> QED  BY <2>4, <2>5, <2>6 DEF Presence
<1>9. CASE RevokeTells
  <2>1. wire' = Append(wire, Erased) /\ retained' = None /\ UNCHANGED <<session, welcomed>>
    BY <1>9 DEF RevokeTells, history
  <2>2. Erased \in Message /\ ~IsHello(Erased) /\ Sound(Erased, conn, made, welcomed)
    BY <1>1 DEF Erased, Message, IsHello, Sound
  <2>3. /\ AllSound(wire', conn, made, welcomed) /\ InLine(wire')
        /\ \A x \in Message : Sound(x, conn, made, welcomed) /\ Before(x, wire)
                               => Before(x, wire')
    BY <1>1, <1>2, <2>1, <2>2, AppendKeepsLine DEF Travelling
  <2>4. Travelling'
    BY <1>2, <1>3, <1>4, <2>1, <2>3, CallerTravels DEF Good
  <2>5. Counted'
    BY <1>2, <1>3, <2>1 DEF Counted
  <2>6. PresentIsNotBuried'
    BY <1>2, <1>3, <2>1 DEF PresentIsNotBuried, Current
  <2> QED  BY <2>4, <2>5, <2>6 DEF Presence
<1> QED  BY <1>6, <1>7, <1>8, <1>9

LEMMA ApproveReadsPresence == ASSUME Shape, Presence, ApproveReads PROVE Presence'
<1>1. "caller" \in Threads /\ work \in [Threads -> Work] /\ Travelling
  BY DEF Threads, Shape, TypeOK, Presence
<1> DEFINE w == IF held = None THEN Resting ELSE Reading(held, None)
<1>2. w.at = "idle" \/ (w.at = "arrived" /\ w.msg = held /\ held # None)
  BY RestingIs DEF Reading
<1>3. /\ held' = None /\ work' = [work EXCEPT !["caller"] = w]
      /\ UNCHANGED <<conn, made, wills, wire, retained, session, welcomed>>
  BY DEF ApproveReads, broker, node, history
<1> HIDE DEF w
<1>4. work'["caller"] = w /\ \A u \in Threads : u # "caller" => work'[u] = work[u]
  BY <1>1, <1>3
<1>5. Handles("caller")' => Good(work'["caller"].msg)
  BY <1>1, <1>2, <1>4 DEF Travelling, Handles, InHandle
<1>6. Travelling'
  BY <1>1, <1>3, <1>4, <1>5, HandsStayGood
<1> QED  BY <1>3, <1>6, PresenceStays

LEMMA RenewalPresence ==
  ASSUME Shape, Presence, Ages \/ Lapses \/ DueForRenewal \/ Renew PROVE Presence'
<1>1. /\ UNCHANGED <<conn, made, wills, wire, retained, welcomed, held, work>>
      /\ session \in Session \cup {None}
  BY DEF Ages, Lapses, DueForRenewal, Renew, broker, node, history, Shape, TypeOK
<1>2. Travelling'
  BY <1>1, TravelOn DEF Presence, Travelling, Good
<1>3. CASE UNCHANGED session
  BY <1>1, <1>2, <1>3, PresenceStays
<1>4. ASSUME Granted, NEW l \in Lives, session' = [session EXCEPT !.grant.life = l]
      PROVE  Presence'
  <2>1. session \in Session /\ session.grant \in Grant
    BY <1>1, <1>4 DEF Granted, Current, Session
  <2>2. PICK g \in Grant : session' = [session EXCEPT !.grant = g]
    BY <1>4, <2>1, AgedIs
  <2>3. /\ session' \in Session /\ session'.conn = session.conn
        /\ session'.closed = session.closed
    BY <2>1, <2>2, RegrantedIs
  <2>4. PresentIsNotBuried'
    BY <1>1, <2>1, <2>3, NoneIsApart DEF Presence, PresentIsNotBuried, Current
  <2>5. Counted'
    BY <1>1 DEF Presence, Counted
  <2> QED  BY <1>2, <2>4, <2>5 DEF Presence
<1>5. "due" \in Lives /\ "expired" \in Lives /\ "fresh" \in Lives
  BY DEF Lives
<1> QED  BY <1>3, <1>4, <1>5 DEF Ages, Lapses, DueForRenewal, Renew

LEMMA HubRestartsPresence == ASSUME Shape, Presence, HubRestarts PROVE Presence'
<1>1. /\ UNCHANGED <<conn, made, wills, retained>>
      /\ wire' = << >> /\ held' = None /\ welcomed' = 0
      /\ work' = [t \in Threads |-> Resting]
  BY DEF HubRestarts, node
<1>2. conn \in Nat /\ made \in Nat /\ welcomed \in Nat /\ retained \in Message \cup {None}
  BY DEF Shape, TypeOK
<1>3. \A m \in Message : Sound(m, conn, made, welcomed) => Sound(m, conn', made', welcomed')
  BY <1>1, <1>2, SoundStays
<1>4. Counted'
  BY <1>1, <1>2, <1>3 DEF Presence, Counted
<1>5. \A u \in Threads : work'[u].at \notin InHandle
  BY <1>1, RestingIs DEF InHandle
<1>6. AllSound(wire', conn', made', welcomed') /\ InLine(wire')
  BY <1>1 DEF AllSound, InLine
<1>7. Travelling'
  BY <1>1, <1>5, <1>6 DEF Travelling, Handles, Opens, At, InHandle
<1>8. PresentIsNotBuried'
  BY <1>1 DEF PresentIsNotBuried
<1> QED  BY <1>4, <1>7, <1>8 DEF Presence

LEMMA PresenceStarts == Init => Presence
<1> SUFFICES ASSUME Init PROVE Presence
  OBVIOUS
<1>1. Travelling
  BY RestingIs DEF Init, Travelling, AllSound, InLine, Handles, Opens, At, InHandle
<1>2. Counted /\ PresentIsNotBuried
  BY DEF Init, Counted, PresentIsNotBuried
<1> QED  BY <1>1, <1>2 DEF Presence

LEMMA PresenceKept ==
  ASSUME Foreign = {}
  PROVE  Shape /\ OneHandles /\ Presence /\ [Next]_vars => Presence'
<1> SUFFICES ASSUME Shape, OneHandles, Presence, [Next]_vars PROVE Presence'
  OBVIOUS
<1>1. CASE UNCHANGED vars
  <2>1. UNCHANGED <<conn, made, wills, wire, retained, session, welcomed, held, work>>
    BY <1>1 DEF vars
  <2>2. Travelling'
    BY <2>1, TravelOn DEF Presence, Travelling, Good
  <2> QED  BY <2>1, <2>2, PresenceStays
<1>2. CASE Next
  BY <1>2, NodePresence, HubRestartsPresence, ArrivesPresence, HandlingPresence,
     RulingPresence, ApproveReadsPresence, RenewalPresence DEF Next, CallerStep
<1> QED  BY <1>1, <1>2

(* While one thread handles at a time and no connection speaks another     *)
(* protocol, a node that is there is not buried, however many connections  *)
(* died before it and however late their goodbyes come.                    *)
THEOREM ThePresentStay ==
  ASSUME Foreign = {}
  PROVE  Spec /\ []OneHandles => []PresentIsNotBuried
<1>1. Presence => PresentIsNotBuried
  BY DEF Presence
<1> QED  BY <1>1, PresenceStarts, PresenceKept, TypeCorrect, PTL DEF Spec

------------------------------------------------------------------------------
(* The registry.  Neither of its promises is inductive.  What carries      *)
(* them: at most one process is between a change and its return; the       *)
(* temporary file is then its own; its copy is the file with exactly its   *)
(* change; and an idle process whose stamp matches holds what the file     *)
(* says, with an epoch at least as high (a next_epoch that failed to write *)
(* leaves it higher).                                                      *)

AtMostOneBusy == \A p, q \in Procs : Busy(p) /\ Busy(q) => p = q

StampsAreOld == \A p \in Procs : readAt[p] <= stamp

TemporaryIsOwn == \A p \in Procs : pc[p] = "written" => temp = mem[p]

IdleCopies ==
  \A p \in Procs :
    pc[p] = "ready" /\ readAt[p] = stamp =>
      /\ mem[p].nodes = file.nodes
      /\ mem[p].hub_epoch >= file.hub_epoch

PendingCopies ==
  \A p \in Procs :
    pc[p] \in {"writing", "written"} =>
      /\ todo[p] \in Operation
      /\ mem[p].hub_epoch >= file.hub_epoch
      /\ todo[p].kind = "next_epoch" => /\ mem[p].hub_epoch > file.hub_epoch
                                        /\ mem[p].nodes = file.nodes
      /\ \A n \in Nodes :
           (n # todo[p].node \/ todo[p].kind \in {"next_epoch", "describe"})
             => mem[p].nodes[n].status = ruled[n]

(* While the hub has moved a stamp into place and not returned it, every   *)
(* epoch handed out is below it.                                           *)
EpochsBelow ==
  /\ \A i \in 1..Len(issued) : issued[i] <= file.hub_epoch
  /\ \A p \in Procs :
       pc[p] = "moved" =>
         /\ todo[p] \in Operation
         /\ mem[p].hub_epoch = file.hub_epoch
         /\ todo[p].kind = "next_epoch" =>
              \A i \in 1..Len(issued) : issued[i] < mem[p].hub_epoch

OnlyTheHubStamps ==
  \A p \in Procs :
    Busy(p) => (todo[p] \in Operation /\ (p = "hub" <=> todo[p].kind = "next_epoch"))

(* Having moved its file, a process remembers the stamp from before. *)
MovedIsStale == \A p \in Procs : pc[p] = "moved" => readAt[p] < stamp

IInv ==
  /\ RegistryTypeOK /\ AtMostOneBusy /\ StampsAreOld /\ TemporaryIsOwn
  /\ IdleCopies /\ PendingCopies /\ EpochsBelow /\ OnlyTheHubStamps
  /\ MovedIsStale /\ NoRulingIsLost /\ EpochsNeverRepeat

------------------------------------------------------------------------------
(* What a change does to a document: it stays one, every node but the one  *)
(* named keeps its record, and a stamp or a description keeps them all.    *)
LEMMA ChangedDocument ==
  ASSUME NEW op \in Operation, NEW doc \in NodeDocument
  PROVE  /\ Changed(op, doc) \in NodeDocument
         /\ Changed(op, doc).hub_epoch >= doc.hub_epoch
         /\ op.kind = "next_epoch" => /\ Changed(op, doc).hub_epoch > doc.hub_epoch
                                      /\ Changed(op, doc).nodes = doc.nodes
         /\ \A n \in Nodes :
              (n # op.node \/ op.kind \in {"next_epoch", "describe"})
                => Changed(op, doc).nodes[n] = doc.nodes[n]
<1>1. Ruling(op, doc.nodes[op.node]) \in NodeRecord
  BY DEF Ruling, Operation, NodeDocument, NodeRecord, Absent, Statuses
<1>2. op.kind \in {"next_epoch", "describe"}
        => Ruling(op, doc.nodes[op.node]) = doc.nodes[op.node]
  BY DEF Ruling
<1>3. Changed(op, doc) \in NodeDocument
  BY <1>1 DEF Changed, NodeDocument, Operation
<1>4. \A n \in Nodes :
        (n # op.node \/ op.kind \in {"next_epoch", "describe"})
          => Changed(op, doc).nodes[n] = doc.nodes[n]
  BY <1>2 DEF Changed, NodeDocument, Operation
<1>5. op.kind = "next_epoch" => Changed(op, doc).nodes = doc.nodes
  BY <1>2, <1>3, <1>4 DEF Changed, NodeDocument, Operation
<1>6. QED
  BY <1>3, <1>4, <1>5 DEF Changed, NodeDocument

(* What refresh leaves in memory is a document with the file's records and *)
(* an epoch no lower than the file's.                                      *)
LEMMA FreshCopy ==
  ASSUME IInv, NEW p \in Procs, pc[p] = "ready"
  PROVE  /\ Fresh(p) \in NodeDocument
         /\ Fresh(p).nodes = file.nodes
         /\ Fresh(p).hub_epoch >= file.hub_epoch
BY DEF IInv, RegistryTypeOK, IdleCopies, Fresh, NodeDocument

(* The first state satisfies the invariant. *)
LEMMA InitIInv == ASSUME RegistryInit PROVE IInv
<1>1. EmptyDocument \in NodeDocument
  BY DEF EmptyDocument, NodeDocument, Absent, NodeRecord, Statuses
<1>2. RegistryTypeOK
  BY <1>1 DEF RegistryInit, RegistryTypeOK, Statuses
<1>3. NoRulingIsLost
  BY DEF RegistryInit, NoRulingIsLost, EmptyDocument, Absent
<1>4. QED
  BY <1>2, <1>3 DEF RegistryInit, IInv, AtMostOneBusy, Busy, StampsAreOld, TemporaryIsOwn,
     IdleCopies, PendingCopies, EpochsBelow, OnlyTheHubStamps,
     EpochsNeverRepeat, MovedIsStale

USE DEF Procs

(* A process that loads holds what the file says. *)
LEMMA LoadIInv ==
  ASSUME IInv, NEW p \in Procs, Load(p) PROVE IInv'
BY DEF IInv, Load, RegistryTypeOK, AtMostOneBusy, Busy, StampsAreOld, TemporaryIsOwn,
   IdleCopies, PendingCopies, EpochsBelow, OnlyTheHubStamps,
   NoRulingIsLost, EpochsNeverRepeat, NodeDocument, MovedIsStale

(* refresh brings a process back to the file, or leaves a hub ahead of it. *)
LEMMA RefreshIInv ==
  ASSUME IInv, NEW p \in Procs, Refresh(p) PROVE IInv'
<1>1. Fresh(p) \in NodeDocument /\ Fresh(p).nodes = file.nodes
      /\ Fresh(p).hub_epoch >= file.hub_epoch
  BY FreshCopy DEF Refresh
<1>2. QED
  BY <1>1 DEF IInv, Refresh, RegistryTypeOK, AtMostOneBusy, Busy, StampsAreOld,
     TemporaryIsOwn, IdleCopies, PendingCopies, EpochsBelow,
     OnlyTheHubStamps, NoRulingIsLost, EpochsNeverRepeat, MovedIsStale

(* A change in memory is one change away from the file. *)
LEMMA BeginIInv ==
  ASSUME ~Overlap, IInv, NEW p \in Procs, NEW op \in Operation, Begin(p, op)
  PROVE  IInv'
<1> DEFINE doc == Changed(op, Fresh(p))
<1>1. Fresh(p) \in NodeDocument /\ Fresh(p).nodes = file.nodes
      /\ Fresh(p).hub_epoch >= file.hub_epoch
  BY FreshCopy DEF Begin
<1>2. /\ doc \in NodeDocument
      /\ doc.hub_epoch >= file.hub_epoch
      /\ op.kind = "next_epoch" => /\ doc.hub_epoch > file.hub_epoch
                                   /\ doc.nodes = file.nodes
      /\ \A n \in Nodes :
           (n # op.node \/ op.kind \in {"next_epoch", "describe"})
             => doc.nodes[n].status = ruled[n]
  BY <1>1, ChangedDocument DEF IInv, NoRulingIsLost, NodeDocument, RegistryTypeOK
<1> HIDE DEF doc
<1>3. mem' = [mem EXCEPT ![p] = doc]
  BY DEF Begin, doc
<1>4. \A q \in Procs : q # p => ~Busy(q)
  BY DEF Begin, MayRun
<1>5. RegistryTypeOK'
  BY <1>2, <1>3 DEF IInv, RegistryTypeOK, Begin
<1>6. PendingCopies'
  BY <1>2, <1>3 DEF IInv, RegistryTypeOK, Begin, PendingCopies
<1>7. AtMostOneBusy' /\ TemporaryIsOwn' /\ EpochsBelow'
      /\ OnlyTheHubStamps'
  BY <1>4 DEF IInv, RegistryTypeOK, Begin, AtMostOneBusy, Busy, TemporaryIsOwn, EpochsBelow,
     OnlyTheHubStamps
<1>8. StampsAreOld' /\ IdleCopies' /\ NoRulingIsLost' /\ EpochsNeverRepeat'
      /\ MovedIsStale'
  BY DEF IInv, MovedIsStale, RegistryTypeOK, Begin, StampsAreOld, IdleCopies, NoRulingIsLost,
     EpochsNeverRepeat
<1>9. QED
  BY <1>5, <1>6, <1>7, <1>8 DEF IInv

(* With one process on its way to the disk the temporary file is its own.  *)
LEMMA WriteTemporaryIInv ==
  ASSUME IInv, NEW p \in Procs, WriteTemporary(p) PROVE IInv'
<1>1. AtMostOneBusy' /\ TemporaryIsOwn' /\ OnlyTheHubStamps'
  BY DEF IInv, RegistryTypeOK, WriteTemporary, AtMostOneBusy, Busy, TemporaryIsOwn,
     OnlyTheHubStamps
<1>2. RegistryTypeOK' /\ StampsAreOld' /\ IdleCopies' /\ PendingCopies' /\ EpochsBelow'
  BY DEF IInv, RegistryTypeOK, WriteTemporary, StampsAreOld, IdleCopies, PendingCopies,
     EpochsBelow
<1>3. NoRulingIsLost' /\ EpochsNeverRepeat' /\ MovedIsStale'
  BY DEF IInv, MovedIsStale, RegistryTypeOK, WriteTemporary, NoRulingIsLost, EpochsNeverRepeat
<1>4. QED
  BY <1>1, <1>2, <1>3 DEF IInv

(* A hub whose write failed keeps the higher epoch and the file's records. *)
LEMMA PersistFailsIInv ==
  ASSUME IInv, NEW p \in Procs, PersistFails(p) PROVE IInv'
<1>1. pc[p] = "writing" /\ Busy(p)
  BY RegistryConstants DEF IInv, PersistFails, TemporaryIsOwn, RegistryTypeOK, Busy
<1>2. RegistryTypeOK' /\ StampsAreOld' /\ NoRulingIsLost' /\ EpochsNeverRepeat'
      /\ MovedIsStale'
  BY DEF IInv, MovedIsStale, PersistFails, Afterwards, RegistryTypeOK, StampsAreOld, NoRulingIsLost,
     EpochsNeverRepeat
<1>3. AtMostOneBusy' /\ PendingCopies' /\ EpochsBelow' /\ OnlyTheHubStamps'
  BY DEF IInv, PersistFails, Afterwards, RegistryTypeOK, AtMostOneBusy, Busy, PendingCopies,
     EpochsBelow, OnlyTheHubStamps
<1>4. TemporaryIsOwn'
  BY <1>1 DEF IInv, PersistFails, Afterwards, RegistryTypeOK, AtMostOneBusy, Busy,
     TemporaryIsOwn
<1>5. IdleCopies'
  BY <1>1 DEF IInv, PersistFails, Afterwards, RegistryTypeOK, IdleCopies, PendingCopies,
     OnlyTheHubStamps, NodeDocument
<1>6. QED
  BY <1>2, <1>3, <1>4, <1>5 DEF IInv

(* Moving the one temporary file into place publishes its owner's change   *)
(* and nothing else.                                                       *)
LEMMA MoveIntoPlaceIInv ==
  ASSUME IInv, NEW p \in Procs, MoveIntoPlace(p) PROVE IInv'
<1>1. file' = mem[p] /\ mem[p] \in NodeDocument /\ todo[p] \in Operation /\ Busy(p)
  BY DEF IInv, MoveIntoPlace, TemporaryIsOwn, RegistryTypeOK, PendingCopies, Busy
<1>2. \A q \in Procs : q # p => ~Busy(q)
  BY <1>1 DEF IInv, AtMostOneBusy
<1>3. RegistryTypeOK'
  BY <1>1 DEF IInv, MoveIntoPlace, RegistryTypeOK, NodeDocument, NodeRecord, Operation
<1>4. NoRulingIsLost'
  <2>1. CASE todo[p].kind \in {"next_epoch", "describe"}
    BY <1>1, <2>1 DEF IInv, MoveIntoPlace, RegistryTypeOK, PendingCopies, NoRulingIsLost
  <2>2. CASE todo[p].kind \notin {"next_epoch", "describe"}
    BY <1>1, <2>2 DEF IInv, MoveIntoPlace, RegistryTypeOK, PendingCopies, NoRulingIsLost,
       Operation
  <2>3. QED
    BY <2>1, <2>2
<1>5. EpochsBelow'
  BY <1>1, <1>2 DEF IInv, MoveIntoPlace, RegistryTypeOK, PendingCopies, EpochsBelow, Busy,
     NodeDocument
<1>6. AtMostOneBusy' /\ TemporaryIsOwn' /\ PendingCopies' /\ OnlyTheHubStamps'
  BY <1>1, <1>2 DEF IInv, MoveIntoPlace, RegistryTypeOK, AtMostOneBusy, Busy, TemporaryIsOwn,
     PendingCopies, OnlyTheHubStamps
<1>7. StampsAreOld' /\ IdleCopies' /\ EpochsNeverRepeat' /\ MovedIsStale'
  BY DEF MovedIsStale, IInv, MoveIntoPlace, RegistryTypeOK, StampsAreOld, IdleCopies, EpochsNeverRepeat
<1>8. QED
  BY <1>3, <1>4, <1>5, <1>6, <1>7 DEF IInv

(* What is returned is above everything returned before.                   *)
LEMMA ReturnIInv ==
  ASSUME IInv, NEW p \in Procs, Finish(p) PROVE IInv'
<1>1. todo[p] \in Operation /\ Busy(p) /\ mem[p].hub_epoch = file.hub_epoch
      /\ mem[p].hub_epoch \in Nat
  BY DEF IInv, Finish, EpochsBelow, Busy, RegistryTypeOK, NodeDocument
<1>2. \A q \in Procs : q # p => ~Busy(q)
  BY <1>1 DEF IInv, AtMostOneBusy
<1>3. RegistryTypeOK'
  BY <1>1 DEF IInv, Finish, Afterwards, RegistryTypeOK
<1>4. EpochsBelow' /\ EpochsNeverRepeat'
  <2>1. CASE todo[p].kind = "next_epoch"
    <3>1. issued' = Append(issued, mem[p].hub_epoch)
      BY <2>1 DEF Finish
    <3>2. \A i \in 1..Len(issued) : issued[i] < mem[p].hub_epoch
      BY <2>1 DEF IInv, EpochsBelow, Finish
    <3>3. /\ Len(issued') = Len(issued) + 1
          /\ \A i \in 1..Len(issued) : issued'[i] = issued[i]
          /\ issued'[Len(issued) + 1] = mem[p].hub_epoch
          /\ Len(issued) \in Nat
          /\ \A i \in 1..Len(issued) : issued[i] \in Nat
      BY <1>1, <3>1 DEF IInv, RegistryTypeOK
    <3>4. EpochsNeverRepeat'
      BY <1>1, <3>2, <3>3 DEF IInv, EpochsNeverRepeat
    <3>5. \A i \in 1..Len(issued') : issued'[i] <= file.hub_epoch
      BY <1>1, <3>2, <3>3
    <3>6. \A q \in Procs : pc'[q] # "moved"
      BY <1>2 DEF Finish, Afterwards, Busy, IInv, RegistryTypeOK
    <3>7. QED
      BY <3>4, <3>5, <3>6 DEF EpochsBelow, Finish
  <2>2. CASE todo[p].kind # "next_epoch"
    BY <1>2, <2>2 DEF IInv, Finish, Afterwards, RegistryTypeOK, EpochsBelow,
       EpochsNeverRepeat, Busy
  <2>3. QED
    BY <2>1, <2>2
<1>5. AtMostOneBusy' /\ TemporaryIsOwn' /\ PendingCopies' /\ OnlyTheHubStamps'
  BY <1>2 DEF IInv, Finish, Afterwards, RegistryTypeOK, AtMostOneBusy, Busy, TemporaryIsOwn,
     PendingCopies, OnlyTheHubStamps
<1>6. StampsAreOld' /\ IdleCopies' /\ NoRulingIsLost' /\ MovedIsStale'
  BY DEF IInv, Finish, Afterwards, RegistryTypeOK, StampsAreOld, IdleCopies, NoRulingIsLost,
     MovedIsStale
<1>7. QED
  BY <1>3, <1>4, <1>5, <1>6 DEF IInv

(* A process that is gone owes nothing. *)
LEMMA DieIInv ==
  ASSUME IInv, NEW p \in Procs, Die(p) PROVE IInv'
BY DEF IInv, Die, RegistryTypeOK, AtMostOneBusy, Busy, StampsAreOld, TemporaryIsOwn,
   IdleCopies, PendingCopies, EpochsBelow, OnlyTheHubStamps,
   NoRulingIsLost, EpochsNeverRepeat, MovedIsStale

(* Every step keeps the invariant, while no two processes overlap. *)
LEMMA NextIInv == ASSUME ~Overlap, IInv, [RegistryNext]_registryVars PROVE IInv'
<1>1. CASE UNCHANGED registryVars
  BY <1>1 DEF registryVars, IInv, RegistryTypeOK, AtMostOneBusy, Busy, StampsAreOld, TemporaryIsOwn,
     IdleCopies, PendingCopies, EpochsBelow, OnlyTheHubStamps,
     NoRulingIsLost, EpochsNeverRepeat, MovedIsStale
<1>2. CASE RegistryNext
  <2>1. PICK p \in Procs :
          \/ Load(p) \/ Refresh(p)
          \/ \E op \in Operation : Begin(p, op)
          \/ WriteTemporary(p) \/ PersistFails(p) \/ MoveIntoPlace(p) \/ Finish(p)
          \/ Die(p)
    BY <1>2 DEF RegistryNext
  <2>2. QED
    BY <2>1, LoadIInv, RefreshIInv, BeginIInv, WriteTemporaryIInv, PersistFailsIInv,
       MoveIntoPlaceIInv, ReturnIInv, DieIInv
<1>3. QED
  BY <1>1, <1>2

(* While the shell and the hub take turns, next_epoch never returns an     *)
(* epoch twice (NodeRegistry.next_epoch), across kills and failed writes.  *)
THEOREM EpochsAreUnique == ASSUME ~Overlap PROVE RegistrySpec => []EpochsNeverRepeat
<1>1. IInv /\ [RegistryNext]_registryVars => IInv'
  BY NextIInv
<1>2. RegistryInit => IInv
  BY InitIInv
<1>3. IInv => EpochsNeverRepeat
  BY DEF IInv
<1>4. QED
  BY <1>1, <1>2, <1>3, PTL DEF RegistrySpec

(* While the shell and the hub take turns, every ruling that reached the   *)
(* file stays until the next ruling on the same node (_persist).           *)
THEOREM RulingsAreKept == ASSUME ~Overlap PROVE RegistrySpec => []NoRulingIsLost
<1>1. IInv /\ [RegistryNext]_registryVars => IInv'
  BY NextIInv
<1>2. RegistryInit => IInv
  BY InitIInv
<1>3. IInv => NoRulingIsLost
  BY DEF IInv
<1>4. QED
  BY <1>1, <1>2, <1>3, PTL DEF RegistrySpec

(* What authenticate believes is what the file says (refresh on every      *)
(* message), whatever the hub read before.                                 *)
THEOREM OnlyApprovedNodesAreBelieved == ASSUME ~Overlap PROVE RegistrySpec => []BelievedOnlyIfApproved
<1>1. IInv /\ [RegistryNext]_registryVars => IInv'
  BY NextIInv
<1>2. RegistryInit => IInv
  BY InitIInv
<1>3. IInv => BelievedOnlyIfApproved
  BY DEF IInv, RegistryTypeOK, IdleCopies, BelievedOnlyIfApproved, Authenticated, Fresh
<1>4. QED
  BY <1>1, <1>2, <1>3, PTL DEF RegistrySpec

------------------------------------------------------------------------------
(* That the file is an AtomicRegistry takes one thing more: what a process *)
(* is about to move into place is the file with one ruling, allowed by     *)
(* what the file says now; and only the hub's epoch ever runs ahead.       *)
OneRuling ==
  \A p \in Procs :
    /\ pc[p] = "ready" /\ readAt[p] = stamp /\ p # "hub"
         => mem[p].hub_epoch = file.hub_epoch
    /\ pc[p] \in {"writing", "written"} =>
         /\ p # "hub" => mem[p].hub_epoch = file.hub_epoch
         /\ mem[p].nodes = [file.nodes EXCEPT ![todo[p].node] = Ruling(todo[p], @)]
         /\ Allowed(todo[p], file)

LEMMA InitOneRuling == ASSUME RegistryInit PROVE OneRuling
BY DEF RegistryInit, OneRuling

(* A change is made to what the file says, if it allows it.                *)
LEMMA BeginOneRuling ==
  ASSUME IInv, OneRuling, NEW p \in Procs, NEW op \in Operation, Begin(p, op)
  PROVE  OneRuling'
<1> DEFINE doc == Changed(op, Fresh(p))
<1>1. Fresh(p) \in NodeDocument /\ Fresh(p).nodes = file.nodes
  BY FreshCopy DEF Begin
<1>2. p # "hub" => op.kind # "next_epoch" /\ Fresh(p).hub_epoch = file.hub_epoch
  BY DEF Begin, OneRuling, Fresh
<1>3. /\ doc.nodes = [file.nodes EXCEPT ![op.node] = Ruling(op, @)]
      /\ p # "hub" => doc.hub_epoch = file.hub_epoch
  BY <1>1, <1>2 DEF Changed
<1>4. Allowed(op, file)
  BY <1>1 DEF Begin, Allowed
<1> HIDE DEF doc
<1>5. mem' = [mem EXCEPT ![p] = doc] /\ todo' = [todo EXCEPT ![p] = op] /\ file' = file
      /\ pc' = [pc EXCEPT ![p] = "writing"] /\ readAt' = [readAt EXCEPT ![p] = stamp]
      /\ stamp' = stamp
  BY DEF Begin, doc
<1>6. Allowed(op, file)'
  BY <1>4, <1>5 DEF Allowed
<1>7. \A q \in Procs \ {p} : mem'[q] = mem[q] /\ todo'[q] = todo[q] /\ pc'[q] = pc[q]
                              /\ readAt'[q] = readAt[q]
  BY <1>5 DEF IInv, RegistryTypeOK
<1>8. mem'[p] = doc /\ todo'[p] = op /\ pc'[p] = "writing"
  BY <1>5 DEF IInv, RegistryTypeOK
<1> QED  BY <1>3, <1>4, <1>5, <1>7, <1>8 DEF OneRuling, Allowed

(* While one process is busy no other waits with a change.                 *)
LEMMA MoveOneRuling ==
  ASSUME IInv, OneRuling, NEW p \in Procs, MoveIntoPlace(p) PROVE OneRuling'
<1>1. \A q \in Procs : q # p => ~Busy(q)
  BY DEF IInv, AtMostOneBusy, MoveIntoPlace, Busy
<1>2. \A q \in Procs : pc'[q] \notin {"writing", "written"}
  BY <1>1 DEF MoveIntoPlace, Busy, IInv, RegistryTypeOK
<1>3. \A q \in Procs : readAt'[q] # stamp'
  BY DEF MoveIntoPlace, IInv, StampsAreOld, RegistryTypeOK
<1> QED  BY <1>2, <1>3 DEF OneRuling

(* A run of the tool is over once its write failed; only the hub goes on.  *)
LEMMA PersistFailsOneRuling ==
  ASSUME IInv, OneRuling, NEW p \in Procs, PersistFails(p) PROVE OneRuling'
BY DEF IInv, RegistryTypeOK, PersistFails, Afterwards, OneRuling, Allowed

LEMMA FinishOneRuling ==
  ASSUME IInv, OneRuling, NEW p \in Procs, Finish(p) PROVE OneRuling'
BY DEF IInv, RegistryTypeOK, Finish, Afterwards, OneRuling, Allowed

(* Every step keeps it.                                                    *)
LEMMA NextOneRuling ==
  ASSUME IInv, OneRuling, [RegistryNext]_registryVars PROVE OneRuling'
<1>1. CASE UNCHANGED registryVars
  BY <1>1 DEF registryVars, OneRuling, Allowed
<1>2. ASSUME NEW p \in Procs, Load(p) PROVE OneRuling'
  BY <1>2 DEF IInv, RegistryTypeOK, Load, OneRuling, Allowed
<1>3. ASSUME NEW p \in Procs, Refresh(p) PROVE OneRuling'
  BY <1>3 DEF IInv, RegistryTypeOK, Refresh, Fresh, OneRuling, Allowed
<1>4. ASSUME NEW p \in Procs, WriteTemporary(p) PROVE OneRuling'
  BY <1>4 DEF IInv, RegistryTypeOK, WriteTemporary, OneRuling, Allowed
<1>5. ASSUME NEW p \in Procs, Die(p) PROVE OneRuling'
  BY <1>5 DEF IInv, RegistryTypeOK, Die, OneRuling, Allowed
<1> QED
  BY <1>1, <1>2, <1>3, <1>4, <1>5, BeginOneRuling, MoveOneRuling, PersistFailsOneRuling,
     FinishOneRuling DEF RegistryNext

(* An operation that is allowed is a step of a satellite's life, a stamp   *)
(* and a description none at all.                                          *)
LEMMA RulingIsLife ==
  ASSUME NEW op \in Operation, NEW doc \in NodeDocument, Allowed(op, doc)
  PROVE  \/ Ruling(op, doc.nodes[op.node]) = doc.nodes[op.node]
         \/ /\ op.kind # "next_epoch"
            /\ Ruling(op, doc.nodes[op.node]) \in Atomic!Life(doc.nodes[op.node])
<1> DEFINE record == doc.nodes[op.node]
<1>1. record \in NodeRecord /\ op.cert \in Certs \cup {NoCert}
  BY DEF NodeDocument, Operation
<1>2. CASE op.kind \in {"next_epoch", "describe"}
  BY <1>2 DEF Ruling
<1>3. CASE op.kind = "register"
  BY <1>1, <1>3 DEF Ruling, Allowed, Atomic!Life, NodeRecord
<1>4. CASE op.kind = "approve"
  <2>1. (IF op.cert # NoCert THEN op.cert ELSE record.cert) \in Certs
    BY <1>1, <1>4 DEF Allowed, NodeRecord
  <2> QED  BY <2>1, <1>4 DEF Ruling, Allowed, Atomic!Life
<1>5. CASE op.kind = "revoke"
  BY <1>5 DEF Ruling, Allowed, Atomic!Life
<1>6. CASE op.kind = "forget"
  BY <1>6 DEF Ruling, Allowed, Absent, Atomic!Life, Atomic!Stranger
<1> QED  BY <1>2, <1>3, <1>4, <1>5, <1>6 DEF Operation

(* Moving the file into place is one ruling, or one stamp.                 *)
LEMMA MoveIsAtomic ==
  ASSUME IInv, OneRuling, NEW p \in Procs, MoveIntoPlace(p)
  PROVE  [Atomic!Next]_(Atomic!vars)
<1>1. /\ file' = mem[p] /\ mem[p] \in NodeDocument /\ file \in NodeDocument
      /\ todo[p] \in Operation /\ issued' = issued
  BY DEF IInv, MoveIntoPlace, TemporaryIsOwn, RegistryTypeOK, PendingCopies
<1>2. Allowed(todo[p], file)
  BY DEF OneRuling, MoveIntoPlace
<1>3. mem[p].nodes = [file.nodes EXCEPT ![todo[p].node] = Ruling(todo[p], @)]
  BY DEF OneRuling, MoveIntoPlace
<1>4. todo[p].kind = "next_epoch" <=> p = "hub"
  BY DEF IInv, OnlyTheHubStamps, MoveIntoPlace, Busy
<1>5. CASE p = "hub"
  <2>1. file'.nodes = file.nodes /\ file'.hub_epoch > file.hub_epoch
        /\ file'.hub_epoch \in Nat
    BY <1>1, <1>4, <1>5 DEF IInv, PendingCopies, MoveIntoPlace, NodeDocument
  <2> QED  BY <2>1, <1>1 DEF Atomic!Next, Atomic!Stamp
<1>6. CASE p # "hub"
  <2>1. file'.hub_epoch = file.hub_epoch
    BY <1>1, <1>6 DEF OneRuling, MoveIntoPlace
  <2>2. todo[p].node \in Nodes /\ file.nodes \in [Nodes -> NodeRecord]
    BY <1>1 DEF Operation, NodeDocument
  <2>3. CASE Ruling(todo[p], file.nodes[todo[p].node]) = file.nodes[todo[p].node]
    <3>1. file'.nodes = file.nodes
      BY <1>1, <1>3, <2>2, <2>3
    <3> QED  BY <3>1, <2>1, <1>1 DEF Atomic!vars
  <2>4. CASE Ruling(todo[p], file.nodes[todo[p].node]) \in Atomic!Life(file.nodes[todo[p].node])
    <3>1. file'.nodes = [file.nodes EXCEPT ![todo[p].node]
                           = Ruling(todo[p], file.nodes[todo[p].node])]
      BY <1>1, <1>3
    <3> QED  BY <3>1, <2>1, <2>2, <2>4, <1>1 DEF Atomic!Next, Atomic!Rule
  <2> QED  BY <2>3, <2>4, <1>1, <1>2, RulingIsLife
<1> QED  BY <1>5, <1>6

(* Returning from next_epoch hands out the epoch on file; no other step    *)
(* shows.                                                                  *)
LEMMA StepIsAtomic ==
  ASSUME IInv, OneRuling, [RegistryNext]_registryVars
  PROVE  [Atomic!Next]_(Atomic!vars)
<1>1. CASE UNCHANGED registryVars
  BY <1>1 DEF registryVars, Atomic!vars
<1>2. ASSUME NEW p \in Procs, Finish(p) PROVE [Atomic!Next]_(Atomic!vars)
  <2>1. CASE todo[p].kind = "next_epoch"
    <3>1. /\ mem[p].hub_epoch = file.hub_epoch
          /\ \A i \in 1..Len(issued) : issued[i] < file.hub_epoch
      BY <1>2, <2>1 DEF IInv, EpochsBelow, Finish
    <3>2. issued' = Append(issued, file.hub_epoch) /\ file' = file
      BY <1>2, <2>1, <3>1 DEF Finish
    <3> QED  BY <3>1, <3>2 DEF Atomic!Next, Atomic!HandOut
  <2>2. CASE todo[p].kind # "next_epoch"
    BY <1>2, <2>2 DEF Finish, Atomic!vars
  <2> QED  BY <2>1, <2>2
<1>3. ASSUME NEW p \in Procs,
             \/ Load(p) \/ Refresh(p) \/ WriteTemporary(p) \/ PersistFails(p) \/ Die(p)
      PROVE  [Atomic!Next]_(Atomic!vars)
  BY <1>3 DEF Load, Refresh, WriteTemporary, PersistFails, Die, Atomic!vars
<1>4. ASSUME NEW p \in Procs, NEW op \in Operation, Begin(p, op)
      PROVE  [Atomic!Next]_(Atomic!vars)
  BY <1>4 DEF Begin, Atomic!vars
<1> QED  BY <1>1, <1>2, <1>3, <1>4, MoveIsAtomic DEF RegistryNext

(* While the shell and the hub take turns, the registry implements one     *)
(* that has no files, no copies and no processes: what an operation does   *)
(* it does at once and to one satellite, and next_epoch counts on its own  *)
(* (NodeRegistry), through kills, failed writes and stale copies.          *)
THEOREM TurnsAreAtomic == ASSUME ~Overlap PROVE RegistrySpec => RegistryIsAtomic
<1>1. RegistryInit => Atomic!Init /\ IInv /\ OneRuling
  BY InitIInv, InitOneRuling DEF RegistryInit, EmptyDocument, Absent, Atomic!Init, Atomic!Stranger
<1>2. IInv /\ OneRuling /\ [RegistryNext]_registryVars
        => IInv' /\ OneRuling' /\ [Atomic!Next]_(Atomic!vars)
  BY NextIInv, NextOneRuling, StepIsAtomic
<1> QED  BY <1>1, <1>2, PTL DEF RegistrySpec, RegistryIsAtomic, Atomic!Spec
=============================================================================
