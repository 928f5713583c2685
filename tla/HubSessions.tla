----------------------------- MODULE HubSessions -----------------------------
(***************************************************************************)
(* Where a session begins and ends: SatelliteService.handle, _on_state,    *)
(* approve, revoke and renew_due_grants (src/sentry_mode/satellites/       *)
(* service.py) over SessionManager (sessions.py), for one registered node. *)
(*                                                                         *)
(* Four actors: the network thread and a caller of approve or revoke, both *)
(* of which run handle, the housekeeping thread, and satellite_admin.py,   *)
(* which writes the registry file and never touches the hub.  handle takes *)
(* locks one call at a time, so it is one action per call here.            *)
(*                                                                         *)
(* The node and the broker are external: per topic the broker keeps order, *)
(* it holds the last state for whoever subscribes next, and it publishes   *)
(* the will of a connection that died, late if LateWills.                  *)
(***************************************************************************)
EXTENDS Naturals, Sequences

CONSTANTS Foreign,     \* the connections that speak another protocol
          LateWills,   \* a will may come after the node is back
          Rulings,     \* who rules: members of RulingKinds
          None,        \* no message, no session, no grant
          MaxConn, MaxWire, MaxEpoch, MaxRestarts   \* bounds

RulingKinds == {"shell approve", "shell revoke", "approve", "revoke"}

ASSUME HubConstants ==
  /\ Foreign \subseteq Nat /\ LateWills \in BOOLEAN
  /\ Rulings \subseteq RulingKinds
  /\ MaxConn \in Nat /\ MaxWire \in Nat /\ MaxEpoch \in Nat /\ MaxRestarts \in Nat

Threads == {"network", "caller"}

(* empty is the retained snapshot being erased: the hub subscribes to it. *)
Message == [channel : {"state", "other"}, conn : Nat, online : BOOLEAN, empty : BOOLEAN]

Hello(c)     == [channel |-> "state", conn |-> c, online |-> TRUE, empty |-> FALSE]
Goodbye(c)   == [channel |-> "state", conn |-> c, online |-> FALSE, empty |-> FALSE]
Heartbeat(c) == [channel |-> "other", conn |-> c, online |-> TRUE, empty |-> FALSE]
Erased       == [channel |-> "state", conn |-> 0, online |-> FALSE, empty |-> TRUE]

(* The thread that issued a grant stands for its identifier: a thread      *)
(* issues at most one in an epoch.  life is how near its end is.           *)
Grant   == [by : Threads, epoch : Nat, life : {"fresh", "due", "expired"}]
Session == [conn : Nat, epoch : Nat, closed : BOOLEAN, grant : Grant \cup {None}]

Steps == {"idle", "arrived", "refused", "believed", "decoded", "opening",
          "opened", "granted", "approved", "revoked", "unheld", "ungranted", "closed"}

(* after is the message whose handling a held hello interrupted. *)
Work == [at : Steps, msg : Message \cup {None}, after : Message \cup {None},
         grant : Grant \cup {None}]

Resting == [at |-> "idle", msg |-> None, after |-> None, grant |-> None]

Reading(m, after) == [at |-> "arrived", msg |-> m, after |-> after, grant |-> None]

ASSUME NoneIsApart == None \notin Message \cup Session \cup Grant

VARIABLES
  status,    \* the node's record in the registry
  linked,    \* the hub is subscribed
  wire,      \* on its way from the broker to the hub
  retained,  \* the last state the broker keeps
  conn,      \* the node's connection; 0 is none
  made,      \* connections made so far
  wills,     \* connections that died and whose will is not published yet
  held,      \* _state_that_came_too_early
  session,   \* SessionManager._sessions
  epoch,     \* next_epoch
  work,      \* what each thread is in the middle of
  due,       \* the housekeeping thread read due_for_renewal
  told,      \* the last grant sent to the node and not taken back
  restarts,  \* of the hub, so far
  welcomed   \* history: the newest connection a session opened for, since a
             \* revocation or a restart

vars == <<status, linked, wire, retained, conn, made, wills, held, session,
          epoch, work, due, told, restarts, welcomed>>

node   == <<conn, made, wills>>
broker == <<linked, wire, retained>>
history == <<restarts, welcomed>>

TypeOK ==
  /\ status \in {"pending", "approved", "revoked"}
  /\ linked \in BOOLEAN /\ wire \in Seq(Message) /\ retained \in Message \cup {None}
  /\ conn \in Nat /\ made \in Nat /\ wills \subseteq Nat
  /\ held \in Message \cup {None} /\ session \in Session \cup {None} /\ epoch \in Nat
  /\ work \in [Threads -> Work] /\ due \in BOOLEAN
  /\ told \in Grant \cup {None} /\ restarts \in Nat /\ welcomed \in Nat

Init ==
  /\ status = "pending" /\ linked = TRUE /\ wire = << >> /\ retained = None
  /\ conn = 0 /\ made = 0 /\ wills = {}
  /\ held = None /\ session = None /\ epoch = 0
  /\ work = [t \in Threads |-> Resting] /\ due = FALSE
  /\ told = None /\ restarts = 0 /\ welcomed = 0

------------------------------------------------------------------------------
(* Publishing a state message: the broker keeps it and passes it on. *)
PublishState(m) ==
  /\ Len(wire) < MaxWire
  /\ wire' = IF linked THEN Append(wire, m) ELSE wire
  /\ retained' = m
  /\ UNCHANGED linked

hub == <<status, held, session, epoch, work, due, told, history>>

NodeConnects ==
  /\ conn = 0 /\ made < MaxConn
  /\ LateWills \/ wills = {}
  /\ made' = made + 1 /\ conn' = made + 1
  /\ PublishState(Hello(made + 1))
  /\ UNCHANGED <<wills, hub>>

(* The same connection says again what it is, after a configuration. *)
NodeSaysAgain ==
  /\ conn # 0
  /\ PublishState(Hello(conn))
  /\ UNCHANGED <<node, hub>>

NodeSaysGoodbye ==
  /\ conn # 0
  /\ PublishState(Goodbye(conn))
  /\ conn' = 0
  /\ UNCHANGED <<made, wills, hub>>

NodeDies ==
  /\ conn # 0
  /\ wills' = wills \cup {conn} /\ conn' = 0
  /\ UNCHANGED <<made, broker, hub>>

WillPublished(c) ==
  /\ c \in wills
  /\ PublishState(Goodbye(c))
  /\ wills' = wills \ {c}
  /\ UNCHANGED <<conn, made, hub>>

NodeBeats ==
  /\ conn # 0 /\ linked /\ Len(wire) < MaxWire
  /\ wire' = Append(wire, Heartbeat(conn))
  /\ UNCHANGED <<linked, retained, node, hub>>

(* Sessions are kept while the link is down; subscribing again brings the  *)
(* retained state.                                                         *)
LinkDown ==
  /\ linked
  /\ linked' = FALSE /\ wire' = << >>
  /\ UNCHANGED <<retained, node, hub>>

LinkUp ==
  /\ ~linked
  /\ linked' = TRUE
  /\ wire' = IF retained = None THEN << >> ELSE <<retained>>
  /\ UNCHANGED <<retained, node, hub>>

(* The process stops, telling an approved node so, or dies. *)
HubRestarts ==
  /\ restarts < MaxRestarts /\ restarts' = restarts + 1
  /\ linked' = FALSE /\ wire' = << >>
  /\ held' = None /\ session' = None /\ due' = FALSE /\ welcomed' = 0
  /\ work' = [t \in Threads |-> Resting]
  /\ told' \in {told, IF status = "approved" THEN None ELSE told}
  /\ UNCHANGED <<status, retained, node, epoch>>

------------------------------------------------------------------------------
At(t, step) == work[t].at = step

Go(t, step) == work' = [work EXCEPT ![t].at = step]

(* The end of handle: back to the message a held hello interrupted, if any.*)
Return(t) ==
  work' = [work EXCEPT ![t] =
             IF @.after = None THEN Resting
             ELSE [at |-> "decoded", msg |-> @.after, after |-> None, grant |-> None]]

Arrives ==
  /\ At("network", "idle") /\ linked /\ wire # << >>
  /\ work' = [work EXCEPT !["network"] = Reading(Head(wire), None)]
  /\ wire' = Tail(wire)
  /\ UNCHANGED <<status, linked, retained, node, held, session, epoch, due, told, history>>

Authenticate(t) ==
  /\ At(t, "arrived")
  /\ Go(t, IF status = "approved" THEN "believed" ELSE "refused")
  /\ UNCHANGED <<status, broker, node, held, session, epoch, due, told, history>>

Hold(t) ==
  /\ At(t, "refused")
  /\ held' = IF work[t].msg.channel = "state" THEN work[t].msg ELSE held
  /\ Return(t)
  /\ UNCHANGED <<status, broker, node, session, epoch, due, told, history>>

(* Mutant of TakeHeld: only approve reads what was held. *)
DropHeld(t) ==
  /\ At(t, "believed")
  /\ held' = None
  /\ Go(t, "decoded")
  /\ UNCHANGED <<status, broker, node, session, epoch, due, told, history>>

(* Whatever was held is taken; it is read first, unless this is a newer    *)
(* state.                                                                  *)
TakeHeld(t) ==
  /\ At(t, "believed")
  /\ held' = None
  /\ work' = [work EXCEPT ![t] =
                IF held # None /\ @.msg.channel # "state"
                THEN Reading(held, @.msg)
                ELSE [@ EXCEPT !.at = "decoded"]]
  /\ UNCHANGED <<status, broker, node, session, epoch, due, told, history>>

Current == session # None /\ ~session.closed

Ended == [session EXCEPT !.closed = TRUE, !.grant = None]

(* Mutant of Closes: a goodbye is a goodbye. *)
ClosesAny(m) == session # None

(* SessionManager.close: unless the news is about another connection. *)
Closes(m) == session # None /\ (m.conn \in Foreign \/ session.conn = m.conn)

(* Anything but a state, and the erased snapshot, changes no session. *)
HandleOther(t) ==
  /\ At(t, "decoded") /\ (work[t].msg.channel = "other" \/ work[t].msg.empty)
  /\ Return(t)
  /\ UNCHANGED <<status, broker, node, held, session, epoch, due, told, history>>

HandleGoodbye(t) ==
  LET m == work[t].msg IN
  /\ At(t, "decoded") /\ m.channel = "state" /\ ~m.empty
  /\ ~m.online \/ m.conn \in Foreign
  /\ session' = IF Closes(m) THEN Ended ELSE session
  /\ Return(t)
  /\ UNCHANGED <<status, broker, node, held, epoch, due, told, history>>

HandleHello(t) ==
  LET m == work[t].msg IN
  /\ At(t, "decoded") /\ m.channel = "state" /\ ~m.empty
  /\ m.online /\ m.conn \notin Foreign
  /\ IF Current /\ session.conn = m.conn THEN Return(t) ELSE Go(t, "opening")
  /\ UNCHANGED <<status, broker, node, held, session, epoch, due, told, history>>

Open(t) ==
  /\ At(t, "opening") /\ epoch < MaxEpoch
  /\ epoch' = epoch + 1
  /\ session' = [conn |-> work[t].msg.conn, epoch |-> epoch + 1, closed |-> FALSE,
                 grant |-> None]
  /\ welcomed' = IF work[t].msg.conn > welcomed THEN work[t].msg.conn ELSE welcomed
  /\ Go(t, "opened")
  /\ UNCHANGED <<status, broker, node, held, due, told, restarts>>

(* SessionManager.grant: without an open session it raises, and that ends  *)
(* the handling of whatever was waiting behind as well.                    *)
GrantEvents(t) ==
  /\ At(t, "opened")
  /\ \/ /\ ~Current
        /\ work' = [work EXCEPT ![t] = Resting]
        /\ UNCHANGED session
     \/ /\ Current
        /\ LET g == [by |-> t, epoch |-> session.epoch, life |-> "fresh"] IN
           /\ session' = [session EXCEPT !.grant = g]
           /\ work' = [work EXCEPT ![t] = [@ EXCEPT !.at = "granted", !.grant = g]]
  /\ UNCHANGED <<status, broker, node, held, epoch, due, told, history>>

(* Mutant of SendGrant: a node that was granted once is not told again. *)
SendFirstGrant(t) ==
  /\ At(t, "granted")
  /\ told' = IF told = None THEN work[t].grant ELSE told
  /\ Return(t)
  /\ UNCHANGED <<status, broker, node, held, session, epoch, due, history>>

SendGrant(t) ==
  /\ At(t, "granted")
  /\ told' = work[t].grant
  /\ Return(t)
  /\ UNCHANGED <<status, broker, node, held, session, epoch, due, history>>

------------------------------------------------------------------------------
(* satellite_admin.py writes the registry file; the hub asks the file on   *)
(* the next message.                                                       *)
ShellRules(s) ==
  /\ \/ s = "approved" /\ "shell approve" \in Rulings
     \/ s = "revoked" /\ "shell revoke" \in Rulings
  /\ status # s
  /\ status' = s
  /\ UNCHANGED <<broker, node, held, session, epoch, work, due, told, history>>

Approve ==
  /\ "approve" \in Rulings /\ At("caller", "idle")
  /\ status' = "approved"
  /\ Go("caller", "approved")
  /\ UNCHANGED <<broker, node, held, session, epoch, due, told, history>>

(* What the node said before it was approved is read now. *)
ApproveReads ==
  /\ At("caller", "approved")
  /\ held' = None
  /\ work' = [work EXCEPT !["caller"] =
                IF held = None THEN Resting ELSE Reading(held, None)]
  /\ UNCHANGED <<status, broker, node, session, epoch, due, told, history>>

Revoke ==
  /\ "revoke" \in Rulings /\ At("caller", "idle") /\ status # "revoked"
  /\ status' = "revoked"
  /\ Go("caller", "revoked")
  /\ UNCHANGED <<broker, node, held, session, epoch, due, told, history>>

RevokeUnholds ==
  /\ At("caller", "revoked")
  /\ held' = None
  /\ Go("caller", "unheld")
  /\ UNCHANGED <<status, broker, node, session, epoch, due, told, history>>

(* SessionManager.revoke, then SessionManager.close: two turns of its lock. *)
RevokeTakesGrants ==
  /\ At("caller", "unheld")
  /\ session' = IF session = None THEN None ELSE [session EXCEPT !.grant = None]
  /\ Go("caller", "ungranted")
  /\ UNCHANGED <<status, broker, node, held, epoch, due, told, history>>

RevokeCloses ==
  /\ At("caller", "ungranted")
  /\ session' = IF session = None THEN None ELSE Ended
  /\ welcomed' = 0
  /\ Go("caller", "closed")
  /\ UNCHANGED <<status, broker, node, held, epoch, due, told, restarts>>

(* The node is told, and the retained snapshot is erased: an empty message *)
(* that comes back to the hub like any other.  Without a link both wait in *)
(* the client until there is one.                                          *)
RevokeTells ==
  /\ At("caller", "closed") /\ linked /\ Len(wire) < MaxWire
  /\ told' = None
  /\ retained' = None
  /\ wire' = Append(wire, Erased)
  /\ Go("caller", "idle")
  /\ UNCHANGED <<status, linked, node, held, session, epoch, due, history>>

------------------------------------------------------------------------------
Granted == Current /\ session.grant # None

Ages ==
  /\ Granted /\ session.grant.life = "fresh"
  /\ session' = [session EXCEPT !.grant.life = "due"]
  /\ UNCHANGED <<status, broker, node, held, epoch, work, due, told, history>>

Lapses ==
  /\ Granted /\ session.grant.life = "due"
  /\ session' = [session EXCEPT !.grant.life = "expired"]
  /\ UNCHANGED <<status, broker, node, held, epoch, work, due, told, history>>

(* due_for_renewal: what is near its end, or past it. *)
DueForRenewal ==
  /\ ~due /\ Granted /\ session.grant.life # "fresh"
  /\ due' = TRUE
  /\ UNCHANGED <<status, broker, node, held, session, epoch, work, told, history>>

(* renew: whatever the session holds by now, or an error that ends the     *)
(* round.                                                                  *)
Renew ==
  /\ due
  /\ due' = FALSE
  /\ session' = IF Granted THEN [session EXCEPT !.grant.life = "fresh"] ELSE session
  /\ UNCHANGED <<status, broker, node, held, epoch, work, told, history>>

------------------------------------------------------------------------------
HandleStep(t) ==
  \/ Authenticate(t) \/ Hold(t) \/ TakeHeld(t) \/ HandleOther(t)
  \/ HandleGoodbye(t) \/ HandleHello(t) \/ Open(t) \/ GrantEvents(t) \/ SendGrant(t)

CallerStep == ApproveReads \/ RevokeUnholds \/ RevokeTakesGrants \/ RevokeCloses
              \/ RevokeTells

Next ==
  \/ NodeConnects \/ NodeSaysAgain \/ NodeSaysGoodbye \/ NodeDies \/ NodeBeats
  \/ \E c \in 1..MaxConn : WillPublished(c)
  \/ LinkDown \/ LinkUp \/ HubRestarts
  \/ Arrives \/ \E t \in Threads : HandleStep(t)
  \/ \E s \in {"approved", "revoked"} : ShellRules(s)
  \/ Approve \/ Revoke \/ CallerStep
  \/ Ages \/ Lapses \/ DueForRenewal \/ Renew

Spec == Init /\ [][Next]_vars

(* The threads run, the caller's call returns, time passes, the node beats *)
(* as long as it is connected, and the link is not lost every time before  *)
(* a message gets through.                                                 *)
FairSpec ==
  /\ Spec
  /\ SF_vars(Arrives) /\ SF_vars(NodeBeats) /\ WF_vars(LinkUp)
  /\ \A t \in Threads : WF_vars(HandleStep(t))
  /\ WF_vars(CallerStep)
  /\ WF_vars(Ages) /\ WF_vars(DueForRenewal) /\ WF_vars(Renew)

------------------------------------------------------------------------------
Quiet == \A t \in Threads : At(t, "idle")

(* A node that is there is not buried: once a session opened for the       *)
(* connection the node is on, no goodbye of an older one, repeated hello,  *)
(* held message or lost link ends it; only revoke and a restart do.        *)
PresentIsNotBuried ==
  conn # 0 /\ welcomed = conn => Current /\ session.conn = conn

(* When nothing is being handled, an open session holds a grant, and what  *)
(* the node was told of last is that one.                                  *)
ToldOfTheGrantHeld ==
  Quiet /\ Current =>
    /\ session.grant # None
    /\ told # None => told.epoch = session.grant.epoch /\ told.by = session.grant.by

(* An approved node that stays connected gets a session, whichever way and *)
(* whenever it was approved: before its hello, after it or while it is     *)
(* being refused.  (MaxEpoch is the bound on sessions, not an excuse of    *)
(* the code; a connection of another protocol gets none.)                  *)
ApprovedIsHeard ==
  \A c \in (1..MaxConn) \ Foreign :
    status = "approved" /\ conn = c
      ~> \/ status # "approved" \/ conn # c \/ epoch = MaxEpoch
         \/ Current /\ session.conn = c

==============================================================================
