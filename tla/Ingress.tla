------------------------------- MODULE Ingress -------------------------------
(***************************************************************************)
(* The hub's one door for events: the broker link with its hand-made       *)
(* acknowledgements, the classification, the journal transaction, the      *)
(* bounded queue and the dispatcher (src/sentry_mode/satellites/           *)
(* ingress.py, store.py, mqtt.py and _on_events, _dispatch, tidy of        *)
(* service.py), for one source of one node.                                *)
(*                                                                         *)
(* The node may send any message of Messages, at any time and repeatedly.  *)
(* The broker is external and modelled from how HubTransport connects: a   *)
(* new client id per process and no session expiry, so what it holds for   *)
(* the hub ends with the connection, and within one it delivers once.      *)
(***************************************************************************)
EXTENDS Integers, Sequences, FiniteSets

CONSTANTS Messages,         \* what the node may send: see Message
          AcceptWithin,     \* limits.accept_within_seconds
          FutureTolerance,  \* limits.future_tolerance_seconds
          DedupFor,         \* limits.dedup_days
          JournalFor,       \* limits.journal_days
          QueueDepth,       \* limits.queue_depth
          Nobody,           \* no message is being handled
          MaxTime, MaxConn, \* bounds on the clock and the connections
          MaxWire           \* bound on what the broker holds at once

(* A connection belongs to one boot and boots do not come back. *)
Message == [id : Nat, boot : Nat, seq : Nat, conn : Nat \ {0},
            occurred : Nat, synced : BOOLEAN,
            initial : BOOLEAN, replayed : BOOLEAN, retained : BOOLEAN]

ASSUME IngressConstants ==
  /\ Messages \subseteq Message
  /\ \A m, n \in Messages : m.conn <= n.conn => m.boot <= n.boot
  /\ AcceptWithin \in Nat /\ FutureTolerance \in Nat
  /\ DedupFor \in Nat /\ JournalFor \in Nat
  /\ QueueDepth \in Nat \ {0}
  /\ MaxTime \in Nat /\ MaxConn \in Nat /\ MaxWire \in Nat
  /\ Nobody \notin Message

Mark == [boot : Int, high_water : Int, baseline_taken : BOOLEAN,
         time_state : {"ok", "uncertain"}]

NoMark == [boot |-> -1, high_water |-> -1, baseline_taken |-> FALSE, time_state |-> "ok"]

Reasons == {"none", "retained", "initial_state", "replayed", "time_uncertain",
            "expired", "out_of_order"}

Row == [id : Nat, boot : Nat, seq : Nat, at : Nat, reason : Reasons,
        doubts : SUBSET Nat, outcome : {"recorded", "dropped"}]

Receipt == [id : Nat, boot : Nat, seq : Nat, at : Nat]

VARIABLES
  now,       \* the hub's wall clock
  linked,    \* HubTransport connected
  wire,      \* sent, and held by the broker for the hub
  unacked,   \* delivered to the hub and not settled
  session,   \* the connection of the current session; 0 is none
  floor,     \* history: no session of an older connection opens again
  storeUp,   \* whether the journal can be written
  mark, receipts, journal,   \* the three tables, committed
  working,   \* the message the network thread is handling, or Nobody
  stage,     \* idle, committed, settled
  eligible,  \* whether what it is handling goes to the queue
  queue,     \* SatelliteService._queue
  acted,     \* history: what the dispatcher handed to _on_event, in order
  doubts,    \* history: boots with a bad clock since the last good baseline
  kept,      \* history: the messages that got a receipt
  lost       \* history: eligible events that left memory and no row says so

vars == <<now, linked, wire, unacked, session, floor, storeUp, mark, receipts,
          journal, working, stage, eligible, queue, acted, doubts, kept, lost>>

store    == <<mark, receipts, journal, kept, doubts>>
handling == <<working, stage, eligible>>

(* What the queue carries of an event.                                     *)
Key == [boot : Nat, seq : Nat]

KeyOf(m) == [boot |-> m.boot, seq |-> m.seq]

TypeOK ==
  /\ now \in Nat /\ linked \in BOOLEAN /\ storeUp \in BOOLEAN
  /\ wire \subseteq Messages /\ unacked \subseteq Messages
  /\ session \in Nat /\ floor \in Nat
  /\ mark \in Mark /\ receipts \subseteq Receipt /\ journal \subseteq Row
  /\ working \in Messages \cup {Nobody}
  /\ stage \in {"idle", "committed", "settled"} /\ eligible \in BOOLEAN
  /\ queue \in Seq(Key) /\ acted \in Seq(Key)
  /\ doubts \subseteq Nat /\ kept \subseteq Messages /\ lost \subseteq Key

Init ==
  /\ now = 0 /\ linked = FALSE /\ storeUp = TRUE
  /\ wire = {} /\ unacked = {} /\ session = 0 /\ floor = 0
  /\ mark = NoMark /\ receipts = {} /\ journal = {}
  /\ working = Nobody /\ stage = "idle" /\ eligible = FALSE
  /\ queue = << >> /\ acted = << >>
  /\ doubts = {} /\ kept = {} /\ lost = {}

------------------------------------------------------------------------------
(* EventIngress._position: a board that restarted starts again. *)
Position(m) == IF mark.boot = m.boot THEN mark ELSE [NoMark EXCEPT !.boot = m.boot]

ClockBad(m) == ~m.synced \/ now - m.occurred < -FutureTolerance

Ahead(m) == IF Position(m).high_water > m.seq THEN Position(m).high_water ELSE m.seq

(* Mutant of Uncertain: each reading is judged on its own clock alone. *)
UncertainNow(m) == ClockBad(m)

Uncertain(m) == ClockBad(m) \/ Position(m).time_state = "uncertain"

(* Mutant of Reason: no look at the high water mark. *)
ReasonAnyOrder(m) ==
  IF m.retained THEN "retained"
  ELSE IF m.initial THEN "initial_state"
  ELSE IF m.replayed THEN "replayed"
  ELSE IF Uncertain(m) THEN "time_uncertain"
  ELSE IF now - m.occurred > AcceptWithin THEN "expired"
  ELSE "none"

(* EventIngress._classify: why the event may not reach a rule, if it may   *)
(* not, and the position it leaves the source in.                          *)
Reason(m) ==
  IF m.retained THEN "retained"
  ELSE IF m.initial THEN "initial_state"
  ELSE IF m.replayed THEN "replayed"
  ELSE IF Uncertain(m) THEN "time_uncertain"
  ELSE IF now - m.occurred > AcceptWithin THEN "expired"
  ELSE IF m.seq <= Position(m).high_water THEN "out_of_order"
  ELSE "none"

Moved(m) ==
  IF m.retained THEN Position(m)
  ELSE [boot           |-> m.boot,
        high_water     |-> Ahead(m),
        baseline_taken |-> m.initial \/ Position(m).baseline_taken,
        time_state     |-> IF (IF m.initial THEN ClockBad(m) ELSE Uncertain(m))
                           THEN "uncertain" ELSE "ok"]

(* Store.admit finds a receipt under the same identifier (a duplicate, or  *)
(* the identifier used again over other contents) or under the same number *)
(* of the same boot: nothing is overwritten.                               *)
Refused(m) ==
  \E r \in receipts : r.id = m.id \/ (r.boot = m.boot /\ r.seq = m.seq)

DoubtsAfter(m) ==
  IF m.retained THEN doubts
  ELSE IF ClockBad(m) THEN doubts \cup {m.boot}
  ELSE IF m.initial THEN {} ELSE doubts

------------------------------------------------------------------------------
(* The node publishes.  With the hub away nobody is subscribed. *)
Send(m) ==
  /\ linked /\ m \notin unacked /\ Cardinality(wire) < MaxWire
  /\ wire' = wire \cup {m}
  /\ UNCHANGED <<now, linked, unacked, session, floor, storeUp, store, handling,
                 queue, acted, lost>>

(* Over budget, too big, not an envelope, an unknown or disabled source:   *)
(* settled and kept nowhere.  So is an event of another connection.        *)
RefusedAtTheDoor(m) ==
  /\ linked /\ working = Nobody /\ m \in wire
  /\ wire' = wire \ {m}
  /\ UNCHANGED <<now, linked, unacked, session, floor, storeUp, store, handling,
                 queue, acted, lost>>

(* Mutant of NotKept: receipt.settle is not looked at. *)
NotKeptButSettled(m) ==
  /\ linked /\ working = Nobody /\ m \in wire
  /\ m.conn = session /\ ~storeUp
  /\ wire' = wire \ {m}
  /\ unacked' = unacked \cup {m}
  /\ working' = m /\ stage' = "committed" /\ eligible' = FALSE
  /\ UNCHANGED <<now, linked, session, floor, storeUp, store, queue, acted, lost>>

(* StoreUnavailable: nothing written, nothing acknowledged. *)
NotKept(m) ==
  /\ linked /\ working = Nobody /\ m \in wire
  /\ m.conn = session /\ ~storeUp
  /\ wire' = wire \ {m}
  /\ unacked' = unacked \cup {m}
  /\ UNCHANGED <<now, linked, session, floor, storeUp, store, handling, queue,
                 acted, lost>>

(* EventIngress.accept and Store.admit: one transaction or nothing. *)
Admit(m) ==
  /\ linked /\ working = Nobody /\ m \in wire
  /\ m.conn = session /\ storeUp
  /\ wire' = wire \ {m}
  /\ unacked' = unacked \cup {m}
  /\ working' = m /\ stage' = "committed"
  /\ IF Refused(m)
     THEN eligible' = FALSE /\ UNCHANGED store
     ELSE /\ eligible' = (Reason(m) = "none")
          /\ receipts' = receipts \cup
               {[id |-> m.id, boot |-> m.boot, seq |-> m.seq, at |-> now]}
          /\ journal' = journal \cup
               {[id |-> m.id, boot |-> m.boot, seq |-> m.seq, at |-> now,
                 reason |-> Reason(m), doubts |-> DoubtsAfter(m), outcome |-> "recorded"]}
          /\ mark' = Moved(m)
          /\ kept' = kept \cup {m}
          /\ doubts' = DoubtsAfter(m)
  /\ UNCHANGED <<now, linked, session, floor, storeUp, queue, acted, lost>>

(* HubTransport.settle: the broker may let the message go. *)
Settle ==
  /\ stage = "committed"
  /\ unacked' = unacked \ {working}
  /\ stage' = "settled"
  /\ UNCHANGED <<now, linked, wire, session, floor, storeUp, store, working,
                 eligible, queue, acted, lost>>

(* Store.outcome.  The mutant writes nothing. *)
Unmarked(r) == r

Dropped(r) == IF r.id = working.id THEN [r EXCEPT !.outcome = "dropped"] ELSE r

(* The end of _on_events: the queue takes it, or the row is marked dropped,*)
(* or the row could not be marked.                                         *)
Finish ==
  /\ stage = "settled"
  /\ working' = Nobody /\ stage' = "idle" /\ eligible' = FALSE
  /\ \/ /\ ~eligible
        /\ UNCHANGED <<queue, journal, lost>>
     \/ /\ eligible /\ Len(queue) < QueueDepth
        /\ queue' = Append(queue, KeyOf(working))
        /\ UNCHANGED <<journal, lost>>
     \/ /\ eligible /\ Len(queue) >= QueueDepth /\ storeUp
        /\ journal' = {Dropped(r) : r \in journal}
        /\ UNCHANGED <<queue, lost>>
     \/ /\ eligible /\ Len(queue) >= QueueDepth /\ ~storeUp
        /\ lost' = lost \cup {KeyOf(working)}
        /\ UNCHANGED <<queue, journal>>
  /\ UNCHANGED <<now, linked, wire, unacked, session, floor, storeUp, mark,
                 receipts, kept, doubts, acted>>

Dispatch ==
  /\ queue # << >>
  /\ acted' = Append(acted, Head(queue))
  /\ queue' = Tail(queue)
  /\ UNCHANGED <<now, linked, wire, unacked, session, floor, storeUp, store,
                 handling, lost>>

(* A state message opened a session: never of an older connection. *)
OpenSession(c) ==
  /\ linked /\ working = Nobody /\ c >= floor
  /\ session' = c /\ floor' = c
  /\ UNCHANGED <<now, linked, wire, unacked, storeUp, store, handling, queue,
                 acted, lost>>

CloseSession ==
  /\ working = Nobody /\ session # 0
  /\ session' = 0
  /\ UNCHANGED <<now, linked, wire, unacked, floor, storeUp, store, handling,
                 queue, acted, lost>>

LinkUp ==
  /\ ~linked
  /\ linked' = TRUE
  /\ UNCHANGED <<now, wire, unacked, session, floor, storeUp, store, handling,
                 queue, acted, lost>>

LinkDown ==
  /\ linked
  /\ linked' = FALSE /\ wire' = {} /\ unacked' = {}
  /\ UNCHANGED <<now, session, floor, storeUp, store, handling, queue, acted, lost>>

(* The process dies and starts again: the three tables are what it keeps. *)
Crash ==
  /\ linked' = FALSE /\ wire' = {} /\ unacked' = {} /\ session' = 0
  /\ working' = Nobody /\ stage' = "idle" /\ eligible' = FALSE
  /\ queue' = << >>
  /\ lost' = lost \cup {queue[i] : i \in 1..Len(queue)}
                  \cup (IF eligible THEN {KeyOf(working)} ELSE {})
  /\ UNCHANGED <<now, floor, storeUp, store, acted>>

StoreFails ==
  /\ storeUp' = ~storeUp
  /\ UNCHANGED <<now, linked, wire, unacked, session, floor, store, handling,
                 queue, acted, lost>>

Tidy ==
  /\ storeUp
  /\ journal' = {r \in journal : r.at >= now - JournalFor}
  /\ receipts' = {r \in receipts : r.at >= now - DedupFor}
  /\ UNCHANGED <<now, linked, wire, unacked, session, floor, storeUp, mark, kept,
                 doubts, handling, queue, acted, lost>>

Tick ==
  /\ now < MaxTime
  /\ now' = now + 1
  /\ UNCHANGED <<linked, wire, unacked, session, floor, storeUp, store, handling,
                 queue, acted, lost>>

Next ==
  \/ \E m \in Messages : Send(m) \/ RefusedAtTheDoor(m) \/ NotKept(m) \/ Admit(m)
  \/ Settle \/ Finish \/ Dispatch
  \/ \E c \in 1..MaxConn : OpenSession(c)
  \/ CloseSession \/ LinkUp \/ LinkDown \/ Crash \/ StoreFails \/ Tidy \/ Tick

Spec == Init /\ [][Next]_vars

------------------------------------------------------------------------------
Before(a, b) == a.boot < b.boot \/ (a.boot = b.boot /\ a.seq < b.seq)

(* The rules hear of every event at most once and in the order the source  *)
(* numbered them, whatever is repeated, reordered, redelivered after a     *)
(* crash or sent again after its receipt was forgotten.                    *)
ActedInOrder ==
  \A i, j \in 1..Len(acted) : i < j => Before(acted[i], acted[j])

(* Nothing founded on a clock in doubt reaches a rule: from a reading with *)
(* a bad clock until a good baseline of the same boot, every event is      *)
(* journalled as history.                                                  *)
DoubtReachesNoRule ==
  \A r \in journal : r.reason = "none" => r.boot \notin r.doubts

(* An event the journal calls eligible and does not call dropped is in the *)
(* queue, on its way there or acted on, unless a crash took it or the disk *)
(* failed under the mark; and one it calls dropped was never acted on.     *)
InMemory == {queue[i] : i \in 1..Len(queue)} \cup {acted[i] : i \in 1..Len(acted)}

EligibleIsAccountedFor ==
  \A r \in journal :
    LET key == [boot |-> r.boot, seq |-> r.seq] IN
    r.reason = "none" =>
      IF r.outcome = "recorded"
      THEN \/ key \in InMemory \cup lost
           \/ working # Nobody /\ eligible /\ key = KeyOf(working)
      ELSE key \notin InMemory

(* The broker is told to let an event go only once it is in the journal,   *)
(* or something that used its identifier or its number before it is.       *)
AcknowledgedAfterCommit ==
  [][\A m \in unacked \ unacked' :
        linked' => \E k \in kept : k.id = m.id \/ KeyOf(k) = KeyOf(m)]_vars
==============================================================================
