---------------------------- MODULE IngressProofs ----------------------------
(***************************************************************************)
(* The rules hear of every event at most once and in the source's order,   *)
(* for any set of messages, any limits, any queue depth and any number of  *)
(* crashes, repetitions and forgotten receipts.                            *)
(*                                                                         *)
(* Then: nothing founded on a clock in doubt reaches them, what the broker *)
(* may forget is in the journal, and the journal's rows say what became of *)
(* the events.                                                             *)
(*                                                                         *)
(* What carries it: the mark is never behind anything admitted as live, so *)
(* the next live event is after all of them; and the connection that may   *)
(* speak never belongs to an older boot than the mark.                     *)
(***************************************************************************)
EXTENDS Ingress, TLAPS

(* What waits comes after what the rules heard of, in order. *)
QueueInOrder ==
  /\ \A i, j \in 1..Len(queue) : i < j => Before(queue[i], queue[j])
  /\ \A i \in 1..Len(acted), j \in 1..Len(queue) : Before(acted[i], queue[j])

(* The event being handled comes after all of them, when it is live. *)
WorkingIsLast ==
  eligible =>
    /\ \A i \in 1..Len(acted) : Before(acted[i], KeyOf(working))
    /\ \A i \in 1..Len(queue) : Before(queue[i], KeyOf(working))

NotAhead(x) == x.boot < mark.boot \/ (x.boot = mark.boot /\ x.seq <= mark.high_water)

MarkIsAhead ==
  /\ \A i \in 1..Len(acted) : NotAhead(acted[i])
  /\ \A i \in 1..Len(queue) : NotAhead(queue[i])
  /\ eligible => NotAhead(KeyOf(working))

(* Who may speak is not of an older boot than the mark. *)
SessionIsNotOld ==
  /\ session # 0 => session = floor
  /\ \A m \in Messages : m.conn >= floor => m.boot >= mark.boot

StagesAgree ==
  /\ stage # "idle" <=> working # Nobody
  /\ eligible => stage # "idle"

IInv ==
  /\ TypeOK /\ StagesAgree /\ SessionIsNotOld /\ MarkIsAhead
  /\ WorkingIsLast /\ QueueInOrder /\ ActedInOrder

------------------------------------------------------------------------------
(* Where a message leaves its source: in its own boot, at least at its own *)
(* number and, in the same boot, never behind where the source was.        *)
LEMMA MovedForward ==
  ASSUME TypeOK, NEW m \in Messages
  PROVE  /\ Moved(m) \in Mark
         /\ Moved(m).boot = m.boot
         /\ Moved(m).boot = mark.boot => Moved(m).high_water >= mark.high_water
         /\ ~m.retained => Moved(m).high_water >= m.seq
<1>1. m \in Message
  BY IngressConstants
<1>2. m.seq \in Nat /\ m.boot \in Nat /\ m.initial \in BOOLEAN /\ m.retained \in BOOLEAN
  BY <1>1 DEF Message
<1>3. Position(m) \in Mark /\ Position(m).boot = m.boot
      /\ (mark.boot = m.boot => Position(m) = mark)
  <2>1. mark \in Mark
    BY DEF TypeOK
  <2>2. CASE mark.boot = m.boot
    BY <2>1, <2>2 DEF Position
  <2>3. CASE mark.boot # m.boot
    <3>1. Position(m) = [boot |-> m.boot, high_water |-> -1,
                         baseline_taken |-> FALSE, time_state |-> "ok"]
      BY <2>3 DEF Position, NoMark
    <3> QED
      BY <1>2, <2>3, <3>1 DEF Mark
  <2> QED
    BY <2>2, <2>3
<1>4. Ahead(m) \in Int /\ Ahead(m) >= m.seq /\ Ahead(m) >= Position(m).high_water
  BY <1>2, <1>3 DEF Ahead, Mark
<1>5. CASE m.retained
  BY <1>2, <1>3, <1>5 DEF Moved, Mark, TypeOK
<1>6. CASE ~m.retained
  <2>1. (m.initial \/ Position(m).baseline_taken) \in BOOLEAN
    OBVIOUS
  <2> QED
    BY <1>2, <1>3, <1>4, <1>6, <2>1 DEF Moved, Mark, TypeOK
<1> QED
  BY <1>5, <1>6

(* A live message comes after everything the mark is not behind. *)
LEMMA LiveIsAfter ==
  ASSUME TypeOK, NEW m \in Messages, m.boot >= mark.boot, Reason(m) = "none",
         NEW x \in Key, NotAhead(x)
  PROVE  Before(x, KeyOf(m))
<1>1. m \in Message
  BY IngressConstants
<1>2. ~(m.seq <= Position(m).high_water)
  BY DEF Reason
<1>3. m.seq \in Nat /\ m.boot \in Nat /\ mark.boot \in Int /\ mark.high_water \in Int
  BY <1>1 DEF Message, TypeOK, Mark
<1>4. CASE mark.boot = m.boot
  BY <1>2, <1>3, <1>4 DEF Position, Before, KeyOf, Key, NotAhead
<1>5. CASE mark.boot < m.boot
  BY <1>3, <1>5 DEF Before, KeyOf, Key, NotAhead
<1> QED
  BY <1>3, <1>4, <1>5

(* Nothing is being handled, heard or waiting before the first message. *)
LEMMA InitIInv == Init => IInv
<1> SUFFICES ASSUME Init PROVE IInv
  OBVIOUS
<1>1. TypeOK
  <2>1. NoMark \in Mark
    BY DEF NoMark, Mark
  <2>2. << >> \in Seq(Key)
    OBVIOUS
  <2> QED
    BY <2>1, <2>2 DEF Init, TypeOK
<1>2. \A m \in Messages : m.boot \in Nat
  BY IngressConstants DEF Message
<1>3. mark.boot = -1
  BY DEF Init, NoMark
<1>4. SessionIsNotOld
  BY <1>2, <1>3 DEF Init, SessionIsNotOld
<1> QED
  BY <1>1, <1>4 DEF Init, IInv, StagesAgree, MarkIsAhead, WorkingIsLast, QueueInOrder,
                    ActedInOrder

(* Steps that touch neither the mark, the handling, the queue nor what was *)
(* heard keep everything that depends on those alone.                      *)
LEMMA QuietSteps ==
  ASSUME IInv, UNCHANGED <<mark, handling, queue, acted, session, floor>>, TypeOK'
  PROVE  IInv'
BY DEF IInv, StagesAgree, SessionIsNotOld, MarkIsAhead, NotAhead, WorkingIsLast,
       QueueInOrder, ActedInOrder, handling

(* Who may be admitted is of the mark's boot or a later one, and the mark  *)
(* moves forward.                                                          *)
LEMMA AdmitAdvances ==
  ASSUME IInv, NEW m \in Messages, Admit(m)
  PROVE  /\ m.boot >= mark.boot /\ \A n \in Messages : n.conn >= floor => n.boot >= m.boot
         /\ \A x \in Key : NotAhead(x) => NotAhead(x)'
         /\ ~Refused(m) /\ Reason(m) = "none" => NotAhead(KeyOf(m))'
<1> USE DEF IInv
<1>1. m \in Message
  BY IngressConstants
<1>2. m.seq \in Nat /\ m.boot \in Nat /\ m.conn \in Nat \ {0}
  BY <1>1 DEF Message
<1>3. mark' \in Mark /\ (mark' = mark \/ mark' = Moved(m))
  BY MovedForward DEF Admit, TypeOK, store
<1>4. m.boot >= mark.boot /\ \A n \in Messages : n.conn >= floor => n.boot >= m.boot
  <2>1. m.conn = floor
    BY <1>2 DEF Admit, SessionIsNotOld
  <2>2. m.boot >= mark.boot
    BY <1>2, <2>1 DEF SessionIsNotOld
  <2>3. ASSUME NEW n \in Messages, n.conn >= floor
        PROVE  n.boot >= m.boot
    <3>1. n.conn \in Nat /\ n.boot \in Nat
      BY IngressConstants DEF Message
    <3>2. m.conn <= n.conn
      BY <1>2, <2>1, <2>3, <3>1
    <3>3. m.boot <= n.boot
      BY <3>2, IngressConstants
    <3> QED
      BY <1>2, <3>1, <3>3
  <2> QED
    BY <2>2, <2>3
<1>5. \A x \in Key : NotAhead(x) => NotAhead(x)'
  <2>1. CASE mark' = mark
    BY <2>1 DEF NotAhead
  <2>2. CASE mark' = Moved(m)
    <3>1. /\ mark.boot \in Int /\ mark.high_water \in Int
          /\ mark'.boot \in Int /\ mark'.high_water \in Int
          /\ mark'.boot = m.boot
          /\ mark'.boot = mark.boot => mark'.high_water >= mark.high_water
      BY <1>3, <2>2, MovedForward DEF TypeOK, Mark
    <3> QED
      BY <1>2, <1>4, <3>1 DEF NotAhead, Key
  <2> QED
    BY <1>3, <2>1, <2>2
<1>6. ASSUME ~Refused(m), Reason(m) = "none"
      PROVE  NotAhead(KeyOf(m))'
  <2>1. mark' = Moved(m) /\ ~m.retained
    BY <1>6 DEF Admit, Reason
  <2> QED
    BY <1>2, <1>3, <2>1, MovedForward DEF NotAhead, KeyOf, Mark
<1> QED
  BY <1>4, <1>5, <1>6

(* EventIngress.accept and Store.admit. *)
LEMMA AdmitIInv == ASSUME IInv, NEW m \in Messages, Admit(m) PROVE IInv'
<1> USE DEF IInv
<1>1. m \in Message /\ m # Nobody /\ m \in Messages
  BY IngressConstants
<1>2. m.id \in Nat /\ m.seq \in Nat /\ m.boot \in Nat /\ m.conn \in Nat \ {0}
      /\ m.retained \in BOOLEAN
  BY <1>1 DEF Message
<1>3. mark' \in Mark /\ (mark' = mark \/ mark' = Moved(m))
  BY MovedForward DEF Admit, TypeOK, store
<1>4. TypeOK'
  <2>1. Reason(m) \in Reasons
    BY DEF Reason, Reasons
  <2>2. DoubtsAfter(m) \subseteq Nat
    BY <1>2 DEF DoubtsAfter, TypeOK
  <2>3. receipts' \subseteq Receipt
    BY <1>2 DEF Admit, TypeOK, store, Receipt
  <2>4. journal' \subseteq Row
    BY <1>2, <2>1, <2>2 DEF Admit, TypeOK, store, Row
  <2>5. doubts' \subseteq Nat /\ kept' \subseteq Messages
    BY <2>2 DEF Admit, TypeOK, store
  <2>6. eligible' \in BOOLEAN
    BY DEF Admit
  <2> QED
    BY <1>3, <2>3, <2>4, <2>5, <2>6 DEF Admit, TypeOK
<1>5. StagesAgree'
  BY <1>1 DEF Admit, StagesAgree
<1>6. m.boot >= mark.boot /\ \A n \in Messages : n.conn >= floor => n.boot >= m.boot
  BY AdmitAdvances
<1>7. SessionIsNotOld'
  <2>1. mark'.boot = mark.boot \/ mark'.boot = m.boot
    BY <1>3, MovedForward
  <2> QED
    BY <1>6, <2>1 DEF Admit, SessionIsNotOld
<1>8. \A x \in Key : NotAhead(x) => NotAhead(x)'
  BY AdmitAdvances
<1>9. /\ \A i \in 1..Len(acted) : acted[i] \in Key
      /\ \A i \in 1..Len(queue) : queue[i] \in Key
  BY DEF TypeOK
<1>10. CASE eligible'
  <2>1. Reason(m) = "none" /\ mark' = Moved(m) /\ ~m.retained
    BY <1>10 DEF Admit, store, Reason
  <2>2. NotAhead(KeyOf(m))'
    BY <1>2, <1>3, <2>1, MovedForward DEF NotAhead, KeyOf, Mark
  <2>3. MarkIsAhead'
    BY <1>8, <1>9, <2>2 DEF Admit, MarkIsAhead, KeyOf
  <2>4. WorkingIsLast'
    BY <1>6, <1>9, <2>1, LiveIsAfter DEF Admit, MarkIsAhead, WorkingIsLast, Before, KeyOf
  <2> QED
    BY <1>4, <1>5, <1>7, <2>3, <2>4 DEF Admit, QueueInOrder, ActedInOrder, Before
<1>11. CASE ~eligible'
  BY <1>4, <1>5, <1>7, <1>8, <1>9, <1>11
  DEF Admit, MarkIsAhead, WorkingIsLast, QueueInOrder, ActedInOrder, Before
<1> QED
  BY <1>10, <1>11

(* Handing the head of the queue to the rules. *)
LEMMA DispatchIInv == ASSUME IInv, Dispatch PROVE IInv'
<1> USE DEF IInv
<1>1. /\ queue \in Seq(Key) /\ acted \in Seq(Key) /\ queue # << >>
      /\ Head(queue) = queue[1] /\ Head(queue) \in Key
      /\ Len(queue) \in Nat \ {0} /\ Len(acted) \in Nat
  BY DEF Dispatch, TypeOK
<1>2. /\ queue' \in Seq(Key) /\ Len(queue') = Len(queue) - 1
      /\ \A i \in 1..Len(queue') : queue'[i] = queue[i + 1] /\ i + 1 \in 1..Len(queue)
  BY <1>1 DEF Dispatch
<1>3. /\ acted' \in Seq(Key) /\ Len(acted') = Len(acted) + 1
      /\ acted'[Len(acted) + 1] = queue[1]
      /\ \A i \in 1..Len(acted) : acted'[i] = acted[i]
  BY <1>1 DEF Dispatch
<1>4. TypeOK'
  BY <1>2, <1>3 DEF Dispatch, TypeOK, store, handling
<1>5. StagesAgree' /\ SessionIsNotOld'
  BY DEF Dispatch, StagesAgree, SessionIsNotOld, store, handling
<1>6. mark' = mark /\ working' = working /\ eligible' = eligible
  BY DEF Dispatch, store, handling
<1>7. 1 \in 1..Len(queue) /\ \A i \in 1..Len(acted') : i \in 1..Len(acted) \/ i = Len(acted) + 1
  BY <1>1, <1>3
<1>8. MarkIsAhead'
  BY <1>2, <1>3, <1>6, <1>7 DEF MarkIsAhead, NotAhead
<1>9. WorkingIsLast'
  <2>1. KeyOf(working)' = KeyOf(working)
    BY <1>6 DEF KeyOf
  <2>2. ASSUME eligible, NEW i \in 1..Len(acted') PROVE Before(acted'[i], KeyOf(working))
    <3>1. CASE i \in 1..Len(acted)
      BY <1>3, <2>2, <3>1 DEF WorkingIsLast
    <3>2. CASE i = Len(acted) + 1
      BY <1>3, <1>7, <2>2, <3>2 DEF WorkingIsLast
    <3> QED  BY <1>7, <3>1, <3>2
  <2>3. ASSUME eligible, NEW i \in 1..Len(queue') PROVE Before(queue'[i], KeyOf(working))
    BY <1>2, <2>3 DEF WorkingIsLast
  <2> QED  BY <1>6, <2>1, <2>2, <2>3 DEF WorkingIsLast, Before
<1>10. QueueInOrder'
  <2>1. \A i, j \in 1..Len(queue') : i < j => Before(queue'[i], queue'[j])
    BY <1>1, <1>2 DEF QueueInOrder
  <2>2. \A i \in 1..Len(acted'), j \in 1..Len(queue') : Before(acted'[i], queue'[j])
    BY <1>1, <1>2, <1>3, <1>7 DEF QueueInOrder
  <2> QED
    BY <2>1, <2>2 DEF QueueInOrder, Before
<1>11. ActedInOrder'
  <2>1. \A i, j \in 1..Len(acted') : i < j => Before(acted'[i], acted'[j])
    BY <1>1, <1>3, <1>7 DEF QueueInOrder, ActedInOrder
  <2> QED
    BY <2>1 DEF ActedInOrder, Before
<1> QED
  BY <1>4, <1>5, <1>8, <1>9, <1>10, <1>11

(* The queue takes what was handled, or it is marked dropped. *)
LEMMA FinishIInv == ASSUME IInv, Finish PROVE IInv'
<1> USE DEF IInv
<1>1. working \in Messages /\ working \in Message /\ KeyOf(working) \in Key
  BY IngressConstants DEF Finish, StagesAgree, TypeOK, KeyOf, Key, Message
<1>2. /\ queue \in Seq(Key) /\ Len(queue) \in Nat
      /\ UNCHANGED <<acted, mark, session, floor>> /\ eligible' = FALSE
  BY DEF Finish, TypeOK
<1>3. CASE queue' = queue
  <2>1. journal' \subseteq Row
    <3>1. \A r \in Row : Dropped(r) \in Row
      BY DEF Row, Dropped
    <3> QED
      BY <3>1 DEF Finish, TypeOK
  <2>2. lost' \subseteq Key
    BY <1>1 DEF Finish, TypeOK
  <2>3. TypeOK' /\ StagesAgree'
    BY <1>3, <2>1, <2>2 DEF Finish, TypeOK, StagesAgree
  <2> QED
    BY <1>2, <1>3, <2>3 DEF SessionIsNotOld, MarkIsAhead, NotAhead, WorkingIsLast,
                            QueueInOrder, ActedInOrder, Before
<1>4. CASE eligible /\ queue' = Append(queue, KeyOf(working)) /\ UNCHANGED <<journal, lost>>
  <2>1. /\ queue' \in Seq(Key) /\ Len(queue') = Len(queue) + 1
        /\ queue'[Len(queue) + 1] = KeyOf(working)
        /\ \A i \in 1..Len(queue) : queue'[i] = queue[i]
        /\ \A i \in 1..Len(queue') : i \in 1..Len(queue) \/ i = Len(queue) + 1
    BY <1>1, <1>2, <1>4
  <2>2. TypeOK' /\ StagesAgree'
    BY <1>4, <2>1 DEF Finish, TypeOK, StagesAgree
  <2>3. SessionIsNotOld' /\ WorkingIsLast' /\ ActedInOrder'
    BY <1>2 DEF SessionIsNotOld, WorkingIsLast, ActedInOrder, Before
  <2>4. MarkIsAhead'
    BY <1>2, <1>4, <2>1 DEF MarkIsAhead, NotAhead
  <2>5. QueueInOrder'
    <3>1. \A i, j \in 1..Len(queue') : i < j => Before(queue'[i], queue'[j])
      BY <1>2, <1>4, <2>1 DEF QueueInOrder, WorkingIsLast
    <3>2. \A i \in 1..Len(acted), j \in 1..Len(queue') : Before(acted[i], queue'[j])
      BY <1>2, <1>4, <2>1 DEF QueueInOrder, WorkingIsLast
    <3> QED
      BY <1>2, <3>1, <3>2 DEF QueueInOrder, Before
  <2> QED
    BY <2>2, <2>3, <2>4, <2>5
<1> QED
  BY <1>3, <1>4 DEF Finish

(* A crash empties what was on its way. *)
LEMMA CrashIInv == ASSUME IInv, Crash PROVE IInv'
<1> USE DEF IInv
<1>1. lost' \subseteq Key
  <2>1. eligible => KeyOf(working) \in Key
    BY IngressConstants DEF StagesAgree, TypeOK, KeyOf, Key, Message
  <2>2. {queue[i] : i \in 1..Len(queue)} \subseteq Key
    BY DEF TypeOK
  <2> QED
    BY <2>1, <2>2 DEF Crash, TypeOK
<1>2. TypeOK'
  <2>1. queue' \in Seq(Key)
    BY DEF Crash
  <2> QED
    BY <1>1, <2>1 DEF Crash, TypeOK, store
<1> QED
  BY <1>2 DEF Crash, store, StagesAgree, SessionIsNotOld, MarkIsAhead, NotAhead,
              WorkingIsLast, QueueInOrder, ActedInOrder, Before

(* A session of a newer connection, or none. *)
LEMMA SessionIInv ==
  ASSUME IInv, CloseSession \/ \E c \in 1..MaxConn : OpenSession(c)
  PROVE  IInv'
<1> USE DEF IInv
<1>1. /\ session' \in Nat /\ floor' \in Nat /\ floor' >= floor
      /\ session' # 0 => session' = floor'
  BY DEF CloseSession, OpenSession, TypeOK, SessionIsNotOld
<1>2. TypeOK' /\ StagesAgree'
  <2>1. /\ UNCHANGED <<now, linked, wire, unacked, storeUp, store, handling, queue,
                       acted, lost>>
    BY DEF CloseSession, OpenSession
  <2> QED
    BY <1>1, <2>1 DEF TypeOK, StagesAgree, store, handling
<1>3. SessionIsNotOld'
  <2>1. ASSUME NEW m \in Messages, m.conn >= floor' PROVE m.boot >= mark.boot
    BY <1>1, <2>1, IngressConstants DEF SessionIsNotOld, TypeOK, Message
  <2> QED
    BY <1>1, <2>1 DEF SessionIsNotOld, CloseSession, OpenSession, store
<1> QED
  BY <1>2, <1>3 DEF CloseSession, OpenSession, store, handling, MarkIsAhead, NotAhead,
                    WorkingIsLast, QueueInOrder, ActedInOrder, Before

(* Every step keeps the invariant. *)
LEMMA NextIInv == IInv /\ [Next]_vars => IInv'
<1> SUFFICES ASSUME IInv, [Next]_vars PROVE IInv'
  OBVIOUS
<1> TypeOK
  BY DEF IInv
<1>1. ASSUME NEW m \in Messages, Send(m) \/ RefusedAtTheDoor(m) \/ NotKept(m) PROVE IInv'
  <2>1. TypeOK'
    BY <1>1 DEF Send, RefusedAtTheDoor, NotKept, TypeOK, store, handling
  <2> QED
    BY <1>1, <2>1, QuietSteps DEF Send, RefusedAtTheDoor, NotKept, store, handling
<1>2. ASSUME NEW m \in Messages, Admit(m) PROVE IInv'
  BY <1>2, AdmitIInv
<1>3. CASE Settle
  <2>1. TypeOK'
    BY <1>3 DEF Settle, TypeOK, store
  <2> QED
    BY <1>3, <2>1 DEF IInv, Settle, store, StagesAgree, SessionIsNotOld, MarkIsAhead,
                      NotAhead, WorkingIsLast, QueueInOrder, ActedInOrder, Before
<1>4. CASE LinkUp \/ LinkDown \/ StoreFails \/ Tick
  <2>1. ASSUME LinkUp \/ LinkDown \/ Tick PROVE TypeOK'
    <3>1. now' \in Nat
      BY <2>1 DEF LinkUp, LinkDown, Tick, TypeOK
    <3>2. /\ wire' \subseteq Messages /\ unacked' \subseteq Messages
          /\ linked' \in BOOLEAN
      BY <2>1 DEF LinkUp, LinkDown, Tick, TypeOK
    <3>3. UNCHANGED <<session, floor, storeUp, store, handling, queue, acted, lost>>
      BY <2>1 DEF LinkUp, LinkDown, Tick
    <3> QED
      BY <3>1, <3>2, <3>3 DEF TypeOK, store, handling
  <2>2. ASSUME StoreFails PROVE TypeOK'
    <3>1. storeUp' \in BOOLEAN
      BY <2>2, Zenon DEF StoreFails
    <3> QED
      BY <2>2, <3>1 DEF StoreFails, TypeOK, store, handling
  <2>3. TypeOK'
    BY <1>4, <2>1, <2>2
  <2> QED
    BY <1>4, <2>3, QuietSteps DEF LinkUp, LinkDown, StoreFails, Tick, store, handling
<1>5. CASE Tidy
  <2>1. TypeOK'
    BY <1>5 DEF Tidy, TypeOK, handling
  <2> QED
    BY <1>5, <2>1, QuietSteps DEF Tidy, handling
<1>6. CASE UNCHANGED vars
  <2>1. TypeOK'
    BY <1>6 DEF vars, TypeOK
  <2> QED
    BY <1>6, <2>1, QuietSteps DEF vars, handling
<1> QED
  BY <1>1, <1>2, <1>3, <1>4, <1>5, <1>6, FinishIInv, DispatchIInv, CrashIInv, SessionIInv
  DEF Next

------------------------------------------------------------------------------
(* The state stays well-formed. *)
THEOREM TypeCorrect == Spec => []TypeOK
<1>1. IInv => TypeOK
  BY DEF IInv
<1> QED
  BY <1>1, InitIInv, NextIInv, PTL DEF Spec

(* The rules hear of every event at most once and in the order the source  *)
(* numbered them (_classify, _position and admit against the queue).       *)
THEOREM RulesHearInOrder == Spec => []ActedInOrder
<1>1. IInv => ActedInOrder
  BY DEF IInv
<1> QED
  BY <1>1, InitIInv, NextIInv, PTL DEF Spec

------------------------------------------------------------------------------
(* A boot whose clock is in doubt is not later than the mark's, and if it  *)
(* is the mark's the mark says so.                                         *)
DoubtInv ==
  \A b \in doubts : b <= mark.boot /\ (b = mark.boot => mark.time_state = "uncertain")

LEMMA DoubtSteps ==
  ASSUME IInv, DoubtInv, DoubtReachesNoRule, [Next]_vars
  PROVE  DoubtInv' /\ DoubtReachesNoRule'
<1>1. ASSUME UNCHANGED <<mark, doubts>>,
             \A r \in journal' : \E q \in journal : r.reason = q.reason /\ r.boot = q.boot
                                                    /\ r.doubts = q.doubts
      PROVE  DoubtInv' /\ DoubtReachesNoRule'
  BY <1>1 DEF DoubtInv, DoubtReachesNoRule
<1>2. CASE \/ Settle \/ Dispatch \/ CloseSession \/ LinkUp \/ LinkDown \/ Crash \/ StoreFails \/ Tick
           \/ (\E c \in 1..MaxConn : OpenSession(c)) \/ UNCHANGED vars
           \/ (\E m \in Messages : Send(m) \/ RefusedAtTheDoor(m) \/ NotKept(m))
  <2>1. UNCHANGED <<mark, doubts, journal>>
    BY <1>2 DEF Settle, Dispatch, CloseSession, LinkUp, LinkDown, Crash, StoreFails, Tick,
                OpenSession, vars, Send, RefusedAtTheDoor, NotKept, store
  <2> QED  BY <1>1, <2>1
<1>3. CASE Tidy
  BY <1>1, <1>3 DEF Tidy
<1>4. CASE Finish
  <2>1. \A r \in Row : /\ Dropped(r).reason = r.reason /\ Dropped(r).boot = r.boot
                       /\ Dropped(r).doubts = r.doubts
    BY DEF Dropped, Row
  <2>2. journal \subseteq Row
    BY DEF IInv, TypeOK
  <2>3. \A r \in journal' : r \in journal \/ \E q \in journal : r = Dropped(q)
    BY <1>4 DEF Finish
  <2>4. \A r \in journal' : \E q \in journal : r.reason = q.reason /\ r.boot = q.boot
                                               /\ r.doubts = q.doubts
    BY <2>1, <2>2, <2>3
  <2> QED  BY <1>1, <1>4, <2>4 DEF Finish
<1>5. ASSUME NEW m \in Messages, Admit(m)
      PROVE  DoubtInv' /\ DoubtReachesNoRule'
  <2>1. CASE Refused(m)
    BY <1>1, <1>5, <2>1 DEF Admit, store
  <2>2. CASE ~Refused(m)
    <3>1. m.boot \in Nat /\ mark.boot \in Int /\ m.boot >= mark.boot /\ doubts \subseteq Nat
      BY <1>5, AdmitAdvances, IngressConstants DEF Message, IInv, TypeOK, Mark
    <3>2. /\ mark' = Moved(m) /\ doubts' = DoubtsAfter(m)
          /\ journal' = journal \cup
               {[id |-> m.id, boot |-> m.boot, seq |-> m.seq, at |-> now,
                 reason |-> Reason(m), doubts |-> DoubtsAfter(m), outcome |-> "recorded"]}
      BY <1>5, <2>2 DEF Admit
    <3>3. mark'.boot = m.boot
      BY <3>2, MovedForward DEF IInv
    <3>4. m.boot \in doubts => Position(m).time_state = "uncertain"
      <4>1. m.boot \in doubts => m.boot = mark.boot /\ mark.time_state = "uncertain"
        BY <3>1 DEF DoubtInv
      <4> QED  BY <4>1 DEF Position
    <3>5. doubts' \subseteq doubts \cup {m.boot}
      BY <3>2 DEF DoubtsAfter
    <3>6. m.boot \in doubts' => mark'.time_state = "uncertain"
      <4>1. CASE m.retained
        BY <3>2, <3>4, <4>1 DEF Moved, DoubtsAfter
      <4>2. CASE ~m.retained
        <5>1. ClockBad(m) => Uncertain(m)
          BY DEF Uncertain
        <5>2. m.boot \in doubts => Uncertain(m)
          BY <3>4 DEF Uncertain
        <5> HIDE DEF ClockBad, Uncertain
        <5>3. m.boot \in doubts' => ClockBad(m) \/ (~m.initial /\ m.boot \in doubts)
          BY <3>2, <4>2 DEF DoubtsAfter
        <5>4. mark'.time_state = IF (IF m.initial THEN ClockBad(m) ELSE Uncertain(m))
                                 THEN "uncertain" ELSE "ok"
          BY <3>2, <4>2 DEF Moved
        <5> QED  BY <5>1, <5>2, <5>3, <5>4
      <4> QED  BY <4>1, <4>2
    <3>7. DoubtInv'
      BY <3>1, <3>3, <3>5, <3>6 DEF DoubtInv
    <3>8. Reason(m) = "none" => m.boot \notin DoubtsAfter(m)
      <4> SUFFICES ASSUME Reason(m) = "none" PROVE m.boot \notin DoubtsAfter(m)
        OBVIOUS
      <4>1. ~m.retained /\ ~m.initial /\ ~Uncertain(m)
        BY DEF Reason
      <4>2. ~ClockBad(m) /\ Position(m).time_state # "uncertain"
        BY <4>1 DEF Uncertain
      <4> QED  BY <3>4, <4>1, <4>2 DEF DoubtsAfter
    <3>9. DoubtReachesNoRule'
      BY <3>2, <3>8 DEF DoubtReachesNoRule
    <3> QED  BY <3>7, <3>9
  <2> QED  BY <2>1, <2>2
<1> QED
  BY <1>2, <1>3, <1>4, <1>5 DEF Next

(* Nothing founded on a clock in doubt reaches a rule: from a reading with *)
(* a bad clock until a good baseline of the same boot, every event is      *)
(* journalled as history (_classify, Mark.time_state).                     *)
THEOREM DoubtIsHistory == Spec => []DoubtReachesNoRule
<1>1. Init => DoubtInv /\ DoubtReachesNoRule
  BY DEF Init, DoubtInv, DoubtReachesNoRule
<1> QED
  BY <1>1, InitIInv, NextIInv, DoubtSteps, PTL DEF Spec

------------------------------------------------------------------------------
(* What has a receipt was kept, and what is about to be acknowledged was   *)
(* kept or stands in the way of something that was.                        *)
StandsFor(k, m) == k.id = m.id \/ KeyOf(k) = KeyOf(m)

KeptInv ==
  /\ \A r \in receipts : \E k \in kept : k.id = r.id /\ k.boot = r.boot /\ k.seq = r.seq
  /\ stage = "committed" => \E k \in kept : StandsFor(k, working)

LEMMA KeptSteps ==
  ASSUME IInv, KeptInv, [Next]_vars
  PROVE  /\ KeptInv'
         /\ \A m \in unacked \ unacked' : linked' => \E k \in kept : StandsFor(k, m)
<1>1. ASSUME receipts' \subseteq receipts, kept' = kept,
             stage' = "committed" => stage = "committed" /\ working' = working
      PROVE  KeptInv'
  BY <1>1 DEF KeptInv, StandsFor
<1>2. CASE \/ Dispatch \/ CloseSession \/ LinkUp \/ LinkDown \/ Crash \/ StoreFails \/ Tick \/ Tidy
           \/ Finish \/ (\E c \in 1..MaxConn : OpenSession(c)) \/ UNCHANGED vars
           \/ (\E m \in Messages : Send(m) \/ RefusedAtTheDoor(m) \/ NotKept(m))
  <2>1. /\ receipts' \subseteq receipts /\ kept' = kept
        /\ stage' = "committed" => stage = "committed" /\ working' = working
        /\ unacked \subseteq unacked' \/ ~linked'
    BY <1>2 DEF Dispatch, CloseSession, LinkUp, LinkDown, Crash, StoreFails, Tick, Tidy, Finish,
                OpenSession, vars, Send, RefusedAtTheDoor, NotKept, store, handling
  <2> QED  BY <1>1, <2>1
<1>3. CASE Settle
  <2>1. /\ receipts' = receipts /\ kept' = kept /\ stage' # "committed" /\ stage = "committed"
        /\ unacked' = unacked \ {working}
    BY <1>3 DEF Settle, store
  <2> QED  BY <1>1, <2>1 DEF KeptInv
<1>4. ASSUME NEW m \in Messages, Admit(m)
      PROVE  KeptInv' /\ unacked \subseteq unacked'
  <2>1. working' = m /\ unacked \subseteq unacked'
    BY <1>4 DEF Admit
  <2>2. CASE Refused(m)
    <3>1. UNCHANGED <<receipts, kept>>
      BY <1>4, <2>2 DEF Admit, store
    <3>2. PICK r \in receipts : r.id = m.id \/ (r.boot = m.boot /\ r.seq = m.seq)
      BY <2>2 DEF Refused
    <3>3. PICK k \in kept : k.id = r.id /\ k.boot = r.boot /\ k.seq = r.seq
      BY DEF KeptInv
    <3>4. StandsFor(k, m)
      BY <3>2, <3>3 DEF StandsFor, KeyOf
    <3> QED  BY <2>1, <3>1, <3>4 DEF KeptInv
  <2>3. CASE ~Refused(m)
    <3>1. /\ receipts' = receipts \cup {[id |-> m.id, boot |-> m.boot, seq |-> m.seq, at |-> now]}
          /\ kept' = kept \cup {m}
      BY <1>4, <2>3 DEF Admit
    <3>2. StandsFor(m, m)
      BY DEF StandsFor
    <3>3. \A r \in receipts' : \E k \in kept' : k.id = r.id /\ k.boot = r.boot /\ k.seq = r.seq
      BY <3>1 DEF KeptInv
    <3> QED  BY <2>1, <3>1, <3>2, <3>3 DEF KeptInv
  <2> QED  BY <2>1, <2>2, <2>3
<1> QED
  BY <1>2, <1>3, <1>4 DEF Next

(* The broker is told to let an event go only once it, or something that   *)
(* used its identifier or its number before it, is in the journal: what is *)
(* acknowledged survives a crash at any point (receipt.settle).            *)
THEOREM AcknowledgedIsKept == Spec => AcknowledgedAfterCommit
<1>1. Init => KeptInv
  BY DEF Init, KeptInv
<1>2. IInv /\ KeptInv /\ [Next]_vars =>
        KeptInv' /\ [\A m \in unacked \ unacked' :
                       linked' => \E k \in kept : k.id = m.id \/ KeyOf(k) = KeyOf(m)]_vars
  BY KeptSteps DEF StandsFor
<1> QED
  BY <1>1, <1>2, InitIInv, NextIInv, PTL DEF Spec, AcknowledgedAfterCommit

------------------------------------------------------------------------------
RowKey(r) == [boot |-> r.boot, seq |-> r.seq]

(* An identifier still in the journal does not come back over another      *)
(* event: its receipt is kept as long as its row, or the nodes never use   *)
(* one twice.  The limits the hub ships with keep rows longer than         *)
(* receipts, and the nodes draw identifiers that do not repeat.            *)
IdentifiersStayApart ==
  \/ JournalFor <= DedupFor
  \/ \A m, n \in Messages : m.id = n.id => KeyOf(m) = KeyOf(n)

(* Every row is a message's, and has its receipt if receipts last as long; *)
(* the mark is not behind a live row; and of the live rows only its own is *)
(* not before the event on its way to the queue.                           *)
RowOf(r, m) == m.id = r.id /\ KeyOf(m) = RowKey(r)

LiveRow(r) ==
  /\ NotAhead(RowKey(r))
  /\ eligible =>
       /\ \/ Before(RowKey(r), KeyOf(working))
          \/ RowKey(r) = KeyOf(working) /\ r.outcome = "recorded" /\ r.id = working.id
       /\ r.id = working.id => RowKey(r) = KeyOf(working)

JournalInv ==
  /\ \A r \in journal : r.reason = "none" => LiveRow(r)
  /\ JournalFor <= DedupFor =>
       \A r \in journal : \E c \in receipts : c.id = r.id /\ c.at = r.at
  /\ \A r \in journal : \E m \in kept : RowOf(r, m)

(* What a step that writes no row and moves nothing keeps. *)
LEMMA SameRows ==
  ASSUME JournalInv, UNCHANGED <<mark, journal, receipts, kept>>,
         eligible' => eligible /\ working' = working
  PROVE  JournalInv'
BY DEF JournalInv, LiveRow, NotAhead, RowKey, RowOf, KeyOf, Before

LEMMA SameAccount ==
  ASSUME EligibleIsAccountedFor, UNCHANGED <<handling, lost>>, journal' \subseteq journal,
         InMemory' = InMemory
  PROVE  EligibleIsAccountedFor'
<1>1. UNCHANGED <<working, eligible, lost>>
  BY DEF handling
<1> HIDE DEF InMemory
<1> QED
  BY <1>1 DEF EligibleIsAccountedFor, KeyOf

(* What is in memory comes before what is on its way there. *)
LEMMA NotYetInMemory ==
  ASSUME IInv, eligible
  PROVE  KeyOf(working) \notin InMemory /\ ~Before(KeyOf(working), KeyOf(working))
<1>1. working \in Messages /\ KeyOf(working) \in Key
  BY IngressConstants DEF IInv, StagesAgree, TypeOK, KeyOf, Key, Message
<1>2. ~Before(KeyOf(working), KeyOf(working))
  BY <1>1 DEF Before, Key
<1> HIDE DEF Before
<1> QED
  BY <1>2 DEF InMemory, IInv, WorkingIsLast

(* Store.admit writes the row of what goes to the queue. *)
LEMMA AdmitRows ==
  ASSUME IdentifiersStayApart, IInv, JournalInv, EligibleIsAccountedFor,
         NEW m \in Messages, Admit(m)
  PROVE  JournalInv' /\ EligibleIsAccountedFor'
<1>1. /\ working = Nobody /\ working' = m /\ m # Nobody /\ UNCHANGED <<queue, acted, lost>>
  BY IngressConstants DEF Admit
<1>2. InMemory' = InMemory
  BY <1>1 DEF InMemory
<1>3. ~eligible
  BY <1>1 DEF IInv, StagesAgree
<1>4. CASE Refused(m)
  <2>1. eligible' = FALSE /\ UNCHANGED store
    BY <1>4 DEF Admit
  <2>2. JournalInv'
    BY <2>1, SameRows DEF store
  <2> HIDE DEF InMemory
  <2>3. EligibleIsAccountedFor'
    BY <1>1, <1>2, <1>3, <2>1 DEF EligibleIsAccountedFor, store
  <2> QED  BY <2>2, <2>3
<1>5. CASE ~Refused(m)
  <2> DEFINE row == [id |-> m.id, boot |-> m.boot, seq |-> m.seq, at |-> now,
                     reason |-> Reason(m), doubts |-> DoubtsAfter(m), outcome |-> "recorded"]
             rec == [id |-> m.id, boot |-> m.boot, seq |-> m.seq, at |-> now]
  <2>1. /\ eligible' = (Reason(m) = "none") /\ journal' = journal \cup {row}
        /\ receipts' = receipts \cup {rec} /\ kept' = kept \cup {m}
    BY <1>5 DEF Admit
  <2>2. /\ row.id = m.id /\ row.at = now /\ RowKey(row) = KeyOf(m) /\ row.reason = Reason(m)
        /\ row.outcome = "recorded" /\ rec.id = m.id /\ rec.at = now
    BY DEF RowKey, KeyOf
  <2> HIDE DEF row, rec
  <2>3. \A r \in journal' : \E k \in kept' : RowOf(r, k)
    BY <2>1, <2>2 DEF JournalInv, RowOf
  <2>4. ASSUME JournalFor <= DedupFor
        PROVE  \A r \in journal' : \E c \in receipts' : c.id = r.id /\ c.at = r.at
    BY <2>1, <2>2, <2>4 DEF JournalInv
  <2>5. ASSUME NEW r \in journal, r.id = m.id
        PROVE  RowKey(r) = KeyOf(m)
    <3>1. ~(JournalFor <= DedupFor)
      BY <1>5, <2>5 DEF JournalInv, Refused
    <3>2. PICK k \in kept : RowOf(r, k)
      BY DEF JournalInv
    <3>3. k \in Messages /\ k.id = m.id /\ KeyOf(k) = RowKey(r)
      BY <2>5, <3>2 DEF RowOf, IInv, TypeOK
    <3> QED
      BY <3>1, <3>3 DEF IdentifiersStayApart
  <2>6. ASSUME NEW r \in journal, r.reason = "none"
        PROVE  LiveRow(r)'
    <3>1. NotAhead(RowKey(r)) /\ RowKey(r) \in Key
      BY <2>6 DEF JournalInv, LiveRow, IInv, TypeOK, Row, RowKey, Key
    <3>2. NotAhead(RowKey(r))'
      BY <3>1, AdmitAdvances DEF RowKey, NotAhead
    <3>3. eligible' => Before(RowKey(r), KeyOf(m))
      BY <2>1, <3>1, AdmitAdvances, LiveIsAfter DEF IInv
    <3> QED
      BY <1>1, <2>5, <3>2, <3>3 DEF LiveRow, RowKey, KeyOf, Before
  <2>7. ASSUME NEW r \in journal', r = row, r.reason = "none"
        PROVE  LiveRow(r)'
    <3>1. NotAhead(KeyOf(m))'
      BY <1>5, <2>2, <2>7, AdmitAdvances
    <3> QED
      BY <1>1, <2>2, <2>7, <3>1 DEF LiveRow, NotAhead, RowKey, KeyOf
  <2>8. JournalInv'
    BY <2>1, <2>3, <2>4, <2>6, <2>7 DEF JournalInv
  <2> HIDE DEF InMemory
  <2>9. EligibleIsAccountedFor'
    <3> SUFFICES ASSUME NEW r \in journal', r.reason = "none"
                 PROVE  IF r.outcome = "recorded"
                        THEN \/ RowKey(r) \in InMemory' \cup lost'
                             \/ working' # Nobody /\ eligible' /\ RowKey(r) = KeyOf(working')
                        ELSE RowKey(r) \notin InMemory'
      BY DEF EligibleIsAccountedFor, RowKey, KeyOf
    <3>1. CASE r \in journal
      BY <1>1, <1>2, <1>3, <3>1 DEF EligibleIsAccountedFor, RowKey
    <3>2. CASE r = row
      BY <1>1, <2>1, <2>2, <3>2
    <3> QED  BY <2>1, <3>1, <3>2
  <2> QED  BY <2>8, <2>9
<1> QED  BY <1>4, <1>5

(* The end of _on_events: what the queue has no room for is marked. *)
LEMMA FinishRows ==
  ASSUME IInv, JournalInv, EligibleIsAccountedFor, Finish
  PROVE  JournalInv' /\ EligibleIsAccountedFor'
<1>1. eligible' = FALSE /\ UNCHANGED <<mark, receipts, kept, acted>>
  BY DEF Finish
<1>2. CASE /\ UNCHANGED journal
           /\ \/ queue' = queue /\ (~eligible \/ lost' = lost \cup {KeyOf(working)})
              \/ eligible /\ queue' = Append(queue, KeyOf(working)) /\ lost' = lost
  <2>1. JournalInv'
    BY <1>1, <1>2, SameRows
  <2>2. EligibleIsAccountedFor'
    <3> SUFFICES ASSUME NEW r \in journal, r.reason = "none"
                 PROVE  IF r.outcome = "recorded" THEN RowKey(r) \in InMemory' \cup lost'
                        ELSE RowKey(r) \notin InMemory'
      BY <1>2 DEF EligibleIsAccountedFor, RowKey
    <3>1. IF r.outcome = "recorded"
          THEN \/ RowKey(r) \in InMemory \cup lost
               \/ eligible /\ RowKey(r) = KeyOf(working)
          ELSE RowKey(r) \notin InMemory
      BY DEF EligibleIsAccountedFor, RowKey
    <3>2. CASE queue' = queue /\ (~eligible \/ lost' = lost \cup {KeyOf(working)})
      <4>1. InMemory' = InMemory
        BY <1>1, <3>2 DEF InMemory
      <4>2. lost \subseteq lost'
        BY <3>2 DEF Finish
      <4> HIDE DEF InMemory
      <4> QED  BY <3>1, <3>2, <4>1, <4>2
    <3>3. CASE eligible /\ queue' = Append(queue, KeyOf(working)) /\ lost' = lost
      <4>1. queue \in Seq(Key) /\ KeyOf(working) \in Key
        BY <3>3, IngressConstants DEF IInv, StagesAgree, TypeOK, KeyOf, Key, Message
      <4>2. {queue'[i] : i \in 1..Len(queue')}
              = {queue[i] : i \in 1..Len(queue)} \cup {KeyOf(working)}
        <5>1. /\ Len(queue') = Len(queue) + 1 /\ queue'[Len(queue) + 1] = KeyOf(working)
              /\ \A i \in 1..Len(queue) : queue'[i] = queue[i]
              /\ Len(queue) + 1 \in 1..Len(queue')
              /\ \A i \in 1..Len(queue') : i \in 1..Len(queue) \/ i = Len(queue) + 1
              /\ \A i \in 1..Len(queue) : i \in 1..Len(queue')
          BY <3>3, <4>1
        <5> QED  BY <5>1
      <4>3. InMemory' = InMemory \cup {KeyOf(working)}
        BY <1>1, <4>2 DEF InMemory
      <4>4. r.outcome # "recorded" => RowKey(r) # KeyOf(working)
        BY <3>3, NotYetInMemory DEF JournalInv, LiveRow
      <4> HIDE DEF InMemory
      <4> QED  BY <3>1, <3>3, <4>3, <4>4
    <3> QED
      BY <1>2, <3>2, <3>3
  <2> QED  BY <2>1, <2>2
<1>3. CASE eligible /\ journal' = {Dropped(r) : r \in journal} /\ UNCHANGED <<queue, lost>>
  <2>1. /\ \A r \in Row : /\ Dropped(r).reason = r.reason /\ RowKey(Dropped(r)) = RowKey(r)
                          /\ Dropped(r).id = r.id /\ Dropped(r).at = r.at
                          /\ r.id = working.id => Dropped(r).outcome = "dropped"
                          /\ r.id # working.id => Dropped(r).outcome = r.outcome
        /\ journal \subseteq Row
    BY DEF Dropped, Row, RowKey, IInv, TypeOK
  <2> HIDE DEF Dropped
  <2>2. JournalInv'
    <3>1. \A r \in journal' : r.reason = "none" => NotAhead(RowKey(r))
      BY <1>3, <2>1 DEF JournalInv, LiveRow
    <3>2. \A r \in journal' : r.reason = "none" => LiveRow(r)'
      BY <1>1, <3>1 DEF LiveRow, NotAhead, RowKey
    <3>3. JournalFor <= DedupFor =>
            \A r \in journal' : \E c \in receipts' : c.id = r.id /\ c.at = r.at
      BY <1>1, <1>3, <2>1 DEF JournalInv
    <3>4. \A r \in journal' : \E m \in kept' : RowOf(r, m)
      BY <1>1, <1>3, <2>1 DEF JournalInv, RowOf
    <3> QED  BY <3>2, <3>3, <3>4 DEF JournalInv
  <2>3. InMemory' = InMemory
    BY <1>1, <1>3 DEF InMemory
  <2>4. EligibleIsAccountedFor'
    <3> SUFFICES ASSUME NEW q \in journal, q.reason = "none"
                 PROVE  IF Dropped(q).outcome = "recorded" THEN RowKey(q) \in InMemory \cup lost
                        ELSE RowKey(q) \notin InMemory
      <4> HIDE DEF InMemory
      <4>1. \A r \in journal' : \E q \in journal :
              r = Dropped(q) /\ r.reason = q.reason /\ RowKey(r) = RowKey(q)
        BY <1>3, <2>1
      <4>2. \A r \in journal' : r.reason = "none" =>
              IF r.outcome = "recorded" THEN RowKey(r) \in InMemory' \cup lost'
              ELSE RowKey(r) \notin InMemory'
        BY <1>3, <2>3, <4>1
      <4> QED
        BY <4>2 DEF EligibleIsAccountedFor, RowKey
    <3>1. LiveRow(q)
      BY DEF JournalInv
    <3>2. IF q.outcome = "recorded"
          THEN RowKey(q) \in InMemory \cup lost \/ RowKey(q) = KeyOf(working)
          ELSE RowKey(q) \notin InMemory
      BY DEF EligibleIsAccountedFor, RowKey
    <3> HIDE DEF InMemory
    <3>3. CASE q.id = working.id
      BY <1>3, <2>1, <3>1, <3>3, NotYetInMemory DEF LiveRow
    <3>4. CASE q.id # working.id
      BY <1>3, <2>1, <3>1, <3>2, <3>4, NotYetInMemory DEF LiveRow
    <3> QED  BY <3>3, <3>4
  <2> QED  BY <2>2, <2>4
<1> QED
  BY <1>2, <1>3 DEF Finish

(* The other steps write no row. *)
LEMMA RowSteps ==
  ASSUME IdentifiersStayApart, IInv, JournalInv, EligibleIsAccountedFor, [Next]_vars
  PROVE  JournalInv' /\ EligibleIsAccountedFor'
<1>1. CASE \/ CloseSession \/ LinkUp \/ LinkDown \/ StoreFails \/ Tick
           \/ (\E c \in 1..MaxConn : OpenSession(c)) \/ UNCHANGED vars
           \/ (\E m \in Messages : Send(m) \/ RefusedAtTheDoor(m) \/ NotKept(m))
  <2>1. UNCHANGED <<mark, journal, receipts, kept, working, stage, eligible, lost, queue, acted>>
    BY <1>1 DEF CloseSession, LinkUp, LinkDown, StoreFails, Tick, OpenSession, vars, Send,
                RefusedAtTheDoor, NotKept, store, handling
  <2>2. InMemory' = InMemory
    BY <2>1 DEF InMemory
  <2> QED  BY <2>1, <2>2, SameRows, SameAccount DEF handling
<1>2. CASE Settle
  <2>1. UNCHANGED <<mark, journal, receipts, kept, working, eligible, lost, queue, acted>>
    BY <1>2 DEF Settle, store
  <2>2. InMemory' = InMemory
    BY <2>1 DEF InMemory
  <2> HIDE DEF InMemory
  <2> QED  BY <2>1, <2>2, SameRows DEF EligibleIsAccountedFor, KeyOf
<1>3. CASE Dispatch
  <2>1. UNCHANGED <<mark, journal, receipts, kept, working, stage, eligible, lost>>
    BY <1>3 DEF Dispatch, store, handling
  <2>2. /\ queue \in Seq(Key) /\ acted \in Seq(Key) /\ queue # << >>
        /\ queue' = Tail(queue) /\ acted' = Append(acted, Head(queue))
    BY <1>3 DEF Dispatch, IInv, TypeOK
  <2>3. {queue[i] : i \in 1..Len(queue)} = {queue'[i] : i \in 1..Len(queue')} \cup {Head(queue)}
    <3>1. /\ Len(queue') = Len(queue) - 1 /\ Head(queue) = queue[1] /\ 1 \in 1..Len(queue)
          /\ \A i \in 1..Len(queue') : queue'[i] = queue[i + 1] /\ i + 1 \in 1..Len(queue)
          /\ \A i \in 1..Len(queue) : i = 1 \/ (i - 1 \in 1..Len(queue') /\ queue'[i - 1] = queue[i])
      BY <2>2
    <3> QED  BY <3>1
  <2>4. {acted'[i] : i \in 1..Len(acted')} = {acted[i] : i \in 1..Len(acted)} \cup {Head(queue)}
    <3>1. /\ Len(acted') = Len(acted) + 1 /\ acted'[Len(acted) + 1] = Head(queue)
          /\ \A i \in 1..Len(acted) : acted'[i] = acted[i] /\ i \in 1..Len(acted')
          /\ Len(acted) + 1 \in 1..Len(acted')
          /\ \A i \in 1..Len(acted') : i \in 1..Len(acted) \/ i = Len(acted) + 1
      BY <2>2
    <3> QED  BY <3>1
  <2>5. InMemory' = InMemory
    BY <2>3, <2>4, Zenon DEF InMemory
  <2> QED  BY <2>1, <2>5, SameRows, SameAccount DEF handling
<1>4. CASE Crash
  <2>1. eligible' = FALSE /\ UNCHANGED <<mark, journal, receipts, kept, acted>>
    BY <1>4 DEF Crash, store
  <2>2. /\ InMemory' = {acted[i] : i \in 1..Len(acted)}
        /\ InMemory \cup lost \subseteq InMemory' \cup lost'
        /\ eligible => KeyOf(working) \in lost'
    <3>1. {queue'[i] : i \in 1..Len(queue')} = {}
      BY <1>4 DEF Crash
    <3>2. InMemory' = {acted[i] : i \in 1..Len(acted)}
      BY <2>1, <3>1 DEF InMemory
    <3>3. /\ {queue[i] : i \in 1..Len(queue)} \subseteq lost' /\ lost \subseteq lost'
          /\ eligible => KeyOf(working) \in lost'
      BY <1>4 DEF Crash
    <3> QED  BY <3>2, <3>3 DEF InMemory
  <2>3. InMemory' \subseteq InMemory
    BY <2>2 DEF InMemory
  <2> HIDE DEF InMemory
  <2> QED  BY <2>1, <2>2, <2>3, SameRows DEF EligibleIsAccountedFor
<1>5. CASE Tidy
  <2>1. /\ UNCHANGED <<mark, kept, working, stage, eligible, lost, queue, acted>>
        /\ journal' = {r \in journal : r.at >= now - JournalFor}
        /\ receipts' = {r \in receipts : r.at >= now - DedupFor}
    BY <1>5 DEF Tidy, handling
  <2>2. InMemory' = InMemory
    BY <2>1 DEF InMemory
  <2>3. EligibleIsAccountedFor'
    BY <2>1, <2>2, SameAccount DEF handling
  <2>4. ASSUME JournalFor <= DedupFor, NEW r \in journal'
        PROVE  \E c \in receipts' : c.id = r.id /\ c.at = r.at
    <3>1. PICK c \in receipts : c.id = r.id /\ c.at = r.at
      BY <2>1, <2>4 DEF JournalInv
    <3>2. now \in Nat /\ r.at \in Nat /\ r.at >= now - JournalFor
      BY <2>1 DEF IInv, TypeOK, Row
    <3>3. c.at >= now - DedupFor
      BY <2>4, <3>1, <3>2, IngressConstants
    <3> QED  BY <2>1, <3>1, <3>3
  <2>5. \A r \in journal' : r.reason = "none" => LiveRow(r)'
    BY <2>1 DEF JournalInv, LiveRow, NotAhead, RowKey, KeyOf, Before
  <2>6. \A r \in journal' : \E m \in kept' : RowOf(r, m)
    BY <2>1 DEF JournalInv
  <2> QED  BY <2>3, <2>4, <2>5, <2>6 DEF JournalInv
<1> QED
  BY <1>1, <1>2, <1>3, <1>4, <1>5, AdmitRows, FinishRows DEF Next

(* An event the journal calls eligible and does not call dropped is in the *)
(* queue, on its way there or acted on, unless a crash took it or the disk *)
(* failed under the mark; and one it calls dropped was never acted on      *)
(* (the end of _on_events, Store.outcome), as long as identifiers stay     *)
(* apart: outcome marks rows by identifier alone.                          *)
THEOREM JournalAccounts ==
  ASSUME IdentifiersStayApart
  PROVE  Spec => []EligibleIsAccountedFor
<1>1. Init => JournalInv /\ EligibleIsAccountedFor
  BY DEF Init, JournalInv, EligibleIsAccountedFor
<1>2. IInv /\ JournalInv /\ EligibleIsAccountedFor /\ [Next]_vars
        => JournalInv' /\ EligibleIsAccountedFor'
  BY RowSteps
<1> QED
  BY <1>1, <1>2, InitIInv, NextIInv, PTL DEF Spec

==============================================================================
