--------------------------- MODULE TriggersProofs ---------------------------
(***************************************************************************)
(* What the hub hears and sees: the speaker and the rules that listen, for *)
(* any number of push-to-talk sessions, chunks and events; when a rule     *)
(* goes off, for every kind of it and every count and time in it; and the  *)
(* boxes of its detectors, for any worker threads, operations and mishaps. *)
(*                                                                         *)
(* FinishedMeansHeard needs the whole story of a session: only the current *)
(* one has a thread that plays; while nothing went wrong with it, what it  *)
(* sent and has not heard is in the queue; and the end mark is the last    *)
(* thing in the queue, after which nothing is accepted.  DeafToItself      *)
(* needs to know, of a report of the engine's own sound that is still      *)
(* waiting, that the engine is speaking or fell silent too late for it.    *)
(* FiresAreDeserved needs what every field of the rule's state is of the   *)
(* log (Story): the frames in a row behind a count, the event behind an    *)
(* open window, the absence since a firing behind a rule that is not       *)
(* latched, the readings behind a threshold's phase, the last words behind *)
(* what is seen; and that a log loses none of it when all but the newest   *)
(* entries are forgotten after something was done (StoryRecalled).         *)
(* BoxesAreCurrent needs to know that a new beginning of the detector      *)
(* finds nothing left of an older one until its own demand is registered,  *)
(* and whether the caller is in a beginning, from the steps it has left.   *)
(***************************************************************************)
EXTENDS Triggers, Vision, FiniteSetTheorems, TLAPS

Active == {"preroll", "loop", "write", "tail", "ending"}
Places == Active \cup {"unborn", "leaving", "dead"}

Player == [at : Places, sent : Nat, heard : Nat]
Call   == [at : {"no", "join", "check", "late"}, cancel : BOOLEAN]

Fields == {"token", "error", "accepting", "chunks", "sequence", "cancelled"}

TalkTyped ==
  /\ DOMAIN talk = Fields
  /\ talk.token \in 0..MaxSessions /\ talk.chunks \in Seq({"chunk", End})
  /\ player \in [Sessions -> Player] /\ finish \in [Sessions -> Call]
  /\ told \in [Sessions -> {"nothing", "finished", "cancelled"}]

(* Only the current session has a thread that plays. *)
OnePlays ==
  \A s \in Sessions : player[s].at \in Active <=> holder = "talk" /\ s = talk.token

Unborn ==
  \A s \in Sessions : s > talk.token =>
    /\ player[s].at = "unborn" /\ player[s].sent = 0 /\ player[s].heard = 0
    /\ finish[s].at = "no" /\ told[s] = "nothing"

(* The end mark comes last. *)
EndsLast ==
  \A i \in 1..Len(talk.chunks) : talk.chunks[i] = End => i = Len(talk.chunks) /\ ~talk.accepting

GivenUp == talk.cancelled /\ talk.token # 0 => talk.token \in cut

(* Chunks waiting in the queue, without the end mark. *)
Waiting(q) == IF q # <<>> /\ q[Len(q)] = End THEN Len(q) - 1 ELSE Len(q)

(* What a session that nothing went wrong with has sent and not heard.     *)
Behind(p, q) ==
  /\ p.at # "unborn"
  /\ p.at \in {"preroll", "loop"} => p.sent = p.heard + Waiting(q)
  /\ p.at = "write" => p.sent = p.heard + 1 + Waiting(q)
  /\ p.at \in {"tail", "ending", "leaving", "dead"} => p.sent = p.heard

Clear == talk.token # 0 /\ ~talk.error /\ talk.token \notin cut

Counted ==
  Clear => /\ Behind(player[talk.token], talk.chunks)
           /\ player[talk.token].at \in {"tail", "ending", "leaving", "dead"} => ~talk.accepting

Joined == \A s \in Sessions : finish[s].at = "check" => player[s].at = "dead"

Heard ==
  \A s \in Sessions : told[s] = "finished" /\ s \notin cut =>
    /\ player[s].heard = player[s].sent /\ player[s].at = "dead"
    /\ s = talk.token => ~talk.accepting

TalkInv == /\ TalkTyped /\ OnePlays /\ Unborn /\ EndsLast /\ GivenUp /\ Counted
           /\ Joined /\ Heard

LEMMA TalkStart == ASSUME TalkInit PROVE TalkInv
<1>1. MaxSessions \in Nat /\ Sessions = 1..MaxSessions
  BY TalkAssumption DEF Sessions
<1>2. TalkTyped
  BY <1>1 DEF TalkInit, TalkTyped, Fields, Player, Call, Places, Active
<1>3. OnePlays /\ Unborn /\ Joined /\ Heard
  BY <1>1 DEF TalkInit, OnePlays, Unborn, Joined, Heard, Active
<1>4. EndsLast /\ GivenUp /\ Counted
  BY DEF TalkInit, EndsLast, GivenUp, Counted, Clear
<1> QED  BY <1>2, <1>3, <1>4 DEF TalkInv

(* Whoever else plays leaves the sessions as they are. *)
LEMMA OthersPlay ==
  ASSUME TalkInv, UNCHANGED <<talk, player, finish, told, cut>>,
         holder' = "talk" <=> holder = "talk"
  PROVE  TalkInv'
BY DEF TalkInv, TalkTyped, OnePlays, Unborn, EndsLast, GivenUp, Counted, Clear, Behind, Waiting,
       Joined, Heard

(* A thread goes on, having heard so much. *)
LEMMA GoesOn ==
  ASSUME TalkTyped, NEW s \in Sessions, NEW to \in Places, Goes(s, to)
  PROVE  /\ player' \in [Sessions -> Player]
         /\ player'[s].at = to /\ player'[s].sent = player[s].sent
         /\ player'[s].heard = player[s].heard
         /\ \A i \in Sessions \ {s} : player'[i] = player[i]
<1>1. player \in [Sessions -> Player] /\ player[s] \in Player
  BY DEF TalkTyped
<1>2. player' = [player EXCEPT ![s] = [player[s] EXCEPT !.at = to]]
  BY DEF Goes
<1>3. [player[s] EXCEPT !.at = to] \in Player
      /\ [player[s] EXCEPT !.at = to].at = to
      /\ [player[s] EXCEPT !.at = to].sent = player[s].sent
      /\ [player[s] EXCEPT !.at = to].heard = player[s].heard
  BY <1>1 DEF Player
<1> QED  BY <1>1, <1>2, <1>3

(* The steps of a thread that change nothing of the stream: the invariant  *)
(* asks where it is and what it is behind.                                 *)
LEMMA ThreadKeeps ==
  ASSUME TalkInv, NEW s \in Sessions, player' \in [Sessions -> Player],
         \A i \in Sessions \ {s} : player'[i] = player[i],
         player[s].at \in Active, player'[s].at \in Active, holder' = holder,
         talk'.token = talk.token, talk'.accepting = talk.accepting,
         talk'.cancelled = talk.cancelled, DOMAIN talk' = Fields,
         talk'.chunks \in Seq({"chunk", End}),
         UNCHANGED <<finish, told, cut>>, EndsLast', talk'.error \/ ~talk.error,
         Clear' => Counted'
  PROVE  TalkInv'
<1>1. holder = "talk" /\ s = talk.token
  BY DEF TalkInv, OnePlays
<1>2. TalkTyped'
  BY DEF TalkInv, TalkTyped
<1>3. OnePlays'
  BY <1>1 DEF TalkInv, OnePlays
<1>4. Unborn' /\ GivenUp'
  BY <1>1, TalkAssumption DEF TalkInv, Unborn, GivenUp, Sessions
<1>5. Joined' /\ Heard'
  BY DEF TalkInv, Joined, Heard, Active
<1>6. Counted'
  BY DEF Counted
<1> QED  BY <1>2, <1>3, <1>4, <1>5, <1>6 DEF TalkInv

(* What the invariant says of the session that plays. *)
LEMMA Playing1 ==
  ASSUME TalkInv, NEW s \in Sessions, player[s].at \in Active
  PROVE  /\ s = talk.token /\ s # 0 /\ player[s].sent \in Nat /\ player[s].heard \in Nat
         /\ Clear => Behind(player[s], talk.chunks)
         /\ Clear /\ player[s].at \in {"tail", "ending"} => ~talk.accepting
         /\ talk.cancelled => ~Clear
<1>1. s = talk.token /\ player[s] \in Player /\ s # 0
  BY DEF TalkInv, TalkTyped, OnePlays, Sessions
<1> QED  BY <1>1 DEF TalkInv, Counted, GivenUp, Clear, Player

LEMMA MoveKeeps ==
  ASSUME TalkInv, NEW s \in Sessions, NEW to \in Active, player[s].at \in Active, Goes(s, to),
         UNCHANGED <<holder, talk, finish, told, cut>>,
         \/ player[s].at = "preroll" /\ to = "loop"
         \/ player[s].at = "tail" /\ to = "ending"
         \/ talk.cancelled
  PROVE  TalkInv'
<1>1. to \in Places
  BY DEF Places
<1>2. /\ player' \in [Sessions -> Player]
      /\ player'[s].at = to /\ player'[s].sent = player[s].sent
      /\ player'[s].heard = player[s].heard
      /\ \A i \in Sessions \ {s} : player'[i] = player[i]
  BY <1>1, GoesOn DEF TalkInv
<1>3. Clear' => Counted'
  BY <1>2, Playing1 DEF Counted, Clear, Behind
<1> QED  BY <1>2, <1>3, ThreadKeeps DEF TalkInv, TalkTyped, EndsLast

LEMMA WriteKeeps ==
  ASSUME TalkInv, NEW s \in Sessions, Write(s) PROVE TalkInv'
<1> DEFINE p == player[s]
<1>1. p.at = "write" /\ p.at \in Active /\ "loop" \in Active /\ "loop" \in Places
  BY DEF Write, Active, Places
<1>2. player \in [Sessions -> Player] /\ p \in Player
  BY DEF TalkInv, TalkTyped
<1>3. player' = [player EXCEPT ![s] = [at |-> "loop", sent |-> p.sent, heard |-> p.heard + 1]]
  <2> DEFINE r == [at |-> "loop", sent |-> p.sent, heard |-> p.heard]
             v == [player EXCEPT ![s] = r]
  <2>1. p = [at |-> p.at, sent |-> p.sent, heard |-> p.heard]
    BY <1>2 DEF Player
  <2>2. [p EXCEPT !.at = "loop"] = r
    BY <2>1
  <2>3. player' = [v EXCEPT ![s] = [v[s] EXCEPT !.heard = v[s].heard + 1]]
    BY <2>2, Zenon DEF Write
  <2>4. v[s] = r /\ \A x : [v EXCEPT ![s] = x] = [player EXCEPT ![s] = x]
    BY <1>2
  <2>5. [v[s] EXCEPT !.heard = v[s].heard + 1]
          = [at |-> "loop", sent |-> p.sent, heard |-> p.heard + 1]
    BY <2>4
  <2> HIDE DEF v, r
  <2> QED  BY <2>3, <2>4, <2>5, Zenon
<1>4. [at |-> "loop", sent |-> p.sent, heard |-> p.heard + 1] \in Player
  BY <1>1, <1>2 DEF Player
<1>5. /\ player' \in [Sessions -> Player]
      /\ player'[s].at = "loop" /\ player'[s].sent = p.sent /\ player'[s].heard = p.heard + 1
      /\ \A i \in Sessions \ {s} : player'[i] = player[i]
  BY <1>2, <1>3, <1>4
<1>6. UNCHANGED <<holder, talk, finish, told, cut>>
  BY DEF Write
<1>7. Clear' => Counted'
  <2>1. s = talk.token /\ (Clear => Behind(p, talk.chunks)) /\ p.sent \in Nat /\ p.heard \in Nat
    BY <1>1, Playing1
  <2> QED  BY <1>1, <1>5, <1>6, <2>1 DEF Counted, Clear, Behind
<1> QED  BY <1>1, <1>5, <1>6, <1>7, ThreadKeeps DEF TalkInv, TalkTyped, EndsLast

LEMMA BreakKeeps ==
  ASSUME TalkInv, NEW s \in Sessions, Break(s) PROVE TalkInv'
<1>1. player[s].at \in Active /\ "ending" \in Active /\ "ending" \in Places
      /\ Goes(s, "ending") /\ UNCHANGED <<holder, finish, told, cut>>
  BY DEF Break, Active, Places
<1>2. DOMAIN talk = Fields /\ talk.chunks \in Seq({"chunk", End})
  BY DEF TalkInv, TalkTyped
<1>3. /\ DOMAIN talk' = Fields /\ talk'.token = talk.token /\ talk'.chunks = talk.chunks
      /\ talk'.accepting = talk.accepting /\ talk'.cancelled = talk.cancelled
      /\ talk'.error = TRUE
  BY <1>2 DEF Break, Fields
<1>4. /\ player' \in [Sessions -> Player] /\ player'[s].at = "ending"
      /\ \A i \in Sessions \ {s} : player'[i] = player[i]
  BY <1>1, GoesOn DEF TalkInv
<1>5. EndsLast' /\ ~Clear' /\ talk'.error
  BY <1>3 DEF TalkInv, EndsLast, Clear
<1> QED  BY <1>1, <1>2, <1>3, <1>4, <1>5, ThreadKeeps

LEMMA TailOf ==
  ASSUME NEW q \in Seq({"chunk", End}), q # <<>>
  PROVE  /\ Tail(q) \in Seq({"chunk", End}) /\ Len(Tail(q)) = Len(q) - 1 /\ Len(q) \in Nat
         /\ \A i \in 1..Len(Tail(q)) : Tail(q)[i] = q[i + 1]
         /\ Head(q) = q[1] /\ Len(q) >= 1
OBVIOUS

LEMMA WaitingOf ==
  ASSUME NEW q \in Seq({"chunk", End})
  PROVE  /\ Len(q) \in Nat
         /\ Len(q) = 0 => Waiting(q) = 0
         /\ Len(q) > 0 /\ q[Len(q)] = End => Waiting(q) = Len(q) - 1
         /\ Len(q) > 0 /\ q[Len(q)] # End => Waiting(q) = Len(q)
<1>1. Len(q) \in Nat /\ (q = <<>> <=> Len(q) = 0)
  OBVIOUS
<1> QED  BY <1>1 DEF Waiting

LEMMA TakeKeeps ==
  ASSUME TalkInv, NEW s \in Sessions, Take(s) PROVE TalkInv'
<1> DEFINE p == player[s]
           q == talk.chunks
           to == IF Head(q) = End THEN "tail" ELSE "write"
<1>1. p.at = "loop" /\ p.at \in Active /\ to \in Active /\ to \in Places /\ q # <<>>
      /\ Goes(s, to) /\ UNCHANGED <<holder, finish, told, cut>>
  BY DEF Take, Active, Places
<1>2. DOMAIN talk = Fields /\ q \in Seq({"chunk", End})
  BY DEF TalkInv, TalkTyped
<1>3. /\ DOMAIN talk' = Fields /\ talk'.token = talk.token /\ talk'.chunks = Tail(q)
      /\ talk'.accepting = talk.accepting /\ talk'.cancelled = talk.cancelled
      /\ talk'.error = talk.error
  BY <1>2 DEF Take, Fields
<1>4. /\ player' \in [Sessions -> Player] /\ player'[s].at = to
      /\ player'[s].sent = p.sent /\ player'[s].heard = p.heard
      /\ \A i \in Sessions \ {s} : player'[i] = player[i]
  BY <1>1, GoesOn DEF TalkInv
<1> DEFINE t == Tail(q)
<1>5. /\ t \in Seq({"chunk", End}) /\ Len(t) = Len(q) - 1 /\ Len(q) \in Nat
      /\ \A i \in 1..Len(t) : t[i] = q[i + 1]
      /\ Head(q) = q[1] /\ Len(q) >= 1
  BY <1>1, <1>2, TailOf
<1>6. \A i \in 1..Len(q) : q[i] = End => i = Len(q) /\ ~talk.accepting
  BY DEF TalkInv, EndsLast
<1>7. EndsLast'
  BY <1>3, <1>5, <1>6 DEF EndsLast
<1>8. Clear => p.sent = p.heard + Waiting(q) /\ p.sent \in Nat /\ p.heard \in Nat
               /\ s = talk.token
  BY <1>1, Playing1 DEF Behind
<1>9. Clear' => Counted'
  <2>1. CASE Head(q) = End
    <3>0. Len(q) = 1 /\ ~talk.accepting /\ q[Len(q)] = End
      <4>1. 1 \in 1..Len(q) /\ q[1] = End
        BY <1>5, <2>1
      <4>2. 1 = Len(q) /\ ~talk.accepting
        BY <1>6, <4>1, Zenon
      <4> QED  BY <4>1, <4>2, Zenon
    <3>1. Len(q) = 1 /\ Waiting(q) = 0 /\ ~talk.accepting
      <4> HIDE DEF q
      <4> QED  BY <1>2, <3>0, WaitingOf
    <3> QED  BY <1>1, <1>3, <1>4, <1>8, <2>1, <3>1 DEF Counted, Clear, Behind
  <2>2. CASE Head(q) # End
    <3>1. Waiting(q) = 1 + Waiting(t) /\ Waiting(t) \in Nat
      <4>1. Len(t) > 0 => t[Len(t)] = q[Len(q)]
        BY <1>5
      <4>2. q[Len(q)] = End => Len(q) > 1
        BY <1>5, <2>2
      <4> HIDE DEF q, t
      <4> QED  BY <1>2, <1>5, <4>1, <4>2, WaitingOf
    <3> QED  BY <1>1, <1>3, <1>4, <1>8, <2>2, <3>1 DEF Counted, Clear, Behind
  <2> QED  BY <2>1, <2>2
<1> QED  BY <1>1, <1>3, <1>4, <1>5, <1>7, <1>9, ThreadKeeps DEF TalkInv

LEMMA LetGoKeeps ==
  ASSUME TalkInv, NEW s \in Sessions, LetGo(s) PROVE TalkInv'
<1> DEFINE p == player[s]
<1>1. p.at = "ending" /\ p.at \in Active /\ "leaving" \notin Active /\ "leaving" \in Places
      /\ Goes(s, "leaving") /\ holder' = "nobody" /\ UNCHANGED <<finish, told, cut>>
  BY DEF LetGo, Active, Places
<1>2. DOMAIN talk = Fields
  BY DEF TalkInv, TalkTyped
<1>3. /\ DOMAIN talk' = Fields /\ talk'.token = talk.token /\ talk'.chunks = talk.chunks
      /\ talk'.cancelled = talk.cancelled /\ talk'.error = talk.error /\ ~talk'.accepting
  BY <1>2 DEF LetGo, Fields
<1>4. /\ player' \in [Sessions -> Player] /\ player'[s].at = "leaving"
      /\ player'[s].sent = p.sent /\ player'[s].heard = p.heard
      /\ \A i \in Sessions \ {s} : player'[i] = player[i]
  BY <1>1, GoesOn DEF TalkInv
<1>5. s = talk.token /\ s # 0 /\ (Clear => Behind(p, talk.chunks))
  BY <1>1, Playing1
<1>6. TalkTyped'
  BY <1>1, <1>3, <1>4 DEF TalkInv, TalkTyped
<1>7. OnePlays'
  BY <1>1, <1>3, <1>4, <1>5 DEF TalkInv, OnePlays
<1>8. Unborn' /\ GivenUp' /\ EndsLast'
  BY <1>1, <1>3, <1>4, <1>5, TalkAssumption DEF TalkInv, Unborn, GivenUp, EndsLast, Sessions
<1>9. Joined' /\ Heard'
  BY <1>1, <1>3, <1>4 DEF TalkInv, Joined, Heard
<1>10. Counted'
  BY <1>1, <1>3, <1>4, <1>5 DEF Counted, Clear, Behind
<1> QED  BY <1>6, <1>7, <1>8, <1>9, <1>10 DEF TalkInv

LEMMA LeaveKeeps ==
  ASSUME TalkInv, NEW s \in Sessions, Leave(s) PROVE TalkInv'
<1> DEFINE p == player[s]
<1>1. p.at = "leaving" /\ p.at \notin Active /\ "dead" \notin Active /\ "dead" \in Places
      /\ Goes(s, "dead") /\ UNCHANGED <<holder, talk, finish, told, cut>>
  BY DEF Leave, Active, Places
<1>2. /\ player' \in [Sessions -> Player] /\ player'[s].at = "dead"
      /\ player'[s].sent = p.sent /\ player'[s].heard = p.heard
      /\ \A i \in Sessions \ {s} : player'[i] = player[i]
  BY <1>1, GoesOn DEF TalkInv
<1>3. TalkTyped' /\ GivenUp' /\ EndsLast'
  BY <1>1, <1>2 DEF TalkInv, TalkTyped, GivenUp, EndsLast
<1>4. OnePlays'
  BY <1>1, <1>2 DEF TalkInv, OnePlays
<1>5. Unborn' /\ Joined' /\ Heard'
  BY <1>1, <1>2 DEF TalkInv, Unborn, Joined, Heard
<1>6. Clear => talk.token \in Sessions
  BY TalkAssumption DEF TalkInv, TalkTyped, Clear, Sessions
<1>7. Counted'
  <2>1. CASE s = talk.token
    BY <1>1, <1>2, <2>1 DEF TalkInv, Counted, Clear, Behind
  <2>2. CASE s # talk.token
    BY <1>1, <1>2, <1>6, <2>2 DEF TalkInv, Counted, Clear, Behind
  <2> QED  BY <2>1, <2>2
<1> QED  BY <1>3, <1>4, <1>5, <1>7 DEF TalkInv

LEMMA ThreadSteps ==
  ASSUME TalkInv, NEW s \in Sessions, Plays(s) PROVE TalkInv'
<1>1. CASE Preroll(s)
  <2>1. player[s].at = "preroll" /\ Goes(s, "loop")
        /\ UNCHANGED <<holder, talk, finish, told, cut>>
    BY <1>1, Zenon DEF Preroll
  <2>2. "loop" \in Active /\ player[s].at \in Active
    BY <2>1 DEF Active
  <2> QED  BY <2>1, <2>2, MoveKeeps, Zenon
<1>2. CASE Drain(s)
  BY <1>2, MoveKeeps, Zenon DEF Drain, Active
<1>3. CASE Interrupted(s)
  BY <1>3, MoveKeeps, Zenon DEF Interrupted, Active
<1> QED  BY <1>1, <1>2, <1>3, TakeKeeps, WriteKeeps, BreakKeeps, LetGoKeeps, LeaveKeeps DEF Plays

------------------------------------------------------------------------------
(* The requests of the phone.                                              *)

LEMMA StartKeeps ==
  ASSUME TalkInv, NEW s \in Sessions, Start(s) PROVE TalkInv'
<1>1. s = talk.token + 1 /\ holder # "talk" /\ holder' = "talk" /\ Goes(s, "preroll")
      /\ UNCHANGED <<finish, told, cut>>
  BY DEF Start, Goes
<1>2. /\ DOMAIN talk' = Fields /\ talk'.token = s /\ talk'.chunks = <<>>
      /\ ~talk'.cancelled
  BY DEF Start, Fields
<1>3. "preroll" \in Active /\ "preroll" \in Places /\ talk.token \in 0..MaxSessions
      /\ s \in 1..MaxSessions /\ MaxSessions \in Nat
  BY TalkAssumption DEF Active, Places, TalkInv, TalkTyped, Sessions
<1>4. /\ player' \in [Sessions -> Player] /\ player'[s].at = "preroll"
      /\ player'[s].sent = player[s].sent /\ player'[s].heard = player[s].heard
      /\ \A i \in Sessions \ {s} : player'[i] = player[i]
  BY <1>1, <1>3, GoesOn DEF TalkInv
<1>5. player[s].sent = 0 /\ player[s].heard = 0 /\ finish[s].at = "no" /\ told[s] = "nothing"
  BY <1>1, <1>3 DEF TalkInv, Unborn
<1>6. TalkTyped'
  BY <1>1, <1>2, <1>3, <1>4 DEF TalkInv, TalkTyped
<1>7. OnePlays'
  BY <1>1, <1>2, <1>3, <1>4 DEF TalkInv, OnePlays
<1>8. Unborn'
  BY <1>1, <1>2, <1>3, <1>4 DEF TalkInv, Unborn, Sessions
<1>9. GivenUp' /\ EndsLast'
  BY <1>2 DEF GivenUp, EndsLast
<1>10. Joined' /\ Heard'
  BY <1>1, <1>2, <1>3, <1>4, <1>5 DEF TalkInv, Joined, Heard, Sessions
<1>11. Counted'
  BY <1>2, <1>4, <1>5 DEF Counted, Behind, Waiting
<1> QED  BY <1>6, <1>7, <1>8, <1>9, <1>10, <1>11 DEF TalkInv

LEMMA AppendTo ==
  ASSUME NEW q \in Seq({"chunk", End}), NEW x \in {"chunk", End}
  PROVE  /\ Append(q, x) \in Seq({"chunk", End}) /\ Len(Append(q, x)) = Len(q) + 1
         /\ Len(q) \in Nat /\ Append(q, x)[Len(q) + 1] = x
         /\ \A i \in 1..Len(q) : Append(q, x)[i] = q[i]
OBVIOUS

(* What is accepted goes behind all that waits. *)
LEMMA OpenQueue ==
  ASSUME TalkInv, talk.accepting
  PROVE  /\ \A i \in 1..Len(talk.chunks) : talk.chunks[i] # End
         /\ Waiting(talk.chunks) = Len(talk.chunks)
         /\ Waiting(Append(talk.chunks, "chunk")) = Len(talk.chunks) + 1
         /\ Waiting(Append(talk.chunks, End)) = Len(talk.chunks)
<1> DEFINE q == talk.chunks
<1>1. q \in Seq({"chunk", End})
  BY DEF TalkInv, TalkTyped
<1>2. \A i \in 1..Len(q) : q[i] # End
  BY DEF TalkInv, EndsLast
<1> HIDE DEF q
<1>3. Len(q) \in Nat /\ (Len(q) > 0 => Len(q) \in 1..Len(q))
  BY <1>1
<1>4. Waiting(q) = Len(q)
  BY <1>1, <1>2, <1>3, WaitingOf
<1>5. "chunk" # End
  BY DEF End
<1>8. ASSUME NEW x \in {"chunk", End}
      PROVE  Waiting(Append(q, x)) = IF x = End THEN Len(q) ELSE Len(q) + 1
  <2> DEFINE r == Append(q, x)
  <2>1. r \in Seq({"chunk", End}) /\ Len(r) = Len(q) + 1 /\ r[Len(q) + 1] = x
    BY <1>1, AppendTo
  <2> HIDE DEF r
  <2>2. Len(r) > 0 /\ r[Len(r)] = x /\ Len(r) - 1 = Len(q)
    BY <1>3, <2>1
  <2>3. Waiting(r) = IF x = End THEN Len(q) ELSE Len(q) + 1
    BY <2>1, <2>2, WaitingOf
  <2> QED  BY <2>3 DEF r
<1>6. Waiting(Append(q, "chunk")) = Len(q) + 1
  BY <1>5, <1>8
<1>7. Waiting(Append(q, End)) = Len(q)
  BY <1>8
<1> QED  BY <1>2, <1>4, <1>6, <1>7 DEF q

(* A request that leaves the threads alone. *)
LEMMA RequestKeeps ==
  ASSUME TalkInv, UNCHANGED <<holder, player>>, DOMAIN talk' = Fields,
         talk'.token = talk.token, talk'.chunks \in Seq({"chunk", End}), cut \subseteq cut',
         finish' \in [Sessions -> Call],
         told' \in [Sessions -> {"nothing", "finished", "cancelled"}],
         \A s \in Sessions : s > talk.token => finish'[s].at = "no" /\ told'[s] = "nothing",
         EndsLast', GivenUp', Joined', Counted', Heard'
  PROVE  TalkInv'
<1>1. TalkTyped' /\ OnePlays' /\ Unborn'
  BY DEF TalkInv, TalkTyped, OnePlays, Unborn
<1> QED  BY <1>1 DEF TalkInv

(* cancelled.set(), by a full queue, a late join or the end of the server. *)
LEMMA SetCancelled ==
  ASSUME TalkInv, UNCHANGED <<holder, player>>, finish' \in [Sessions -> Call],
         talk' = [talk EXCEPT !.cancelled = TRUE], GiveUp, told' = told,
         \A s \in Sessions : finish'[s].at = finish[s].at \/ (finish'[s].at = "no")
  PROVE  TalkInv'
<1>1. DOMAIN talk = Fields /\ talk.chunks \in Seq({"chunk", End})
      /\ talk.token \in 0..MaxSessions /\ MaxSessions \in Nat
  BY TalkAssumption DEF TalkInv, TalkTyped
<1>2. /\ DOMAIN talk' = Fields /\ talk'.token = talk.token /\ talk'.chunks = talk.chunks
      /\ talk'.accepting = talk.accepting /\ talk'.error = talk.error
  BY <1>1 DEF Fields
<1>3. cut \subseteq cut' /\ (talk.token # 0 => talk.token \in cut')
  BY <1>1 DEF GiveUp, Sessions
<1>4. GivenUp' /\ Counted'
  BY <1>2, <1>3 DEF GivenUp, Counted, Clear
<1>5. EndsLast'
  BY <1>2 DEF TalkInv, EndsLast
<1>6. Joined' /\ Heard'
  BY <1>2, <1>3 DEF TalkInv, Joined, Heard
<1>7. told' \in [Sessions -> {"nothing", "finished", "cancelled"}]
      /\ \A s \in Sessions : s > talk.token => finish'[s].at = "no" /\ told'[s] = "nothing"
  BY DEF TalkInv, TalkTyped, Unborn
<1> QED  BY <1>1, <1>2, <1>3, <1>4, <1>5, <1>6, <1>7, RequestKeeps

LEMMA CloseKeeps == ASSUME TalkInv, Close PROVE TalkInv'
BY SetCancelled DEF Close, TalkInv, TalkTyped

(* A call goes from one place to another. *)
LEMMA CallGoes ==
  ASSUME TalkInv, NEW s \in Sessions, NEW to \in {"no", "check", "late"},
         finish' = [finish EXCEPT ![s].at = to]
  PROVE  /\ finish' \in [Sessions -> Call] /\ finish'[s].at = to
         /\ \A i \in Sessions \ {s} : finish'[i] = finish[i]
<1>1. finish \in [Sessions -> Call] /\ finish[s] \in Call
  BY DEF TalkInv, TalkTyped
<1>2. [finish[s] EXCEPT !.at = to] \in Call /\ [finish[s] EXCEPT !.at = to].at = to
  BY <1>1 DEF Call
<1> QED  BY <1>1, <1>2

LEMMA GiveUpLateKeeps ==
  ASSUME TalkInv, NEW s \in Sessions, GiveUpLate(s) PROVE TalkInv'
<1>1. /\ finish' \in [Sessions -> Call] /\ finish'[s].at = "no"
      /\ \A i \in Sessions \ {s} : finish'[i] = finish[i]
  BY CallGoes DEF GiveUpLate
<1>2. \A i \in Sessions : finish'[i].at = finish[i].at \/ (finish'[i].at = "no")
  BY <1>1
<1> QED  BY <1>1, <1>2, SetCancelled DEF GiveUpLate

LEMMA JoinKeeps ==
  ASSUME TalkInv, NEW s \in Sessions, Join(s) PROVE TalkInv'
<1>1. PICK to \in {"check", "late"} : /\ finish' = [finish EXCEPT ![s].at = to]
                                      /\ to = "check" => player[s].at = "dead"
  BY DEF Join
<1>2. /\ finish' \in [Sessions -> Call] /\ finish'[s].at = to
      /\ \A i \in Sessions \ {s} : finish'[i] = finish[i]
  BY <1>1, CallGoes
<1>3. UNCHANGED <<holder, player, talk, told, cut>> /\ finish[s].at = "join"
  BY DEF Join
<1>4. Joined'
  BY <1>1, <1>2, <1>3 DEF TalkInv, Joined
<1>5. \A i \in Sessions : i > talk.token => finish'[i].at = "no" /\ told'[i] = "nothing"
  BY <1>2, <1>3 DEF TalkInv, Unborn
<1>6. EndsLast' /\ GivenUp' /\ Counted' /\ Heard'
  BY <1>3 DEF TalkInv, EndsLast, GivenUp, Counted, Clear, Behind, Waiting, Heard
<1> QED  BY <1>2, <1>3, <1>4, <1>5, <1>6, RequestKeeps DEF TalkInv, TalkTyped

LEMMA AnswerKeeps ==
  ASSUME TalkInv, NEW s \in Sessions, Answer(s) PROVE TalkInv'
<1>1. /\ finish' \in [Sessions -> Call] /\ finish'[s].at = "no"
      /\ \A i \in Sessions \ {s} : finish'[i] = finish[i]
  BY CallGoes DEF Answer
<1>2. UNCHANGED <<holder, player, talk, cut>> /\ finish[s].at = "check"
  BY DEF Answer
<1>3. player[s].at = "dead" /\ s <= talk.token
  BY <1>2, TalkAssumption DEF TalkInv, Joined, Unborn, TalkTyped, Sessions
<1>4. /\ told' \in [Sessions -> {"nothing", "finished", "cancelled"}]
      /\ \A i \in Sessions \ {s} : told'[i] = told[i]
      /\ told'[s] = "finished" => told[s] = "finished" \/ Checked(s)
  BY DEF Answer, TalkInv, TalkTyped
<1>5. Joined'
  BY <1>1, <1>2 DEF TalkInv, Joined
<1>6. \A i \in Sessions : i > talk.token => finish'[i].at = "no" /\ told'[i] = "nothing"
  BY <1>1, <1>3, <1>4, TalkAssumption DEF TalkInv, Unborn, TalkTyped, Sessions
<1>7. EndsLast' /\ GivenUp' /\ Counted'
  BY <1>2 DEF TalkInv, EndsLast, GivenUp, Counted, Clear, Behind, Waiting
<1>8. Checked(s) /\ s \notin cut =>
        player[s].heard = player[s].sent /\ (s = talk.token => ~talk.accepting)
  BY <1>3 DEF Checked, TalkInv, Counted, Clear, Behind, Sessions
<1>9. Heard'
  BY <1>2, <1>3, <1>4, <1>8 DEF TalkInv, Heard
<1> QED  BY <1>1, <1>2, <1>4, <1>5, <1>6, <1>7, <1>9, RequestKeeps DEF TalkInv, TalkTyped

LEMMA ChunkKeeps ==
  ASSUME TalkInv, NEW s \in Sessions, Chunk(s) PROVE TalkInv'
<1> DEFINE p == player[s]
           q == talk.chunks
<1>1. talk.token = s /\ talk.accepting /\ UNCHANGED <<holder, finish, told>> /\ s # 0
  BY DEF Chunk, Checked, Sessions
<1>2. CASE talk' = [talk EXCEPT !.cancelled = TRUE] /\ GiveUp /\ player' = player
  BY <1>1, <1>2, SetCancelled DEF TalkInv, TalkTyped
<1>3. CASE /\ talk' = [talk EXCEPT !.chunks = Append(@, "chunk"), !.sequence = @ + 1]
           /\ player' = [player EXCEPT ![s].sent = @ + 1] /\ UNCHANGED cut
  <2>1. DOMAIN talk = Fields /\ q \in Seq({"chunk", End}) /\ player \in [Sessions -> Player]
        /\ p \in Player
    BY DEF TalkInv, TalkTyped
  <2>2. /\ DOMAIN talk' = Fields /\ talk'.token = talk.token /\ talk'.chunks = Append(q, "chunk")
        /\ talk'.accepting = talk.accepting /\ talk'.cancelled = talk.cancelled
        /\ talk'.error = talk.error
    BY <1>3, <2>1 DEF Fields
  <2>3. player' = [player EXCEPT ![s] = [p EXCEPT !.sent = p.sent + 1]]
    BY <1>3
  <2>4. [p EXCEPT !.sent = p.sent + 1] \in Player
        /\ [p EXCEPT !.sent = p.sent + 1].at = p.at
        /\ [p EXCEPT !.sent = p.sent + 1].sent = p.sent + 1
        /\ [p EXCEPT !.sent = p.sent + 1].heard = p.heard
    BY <2>1 DEF Player
  <2>5. /\ player' \in [Sessions -> Player] /\ player'[s].at = p.at
        /\ player'[s].sent = p.sent + 1 /\ player'[s].heard = p.heard
        /\ \A i \in Sessions \ {s} : player'[i] = player[i]
    BY <2>1, <2>3, <2>4
  <2>6. TalkTyped'
    BY <1>1, <2>1, <2>2, <2>5 DEF TalkInv, TalkTyped
  <2>7. OnePlays' /\ GivenUp'
    BY <1>1, <1>3, <2>2, <2>5 DEF TalkInv, OnePlays, GivenUp
  <2>8. Unborn' /\ Joined'
    <3>1. talk'.token = s /\ finish' = finish /\ told' = told
      BY <1>1, <2>2
    <3>2. \A i \in Sessions : player'[i].at = player[i].at
      BY <2>5
    <3>3. \A i \in Sessions : i > s => i # s
      BY TalkAssumption DEF Sessions
    <3>4. \A i \in Sessions : i > s => player'[i] = player[i]
      BY <2>5, <3>3
    <3>5. Unborn'
      BY <1>1, <3>1, <3>4 DEF TalkInv, Unborn
    <3>6. Joined'
      BY <3>1, <3>2 DEF TalkInv, Joined
    <3> QED  BY <3>5, <3>6
  <2>9. Heard'
    BY <1>1, <1>3, <2>2, <2>5 DEF TalkInv, Heard
  <2>10. EndsLast'
    <3> DEFINE r == Append(q, "chunk")
    <3>1. \A i \in 1..Len(q) : q[i] # End
      BY <1>1, OpenQueue
    <3>2. Len(r) = Len(q) + 1 /\ Len(q) \in Nat /\ r[Len(q) + 1] = "chunk"
          /\ \A i \in 1..Len(q) : r[i] = q[i]
      BY <2>1, AppendTo
    <3> HIDE DEF r, q
    <3>3. \A i \in 1..Len(r) : r[i] # End
      BY <3>1, <3>2 DEF End
    <3> QED  BY <2>2, <3>3 DEF EndsLast, r, q
  <2>11. Counted'
    <3>1. Waiting(q) = Len(q) /\ Waiting(talk'.chunks) = Len(q) + 1 /\ Len(q) \in Nat
      BY <1>1, <2>1, <2>2, OpenQueue
    <3>2. p.sent \in Nat /\ p.heard \in Nat
      BY <2>1 DEF Player
    <3> HIDE DEF p, q
    <3>3. Clear => Behind(p, q) /\ p.at \notin {"tail", "ending", "leaving", "dead"}
      BY <1>1 DEF TalkInv, Counted, p, q
    <3>4. Clear' => Clear
      BY <1>3, <2>2 DEF Clear
    <3>5. PICK a : a = player'[s]
      OBVIOUS
    <3>6. a.at = p.at /\ a.sent = p.sent + 1 /\ a.heard = p.heard
      BY <2>5, <3>5 DEF p
    <3>7. Clear => Behind(a, talk'.chunks) /\ a.at \notin {"tail", "ending", "leaving", "dead"}
      <4>1. PICK n, m : n = Waiting(q) /\ m = Waiting(talk'.chunks)
        OBVIOUS
      <4> QED  BY <3>1, <3>2, <3>3, <3>6, <4>1 DEF Behind
    <3> QED  BY <1>1, <2>2, <3>4, <3>5, <3>7 DEF Counted
  <2> QED  BY <2>6, <2>7, <2>8, <2>9, <2>10, <2>11 DEF TalkInv
<1> QED  BY <1>2, <1>3 DEF Chunk

LEMMA FinishKeeps ==
  ASSUME TalkInv, NEW s \in Sessions, NEW cancel \in BOOLEAN, Finish(s, cancel) PROVE TalkInv'
<1> DEFINE q == talk.chunks
           full == ~cancel /\ talk.accepting /\ Len(talk.chunks) = Depth
<1>1. talk.token = s /\ s # 0 /\ finish[s].at = "no" /\ UNCHANGED <<holder, player, told>>
  BY DEF Finish, Checked, Sessions
<1>2. /\ talk' = [talk EXCEPT
           !.cancelled = @ \/ cancel \/ full,
           !.accepting = full,
           !.chunks = IF ~cancel /\ talk.accepting /\ ~full THEN Append(@, End) ELSE @]
      /\ IF cancel \/ full THEN GiveUp ELSE UNCHANGED cut
      /\ finish' = IF full THEN finish
                   ELSE [finish EXCEPT ![s] = [at |-> "join", cancel |-> cancel]]
  BY DEF Finish
<1>3. DOMAIN talk = Fields /\ q \in Seq({"chunk", End}) /\ finish \in [Sessions -> Call]
      /\ talk.token \in Sessions
  BY <1>1 DEF TalkInv, TalkTyped
<1>4. /\ DOMAIN talk' = Fields /\ talk'.token = talk.token /\ talk'.error = talk.error
      /\ talk'.accepting = full
      /\ talk'.chunks = IF ~cancel /\ talk.accepting /\ ~full THEN Append(q, End) ELSE q
      /\ talk'.cancelled = (talk.cancelled \/ cancel \/ full)
  BY <1>2, <1>3 DEF Fields
<1>5. finish' \in [Sessions -> Call]
      /\ \A i \in Sessions : finish'[i] = finish[i] \/ (i = s /\ finish'[i].at = "join")
  BY <1>2, <1>3 DEF Call
<1>6. cut \subseteq cut' /\ (cancel \/ full => talk.token \in cut')
      /\ (cut' = cut \/ talk.token \in cut')
  BY <1>2, <1>3 DEF GiveUp
<1>7. Joined' /\ \A i \in Sessions : i > talk.token => finish'[i].at = "no" /\ told'[i] = "nothing"
  BY <1>1, <1>5, TalkAssumption DEF TalkInv, Joined, Unborn, Sessions
<1>8. GivenUp'
  BY <1>4, <1>6 DEF TalkInv, GivenUp
<1>9. Heard'
  BY <1>1, <1>4, <1>6 DEF TalkInv, Heard
<1>10. CASE ~cancel /\ talk.accepting /\ ~full
  <2> DEFINE r == Append(q, End)
  <2>1. \A i \in 1..Len(q) : q[i] # End
    BY <1>10, OpenQueue
  <2>2. Len(r) = Len(q) + 1 /\ Len(q) \in Nat /\ r \in Seq({"chunk", End})
        /\ \A i \in 1..Len(q) : r[i] = q[i]
    BY <1>3, AppendTo
  <2>3. talk'.chunks = r /\ ~talk'.accepting
    BY <1>4, <1>10
  <2>4. Waiting(r) = Waiting(q)
    BY <1>10, OpenQueue
  <2> HIDE DEF r, q, full
  <2>5. \A i \in 1..Len(r) : r[i] = End => i = Len(r)
    BY <2>1, <2>2
  <2>6. EndsLast'
    BY <2>3, <2>5 DEF EndsLast
  <2>7. Clear' => Clear
    BY <1>4, <1>6 DEF Clear
  <2>8. Counted'
    BY <1>1, <1>4, <2>3, <2>4, <2>7 DEF TalkInv, Counted, Behind, q
  <2> QED  BY <1>1, <1>4, <1>5, <1>6, <1>7, <1>8, <1>9, <2>2, <2>3, <2>6, <2>8, RequestKeeps
           DEF TalkInv, TalkTyped
<1>11. CASE ~(~cancel /\ talk.accepting /\ ~full)
  <2>1. talk'.chunks = q /\ (talk'.accepting => talk.accepting)
    BY <1>4, <1>11
  <2>2. EndsLast'
    BY <2>1 DEF TalkInv, EndsLast
  <2>3. Clear' => Clear /\ ~talk'.accepting
    BY <1>4, <1>6 DEF Clear
  <2>4. Counted'
    BY <1>1, <1>4, <2>1, <2>3 DEF TalkInv, Counted, Behind
  <2> QED  BY <1>1, <1>3, <1>4, <1>5, <1>6, <1>7, <1>8, <1>9, <2>1, <2>2, <2>4, RequestKeeps
           DEF TalkInv, TalkTyped
<1> QED  BY <1>10, <1>11

LEMMA TalkKeeps == ASSUME TalkInv, TalkStep PROVE TalkInv'
<1>1. ASSUME NEW s \in Sessions, NEW cancel \in BOOLEAN, Finish(s, cancel) PROVE TalkInv'
  BY <1>1, FinishKeeps
<1>2. ASSUME NEW s \in Sessions,
             Start(s) \/ Chunk(s) \/ Join(s) \/ GiveUpLate(s) \/ Answer(s) \/ Plays(s)
      PROVE  TalkInv'
  BY <1>2, StartKeeps, ChunkKeeps, JoinKeeps, GiveUpLateKeeps, AnswerKeeps, ThreadSteps
<1> QED  BY <1>1, <1>2, CloseKeeps DEF TalkStep

(* The rules' own steps leave the sessions alone, also while the engine or *)
(* a page speaks.                                                          *)
LEMMA RulesSpare ==
  ASSUME TalkInv, [Next]_vars, ~(kind = "none" /\ TalkStep /\ UNCHANGED ruleVars)
  PROVE  TalkInv'
<1> SUFFICES UNCHANGED <<talk, player, finish, told, cut>> /\ (holder' = "talk" <=> holder = "talk")
  BY OthersPlay
<1>1. CASE UNCHANGED talkVars
  BY <1>1 DEF talkVars
<1>2. ASSUME NEW n \in Pieces, Speak(n) \/ WebPlay(n)
      PROVE  UNCHANGED <<talk, player, finish, told, cut>> /\ (holder' = "talk" <=> holder = "talk")
  BY <1>2 DEF Speak, WebPlay
<1>3. ASSUME NEW b, CommandEnds(b)
      PROVE  UNCHANGED <<talk, player, finish, told, cut>> /\ (holder' = "talk" <=> holder = "talk")
  BY <1>3 DEF CommandEnds
<1>4. CASE CommandFails \/ WebLetsGo \/ SpeechEnds
  BY <1>4 DEF CommandFails, WebLetsGo, SpeechEnds
<1>5. CASE Tick \/ Arm \/ Disarm \/ Suspend \/ ObserveEvent \/ Expire \/ SpeechExpires
  <2>1. UNCHANGED talkVars
    BY <1>5 DEF Tick, Arm, Disarm, Suspend, ObserveEvent, Expire, SpeechExpires
  <2> QED  BY <1>1, <2>1
<1>6. ASSUME NEW c, NEW o, Observe(c, o) PROVE UNCHANGED talkVars
  BY <1>6 DEF Observe
<1>7. ASSUME NEW v, NEW f, Receive(v, f) PROVE UNCHANGED talkVars
  BY <1>7 DEF Receive
<1>8. CASE Speaking
  BY <1>3, <1>4, <1>8 DEF Speaking
<1>9. CASE WebStep
  BY <1>2, <1>3, <1>4, <1>9 DEF WebStep
<1>10. CASE UNCHANGED vars
  BY <1>1, <1>10 DEF vars
<1> QED  BY <1>1, <1>2, <1>4, <1>5, <1>6, <1>7, <1>8, <1>9, <1>10 DEF Next

(* Whatever other sessions, late joins, failures and players do, a phone   *)
(* that was told that its transmission is finished was heard to the end,   *)
(* for every number of sessions, of chunks and every depth of the queue.   *)
THEOREM ToldIsHeard == Spec => []FinishedMeansHeard
<1>1. Init => TalkInv
  BY TalkStart DEF Init
<1>2. TalkInv /\ [Next]_vars => TalkInv'
  BY RulesSpare, TalkKeeps
<1>3. TalkInv => FinishedMeansHeard
  BY DEF TalkInv, Heard, FinishedMeansHeard
<1> QED  BY <1>1, <1>2, <1>3, PTL DEF Spec

------------------------------------------------------------------------------
(* Rules that listen.                                                      *)

Report == [value : Readings, from : Named, at : Nat]

(* A report of the engine's own sound is from before the engine fell       *)
(* silent for long enough, or from before it does.                         *)
Echoes ==
  \A i \in 1..Len(inbox) : inbox[i].value = "echo" =>
    inbox[i].at <= now /\ (holder = "engine" \/ inbox[i].at - quietFrom < Echo)

Logged == \E n \in Nat : DOMAIN log = 1..n

EchoInv ==
  /\ kind \in Kinds /\ now \in Nat /\ quietFrom \in Int /\ quietFrom = ended
  /\ inbox \in Seq(Report) /\ Echoes /\ Logged /\ DeafToItself

LEMMA EchoStart == ASSUME Init PROVE EchoInv
<1>1. DOMAIN log = 1..0
  BY DEF Init
<1>2. kind \in Kinds /\ now = 1 /\ inbox = << >> /\ log = << >>
      /\ quietFrom = Never /\ ended = Never
  BY DEF Init
<1>3. Never \in Int
  BY TriggersAssumption DEF Never
<1>4. Len(inbox) = 0 /\ Len(log) = 0 /\ inbox \in Seq(Report)
  BY <1>2
<1>5. Echoes
  BY <1>4 DEF Echoes
<1>6. DeafToItself
  <2>1. 0 \notin Fires
    BY <1>4 DEF Fires
  <2> QED  BY <1>4, <2>1 DEF DeafToItself
<1>7. Logged
  BY <1>1 DEF Logged
<1> QED  BY <1>2, <1>3, <1>4, <1>5, <1>6, <1>7 DEF EchoInv

LEMMA AppendedIs ==
  ASSUME NEW h, NEW n \in Nat, DOMAIN h = 1..n, NEW e
  PROVE  /\ Append(h, e)[Len(Append(h, e))] = e
         /\ DOMAIN Append(h, e) = 1..n + 1
OBVIOUS

(* What is remembered of the log is a sequence again. *)
LEMMA RememberedIs ==
  ASSUME Logged PROVE \E n \in Nat : DOMAIN Remembered = 1..n
<1>1. PICK n \in Nat : DOMAIN log = 1..n
  BY DEF Logged
<1> DEFINE done   == {j \in DOMAIN log : log[j].did # ""}
           newest == {j \in DOMAIN log : \A k \in DOMAIN log : k > j => log[k].from # log[j].from}
           kept   == newest \cup (IF done = {} THEN {} ELSE {Max(done)})
           nth(m) == CHOOSE j \in kept : Cardinality({k \in kept : k <= j}) = m
<1>2. IsFiniteSet(DOMAIN log)
  BY <1>1, FS_Interval
<1>3. IsFiniteSet(newest)
  BY <1>2, FS_Subset
<1>4. IsFiniteSet({}) /\ IsFiniteSet({Max(done)})
  BY FS_EmptySet, FS_Singleton
<1>5. IsFiniteSet(kept)
  BY <1>3, <1>4, FS_Union
<1>6. Cardinality(kept) \in Nat
  BY <1>5, FS_CardinalityType
<1>7. Remembered = IF log = <<>> \/ (kind \in Stretches /\ Len(log) \notin done) THEN log
                   ELSE [m \in 1..Cardinality(kept) |-> log[nth(m)]]
  BY DEF Remembered
<1> HIDE DEF kept, done, nth
<1>8. DOMAIN Remembered = 1..n \/ DOMAIN Remembered = 1..Cardinality(kept)
  BY <1>1, <1>7
<1> QED  BY <1>6, <1>8

(* What is not a firing, or not of the engine's own sound, is logged. *)
LEMMA ApplyIsDeaf ==
  ASSUME EchoInv, NEW e, NEW o, Apply(e, o),
         DOMAIN e = {"what", "value", "from", "at", "age", "did"},
         o.did = "fire" => e.value # "echo"
  PROVE  Logged' /\ DeafToItself'
<1> DEFINE r == [e EXCEPT !.did = o.did, !.age = IF o.did = "fire" THEN now - e.at ELSE 0]
<1>1. log' = Append(Remembered, r)
  BY DEF Apply
<1>2. r.did = o.did /\ r.value = e.value
  OBVIOUS
<1>3. PICK n \in Nat : DOMAIN Remembered = 1..n
  BY RememberedIs DEF EchoInv
<1> HIDE DEF r
<1>4. log'[Len(log')] = r /\ DOMAIN log' = 1..n + 1
  BY <1>1, <1>3, AppendedIs
<1>5. Logged'
  BY <1>4 DEF Logged
<1>6. DeafToItself'
  BY <1>2, <1>4 DEF DeafToItself, Fires
<1> QED  BY <1>5, <1>6

(* The microphone heard the engine, so the event is not one the rule may   *)
(* go off for.                                                             *)
LEMMA EchoesAreIgnored ==
  ASSUME EchoInv, inbox # <<>>, NEW e, e = Head(inbox), e.value = "echo"
  PROVE  EventOutcome(e).did # "fire"
<1>1. e = inbox[1] /\ 1 \in 1..Len(inbox) /\ e \in Report
  BY DEF EchoInv
<1>2. kind = "sound"
  <2>1. e.value \in Readings /\ kind \in Kinds
    BY <1>1 DEF Report, EchoInv
  <2> QED  BY <2>1, TriggersAssumption DEF Readings
<1>3. Playing(e.at)
  BY <1>1 DEF EchoInv, Echoes, Playing
<1>4. EventOutcome(e) = [state |-> rule, did |-> ""]
  BY <1>2, <1>3 DEF EventOutcome, Cooling, Outcome
<1>5. \A x : [state |-> x, did |-> ""].did = ""
  OBVIOUS
<1>6. EventOutcome(e).did = ""
  BY <1>4, <1>5
<1>7. "" # "fire"
  OBVIOUS
<1> QED  BY <1>6, <1>7

(* The steps that neither log, nor receive, nor end the engine's speech.   *)
LEMMA EchoesStay ==
  ASSUME EchoInv, UNCHANGED <<now, inbox, kind, quietFrom, ended, log>>,
         holder = "engine" => holder' = "engine"
  PROVE  EchoInv'
<1>1. Echoes'
  BY DEF EchoInv, Echoes
<1>2. Logged' /\ DeafToItself'
  BY DEF EchoInv, Logged, DeafToItself, Fires
<1>3. Report' = Report
  BY DEF Report, Readings, Named
<1> QED  BY <1>1, <1>2, <1>3 DEF EchoInv

LEMMA ReportsAreDated ==
  ASSUME EchoInv PROVE \A i \in 1..Len(inbox) : inbox[i].at \in Nat
<1>1. inbox \in Seq(Report) /\ Len(inbox) \in Nat
  BY DEF EchoInv
<1>2. \A i \in 1..Len(inbox) : inbox[i] \in Report
  BY <1>1
<1> QED  BY <1>2 DEF Report

LEMMA ReceiveKeeps ==
  ASSUME EchoInv, NEW v \in Readings, NEW f \in Named, Receive(v, f) PROVE EchoInv'
<1>1. /\ inbox' = Append(inbox, [value |-> v, from |-> f, at |-> now])
      /\ UNCHANGED <<holder, now, kind, quietFrom, ended, log>>
      /\ v = "echo" => MayHearTheEngine
  BY DEF Receive, talkVars
<1> DEFINE r == [value |-> v, from |-> f, at |-> now]
<1>2. r \in Report /\ r.value = v /\ r.at = now
  BY DEF Report, EchoInv
<1>3. r.value = "echo" => r.at <= now /\ (holder = "engine" \/ r.at - quietFrom < Echo)
  BY <1>1, <1>2 DEF MayHearTheEngine, EchoInv
<1> HIDE DEF r
<1>4. inbox' = Append(inbox, r)
  BY <1>1 DEF r
<1>5. inbox' \in Seq(Report) /\ Len(inbox') = Len(inbox) + 1 /\ inbox'[Len(inbox) + 1] = r
      /\ \A i \in 1..Len(inbox) : inbox'[i] = inbox[i]
  BY <1>2, <1>4 DEF EchoInv
<1>6. Echoes'
  BY <1>1, <1>3, <1>5 DEF EchoInv, Echoes
<1>7. Logged' /\ DeafToItself'
  BY <1>1 DEF EchoInv, Logged, DeafToItself, Fires
<1>8. Report' = Report
  BY <1>1 DEF Report, Readings, Named
<1> QED  BY <1>1, <1>5, <1>6, <1>7, <1>8 DEF EchoInv

LEMMA ObserveEventKeeps ==
  ASSUME EchoInv, ObserveEvent PROVE EchoInv'
<1>1. inbox # <<>> /\ inbox' = Tail(inbox) /\ UNCHANGED <<holder, now, kind, quietFrom, ended>>
  BY DEF ObserveEvent, talkVars
<1>2. Report' = Report
  BY <1>1 DEF Report, Readings, Named
<1>3. inbox' \in Seq(Report)' /\ Echoes'
  BY <1>1, <1>2 DEF EchoInv, Echoes
<1>4. Logged' /\ DeafToItself'
  <2>1. CASE UNCHANGED log
    BY <2>1, <1>1 DEF EchoInv, Logged, DeafToItself, Fires
  <2>2. PICK e : e = Head(inbox)
    OBVIOUS
  <2>3. CASE Apply(Entry("event", e.value, e.from, e.at), EventOutcome(e))
    <3>1. PICK n : n = Entry("event", e.value, e.from, e.at)
      OBVIOUS
    <3>2. DOMAIN n = {"what", "value", "from", "at", "age", "did"} /\ n.value = e.value
      BY <3>1 DEF Entry
    <3>3. EventOutcome(e).did = "fire" => n.value # "echo"
      BY <1>1, <2>2, <3>2, EchoesAreIgnored
    <3> QED  BY <2>3, <3>1, <3>2, <3>3, ApplyIsDeaf
  <2> QED  BY <2>1, <2>2, <2>3 DEF ObserveEvent
<1> QED  BY <1>1, <1>3, <1>4 DEF EchoInv

LEMMA ObserveKeeps ==
  ASSUME EchoInv, NEW c, NEW o \in BOOLEAN, Observe(c, o) PROVE EchoInv'
<1>1. UNCHANGED <<holder, now, kind, inbox, quietFrom, ended>>
  BY DEF Observe, talkVars
<1>2. CASE UNCHANGED log
  BY <1>1, <1>2, EchoesStay
<1>3. ASSUME NEW out, Apply(Entry("frame", IF o THEN "object" ELSE "empty", 0, c), out)
      PROVE  Logged' /\ DeafToItself'
  <2>1. PICK n : n = Entry("frame", IF o THEN "object" ELSE "empty", 0, c)
    OBVIOUS
  <2>2. DOMAIN n = {"what", "value", "from", "at", "age", "did"} /\ n.value # "echo"
    BY <2>1 DEF Entry
  <2> QED  BY <1>3, <2>1, <2>2, ApplyIsDeaf
<1>4. CASE Logged' /\ DeafToItself'
  <2>1. Echoes' /\ Report' = Report
    BY <1>1 DEF EchoInv, Echoes, Report, Readings, Named
  <2> QED  BY <1>1, <1>4, <2>1 DEF EchoInv
<1> QED  BY <1>2, <1>3, <1>4 DEF Observe

LEMMA EchoKept == EchoInv /\ [Next]_vars => EchoInv'
<1> SUFFICES ASSUME EchoInv, [Next]_vars PROVE EchoInv'
  OBVIOUS
<1>1. CASE Tick
  <2>1. now' = now + 1 /\ UNCHANGED <<holder, inbox, kind, quietFrom, ended, log>>
    BY <1>1 DEF Tick, talkVars
  <2>2. Report' = Report
    BY <2>1 DEF Report, Readings, Named
  <2>4. Echoes /\ now \in Nat
    BY DEF EchoInv
  <2>5. Echoes'
    BY <2>1, <2>4, ReportsAreDated DEF Echoes
  <2>3. Logged' /\ DeafToItself'
    BY <2>1 DEF EchoInv, Logged, DeafToItself, Fires
  <2> QED  BY <2>1, <2>2, <2>3, <2>5 DEF EchoInv
<1>2. CASE Arm \/ Disarm \/ Suspend
  <2>1. log' = <<>> /\ UNCHANGED <<holder, inbox, kind, now, quietFrom, ended>>
    BY <1>2 DEF Arm, Disarm, Suspend, talkVars
  <2>2. Echoes' /\ Report' = Report
    BY <2>1 DEF EchoInv, Echoes, Report, Readings, Named
  <2>3. DOMAIN log' = 1..0
    BY <2>1
  <2>4. Logged' /\ DeafToItself'
    BY <2>1, <2>3 DEF Logged, DeafToItself, Fires
  <2> QED  BY <2>1, <2>2, <2>4 DEF EchoInv
<1>3. ASSUME NEW c, NEW o \in BOOLEAN, Observe(c, o) PROVE EchoInv'
  BY <1>3, ObserveKeeps
<1>4. ASSUME NEW v \in Readings, NEW f \in Named, Receive(v, f) PROVE EchoInv'
  BY <1>4, ReceiveKeeps
<1>5. CASE ObserveEvent
  BY <1>5, ObserveEventKeeps
<1>6. CASE SpeechEnds
  <2>1. quietFrom' = now /\ ended' = now /\ UNCHANGED <<inbox, kind, now, log>>
    BY <1>6 DEF SpeechEnds
  <2>2. Report' = Report
    BY <2>1 DEF Report, Readings, Named
  <2>4. Echoes /\ now \in Nat /\ Echo \in Nat \ {0}
    BY TriggersAssumption DEF EchoInv
  <2>5. Echoes'
    BY <2>1, <2>4, ReportsAreDated DEF Echoes
  <2>3. Logged' /\ DeafToItself'
    BY <2>1 DEF EchoInv, Logged, DeafToItself, Fires
  <2> QED  BY <2>1, <2>2, <2>3, <2>5 DEF EchoInv
<1>7. CASE Expire \/ SpeechExpires \/ UNCHANGED vars
  BY <1>7, EchoesStay DEF Expire, SpeechExpires, vars, ruleVars, talkVars
<1>8. ASSUME NEW n \in Pieces, Speak(n) PROVE EchoInv'
  BY <1>8, EchoesStay DEF Speak
<1>9. CASE Speaking
  BY <1>9, EchoesStay DEF Speaking, CommandEnds, CommandFails, ruleVars
<1>10. CASE WebStep /\ UNCHANGED ruleVars
  <2>1. holder = "engine" => holder' = "engine"
    BY <1>10 DEF WebStep, WebPlay, CommandEnds, CommandFails, WebLetsGo
  <2> QED  BY <1>10, <2>1, EchoesStay DEF ruleVars
<1>11. CASE kind = "none" /\ UNCHANGED ruleVars
  <2>1. UNCHANGED <<kind, now, inbox, quietFrom, ended, log>>
    BY <1>11 DEF ruleVars
  <2>2. inbox \in Seq(Report) /\ \A i \in 1..Len(inbox) : inbox[i].value # "echo"
    BY <1>11 DEF EchoInv, Report, Readings
  <2>3. Echoes' /\ Report' = Report
    BY <2>1, <2>2 DEF Echoes, Report, Readings, Named
  <2>4. Logged' /\ DeafToItself'
    BY <2>1 DEF EchoInv, Logged, DeafToItself, Fires
  <2> QED  BY <2>1, <2>3, <2>4 DEF EchoInv
<1> QED  BY <1>1, <1>2, <1>3, <1>4, <1>5, <1>6, <1>7, <1>8, <1>9, <1>10, <1>11 DEF Next

(* A sound rule never goes off for what the engine played, however late    *)
(* the dispatcher comes to it and whoever holds the speaker by then.       *)
THEOREM OwnSoundIsIgnored == Spec => []DeafToItself
<1>1. Init => EchoInv
  BY EchoStart
<1>2. EchoInv => DeafToItself
  BY DEF EchoInv
<1> QED  BY <1>1, <1>2, EchoKept, PTL DEF Spec

------------------------------------------------------------------------------
(* What the rule's own state is of the log l, k being the kind of the rule, *)
(* a the tick of the arming and top the newest sample taken.                *)

Sources == Observers \cup {0, Min(Observers)}

Words == {"object", "empty", "rise", "fall", "doubt", "past", "mid", "low", "loud", "echo",
          "present", "absent"}

Entries == [what : {"frame", "event"}, value : Words, from : Sources,
            at : Nat, age : Int, did : {"", "fire", "skip"}]

RuleState == [hits : Nat, latched : BOOLEAN, absentSince : Nat, lastTrigger : Int,
              phase : {"unknown", "clear", "pending", "active", "present", "absent"},
              pendingSince : Nat, seen : [Observers -> {"unknown", "present", "absent"}],
              candidate : Nat, openedUntil : Int, suspended : BOOLEAN]

FramesOf(l)           == {j \in 1..Len(l) : l[j].what = "frame"}
FramesFrom(l, s)      == {j \in FramesOf(l) : s <= j}
FramesWithin(l, s, t) == {j \in FramesOf(l) : s <= j /\ j <= t}

(* Neighbours of this set are not further apart than MaxGap. *)
NoGap(l, js) ==
  \A j, i \in js : i < j /\ (\A m \in js : m <= i \/ j <= m) => l[j].at - l[i].at <= MaxGap

(* Frames are logged in the order in which they were taken, once each. *)
InOrderTaken(a, l, top) ==
  /\ \A i, j \in FramesOf(l) : i < j => l[i].at < l[j].at
  /\ \A j \in FramesOf(l) : /\ a < l[j].at /\ l[j].at <= top /\ l[j].from = 0
                            /\ (\A i \in FramesOf(l) : i <= j) => l[j].at = top

(* From s on n frames, all with the object, taken later than c. *)
InARow(l, s, c, n) ==
  /\ \A j \in FramesFrom(l, s) : l[j].value = "object" /\ c < l[j].at
  /\ NoGap(l, FramesFrom(l, s)) /\ Cardinality(FramesFrom(l, s)) = n

(* Nothing was done in the entries from i to j. *)
NothingDone(l, i, j) == \A m \in i..j : l[m].did = ""

(* The event at j may still be confirmed. *)
StillOpen(l, j, c) ==
  /\ l[j].what = "event" /\ l[j].value = "rise" /\ l[j].at = c
  /\ \A i \in j..Len(l) : l[i].what = "event" => l[i].value # "doubt"

Gone(l, s) ==
  /\ \A j \in FramesFrom(l, s) : l[j].value = "empty"
  /\ NoGap(l, FramesFrom(l, s))

Away(l, h) ==
  \E s, t \in FramesOf(l) :
    /\ h < s /\ s <= t /\ l[t].at - l[s].at >= Rearm
    /\ \A j \in FramesWithin(l, s, t) : l[j].value = "empty"
    /\ NoGap(l, FramesWithin(l, s, t))

AwaySinceAll(l) == \A h \in 1..Len(l) - 1 : l[h].did = "fire" => Away(l, h)

Counting(k, l, st) ==
  /\ k = "vision" /\ ~st.latched =>
       st.hits <= Consecutive /\ \E s \in 1..Len(l) + 1 : InARow(l, s, 0, st.hits)
  /\ k = "sequence" /\ st.candidate # 0 =>
       /\ st.hits < Consecutive
       /\ \E j \in 1..Len(l) : /\ StillOpen(l, j, st.candidate) /\ NothingDone(l, j, Len(l))
                               /\ \E s \in j + 1..Len(l) + 1 : InARow(l, s, st.candidate, st.hits)

Leaving(l, st) ==
  /\ st.absentSince # 0 => \E s \in FramesOf(l) : Gone(l, s) /\ l[s].at = st.absentSince
  /\ ~st.latched => \A h \in 1..Len(l) : l[h].did = "fire" => Away(l, h)

(* What is done ends what the rule was in the middle of. *)
Settled(k, l, st) ==
  /\ \A h \in 1..Len(l) : l[h].did # "" => /\ l[h].what = "frame" /\ l[h].value = "object"
                                           /\ k = "vision" => l[h].did = "fire"
  /\ l # <<>> /\ l[Len(l)].did # "" => /\ st.absentSince = 0
                                       /\ k = "sequence" => st.candidate = 0
                                       /\ l[Len(l)].did = "fire" => st.latched

Appearances(k, a, l, st, top) ==
  InOrderTaken(a, l, top) /\ Counting(k, l, st) /\ Leaving(l, st) /\ Settled(k, l, st)

(* Before j the value had come back, and up to n nothing was done since. *)
CameBack(l, j, n) ==
  \/ \E i \in 1..j - 1 : l[i].value = "low" /\ NothingDone(l, i, n)
  \/ /\ NothingDone(l, 1, n)
     /\ \E i \in 1..j - 1 : l[i].value = "mid" /\ \A m \in 1..i - 1 : l[m].value = "doubt"

Values(l, st) ==
  /\ st.phase \in {"unknown", "clear", "pending", "active"}
  /\ \A i \in 1..Len(l) : l[i].value \in {"past", "mid", "low", "doubt"}
  /\ st.phase = "unknown" => \A i \in 1..Len(l) : l[i].value = "doubt" /\ l[i].did = ""
  /\ st.phase = "clear" => CameBack(l, Len(l) + 1, Len(l))
  /\ st.phase = "pending" =>
       \E j \in 1..Len(l) : /\ l[j].at = st.pendingSince /\ CameBack(l, j, Len(l))
                            /\ NothingDone(l, j, Len(l)) /\ \A i \in j..Len(l) : l[i].value = "past"
  /\ l # <<>> /\ l[Len(l)].did # "" => st.phase = "active"

Said(value) == IF value = "doubt" THEN "unknown" ELSE value

(* The last words of every source among the first n entries. *)
LastWords(l, n, seen) ==
  /\ seen \in [Observers -> {"unknown", "present", "absent"}]
  /\ \A o \in Observers : (\A j \in 1..n : l[j].from # o) => seen[o] = "unknown"
  /\ \A j \in 1..n :
       (\A i \in j + 1..n : l[i].from # l[j].from) =>
         l[j].from \in Observers /\ seen[l[j].from] = Said(l[j].value)

Present(l, st) ==
  LastWords(l, Len(l), st.seen) /\ (Observers # {} => st.phase = Combined(st.seen))

Spaced(l, st) == \A h \in 1..Len(l) : l[h].did = "fire" => l[h].at <= st.lastTrigger

Story(k, a, l, st, top) ==
  /\ Spaced(l, st)
  /\ k \in {"vision", "sequence"} => Appearances(k, a, l, st, top)
  /\ k = "threshold" => Values(l, st)
  /\ k \in {"arrives", "leaves"} => Present(l, st)

------------------------------------------------------------------------------
(* Why the newest entry of a log may be a firing.                           *)

Timely(a, l, i) ==
  /\ l[i].at >= a /\ l[i].age <= (IF l[i].what = "frame" THEN MaxGap ELSE Ttl)
  /\ \A h \in 1..i - 1 : l[h].did = "fire" => l[i].at - l[h].at >= Cooldown

Appeared(a, l, i) ==
  /\ l[i].what = "frame" /\ InOrderTaken(a, l, l[i].at)
  /\ \E s \in 1..i + 1 : InARow(l, s, 0, Consecutive)
  /\ AwaySinceAll(l)

InTheWindow(l, i) ==
  \E j \in 1..i - 1 :
    /\ StillOpen(l, j, l[j].at) /\ NothingDone(l, j, i - 1)
    /\ l[i].at > l[j].at /\ l[i].at <= l[j].at + Within
    /\ \E s \in j + 1..i + 1 : InARow(l, s, l[j].at, Consecutive)

LongPast(l, i) ==
  \E j \in 1..i : /\ \A m \in j..i : l[m].value = "past"
                  /\ l[i].at - l[j].at >= Hold /\ CameBack(l, j, i - 1)

Changed(k, l, i) ==
  LET wanted == IF k = "arrives" THEN "present" ELSE "absent"
  IN \E before, after : /\ LastWords(l, i - 1, before) /\ Combined(before) # wanted
                        /\ LastWords(l, i, after) /\ Combined(after) = wanted

Fair(k, a, l) ==
  l # <<>> /\ l[Len(l)].did = "fire" =>
    /\ Timely(a, l, Len(l))
    /\ k \in {"vision", "sequence"} => Appeared(a, l, Len(l))
    /\ k = "sequence" => InTheWindow(l, Len(l))
    /\ k = "sensor" => l[Len(l)].value = "rise"
    /\ k = "threshold" => LongPast(l, Len(l))
    /\ k \in {"arrives", "leaves"} => Changed(k, l, Len(l))

FiresInv ==
  /\ EchoInv
  /\ armed \in BOOLEAN /\ armedAt \in Nat /\ last \in Nat
  /\ rule \in RuleState /\ log \in Seq(Entries)
  /\ Watching => Story(kind, armedAt, log, rule, last)
  /\ ~Watching => log = <<>>
  /\ Fair(kind, armedAt, log)

------------------------------------------------------------------------------
(* Numbers, and the elements of a set of them.                             *)

LEMMA LeastOf ==
  ASSUME NEW S \in SUBSET Nat, S # {}
  PROVE  \E m \in S : \A x \in S : m <= x
<1>1. PICK m \in S : \A x \in S : <<x, m>> \notin OpToRel(<, Nat)
  BY NatLessThanWellFounded, WFMin, Zenon
<1>2. \A x \in S : ~(x < m)
  BY <1>1 DEF OpToRel
<1> QED  BY <1>2

LEMMA MinOf ==
  ASSUME NEW S \in SUBSET Nat, S # {}
  PROVE  Min(S) \in S /\ \A x \in S : Min(S) <= x
BY LeastOf DEF Min

LEMMA MaxOf ==
  ASSUME NEW n \in Nat, NEW S \in SUBSET (0..n), S # {}
  PROVE  Max(S) \in S /\ \A x \in S : x <= Max(S)
<1> DEFINE T == {n - x : x \in S}
<1>1. PICK m \in T : \A y \in T : m <= y
  <2>1. \A x \in S : n - x \in Nat
    OBVIOUS
  <2>2. T \in SUBSET Nat /\ T # {}
    BY <2>1
  <2> QED  BY <2>2, LeastOf
<1>2. PICK s \in S : m = n - s
  OBVIOUS
<1>3. \A x \in S : n - s <= n - x
  BY <1>1, <1>2
<1>4. \A x \in S : x \in 0..n
  OBVIOUS
<1>5. \A x \in S : s >= x
  BY <1>3, <1>4
<1> QED  BY <1>4, <1>5 DEF Max

(* The elements of a set of numbers, counted from below. *)
Rank(S, j) == Cardinality({k \in S : k <= j})
Nth(S, m)  == CHOOSE j \in S : Rank(S, j) = m

LEMMA Ranked ==
  ASSUME NEW n \in Nat, NEW S \in SUBSET (1..n)
  PROVE  /\ IsFiniteSet(S) /\ Cardinality(S) \in Nat
         /\ \A j \in S : Rank(S, j) \in 1..Cardinality(S) /\ Nth(S, Rank(S, j)) = j
         /\ \A m \in 1..Cardinality(S) : Nth(S, m) \in S /\ Rank(S, Nth(S, m)) = m
         /\ \A j, k \in S : j < k => Rank(S, j) < Rank(S, k)
<1> DEFINE Low(j) == {k \in S : k <= j}
<1>1. IsFiniteSet(S) /\ Cardinality(S) \in Nat
  <2>1. IsFiniteSet(1..n)
    BY FS_Interval
  <2> QED  BY <2>1, FS_Subset, FS_CardinalityType
<1>2. ASSUME NEW j \in S PROVE IsFiniteSet(Low(j)) /\ Rank(S, j) \in 1..Cardinality(S)
  <2>1. Low(j) \in SUBSET S /\ Low(j) # {}
    OBVIOUS
  <2>2. IsFiniteSet(Low(j)) /\ Cardinality(Low(j)) <= Cardinality(S)
    BY <1>1, <2>1, FS_Subset
  <2>3. Cardinality(Low(j)) \in Nat /\ Cardinality(Low(j)) # 0
    BY <2>1, <2>2, FS_CardinalityType, FS_EmptySet
  <2> QED  BY <1>1, <2>2, <2>3 DEF Rank
<1>3. ASSUME NEW j \in S, NEW k \in S, j < k PROVE Rank(S, j) < Rank(S, k)
  <2>1. Low(j) \in SUBSET Low(k) /\ Low(j) # Low(k)
    <3>1. k \in Low(k) /\ k \notin Low(j)
      BY <1>3
    <3>2. \A m \in Low(j) : m \in Low(k)
      BY <1>3
    <3> QED  BY <3>1, <3>2
  <2>2. Cardinality(Low(j)) <= Cardinality(Low(k)) /\ Cardinality(Low(j)) # Cardinality(Low(k))
    BY <1>2, <2>1, FS_Subset
  <2> QED  BY <1>2, <2>2 DEF Rank
<1>4. \A j, k \in S : Rank(S, j) = Rank(S, k) => j = k
  <2> SUFFICES ASSUME NEW j \in S, NEW k \in S, Rank(S, j) = Rank(S, k), j # k PROVE FALSE
    OBVIOUS
  <2>1. j < k \/ k < j
    OBVIOUS
  <2>2. Rank(S, j) \in Nat
    <3>1. Rank(S, j) \in 1..Cardinality(S)
      BY <1>2
    <3> QED  BY <1>1, <3>1
  <2>3. Rank(S, j) < Rank(S, k) \/ Rank(S, k) < Rank(S, j)
    BY <1>3, <2>1
  <2> QED  BY <2>2, <2>3
<1>5. \A m \in 1..Cardinality(S) : \E j \in S : Rank(S, j) = m
  <2> DEFINE f == [j \in S |-> Rank(S, j)]
  <2>1. f \in [S -> 1..Cardinality(S)]
    BY <1>2
  <2>2. \A j, k \in S : f[j] = f[k] => j = k
    BY <1>4
  <2>3. f \in Injection(S, 1..Cardinality(S))
    BY <2>1, <2>2 DEF Injection, IsInjective
  <2>4. IsFiniteSet(1..Cardinality(S)) /\ Cardinality(1..Cardinality(S)) = Cardinality(S)
    BY <1>1, FS_Interval
  <2>5. f \in Surjection(S, 1..Cardinality(S))
    BY <2>3, <2>4, FS_Injection
  <2> QED  BY <2>5 DEF Surjection
<1>6. \A m \in 1..Cardinality(S) : Nth(S, m) \in S /\ Rank(S, Nth(S, m)) = m
  BY <1>5 DEF Nth
<1>7. \A j \in S : Nth(S, Rank(S, j)) = j
  <2> SUFFICES ASSUME NEW j \in S PROVE Nth(S, Rank(S, j)) = j
    OBVIOUS
  <2>1. Nth(S, Rank(S, j)) \in S /\ Rank(S, Nth(S, Rank(S, j))) = Rank(S, j)
    BY <1>2, <1>6
  <2> QED  BY <1>4, <2>1
<1> QED  BY <1>1, <1>2, <1>3, <1>6, <1>7

------------------------------------------------------------------------------
(* What is remembered of a log.                                            *)

(* The newest entry of its source. *)
Newest(l, i) == \A j \in i + 1..Len(l) : l[j].from # l[i].from

(* r is a part of l, in the same order, with the newest of every source. *)
Recalled(l, r, f) ==
  /\ f \in [1..Len(r) -> 1..Len(l)]
  /\ \A i, j \in 1..Len(r) : i < j => f[i] < f[j]
  /\ \A i \in 1..Len(r) : r[i] = l[f[i]]
  /\ \A j \in 1..Len(l) : Newest(l, j) => \E i \in 1..Len(r) : f[i] = j

(* Some entries of a log, in their order. *)
LEMMA Picked ==
  ASSUME NEW T, NEW l \in Seq(T), NEW S \in SUBSET (1..Len(l)), NEW r,
         r = [m \in 1..Cardinality(S) |-> l[Nth(S, m)]],
         \A j \in 1..Len(l) : Newest(l, j) => j \in S
  PROVE  /\ r \in Seq(T)
         /\ \E f : Recalled(l, r, f) /\ \A i \in 1..Len(r) : f[i] \in S
<1>0. Len(l) \in Nat /\ (\A i \in 1..Len(l) : l[i] \in T) /\ \A j \in S : j \in Nat
  OBVIOUS
<1>1. /\ Cardinality(S) \in Nat
      /\ \A j \in S : Rank(S, j) \in 1..Cardinality(S) /\ Nth(S, Rank(S, j)) = j
      /\ \A m \in 1..Cardinality(S) : Nth(S, m) \in S /\ Rank(S, Nth(S, m)) = m
      /\ \A j, i \in S : j < i => Rank(S, j) < Rank(S, i)
  BY <1>0, Ranked
<1>2. \A m \in 1..Cardinality(S) : l[Nth(S, m)] \in T
  BY <1>0, <1>1
<1>3. r \in Seq(T) /\ Len(r) = Cardinality(S)
  BY <1>1, <1>2
<1> DEFINE f == [m \in 1..Len(r) |-> Nth(S, m)]
<1>4. f \in [1..Len(r) -> 1..Len(l)] /\ \A i \in 1..Len(r) : f[i] \in S /\ r[i] = l[f[i]]
  BY <1>1, <1>3
<1>5. ASSUME NEW i \in 1..Len(r), NEW j \in 1..Len(r), i < j PROVE f[i] < f[j]
  <2>1. Nth(S, i) \in S /\ Rank(S, Nth(S, i)) = i /\ Nth(S, j) \in S /\ Rank(S, Nth(S, j)) = j
    BY <1>1, <1>3
  <2>2. Nth(S, i) # Nth(S, j) /\ ~(Nth(S, j) < Nth(S, i))
    <3>1. Nth(S, j) < Nth(S, i) => Rank(S, Nth(S, j)) < Rank(S, Nth(S, i))
      BY <1>1, <2>1
    <3> QED  BY <1>5, <2>1, <3>1
  <2>3. Nth(S, i) \in Nat /\ Nth(S, j) \in Nat
    BY <1>0, <2>1
  <2>4. f[i] = Nth(S, i) /\ f[j] = Nth(S, j)
    OBVIOUS
  <2> HIDE DEF f
  <2> QED  BY <2>2, <2>3, <2>4
<1>6. \A j \in S : \E i \in 1..Len(r) : f[i] = j
  BY <1>1, <1>3
<1>7. Recalled(l, r, f)
  BY <1>4, <1>5, <1>6 DEF Recalled
<1> QED  BY <1>3, <1>4, <1>7

(* What is remembered of the log is a part of it. *)
LEMMA RememberedFrom ==
  ASSUME log \in Seq(Entries)
  PROVE  /\ Remembered \in Seq(Entries)
         /\ \/ Remembered = log
            \/ \E f : /\ Recalled(log, Remembered, f)
                      /\ kind \in Stretches => /\ log # <<>> /\ log[Len(log)].did # ""
                                               /\ \A i \in 1..Len(Remembered) : Newest(log, f[i])
<1> DEFINE done   == {j \in DOMAIN log : log[j].did # ""}
           newest == {j \in DOMAIN log : \A k \in DOMAIN log : k > j => log[k].from # log[j].from}
           kept   == newest \cup (IF done = {} THEN {} ELSE {Max(done)})
           nth(m) == CHOOSE j \in kept : Cardinality({k \in kept : k <= j}) = m
<1>1. Remembered = IF log = <<>> \/ (kind \in Stretches /\ Len(log) \notin done) THEN log
                   ELSE [m \in 1..Cardinality(kept) |-> log[nth(m)]]
  BY DEF Remembered
<1>2. CASE log = <<>> \/ (kind \in Stretches /\ Len(log) \notin done)
  BY <1>1, <1>2
<1>3. CASE ~(log = <<>> \/ (kind \in Stretches /\ Len(log) \notin done))
  <2>1. DOMAIN log = 1..Len(log) /\ Len(log) \in Nat
    OBVIOUS
  <2>2. done # {} => Max(done) \in done /\ \A x \in done : x <= Max(done)
    <3>1. done \in SUBSET (0..Len(log))
      <4>1. \A x \in done : x \in 1..Len(log)
        BY <2>1
      <4>2. \A x \in 1..Len(log) : x \in 0..Len(log)
        BY <2>1
      <4> QED  BY <4>1, <4>2
    <3> QED  BY <2>1, <3>1, MaxOf
  <2>3. kept \in SUBSET (1..Len(log))
    BY <2>1, <2>2
  <2>4. \A m : nth(m) = Nth(kept, m)
    BY DEF Nth, Rank
  <2>5. Remembered = [m \in 1..Cardinality(kept) |-> log[Nth(kept, m)]]
    <3>1. Remembered = [m \in 1..Cardinality(kept) |-> log[nth(m)]]
      BY <1>1, <1>3
    <3> HIDE DEF nth, kept
    <3> QED  BY <2>4, <3>1
  <2>6. \A j \in 1..Len(log) : Newest(log, j) <=> j \in newest
    BY <2>1 DEF Newest
  <2>7. \A j \in 1..Len(log) : Newest(log, j) => j \in kept
    BY <2>6
  <2>8. kind \in Stretches => log # <<>> /\ log[Len(log)].did # "" /\ kept \subseteq newest
    <3> SUFFICES ASSUME kind \in Stretches
                 PROVE  log # <<>> /\ log[Len(log)].did # "" /\ kept \subseteq newest
      OBVIOUS
    <3>1. log # <<>> /\ Len(log) \in done
      BY <1>3
    <3>2. Max(done) = Len(log)
      <4>1. \A x \in done : x \in 1..Len(log)
        BY <2>1
      <4> HIDE DEF done
      <4> QED  BY <2>1, <2>2, <3>1, <4>1
    <3>3. Len(log) \in newest
      <4>1. Len(log) \in DOMAIN log
        BY <3>1
      <4>2. \A i \in DOMAIN log : ~(i > Len(log))
        BY <2>1
      <4> QED  BY <4>1, <4>2
    <3> QED  BY <3>1, <3>2, <3>3
  <2> HIDE DEF kept, done, nth
  <2>9. /\ Remembered \in Seq(Entries)
        /\ \E f : Recalled(log, Remembered, f) /\ \A i \in 1..Len(Remembered) : f[i] \in kept
    BY <2>3, <2>5, <2>7, Picked
  <2>10. PICK f : Recalled(log, Remembered, f) /\ \A i \in 1..Len(Remembered) : f[i] \in kept
    BY <2>9
  <2>11. kind \in Stretches => \A i \in 1..Len(Remembered) : Newest(log, f[i])
    BY <2>3, <2>6, <2>8, <2>10
  <2> QED  BY <2>8, <2>9, <2>10, <2>11
<1> QED  BY <1>2, <1>3

------------------------------------------------------------------------------
(* A log and one entry more.                                               *)

(* m is l and one entry more. *)
Grows(l, e, m) ==
  /\ l \in Seq(Entries) /\ m \in Seq(Entries) /\ e \in Entries /\ Len(l) \in Nat
  /\ Len(m) = Len(l) + 1 /\ m[Len(m)] = e /\ \A i \in 1..Len(l) : m[i] = l[i]

LEMMA Grown ==
  ASSUME NEW l \in Seq(Entries), NEW e \in Entries
  PROVE  Grows(l, e, Append(l, e))
<1> DEFINE T == Entries
<1>1. l \in Seq(T) /\ e \in T
  OBVIOUS
<1> HIDE DEF T
<1>2. /\ Append(l, e) \in Seq(T) /\ Len(l) \in Nat /\ Len(Append(l, e)) = Len(l) + 1
      /\ Append(l, e)[Len(l) + 1] = e /\ \A i \in 1..Len(l) : Append(l, e)[i] = l[i]
  BY <1>1
<1> QED  BY <1>1, <1>2 DEF Grows, T

LEMMA FramesGrow ==
  ASSUME NEW l, NEW e, NEW m, Grows(l, e, m)
  PROVE  /\ FramesOf(m) = IF e.what = "frame" THEN FramesOf(l) \cup {Len(m)} ELSE FramesOf(l)
         /\ \A s \in 1..Len(m) :
              FramesFrom(m, s) = IF e.what = "frame" THEN FramesFrom(l, s) \cup {Len(m)}
                                 ELSE FramesFrom(l, s)
         /\ FramesFrom(l, Len(l) + 1) = {}
         /\ \A s : \A t \in 1..Len(l) : FramesWithin(m, s, t) = FramesWithin(l, s, t)
<1>1. Len(l) \in Nat /\ Len(m) = Len(l) + 1 /\ m[Len(m)] = e /\ \A i \in 1..Len(l) : m[i] = l[i]
  BY DEF Grows
<1>2. FramesOf(m) = IF e.what = "frame" THEN FramesOf(l) \cup {Len(m)} ELSE FramesOf(l)
  BY <1>1 DEF FramesOf
<1>3. FramesOf(l) \subseteq 1..Len(l)
  BY DEF FramesOf
<1>4. ASSUME NEW s \in 1..Len(m)
      PROVE  FramesFrom(m, s) = IF e.what = "frame" THEN FramesFrom(l, s) \cup {Len(m)}
                                ELSE FramesFrom(l, s)
  BY <1>1, <1>2 DEF FramesFrom
<1>5. FramesFrom(l, Len(l) + 1) = {}
  BY <1>1, <1>3 DEF FramesFrom
<1>6. ASSUME NEW s, NEW t \in 1..Len(l) PROVE FramesWithin(m, s, t) = FramesWithin(l, s, t)
  <2>1. ~(Len(m) <= t)
    BY <1>1, <1>6
  <2> QED  BY <1>2, <2>1 DEF FramesWithin
<1> QED  BY <1>2, <1>4, <1>5, <1>6

LEMMA FramesAre ==
  ASSUME NEW l \in Seq(Entries), NEW s
  PROVE  /\ FramesOf(l) \subseteq 1..Len(l) /\ FramesFrom(l, s) \subseteq FramesOf(l)
         /\ IsFiniteSet(FramesFrom(l, s)) /\ Cardinality(FramesFrom(l, s)) \in Nat
         /\ \A i \in 1..Len(l) : l[i] \in Entries /\ l[i].at \in Nat
<1>1. FramesOf(l) \subseteq 1..Len(l) /\ FramesFrom(l, s) \subseteq FramesOf(l)
  BY DEF FramesOf, FramesFrom
<1>2. Len(l) \in Nat /\ \A i \in 1..Len(l) : l[i] \in Entries
  OBVIOUS
<1>3. IsFiniteSet(1..Len(l))
  BY <1>2, FS_Interval
<1>4. IsFiniteSet(FramesFrom(l, s))
  BY <1>1, <1>3, FS_Subset
<1> QED  BY <1>1, <1>2, <1>4, FS_CardinalityType DEF Entries

LEMMA SameGaps ==
  ASSUME NEW l, NEW e, NEW m, Grows(l, e, m), NEW js \in SUBSET (1..Len(l)), NoGap(l, js)
  PROVE  NoGap(m, js)
BY DEF Grows, NoGap

(* Frames in a row with the next one. *)
LEMMA GapsGrow ==
  ASSUME NEW l, NEW e, NEW m, Grows(l, e, m), e.what = "frame", NEW a \in Nat, NEW top \in Nat,
         InOrderTaken(a, l, top), top # 0 => e.at - top <= MaxGap,
         NEW s \in 1..Len(m), NoGap(l, FramesFrom(l, s))
  PROVE  NoGap(m, FramesFrom(m, s))
<1>1. /\ Len(l) \in Nat /\ Len(m) = Len(l) + 1 /\ m[Len(m)] = e /\ e.at \in Nat
      /\ \A i \in 1..Len(l) : m[i] = l[i] /\ l[i].at \in Nat
  BY FramesAre DEF Grows, Entries
<1>2. FramesFrom(m, s) = FramesFrom(l, s) \cup {Len(m)}
  BY FramesGrow
<1>3. FramesFrom(l, s) \subseteq FramesOf(l) /\ FramesOf(l) \subseteq 1..Len(l)
  BY DEF FramesFrom, FramesOf
<1> SUFFICES ASSUME NEW j \in FramesFrom(m, s), NEW i \in FramesFrom(m, s), i < j,
                    \A x \in FramesFrom(m, s) : x <= i \/ j <= x
             PROVE  m[j].at - m[i].at <= MaxGap
  BY DEF NoGap
<1>4. i \in FramesFrom(l, s)
  BY <1>1, <1>2, <1>3
<1>5. CASE j \in FramesFrom(l, s)
  <2>1. l[j].at - l[i].at <= MaxGap
    BY <1>2, <1>4, <1>5 DEF NoGap
  <2> QED  BY <1>1, <1>3, <1>4, <1>5, <2>1
<1>6. CASE j = Len(m)
  <2>1. \A x \in FramesFrom(l, s) : x <= i
    BY <1>1, <1>2, <1>3, <1>6
  <2>2. \A x \in FramesOf(l) : x <= i
    <3> SUFFICES ASSUME NEW x \in FramesOf(l) PROVE x <= i
      OBVIOUS
    <3>1. s <= i /\ i \in Nat /\ x \in Nat /\ s \in Nat
      BY <1>3, <1>4 DEF FramesFrom
    <3>2. s <= x => x \in FramesFrom(l, s)
      BY DEF FramesFrom
    <3> QED  BY <2>1, <3>1, <3>2
  <2>3. l[i].at = top /\ a < l[i].at
    BY <1>3, <1>4, <2>2 DEF InOrderTaken
  <2>4. e.at - l[i].at <= MaxGap
    BY <2>3
  <2> QED  BY <1>1, <1>3, <1>4, <1>6, <2>4
<1> QED  BY <1>2, <1>5, <1>6

LEMMA RowGrows ==
  ASSUME NEW l, NEW e, NEW m, Grows(l, e, m), e.what = "frame", e.value = "object",
         NEW a \in Nat, NEW top \in Nat, InOrderTaken(a, l, top), top # 0 => e.at - top <= MaxGap,
         NEW s \in 1..Len(m), NEW c, c < e.at, NEW n \in Nat, InARow(l, s, c, n)
  PROVE  InARow(m, s, c, n + 1)
<1>1. /\ Len(l) \in Nat /\ Len(m) = Len(l) + 1 /\ m[Len(m)] = e /\ l \in Seq(Entries)
      /\ \A i \in 1..Len(l) : m[i] = l[i]
  BY DEF Grows
<1>2. FramesFrom(m, s) = FramesFrom(l, s) \cup {Len(m)}
  BY FramesGrow
<1>3. FramesFrom(l, s) \subseteq 1..Len(l) /\ IsFiniteSet(FramesFrom(l, s))
  BY <1>1, FramesAre
<1>4. NoGap(m, FramesFrom(m, s))
  BY GapsGrow DEF InARow
<1>5. \A j \in FramesFrom(m, s) : m[j].value = "object" /\ c < m[j].at
  BY <1>1, <1>2, <1>3 DEF InARow
<1>6. Cardinality(FramesFrom(m, s)) = n + 1
  <2>1. Len(m) \notin FramesFrom(l, s)
    BY <1>1, <1>3
  <2>2. Cardinality(FramesFrom(l, s)) = n
    BY DEF InARow
  <2> QED  BY <1>2, <1>3, <2>1, <2>2, FS_AddElement
<1> QED  BY <1>4, <1>5, <1>6 DEF InARow

LEMMA RowStays ==
  ASSUME NEW l, NEW e, NEW m, Grows(l, e, m), e.what # "frame",
         NEW s \in 1..Len(m), NEW c, NEW n, InARow(l, s, c, n)
  PROVE  InARow(m, s, c, n)
<1>1. /\ l \in Seq(Entries) /\ \A i \in 1..Len(l) : m[i] = l[i]
  BY DEF Grows
<1>2. FramesFrom(m, s) = FramesFrom(l, s)
  BY FramesGrow
<1>3. FramesFrom(l, s) \in SUBSET (1..Len(l))
  BY <1>1, FramesAre
<1>4. NoGap(m, FramesFrom(m, s))
  BY <1>2, <1>3, SameGaps DEF InARow
<1> QED  BY <1>1, <1>2, <1>3, <1>4 DEF InARow

(* Nothing counted is a row of none. *)
LEMMA NoRow ==
  ASSUME NEW l \in Seq(Entries), NEW c PROVE InARow(l, Len(l) + 1, c, 0)
<1>1. FramesFrom(l, Len(l) + 1) = {}
  BY DEF FramesFrom, FramesOf
<1> QED  BY <1>1, FS_EmptySet DEF InARow, NoGap

LEMMA OrderGrows ==
  ASSUME NEW l, NEW e, NEW m, Grows(l, e, m), NEW a \in Nat, NEW top \in Nat,
         InOrderTaken(a, l, top)
  PROVE  /\ e.what # "frame" => InOrderTaken(a, m, top)
         /\ e.what = "frame" /\ e.from = 0 /\ top < e.at /\ a < e.at => InOrderTaken(a, m, e.at)
<1>1. /\ Len(l) \in Nat /\ Len(m) = Len(l) + 1 /\ m[Len(m)] = e /\ e.at \in Nat
      /\ \A i \in 1..Len(l) : m[i] = l[i] /\ l[i].at \in Nat
  BY FramesAre DEF Grows, Entries
<1>2. FramesOf(m) = IF e.what = "frame" THEN FramesOf(l) \cup {Len(m)} ELSE FramesOf(l)
  BY FramesGrow
<1>3. FramesOf(l) \subseteq 1..Len(l)
  BY DEF FramesOf
<1>4. CASE e.what # "frame"
  BY <1>1, <1>2, <1>3, <1>4 DEF InOrderTaken
<1>5. CASE e.what = "frame" /\ e.from = 0 /\ top < e.at /\ a < e.at
  <2>1. \A j \in FramesOf(l) : m[j] = l[j] /\ j < Len(m) /\ a < l[j].at /\ l[j].at <= top /\ l[j].from = 0
                               /\ l[j].at \in Nat
    BY <1>1, <1>3 DEF InOrderTaken
  <2>2. \A i, j \in FramesOf(m) : i < j => m[i].at < m[j].at
    <3> SUFFICES ASSUME NEW i \in FramesOf(m), NEW j \in FramesOf(m), i < j
                 PROVE  m[i].at < m[j].at
      OBVIOUS
    <3>1. i \in FramesOf(l)
      BY <1>1, <1>2, <1>3, <1>5
    <3>2. CASE j \in FramesOf(l)
      BY <2>1, <3>1, <3>2 DEF InOrderTaken
    <3>3. CASE j = Len(m)
      BY <1>1, <1>5, <2>1, <3>1, <3>3
    <3> QED  BY <1>2, <1>5, <3>2, <3>3
  <2>3. \A j \in FramesOf(m) : a < m[j].at /\ m[j].at <= e.at /\ m[j].from = 0
    BY <1>1, <1>2, <1>5, <2>1
  <2>4. \A j \in FramesOf(m) : (\A i \in FramesOf(m) : i <= j) => m[j].at = e.at
    <3>1. Len(m) \in FramesOf(m) /\ \A j \in FramesOf(l) : ~(Len(m) <= j)
      BY <1>1, <1>2, <1>3, <1>5
    <3> QED  BY <1>1, <1>2, <1>5, <3>1
  <2> QED  BY <1>5, <2>2, <2>3, <2>4 DEF InOrderTaken
<1> QED  BY <1>4, <1>5

LEMMA GoneGrows ==
  ASSUME NEW l, NEW e, NEW m, Grows(l, e, m), NEW a \in Nat, NEW top \in Nat,
         InOrderTaken(a, l, top)
  PROVE  /\ e.what = "frame" /\ e.value = "empty" => Len(m) \in FramesOf(m) /\ Gone(m, Len(m))
         /\ \A s \in FramesOf(l) :
              /\ Gone(l, s)
              /\ e.what = "frame" => e.value = "empty" /\ (top # 0 => e.at - top <= MaxGap)
              => s \in FramesOf(m) /\ Gone(m, s)
<1>1. /\ Len(l) \in Nat /\ Len(m) = Len(l) + 1 /\ m[Len(m)] = e /\ l \in Seq(Entries)
      /\ \A i \in 1..Len(l) : m[i] = l[i]
  BY DEF Grows
<1>2. /\ FramesOf(m) = IF e.what = "frame" THEN FramesOf(l) \cup {Len(m)} ELSE FramesOf(l)
      /\ \A s \in 1..Len(m) :
              FramesFrom(m, s) = IF e.what = "frame" THEN FramesFrom(l, s) \cup {Len(m)}
                                 ELSE FramesFrom(l, s)
      /\ FramesFrom(l, Len(m)) = {}
  BY <1>1, FramesGrow
<1>3. FramesOf(l) \subseteq 1..Len(l) /\ \A s : FramesFrom(l, s) \subseteq 1..Len(l)
  BY DEF FramesOf, FramesFrom
<1>4. ASSUME e.what = "frame", e.value = "empty"
      PROVE  Len(m) \in FramesOf(m) /\ Gone(m, Len(m))
  <2>1. FramesFrom(m, Len(m)) = {Len(m)} /\ Len(m) \in FramesOf(m)
    BY <1>1, <1>2, <1>4
  <2> QED  BY <1>1, <1>4, <2>1 DEF Gone, NoGap
<1>5. ASSUME NEW s \in FramesOf(l), Gone(l, s),
             e.what = "frame" => e.value = "empty" /\ (top # 0 => e.at - top <= MaxGap)
      PROVE  s \in FramesOf(m) /\ Gone(m, s)
  <2>1. s \in FramesOf(m) /\ s \in 1..Len(m)
    BY <1>1, <1>2, <1>3
  <2>2. NoGap(m, FramesFrom(m, s))
    <3>1. CASE e.what = "frame"
      BY <1>5, <2>1, <3>1, GapsGrow DEF Gone
    <3>2. CASE e.what # "frame"
      BY <1>2, <1>3, <1>5, <2>1, <3>2, SameGaps DEF Gone
    <3> QED  BY <3>1, <3>2
  <2>3. \A j \in FramesFrom(m, s) : m[j].value = "empty"
    BY <1>1, <1>2, <1>3, <1>5, <2>1 DEF Gone
  <2> QED  BY <2>1, <2>2, <2>3 DEF Gone
<1> QED  BY <1>4, <1>5

LEMMA AwayGrows ==
  ASSUME NEW l, NEW e, NEW m, Grows(l, e, m), NEW h
  PROVE  /\ Away(l, h) => Away(m, h)
         /\ \A s \in FramesOf(m) :
              Gone(m, s) /\ e.what = "frame" /\ e.at - m[s].at >= Rearm /\ h < s => Away(m, h)
<1>1. /\ Len(l) \in Nat /\ Len(m) = Len(l) + 1 /\ m[Len(m)] = e
      /\ \A i \in 1..Len(l) : m[i] = l[i]
  BY DEF Grows
<1>2. FramesOf(l) \subseteq FramesOf(m) /\ FramesOf(l) \subseteq 1..Len(l)
      /\ FramesOf(m) \subseteq 1..Len(m)
  BY FramesGrow DEF FramesOf
<1>3. ASSUME Away(l, h) PROVE Away(m, h)
  <2>1. PICK s \in FramesOf(l), t \in FramesOf(l) :
          /\ h < s /\ s <= t /\ l[t].at - l[s].at >= Rearm
          /\ \A j \in FramesWithin(l, s, t) : l[j].value = "empty"
          /\ NoGap(l, FramesWithin(l, s, t))
    BY <1>3 DEF Away
  <2>2. FramesWithin(m, s, t) = FramesWithin(l, s, t) /\ FramesWithin(l, s, t) \in SUBSET (1..Len(l))
    BY <1>2, FramesGrow DEF FramesWithin
  <2>3. NoGap(m, FramesWithin(m, s, t))
    BY <2>1, <2>2, SameGaps
  <2>4. \A j \in FramesWithin(m, s, t) : m[j].value = "empty"
    BY <1>1, <2>1, <2>2
  <2>5. m[t] = l[t] /\ m[s] = l[s]
    BY <1>1, <1>2
  <2> QED  BY <1>2, <2>1, <2>3, <2>4, <2>5 DEF Away
<1>4. ASSUME NEW s \in FramesOf(m), Gone(m, s), e.what = "frame", e.at - m[s].at >= Rearm, h < s
      PROVE  Away(m, h)
  <2>1. FramesWithin(m, s, Len(m)) = FramesFrom(m, s)
    BY <1>1, <1>2 DEF FramesWithin, FramesFrom
  <2>2. Len(m) \in FramesOf(m) /\ s <= Len(m)
    BY <1>1, <1>2, <1>4 DEF FramesOf
  <2> QED  BY <1>1, <1>4, <2>1, <2>2 DEF Away, Gone
<1> QED  BY <1>3, <1>4

------------------------------------------------------------------------------
(* What is remembered tells as much.                                       *)

LEMMA RecalledIs ==
  ASSUME NEW l \in Seq(Entries), NEW r \in Seq(Entries), NEW f, Recalled(l, r, f)
  PROVE  /\ Len(l) \in Nat /\ Len(r) \in Nat
         /\ \A i \in 1..Len(r) : f[i] \in 1..Len(l) /\ r[i] = l[f[i]]
         /\ \A i, j \in 1..Len(r) : (i < j => f[i] < f[j]) /\ (f[i] < f[j] => i < j)
         /\ \A i \in FramesOf(r) : i \in 1..Len(r) /\ f[i] \in FramesOf(l)
         /\ r = <<>> => l = <<>>
<1>1. Len(l) \in Nat /\ Len(r) \in Nat
  OBVIOUS
<1>2. \A i \in 1..Len(r) : f[i] \in 1..Len(l) /\ r[i] = l[f[i]]
  BY DEF Recalled
<1>3. \A i, j \in 1..Len(r) : i < j => f[i] < f[j]
  BY DEF Recalled
<1>4. ASSUME NEW i \in 1..Len(r), NEW j \in 1..Len(r), f[i] < f[j] PROVE i < j
  <2>1. f[i] \in Nat /\ f[j] \in Nat
    BY <1>1, <1>2
  <2>2. ~(j < i) /\ i # j
    BY <1>3, <1>4, <2>1
  <2> QED  BY <2>2
<1>5. \A i \in FramesOf(r) : i \in 1..Len(r) /\ f[i] \in FramesOf(l)
  BY <1>2 DEF FramesOf
<1>6. ASSUME l # <<>> PROVE r # <<>>
  <2>1. Len(l) \in 1..Len(l)
    BY <1>1, <1>6
  <2>2. Newest(l, Len(l))
    BY <1>1 DEF Newest
  <2>3. PICK i \in 1..Len(r) : f[i] = Len(l)
    BY <2>1, <2>2 DEF Recalled
  <2> QED  BY <2>3
<1> QED  BY <1>1, <1>2, <1>3, <1>4, <1>5, <1>6

(* Something was done last, and only the newest is remembered. *)
OnlyNewest(l, r, f) ==
  l # <<>> /\ l[Len(l)].did # "" /\ \A i \in 1..Len(r) : Newest(l, f[i])

(* After something was done, of the frames only that one is remembered.   *)
LEMMA AppearancesRecalled ==
  ASSUME NEW l \in Seq(Entries), NEW r \in Seq(Entries), NEW f, Recalled(l, r, f),
         OnlyNewest(l, r, f), NEW k \in {"vision", "sequence"}, NEW a, NEW st, NEW top, Appearances(k, a, l, st, top)
  PROVE  Appearances(k, a, r, st, top)
<1>1. /\ Len(l) \in Nat /\ Len(r) \in Nat
      /\ \A i \in 1..Len(r) : f[i] \in 1..Len(l) /\ r[i] = l[f[i]]
      /\ \A i, j \in 1..Len(r) : (i < j => f[i] < f[j]) /\ (f[i] < f[j] => i < j)
      /\ \A i \in FramesOf(r) : i \in 1..Len(r) /\ f[i] \in FramesOf(l)
  BY RecalledIs
<1>2. InOrderTaken(a, l, top) /\ Counting(k, l, st) /\ Leaving(l, st) /\ Settled(k, l, st)
  BY DEF Appearances
<1>0. l # <<>> /\ l[Len(l)].did # "" /\ \A i \in 1..Len(r) : Newest(l, f[i])
  BY DEF OnlyNewest
<1>3. Len(l) \in 1..Len(l) /\ Len(l) \in FramesOf(l)
  <2>1. Len(l) \in 1..Len(l)
    <3>1. l # <<>>
      BY <1>0
    <3> QED  BY <1>1, <3>1
  <2>2. l[Len(l)].what = "frame"
    BY <1>0, <1>2, <2>1 DEF Settled
  <2> QED  BY <2>1, <2>2 DEF FramesOf
<1>4. \A j \in FramesOf(l) : l[j].from = 0 /\ (Newest(l, j) => j = Len(l))
  <2> SUFFICES ASSUME NEW j \in FramesOf(l)
               PROVE  l[j].from = 0 /\ (Newest(l, j) => j = Len(l))
    OBVIOUS
  <2>1. l[j].from = 0 /\ l[Len(l)].from = 0
    BY <1>2, <1>3 DEF InOrderTaken
  <2>2. j \in 1..Len(l)
    BY DEF FramesOf
  <2>3. j # Len(l) => Len(l) \in j + 1..Len(l)
    BY <1>1, <2>2
  <2> QED  BY <2>1, <2>3 DEF Newest
<1>5. \A j \in FramesOf(r) : f[j] = Len(l)
  BY <1>0, <1>1, <1>4
<1>6. /\ st.absentSince = 0 /\ (k = "sequence" => st.candidate = 0)
      /\ (l[Len(l)].did = "fire" => st.latched) /\ (k = "vision" => l[Len(l)].did = "fire")
  BY <1>0, <1>2, <1>3 DEF Settled
<1>7. InOrderTaken(a, r, top)
  <2>1. \A i, j \in FramesOf(r) : i < j => r[i].at < r[j].at
    BY <1>1, <1>2 DEF InOrderTaken
  <2>2. l[Len(l)].at = top
    <3>1. \A i \in FramesOf(l) : i <= Len(l)
      BY <1>1 DEF FramesOf
    <3> QED  BY <1>2, <1>3, <3>1 DEF InOrderTaken
  <2>3. \A j \in FramesOf(r) : a < r[j].at /\ r[j].at <= top /\ r[j].from = 0 /\ r[j].at = top
    BY <1>1, <1>2, <1>5, <2>2 DEF InOrderTaken
  <2> QED  BY <2>1, <2>3 DEF InOrderTaken
<1>8. \A h \in 1..Len(r) : r[h].did # "" => r[h].what = "frame" /\ r[h] = l[Len(l)]
  <2> SUFFICES ASSUME NEW h \in 1..Len(r), r[h].did # ""
               PROVE  r[h].what = "frame" /\ r[h] = l[Len(l)]
    OBVIOUS
  <2>1. r[h].what = "frame"
    <3>1. f[h] \in 1..Len(l) /\ r[h] = l[f[h]]
      BY <1>1
    <3>2. \A i \in 1..Len(l) : l[i].did # "" => l[i].what = "frame"
      BY <1>2 DEF Settled
    <3> QED  BY <3>1, <3>2
  <2>2. h \in FramesOf(r)
    BY <2>1 DEF FramesOf
  <2> QED  BY <1>1, <1>5, <2>1, <2>2
<1>9. Counting(k, r, st)
  BY <1>6 DEF Counting
<1>10. Leaving(r, st)
  BY <1>6, <1>8 DEF Leaving
<1>11. Settled(k, r, st)
  <2>1. r # <<>> => Len(r) \in 1..Len(r)
    BY <1>1
  <2>2. l[Len(l)].did # "" => /\ l[Len(l)].value = "object"
                              /\ k = "vision" => l[Len(l)].did = "fire"
    BY <1>2, <1>3 DEF Settled
  <2>3. \A h \in 1..Len(r) : r[h].did # "" => /\ r[h].what = "frame" /\ r[h].value = "object"
                                              /\ k = "vision" => r[h].did = "fire"
    BY <1>8, <2>2
  <2>4. r # <<>> /\ r[Len(r)].did # "" => r[Len(r)] = l[Len(l)]
    BY <1>8, <2>1
  <2>5. r # <<>> /\ r[Len(r)].did # "" => /\ st.absentSince = 0
                                          /\ k = "sequence" => st.candidate = 0
                                          /\ r[Len(r)].did = "fire" => st.latched
    BY <1>6, <2>4
  <2> QED  BY <2>3, <2>5 DEF Settled
<1> QED  BY <1>7, <1>9, <1>10, <1>11 DEF Appearances

LEMMA ValuesRecalled ==
  ASSUME NEW l \in Seq(Entries), NEW r \in Seq(Entries), NEW f, Recalled(l, r, f),
         l # <<>>, l[Len(l)].did # "", NEW st, Values(l, st)
  PROVE  Values(r, st)
<1>1. \A i \in 1..Len(r) : f[i] \in 1..Len(l) /\ r[i] = l[f[i]]
  BY RecalledIs
<1>2. st.phase = "active" /\ \A i \in 1..Len(l) : l[i].value \in {"past", "mid", "low", "doubt"}
  BY DEF Values
<1> QED  BY <1>1, <1>2 DEF Values

(* What every source said last is remembered. *)
LEMMA PresentRecalled ==
  ASSUME NEW l \in Seq(Entries), NEW r \in Seq(Entries), NEW f, Recalled(l, r, f),
         NEW st, Present(l, st)
  PROVE  Present(r, st)
<1>1. /\ Len(l) \in Nat /\ Len(r) \in Nat
      /\ \A i \in 1..Len(r) : f[i] \in 1..Len(l) /\ r[i] = l[f[i]]
      /\ \A i, j \in 1..Len(r) : (i < j => f[i] < f[j]) /\ (f[i] < f[j] => i < j)
  BY RecalledIs
<1>2. LastWords(l, Len(l), st.seen) /\ (Observers # {} => st.phase = Combined(st.seen))
  BY DEF Present
<1>3. ASSUME NEW j \in 1..Len(l)
      PROVE  \E n \in 1..Len(r) : /\ j <= f[n] /\ r[n].from = l[j].from
                                  /\ \A i \in f[n] + 1..Len(l) : l[i].from # l[f[n]].from
  <2> DEFINE S == {i \in 1..Len(l) : l[i].from = l[j].from}
  <2>1. S \in SUBSET (0..Len(l)) /\ j \in S
    <3>1. \A i \in S : i \in 0..Len(l)
      BY <1>1
    <3> QED  BY <3>1
  <2>2. Max(S) \in S /\ \A i \in S : i <= Max(S)
    BY <1>1, <2>1, MaxOf
  <2>3. PICK x \in S : \A i \in S : i <= x
    BY <2>2
  <2>4. x \in 1..Len(l) /\ l[x].from = l[j].from /\ j <= x
    BY <2>1, <2>3
  <2>5. \A i \in x + 1..Len(l) : l[i].from # l[x].from
    <3> SUFFICES ASSUME NEW i \in x + 1..Len(l), l[i].from = l[x].from PROVE FALSE
      OBVIOUS
    <3>1. i \in 1..Len(l) /\ ~(i <= x)
      BY <1>1, <2>4
    <3> QED  BY <2>3, <2>4, <3>1
  <2>6. PICK n \in 1..Len(r) : f[n] = x
    BY <2>4, <2>5 DEF Recalled, Newest
  <2> QED  BY <1>1, <2>4, <2>5, <2>6
<1>4. ASSUME NEW o \in Observers, \A j \in 1..Len(r) : r[j].from # o PROVE st.seen[o] = "unknown"
  <2>1. \A j \in 1..Len(l) : l[j].from # o
    BY <1>3, <1>4
  <2> QED  BY <1>2, <2>1 DEF LastWords
<1>5. ASSUME NEW j \in 1..Len(r), \A i \in j + 1..Len(r) : r[i].from # r[j].from
      PROVE  r[j].from \in Observers /\ st.seen[r[j].from] = Said(r[j].value)
  <2>1. f[j] \in 1..Len(l) /\ r[j] = l[f[j]]
    BY <1>1
  <2>2. PICK n \in 1..Len(r) : /\ f[j] <= f[n] /\ r[n].from = l[f[j]].from
                               /\ \A i \in f[n] + 1..Len(l) : l[i].from # l[f[n]].from
    BY <1>3, <2>1
  <2>3. ~(n \in j + 1..Len(r))
    BY <1>5, <2>1, <2>2
  <2>4. ~(f[j] < f[n])
    BY <1>1, <2>3
  <2>5. f[j] = f[n]
    BY <1>1, <2>1, <2>2, <2>4
  <2>6. \A i \in f[j] + 1..Len(l) : l[i].from # l[f[j]].from
    BY <2>2, <2>5
  <2> QED  BY <1>2, <2>1, <2>6 DEF LastWords
<1>6. LastWords(r, Len(r), st.seen)
  BY <1>2, <1>4, <1>5 DEF LastWords
<1> QED  BY <1>2, <1>6 DEF Present

LEMMA StoryRecalled ==
  ASSUME log \in Seq(Entries), NEW a, NEW st, NEW top, Story(kind, a, log, st, top)
  PROVE  Remembered \in Seq(Entries) /\ Story(kind, a, Remembered, st, top)
<1>1. Remembered \in Seq(Entries)
  BY RememberedFrom
<1>2. CASE Remembered = log
  BY <1>2
<1>3. ASSUME NEW f, Recalled(log, Remembered, f),
             kind \in Stretches => /\ log # <<>> /\ log[Len(log)].did # ""
                                   /\ \A i \in 1..Len(Remembered) : Newest(log, f[i])
      PROVE  Story(kind, a, Remembered, st, top)
  <2>1. \A i \in 1..Len(Remembered) : f[i] \in 1..Len(log) /\ Remembered[i] = log[f[i]]
    BY <1>1, <1>3, RecalledIs
  <2>2. Spaced(Remembered, st)
    BY <2>1 DEF Story, Spaced
  <2>3. kind \in {"vision", "sequence"} => Appearances(kind, a, Remembered, st, top)
    <3> SUFFICES ASSUME kind \in {"vision", "sequence"}
                 PROVE  Appearances(kind, a, Remembered, st, top)
      OBVIOUS
    <3>1. OnlyNewest(log, Remembered, f)
      BY <1>3 DEF OnlyNewest, Stretches
    <3>2. Appearances(kind, a, log, st, top)
      BY DEF Story
    <3> QED  BY <1>1, <1>3, <3>1, <3>2, AppearancesRecalled
  <2>4. kind = "threshold" => Values(Remembered, st)
    BY <1>1, <1>3, ValuesRecalled DEF Story, Stretches
  <2>5. kind \in {"arrives", "leaves"} => Present(Remembered, st)
    BY <1>1, <1>3, PresentRecalled DEF Story
  <2> QED  BY <2>2, <2>3, <2>4, <2>5 DEF Story
<1> QED  BY <1>1, <1>2, <1>3, RememberedFrom

------------------------------------------------------------------------------
(* Rows and absences go on.                                                *)

(* The next frame follows the ones before it, or nothing was counted.      *)
Follows(e, top, n) == n = 0 \/ (top # 0 => e.at - top <= MaxGap)

LEMMA RowGoesOn ==
  ASSUME NEW l, NEW e, NEW m, Grows(l, e, m), e.what = "frame", e.value = "object",
         NEW a \in Nat, NEW top \in Nat, InOrderTaken(a, l, top),
         NEW s \in 1..Len(l) + 1, NEW c, c < e.at, NEW n \in Nat, InARow(l, s, c, n),
         Follows(e, top, n)
  PROVE  \E t \in s..Len(m) : InARow(m, t, c, n + 1)
<1>1. /\ Len(l) \in Nat /\ Len(m) = Len(l) + 1 /\ m[Len(m)] = e
  BY DEF Grows
<1>2. CASE top # 0 => e.at - top <= MaxGap
  <2>1. InARow(m, s, c, n + 1)
    BY <1>1, <1>2, RowGrows
  <2> QED  BY <1>1, <2>1
<1>3. CASE n = 0
  <2>1. FramesFrom(m, Len(m)) = {Len(m)}
    BY <1>1, FramesGrow
  <2>2. Cardinality({Len(m)}) = 1
    BY FS_Singleton
  <2>3. NoGap(m, {Len(m)})
    BY <1>1 DEF NoGap
  <2>4. InARow(m, Len(m), c, 1)
    BY <1>1, <2>1, <2>2, <2>3 DEF InARow
  <2> QED  BY <1>1, <1>3, <2>4
<1> QED  BY <1>2, <1>3 DEF Follows

(* Of a row all but the first are a row. *)
LEMMA RowShrinks ==
  ASSUME NEW l \in Seq(Entries), NEW s \in 1..Len(l) + 1, NEW c, NEW n \in Nat,
         InARow(l, s, c, n + 1)
  PROVE  \E t \in s..Len(l) + 1 : InARow(l, t, c, n)
<1>1. /\ Len(l) \in Nat /\ FramesFrom(l, s) \subseteq 1..Len(l)
      /\ IsFiniteSet(FramesFrom(l, s)) /\ Cardinality(FramesFrom(l, s)) = n + 1
  BY FramesAre DEF InARow
<1>2. FramesFrom(l, s) # {}
  BY <1>1, FS_EmptySet
<1>3. PICK i \in FramesFrom(l, s) : \A j \in FramesFrom(l, s) : i <= j
  <2>1. FramesFrom(l, s) \in SUBSET Nat
    BY <1>1
  <2> QED  BY <1>2, <2>1, LeastOf
<1>4. i \in 1..Len(l) /\ s <= i
  BY <1>1 DEF FramesFrom
<1>5. FramesFrom(l, i + 1) = FramesFrom(l, s) \ {i}
  <2>1. \A j \in FramesOf(l) : j \in Nat
    BY <1>1 DEF FramesOf
  <2>2. \A j \in FramesFrom(l, s) : i <= j
    BY <1>3
  <2>3. \A j \in FramesOf(l) : i + 1 <= j <=> s <= j /\ j # i
    <3> SUFFICES ASSUME NEW j \in FramesOf(l) PROVE i + 1 <= j <=> s <= j /\ j # i
      OBVIOUS
    <3>1. s <= j => i <= j
      BY <2>2 DEF FramesFrom
    <3>2. j \in Nat /\ i \in Nat /\ s \in Nat
      BY <1>1, <1>4, <2>1
    <3> QED  BY <1>4, <3>1, <3>2
  <2> QED  BY <2>3 DEF FramesFrom
<1>6. Cardinality(FramesFrom(l, i + 1)) = n
  <2>1. Cardinality(FramesFrom(l, s) \ {i}) = Cardinality(FramesFrom(l, s)) - 1
    BY <1>1, <1>3, FS_RemoveElement
  <2>2. Cardinality(FramesFrom(l, i + 1)) = Cardinality(FramesFrom(l, s)) - 1
    BY <1>5, <2>1, Zenon
  <2> QED  BY <1>1, <2>2
<1>7. NoGap(l, FramesFrom(l, i + 1))
  <2> SUFFICES ASSUME NEW j \in FramesFrom(l, i + 1), NEW k \in FramesFrom(l, i + 1), k < j,
                      \A x \in FramesFrom(l, i + 1) : x <= k \/ j <= x
               PROVE  l[j].at - l[k].at <= MaxGap
    BY DEF NoGap
  <2>1. \A x \in FramesFrom(l, s) : x <= k \/ j <= x
    BY <1>3, <1>5
  <2> QED  BY <1>5, <2>1 DEF InARow, NoGap
<1>8. InARow(l, i + 1, c, n)
  BY <1>5, <1>6, <1>7 DEF InARow
<1> QED  BY <1>1, <1>4, <1>8

LEMMA LeavingStays ==
  ASSUME NEW l, NEW e, NEW m, Grows(l, e, m), NEW a \in Nat, NEW top \in Nat,
         InOrderTaken(a, l, top), NEW st, NEW next, Leaving(l, st),
         next.absentSince = 0 \/ (e.what # "frame" /\ next.absentSince = st.absentSince),
         st.latched => next.latched, e.did = "fire" => next.latched
  PROVE  Leaving(m, next)
<1>1. /\ Len(l) \in Nat /\ Len(m) = Len(l) + 1 /\ m[Len(m)] = e
      /\ \A i \in 1..Len(l) : m[i] = l[i]
  BY DEF Grows
<1>2. ASSUME next.absentSince # 0
      PROVE  \E s \in FramesOf(m) : Gone(m, s) /\ m[s].at = next.absentSince
  <2>1. e.what # "frame" /\ next.absentSince = st.absentSince
    BY <1>2
  <2>2. PICK s \in FramesOf(l) : Gone(l, s) /\ l[s].at = st.absentSince
    BY <1>2, <2>1 DEF Leaving
  <2>3. s \in FramesOf(m) /\ Gone(m, s)
    BY <2>1, <2>2, GoneGrows
  <2>4. m[s] = l[s]
    BY <1>1 DEF FramesOf
  <2> QED  BY <2>1, <2>2, <2>3, <2>4
<1>3. ASSUME ~next.latched, NEW h \in 1..Len(m), m[h].did = "fire" PROVE Away(m, h)
  <2>1. h \in 1..Len(l) /\ m[h] = l[h]
    BY <1>1, <1>3
  <2>2. Away(l, h)
    BY <1>3, <2>1 DEF Leaving
  <2> QED  BY <2>2, AwayGrows
<1> QED  BY <1>2, <1>3 DEF Leaving

EmptyFrame(e) == e.what = "frame" /\ e.value = "empty" /\ e.did = ""

(* The absence starts or goes on. *)
LEMMA LeavingGoesOn ==
  ASSUME NEW l, NEW e, NEW m, Grows(l, e, m), NEW a \in Nat, NEW top \in Nat,
         InOrderTaken(a, l, top), EmptyFrame(e),
         NEW k, NEW st \in RuleState, Leaving(l, st), Settled(k, l, st),
         Follows(e, top, st.absentSince)
  PROVE  Leaving(m, Absent(st, e.at))
<1>1. /\ Len(l) \in Nat /\ Len(m) = Len(l) + 1 /\ m[Len(m)] = e /\ e.at \in Nat
      /\ \A i \in 1..Len(l) : m[i] = l[i]
  BY DEF Grows, Entries
<1> DEFINE next  == Absent(st, e.at)
           since == IF st.absentSince = 0 THEN e.at ELSE st.absentSince
<1>2. /\ next.absentSince = since
      /\ next.latched = (st.latched /\ e.at - since < Rearm)
  BY DEF Absent, RuleState
<1> HIDE DEF next, since
<1>3. PICK s \in FramesOf(m) : Gone(m, s) /\ m[s].at = since
  <2>1. CASE st.absentSince = 0
    <3>1. Len(m) \in FramesOf(m) /\ Gone(m, Len(m))
      BY GoneGrows DEF EmptyFrame
    <3> QED  BY <1>1, <2>1, <3>1 DEF since
  <2>2. CASE st.absentSince # 0
    <3>1. PICK s \in FramesOf(l) : Gone(l, s) /\ l[s].at = st.absentSince
      BY <2>2 DEF Leaving
    <3>2. s \in FramesOf(m) /\ Gone(m, s)
      BY <2>2, <3>1, GoneGrows DEF Follows, EmptyFrame
    <3>3. m[s] = l[s]
      BY <1>1 DEF FramesOf
    <3> QED  BY <2>2, <3>1, <3>2, <3>3 DEF since
  <2> QED  BY <2>1, <2>2
<1>4. ASSUME ~next.latched, NEW h \in 1..Len(m), m[h].did = "fire" PROVE Away(m, h)
  <2>0. m[Len(m)].did # "fire"
    BY <1>1 DEF EmptyFrame
  <2>1. h \in 1..Len(l) /\ m[h] = l[h]
    BY <1>1, <1>4, <2>0
  <2>2. CASE ~st.latched
    <3>1. Away(l, h)
      BY <1>4, <2>1, <2>2 DEF Leaving
    <3> QED  BY <3>1, AwayGrows
  <2>3. CASE st.latched
    <3>1. ~(e.at - since < Rearm)
      BY <1>2, <1>4, <2>3
    <3>2. since \in Nat /\ Rearm \in Nat
      BY <1>1, TriggersAssumption DEF RuleState, since
    <3>3. e.at - m[s].at >= Rearm
      <4>1. e.at - since >= Rearm
        BY <1>1, <3>1, <3>2
      <4> QED  BY <1>3, <4>1, Zenon
    <3>4. m[h].what = "frame" /\ m[h].value # "empty"
      BY <1>4, <2>1 DEF Settled
    <3>5. h \notin FramesFrom(m, s)
      BY <1>3, <3>4 DEF Gone
    <3>6. ~(s <= h)
      BY <1>1, <2>1, <3>4, <3>5 DEF FramesFrom, FramesOf
    <3>7. h < s
      <4>1. s \in Nat
        BY <1>1 DEF FramesOf
      <4> QED  BY <1>1, <2>1, <3>6, <4>1
    <3> QED  BY <1>3, <3>3, <3>7, AwayGrows DEF EmptyFrame
  <2> QED  BY <2>2, <2>3
<1>5. Leaving(m, next)
  BY <1>2, <1>3, <1>4 DEF Leaving
<1> QED  BY <1>5 DEF next

LEMMA SpacedGrows ==
  ASSUME NEW l, NEW e, NEW m, Grows(l, e, m), NEW st \in RuleState, NEW next, Spaced(l, st),
         next.lastTrigger = IF e.did = "fire" THEN e.at ELSE st.lastTrigger,
         e.did = "fire" => Cooled(st, e.at)
  PROVE  /\ Spaced(m, next)
         /\ e.did = "fire" => \A h \in 1..Len(l) : m[h].did = "fire" => e.at - m[h].at >= Cooldown
<1>1. /\ Len(l) \in Nat /\ Len(m) = Len(l) + 1 /\ m[Len(m)] = e /\ e.at \in Nat
      /\ \A i \in 1..Len(l) : m[i] = l[i] /\ l[i].at \in Nat
  BY FramesAre DEF Grows, Entries
<1>2. st.lastTrigger \in Int /\ Cooldown \in Nat
  BY TriggersAssumption DEF RuleState
<1>3. \A h \in 1..Len(l) : l[h].did = "fire" => l[h].at <= st.lastTrigger
  BY DEF Spaced
<1>4. e.did = "fire" => e.at - st.lastTrigger >= Cooldown
  BY DEF Cooled
<1>5. ASSUME e.did = "fire", NEW h \in 1..Len(l), m[h].did = "fire"
      PROVE  e.at - m[h].at >= Cooldown /\ m[h].at <= e.at
  <2>1. m[h].at <= st.lastTrigger /\ m[h].at \in Nat
    BY <1>1, <1>3, <1>5
  <2> QED  BY <1>1, <1>2, <1>4, <1>5, <2>1
<1>6. ASSUME NEW h \in 1..Len(m), m[h].did = "fire" PROVE m[h].at <= next.lastTrigger
  <2>1. CASE h = Len(m)
    BY <1>1, <1>6, <2>1
  <2>2. CASE h # Len(m) /\ e.did = "fire"
    BY <1>1, <1>5, <1>6, <2>2
  <2>3. CASE h # Len(m) /\ e.did # "fire"
    BY <1>1, <1>3, <1>6, <2>3
  <2> QED  BY <2>1, <2>2, <2>3
<1> QED  BY <1>5, <1>6 DEF Spaced

------------------------------------------------------------------------------
(* The next frame.                                                         *)

LEMMA MinOfTwo ==
  ASSUME NEW i \in Nat, NEW j \in Nat
  PROVE  Min({i, j}) = IF i <= j THEN i ELSE j
<1>1. Min({i, j}) \in {i, j} /\ \A x \in {i, j} : Min({i, j}) <= x
  BY MinOf
<1> QED  BY <1>1

(* The next frame of a camera rule in the state st. *)
NextFrame(k, a, l, e, m, st, top) ==
  /\ Grows(l, e, m) /\ e.what = "frame" /\ e.from = 0 /\ e.value \in {"object", "empty"}
  /\ a \in Nat /\ top \in Nat /\ a < e.at /\ top < e.at
  /\ Appearances(k, a, l, st, top) /\ Spaced(l, st) /\ st \in RuleState
  /\ Follows(e, top, st.hits) /\ Follows(e, top, st.absentSince)

Spread(m) ==
  \A h \in 1..Len(m) - 1 : m[h].did = "fire" => m[Len(m)].at - m[h].at >= Cooldown

Justified(k, a, m) ==
  m[Len(m)].did = "fire" =>
    Appeared(a, m, Len(m)) /\ Spread(m) /\ (k = "sequence" => InTheWindow(m, Len(m)))

FrameTaken(k, a, m, next, top) ==
  /\ next \in RuleState /\ Appearances(k, a, m, next, top) /\ Spaced(m, next)
  /\ Justified(k, a, m)

LEMMA NextFrameIs ==
  ASSUME NEW k, NEW a, NEW l, NEW e, NEW m, NEW st, NEW top, NextFrame(k, a, l, e, m, st, top)
  PROVE  /\ Len(l) \in Nat /\ Len(m) = Len(l) + 1 /\ m[Len(m)] = e /\ e.at \in Nat
         /\ l \in Seq(Entries) /\ m \in Seq(Entries) /\ \A i \in 1..Len(l) : m[i] = l[i]
         /\ InOrderTaken(a, m, e.at)
<1>1. /\ Len(l) \in Nat /\ Len(m) = Len(l) + 1 /\ m[Len(m)] = e /\ e.at \in Nat
      /\ l \in Seq(Entries) /\ m \in Seq(Entries) /\ \A i \in 1..Len(l) : m[i] = l[i]
  BY DEF NextFrame, Grows, Entries
<1>2. InOrderTaken(a, m, e.at)
  BY OrderGrows DEF NextFrame, Appearances
<1> QED  BY <1>1, <1>2

(* What weakens the state of a camera rule without a new entry. *)
LEMMA Weakened ==
  ASSUME NEW k, NEW a, NEW l \in Seq(Entries), NEW st, NEW top, Appearances(k, a, l, st, top),
         NEW next, next.latched = st.latched, next.absentSince \in {0, st.absentSince},
         \/ next.hits = st.hits /\ next.candidate = st.candidate
         \/ next.hits = 0 /\ (next.candidate = 0 \/ k = "vision")
  PROVE  Appearances(k, a, l, next, top)
<1>1. InOrderTaken(a, l, top) /\ Counting(k, l, st) /\ Leaving(l, st) /\ Settled(k, l, st)
  BY DEF Appearances
<1>2. Leaving(l, next)
  BY <1>1 DEF Leaving
<1>3. Counting(k, l, next)
  <2>1. CASE next.hits = st.hits /\ next.candidate = st.candidate
    BY <1>1, <2>1 DEF Counting
  <2>2. CASE next.hits = 0 /\ (next.candidate = 0 \/ k = "vision")
    <3>1. InARow(l, Len(l) + 1, 0, 0) /\ Len(l) + 1 \in 1..Len(l) + 1
      BY NoRow
    <3>2. 0 <= Consecutive
      BY TriggersAssumption
    <3> QED  BY <2>2, <3>1, <3>2 DEF Counting
  <2> QED  BY <2>1, <2>2
<1>4. Settled(k, l, next)
  BY <1>1 DEF Settled
<1> QED  BY <1>1, <1>2, <1>3, <1>4 DEF Appearances

Settling(k, e, next) ==
  e.did # "" => /\ e.what = "frame" /\ e.value = "object"
                /\ k = "vision" => e.did = "fire"
                /\ next.absentSince = 0 /\ (k = "sequence" => next.candidate = 0)
                /\ e.did = "fire" => next.latched

LEMMA SettledGrows ==
  ASSUME NEW k, NEW l, NEW e, NEW m, Grows(l, e, m), NEW st, Settled(k, l, st), NEW next,
         Settling(k, e, next)
  PROVE  Settled(k, m, next)
<1>1. /\ Len(l) \in Nat /\ Len(m) = Len(l) + 1 /\ m[Len(m)] = e
      /\ \A i \in 1..Len(l) : m[i] = l[i]
  BY DEF Grows
<1>2. \A h \in 1..Len(m) : h \in 1..Len(l) \/ h = Len(m)
  BY <1>1
<1>3. \A h \in 1..Len(m) : m[h].did # "" => /\ m[h].what = "frame" /\ m[h].value = "object"
                                            /\ k = "vision" => m[h].did = "fire"
  BY <1>1, <1>2 DEF Settled, Settling
<1> QED  BY <1>1, <1>3 DEF Settled, Settling

(* Away since every firing, whatever comes. *)
LEMMA AwayStays ==
  ASSUME NEW l, NEW e, NEW m, Grows(l, e, m), NEW st, Leaving(l, st), ~st.latched
  PROVE  AwaySinceAll(m)
<1>1. /\ Len(l) \in Nat /\ Len(m) = Len(l) + 1 /\ \A i \in 1..Len(l) : m[i] = l[i]
  BY DEF Grows
<1>2. ASSUME NEW h \in 1..Len(m) - 1, m[h].did = "fire" PROVE Away(m, h)
  <2>1. h \in 1..Len(l) /\ l[h].did = "fire"
    BY <1>1, <1>2
  <2> QED  BY <2>1, AwayGrows DEF Leaving
<1> QED  BY <1>2 DEF AwaySinceAll

(* The count of a vision rule stops at Consecutive. *)
LEMMA VisionCounts ==
  ASSUME NEW a, NEW l, NEW e, NEW m, NEW st, NEW top, NextFrame("vision", a, l, e, m, st, top),
         e.value = "object", ~st.latched
  PROVE  \E s \in 1..Len(m) + 1 : InARow(m, s, 0, Min({Consecutive, st.hits + 1}))
<1>1. /\ Len(l) \in Nat /\ Len(m) = Len(l) + 1 /\ m \in Seq(Entries) /\ e.at \in Nat
  BY NextFrameIs
<1>2. /\ Grows(l, e, m) /\ e.what = "frame" /\ a \in Nat /\ top \in Nat /\ InOrderTaken(a, l, top)
      /\ st.hits \in Nat /\ Follows(e, top, st.hits) /\ a < e.at
  BY DEF NextFrame, Appearances, RuleState
<1>3. PICK s \in 1..Len(l) + 1 : InARow(l, s, 0, st.hits) /\ st.hits <= Consecutive
  BY DEF NextFrame, Appearances, Counting
<1>4. 0 < e.at
  BY <1>1, <1>2
<1>5. PICK t \in s..Len(m) : InARow(m, t, 0, st.hits + 1)
  BY <1>2, <1>3, <1>4, RowGoesOn
<1>6. t \in 1..Len(m) + 1
  BY <1>1, <1>3
<1>7. Consecutive \in Nat
  BY TriggersAssumption
<1>8. CASE st.hits + 1 <= Consecutive
  <2>1. Min({Consecutive, st.hits + 1}) = st.hits + 1
    BY <1>2, <1>7, <1>8, MinOfTwo
  <2> QED  BY <1>5, <1>6, <2>1
<1>9. CASE ~(st.hits + 1 <= Consecutive)
  <2>1. Min({Consecutive, st.hits + 1}) = Consecutive /\ st.hits = Consecutive
    BY <1>2, <1>3, <1>7, <1>9, MinOfTwo
  <2>2. PICK u \in t..Len(m) + 1 : InARow(m, u, 0, Consecutive)
    BY <1>1, <1>5, <1>6, <1>7, <2>1, RowShrinks
  <2>3. u \in 1..Len(m) + 1
    BY <1>1, <1>6
  <2> QED  BY <2>1, <2>2, <2>3
<1> QED  BY <1>8, <1>9

------------------------------------------------------------------------------
(* Samples through a vision rule.                                          *)

LEMMA OutcomeOf ==
  ASSUME NEW st, NEW did PROVE Outcome(st, did).state = st /\ Outcome(st, did).did = did
BY DEF Outcome

LEMMA OutcomeIs ==
  ASSUME NEW o, NEW st, NEW did, o = Outcome(st, did) PROVE o.state = st /\ o.did = did
BY DEF Outcome

Idle(e) == e.did = ""

(* Nothing is done. *)
LEMMA FrameOnly ==
  ASSUME NEW k, NEW a, NEW l, NEW e, NEW m, NEW st, NEW top, NextFrame(k, a, l, e, m, st, top),
         Idle(e), NEW next \in RuleState, next.lastTrigger = st.lastTrigger,
         Counting(k, m, next), Leaving(m, next)
  PROVE  FrameTaken(k, a, m, next, e.at)
<1>1. m[Len(m)] = e /\ InOrderTaken(a, m, e.at)
  BY NextFrameIs
<1>2. e.did # "fire" /\ e.did = ""
  BY DEF Idle
<1>3. Grows(l, e, m) /\ st \in RuleState /\ Spaced(l, st) /\ Settled(k, l, st)
  BY DEF NextFrame, Appearances
<1>4. Spaced(m, next)
  BY <1>2, <1>3, SpacedGrows
<1>5. Settled(k, m, next)
  <2>1. Settling(k, e, next)
    BY <1>2 DEF Settling
  <2> QED  BY <1>3, <2>1, SettledGrows
<1>6. Justified(k, a, m)
  <2>1. m[Len(m)].did # "fire"
    BY <1>1, <1>2, Zenon
  <2> QED  BY <2>1 DEF Justified
<1> QED  BY <1>1, <1>6, <1>4, <1>5 DEF FrameTaken, Appearances

(* An empty frame ends what was being counted, and the absence goes on.    *)
LEMMA EmptyStep ==
  ASSUME NEW k, NEW a, NEW l, NEW e, NEW m, NEW st, NEW top, NextFrame(k, a, l, e, m, st, top),
         EmptyFrame(e), Counting(k, m, Absent(st, e.at))
  PROVE  FrameTaken(k, a, m, Absent(st, e.at), e.at)
<1>1. e.at \in Nat
  BY NextFrameIs
<1>2. /\ Grows(l, e, m) /\ a \in Nat /\ top \in Nat /\ InOrderTaken(a, l, top) /\ st \in RuleState
      /\ Leaving(l, st) /\ Settled(k, l, st) /\ Follows(e, top, st.absentSince)
  BY DEF NextFrame, Appearances
<1>3. Leaving(m, Absent(st, e.at))
  BY <1>2, LeavingGoesOn
<1>4. Absent(st, e.at) \in RuleState /\ Absent(st, e.at).lastTrigger = st.lastTrigger
  BY <1>1, <1>2 DEF Absent, RuleState
<1>5. Idle(e)
  BY DEF EmptyFrame, Idle
<1> QED  BY <1>3, <1>4, <1>5, FrameOnly

(* A frame with the object ends the absence. *)
LEMMA ObjectStep ==
  ASSUME NEW k, NEW a, NEW l, NEW e, NEW m, NEW st, NEW top, NextFrame(k, a, l, e, m, st, top),
         Idle(e), NEW next \in RuleState, next.lastTrigger = st.lastTrigger,
         next.absentSince = 0, next.latched = st.latched, Counting(k, m, next)
  PROVE  FrameTaken(k, a, m, next, e.at)
<1>1. /\ Grows(l, e, m) /\ a \in Nat /\ top \in Nat /\ InOrderTaken(a, l, top) /\ Leaving(l, st)
  BY DEF NextFrame, Appearances
<1>2. e.did # "fire"
  BY DEF Idle
<1>3. Leaving(m, next)
  BY <1>1, <1>2, LeavingStays
<1> QED  BY <1>3, FrameOnly

(* The row is complete: the rule goes off, or is cooling down.             *)
LEMMA RowStep ==
  ASSUME NEW k, NEW a, NEW l, NEW e, NEW m, NEW st, NEW top, NextFrame(k, a, l, e, m, st, top),
         e.value = "object", ~st.latched, NEW next \in RuleState, next.absentSince = 0,
         k = "sequence" => next.candidate = 0, k = "vision" => e.did = "fire",
         \/ e.did = "fire" /\ next.latched /\ next.lastTrigger = e.at /\ Cooled(st, e.at)
         \/ e.did = "skip" /\ ~next.latched /\ next.lastTrigger = st.lastTrigger,
         \E s \in 1..Len(m) + 1 : InARow(m, s, 0, Consecutive),
         k = "sequence" => InTheWindow(m, Len(m))
  PROVE  FrameTaken(k, a, m, next, e.at)
<1>1. /\ Len(l) \in Nat /\ Len(m) = Len(l) + 1 /\ m[Len(m)] = e /\ InOrderTaken(a, m, e.at)
  BY NextFrameIs
<1>2. /\ Grows(l, e, m) /\ a \in Nat /\ top \in Nat /\ InOrderTaken(a, l, top) /\ Leaving(l, st)
      /\ st \in RuleState /\ Spaced(l, st) /\ Settled(k, l, st) /\ e.what = "frame"
  BY DEF NextFrame, Appearances
<1>3. /\ next.lastTrigger = IF e.did = "fire" THEN e.at ELSE st.lastTrigger
      /\ e.did = "fire" => Cooled(st, e.at)
      /\ e.did = "fire" => next.latched
      /\ st.latched => next.latched
  OBVIOUS
<1>4. Leaving(m, next)
  BY <1>2, <1>3, LeavingStays
<1>5. Spaced(m, next) /\ (e.did = "fire" => Spread(m))
  <2>1. /\ Spaced(m, next)
        /\ e.did = "fire" => \A h \in 1..Len(l) : m[h].did = "fire" => e.at - m[h].at >= Cooldown
    BY <1>2, <1>3, SpacedGrows
  <2>2. Len(m) - 1 = Len(l)
    BY <1>1
  <2> QED  BY <1>1, <2>1, <2>2 DEF Spread
<1>6. Settled(k, m, next)
  <2>1. Settling(k, e, next)
    BY <1>2, <1>3 DEF Settling
  <2> QED  BY <1>2, <2>1, SettledGrows
<1>7. Counting(k, m, next)
  <2>1. k = "vision" => next.latched
    BY <1>3
  <2> QED  BY <2>1 DEF Counting
<1>8. Appeared(a, m, Len(m))
  BY <1>1, <1>2, AwayStays DEF Appeared
<1> QED  BY <1>1, <1>4, <1>5, <1>6, <1>7, <1>8 DEF FrameTaken, Appearances, Justified

LEMMA VisionStep ==
  ASSUME NEW a, NEW l, NEW e, NEW m, NEW st, NEW top, NextFrame("vision", a, l, e, m, st, top),
         NEW o, o = Confirm(st, e.value = "object", e.at), e.did = o.did
  PROVE  FrameTaken("vision", a, m, o.state, e.at)
<1>1. /\ m \in Seq(Entries) /\ Len(m) \in Nat /\ e.at \in Nat /\ st \in RuleState
      /\ e.value \in {"object", "empty"} /\ Consecutive \in Nat \ {0}
  BY NextFrameIs, TriggersAssumption DEF NextFrame
<1>2. CASE e.value = "empty"
  <2>1. o = Outcome(Absent(st, e.at), "")
    BY <1>2 DEF Confirm
  <2>2. o.state = Absent(st, e.at) /\ o.did = ""
    <3>1. /\ Outcome(Absent(st, e.at), "").state = Absent(st, e.at)
          /\ Outcome(Absent(st, e.at), "").did = ""
      BY Zenon DEF Outcome
    <3> HIDE DEF Outcome
    <3> QED  BY <2>1, <3>1
  <2>3. EmptyFrame(e)
    BY <1>2, <2>2 DEF NextFrame, EmptyFrame
  <2>4. Counting("vision", m, Absent(st, e.at))
    <3>1. Absent(st, e.at).hits = 0
      BY <1>1 DEF Absent, RuleState
    <3>2. InARow(m, Len(m) + 1, 0, 0) /\ Len(m) + 1 \in 1..Len(m) + 1
      BY <1>1, NoRow
    <3> QED  BY <1>1, <3>1, <3>2 DEF Counting
  <2>5. FrameTaken("vision", a, m, Absent(st, e.at), e.at)
    BY <2>3, <2>4, EmptyStep
  <2> QED  BY <2>2, <2>5, Zenon
<1>3. CASE e.value = "object"
  <2> DEFINE n   == Min({Consecutive, st.hits + 1})
             hit == [st EXCEPT !.absentSince = 0, !.hits = n]
  <2>1. n \in Nat /\ n <= Consecutive
    <3>1. st.hits \in Nat
      BY <1>1 DEF RuleState
    <3> QED  BY <1>1, <3>1, MinOfTwo
  <2> HIDE DEF n
  <2>2. /\ hit \in RuleState /\ hit.absentSince = 0 /\ hit.hits = n /\ hit.latched = st.latched
        /\ hit.lastTrigger = st.lastTrigger
    BY <1>1, <2>1 DEF RuleState
  <2>3. o = IF hit.latched \/ hit.hits < Consecutive \/ ~Cooled(hit, e.at)
            THEN Outcome(hit, "") ELSE Fired(hit, e.at)
    BY <1>3 DEF Confirm, n
  <2>4. ~st.latched => \E s \in 1..Len(m) + 1 : InARow(m, s, 0, n)
    BY <1>3, VisionCounts DEF n
  <2>5. CASE hit.latched \/ hit.hits < Consecutive \/ ~Cooled(hit, e.at)
    <3>0. o = Outcome(hit, "")
      BY <2>3, <2>5
    <3> HIDE DEF hit
    <3>1. o.state = hit /\ o.did = ""
      BY <3>0, OutcomeIs
    <3>3. Idle(e)
      BY <3>1 DEF Idle
    <3>2. Counting("vision", m, hit)
      BY <2>1, <2>2, <2>4 DEF Counting
    <3>4. FrameTaken("vision", a, m, hit, e.at)
      BY <2>2, <3>2, <3>3, ObjectStep
    <3> QED  BY <3>1, <3>4, Zenon
  <2>6. CASE ~(hit.latched \/ hit.hits < Consecutive \/ ~Cooled(hit, e.at))
    <3> DEFINE next == [hit EXCEPT !.latched = TRUE, !.lastTrigger = e.at]
    <3>1. o = Outcome(next, "fire")
      BY <2>3, <2>6 DEF Fired
    <3>2. o.state = next /\ o.did = "fire"
      BY <3>1, OutcomeIs
    <3> HIDE DEF hit
    <3>3. /\ next \in RuleState /\ next.latched /\ next.lastTrigger = e.at /\ next.absentSince = 0
      <4>1. hit \in RuleState /\ hit.absentSince = 0 /\ e.at \in Int
        BY <1>1, <2>2
      <4> QED  BY <4>1 DEF RuleState
    <3>4. ~st.latched /\ n = Consecutive /\ Cooled(st, e.at)
      BY <1>1, <2>1, <2>2, <2>6 DEF Cooled
    <3> HIDE DEF next
    <3>5. e.did = "fire"
      BY <3>2
    <3>6. FrameTaken("vision", a, m, next, e.at)
      BY <1>3, <2>4, <3>3, <3>4, <3>5, RowStep
    <3> QED  BY <3>2, <3>6, Zenon
  <2> QED  BY <2>5, <2>6
<1> QED  BY <1>1, <1>2, <1>3

------------------------------------------------------------------------------
(* Samples through a sequence rule.                                        *)

(* A candidate that is dropped or expired. *)
LEMMA DroppedIs ==
  ASSUME NEW st \in RuleState, NEW next, NEW at, next = Dropped(st) \/ next = Expired(st, at)
  PROVE  /\ next \in RuleState /\ next.latched = st.latched /\ next.lastTrigger = st.lastTrigger
         /\ next.absentSince = st.absentSince /\ next.suspended = st.suspended
         /\ next.phase = st.phase /\ next.seen = st.seen
         /\ \/ next.hits = st.hits /\ next.candidate = st.candidate
            \/ next.hits = 0 /\ next.candidate = 0
         /\ next = Dropped(st) => next.candidate = 0
         /\ next = Expired(st, at) => next.candidate = 0 \/ ~(at > next.candidate + Within)
<1>1. next = st \/ next = [st EXCEPT !.candidate = 0, !.hits = 0]
  BY DEF Dropped, Expired
<1>2. CASE next = st
  <2>1. next = Dropped(st) => next.candidate = 0
    BY <1>2 DEF Dropped, RuleState
  <2>2. next = Expired(st, at) => next.candidate = 0 \/ ~(at > next.candidate + Within)
    BY <1>2, <2>1 DEF Expired
  <2> QED  BY <1>2, <2>1, <2>2
<1>3. CASE next = [st EXCEPT !.candidate = 0, !.hits = 0]
  BY <1>3 DEF RuleState
<1> QED  BY <1>1, <1>2, <1>3

LEMMA ExpiredFrame ==
  ASSUME NEW a, NEW l, NEW e, NEW m, NEW st, NEW top, NextFrame("sequence", a, l, e, m, st, top),
         NEW next, next = Expired(st, e.at)
  PROVE  NextFrame("sequence", a, l, e, m, next, top)
<1>1. /\ l \in Seq(Entries) /\ st \in RuleState /\ Appearances("sequence", a, l, st, top)
      /\ Spaced(l, st) /\ Follows(e, top, st.hits) /\ Follows(e, top, st.absentSince)
  BY NextFrameIs DEF NextFrame
<1>2. /\ next \in RuleState /\ next.latched = st.latched /\ next.lastTrigger = st.lastTrigger
      /\ next.absentSince = st.absentSince
      /\ \/ next.hits = st.hits /\ next.candidate = st.candidate
         \/ next.hits = 0 /\ next.candidate = 0
  BY <1>1, DroppedIs
<1>3. Appearances("sequence", a, l, next, top)
  BY <1>1, <1>2, Weakened
<1>4. Spaced(l, next) /\ Follows(e, top, next.hits) /\ Follows(e, top, next.absentSince)
  BY <1>1, <1>2 DEF Spaced, Follows
<1> QED  BY <1>2, <1>3, <1>4 DEF NextFrame

LEMMA WindowStays ==
  ASSUME NEW l, NEW e, NEW m, Grows(l, e, m), NEW j \in 1..Len(l), NEW c, StillOpen(l, j, c),
         NothingDone(l, j, Len(l)), e.what = "event" => e.value # "doubt"
  PROVE  /\ StillOpen(m, j, c) /\ NothingDone(m, j, Len(m) - 1)
         /\ Idle(e) => NothingDone(m, j, Len(m))
<1>1. /\ Len(l) \in Nat /\ Len(m) = Len(l) + 1 /\ m[Len(m)] = e
      /\ \A i \in 1..Len(l) : m[i] = l[i]
  BY DEF Grows
<1>2. Len(m) - 1 = Len(l) /\ \A i \in j..Len(m) : i \in j..Len(l) \/ i = Len(m)
  BY <1>1
<1>3. \A i \in j..Len(l) : i \in 1..Len(l) /\ m[i] = l[i]
  BY <1>1
<1>4. \A i \in j..Len(m) : m[i].what = "event" => m[i].value # "doubt"
  BY <1>1, <1>2, <1>3 DEF StillOpen
<1>5. StillOpen(m, j, c)
  BY <1>1, <1>4 DEF StillOpen
<1>6. NothingDone(m, j, Len(m) - 1)
  BY <1>2, <1>3 DEF NothingDone
<1>7. Idle(e) => NothingDone(m, j, Len(m))
  BY <1>1, <1>2, <1>3 DEF NothingDone, Idle
<1> QED  BY <1>5, <1>6, <1>7

(* The window stays open, and its count starts again. *)
LEMMA CountRestarts ==
  ASSUME NEW l, NEW e, NEW m, Grows(l, e, m), Idle(e), e.what = "event" => e.value # "doubt",
         NEW st, Counting("sequence", l, st),
         NEW next, next.hits = 0, next.candidate = st.candidate
  PROVE  Counting("sequence", m, next)
<1>1. Len(l) \in Nat /\ Len(m) = Len(l) + 1 /\ m \in Seq(Entries) /\ Consecutive \in Nat \ {0}
  BY TriggersAssumption DEF Grows
<1>2. ASSUME next.candidate # 0
      PROVE  /\ next.hits < Consecutive
             /\ \E j \in 1..Len(m) : /\ StillOpen(m, j, next.candidate) /\ NothingDone(m, j, Len(m))
                                     /\ \E s \in j + 1..Len(m) + 1 : InARow(m, s, next.candidate, next.hits)
  <2>1. PICK j \in 1..Len(l) : StillOpen(l, j, st.candidate) /\ NothingDone(l, j, Len(l))
    BY <1>2 DEF Counting
  <2>2. StillOpen(m, j, next.candidate) /\ NothingDone(m, j, Len(m))
    BY <2>1, WindowStays
  <2>3. InARow(m, Len(m) + 1, next.candidate, 0) /\ Len(m) + 1 \in j + 1..Len(m) + 1
    BY <1>1, NoRow
  <2>4. j \in 1..Len(m) /\ 0 < Consecutive
    BY <1>1
  <2> QED  BY <2>2, <2>3, <2>4
<1> QED  BY <1>2 DEF Counting

(* One frame more inside the window. *)
LEMMA WindowCounts ==
  ASSUME NEW a, NEW l, NEW e, NEW m, NEW st, NEW top, NextFrame("sequence", a, l, e, m, st, top),
         e.value = "object", st.candidate # 0, e.at > st.candidate
  PROVE  /\ st.hits < Consecutive
         /\ \E j \in 1..Len(l) :
              /\ StillOpen(m, j, st.candidate) /\ NothingDone(m, j, Len(m) - 1)
              /\ Idle(e) => NothingDone(m, j, Len(m))
              /\ \E s \in j + 1..Len(m) + 1 : InARow(m, s, st.candidate, st.hits + 1)
<1>1. Len(l) \in Nat /\ Len(m) = Len(l) + 1
  BY NextFrameIs
<1>2. /\ Grows(l, e, m) /\ e.what = "frame" /\ a \in Nat /\ top \in Nat /\ InOrderTaken(a, l, top)
      /\ st.hits \in Nat /\ st.candidate \in Nat /\ Follows(e, top, st.hits)
      /\ Counting("sequence", l, st) /\ e.at \in Nat
  BY DEF NextFrame, Appearances, RuleState, Grows, Entries
<1>3. PICK j \in 1..Len(l) :
        /\ StillOpen(l, j, st.candidate) /\ NothingDone(l, j, Len(l))
        /\ \E s \in j + 1..Len(l) + 1 : InARow(l, s, st.candidate, st.hits)
  BY <1>2 DEF Counting
<1>4. PICK s \in j + 1..Len(l) + 1 : InARow(l, s, st.candidate, st.hits)
  BY <1>3
<1>5. s \in 1..Len(l) + 1 /\ st.candidate < e.at
  BY <1>1, <1>2, <1>4
<1>6. PICK t \in s..Len(m) : InARow(m, t, st.candidate, st.hits + 1)
  BY <1>2, <1>4, <1>5, RowGoesOn
<1>7. t \in j + 1..Len(m) + 1
  BY <1>1, <1>4
<1>8. StillOpen(m, j, st.candidate) /\ NothingDone(m, j, Len(m) - 1)
      /\ (Idle(e) => NothingDone(m, j, Len(m)))
  BY <1>2, <1>3, WindowStays
<1> QED  BY <1>2, <1>6, <1>7, <1>8 DEF Counting

LEMMA SequenceStep ==
  ASSUME NEW a, NEW l, NEW e, NEW m, NEW before, NEW top,
         NextFrame("sequence", a, l, e, m, before, top),
         NEW o, o = SequenceSample(before, e.value = "object", e.at), e.did = o.did
  PROVE  FrameTaken("sequence", a, m, o.state, e.at)
<1>1. PICK st : st = Expired(before, e.at)
  OBVIOUS
<1>2. NextFrame("sequence", a, l, e, m, st, top)
  BY <1>1, ExpiredFrame
<1>3. /\ m \in Seq(Entries) /\ Len(m) \in Nat /\ e.at \in Nat /\ st \in RuleState
      /\ e.value \in {"object", "empty"} /\ Consecutive \in Nat \ {0}
      /\ Grows(l, e, m) /\ Counting("sequence", l, st)
      /\ Len(l) \in Nat /\ Len(m) = Len(l) + 1 /\ m[Len(m)] = e /\ e.what = "frame"
  <2>1. /\ st \in RuleState /\ e.value \in {"object", "empty"}
        /\ Grows(l, e, m) /\ Counting("sequence", l, st) /\ e.what = "frame"
    BY <1>2, Zenon DEF NextFrame, Appearances
  <2>2. /\ m \in Seq(Entries) /\ e.at \in Nat
        /\ Len(l) \in Nat /\ Len(m) = Len(l) + 1 /\ m[Len(m)] = e
    BY <1>2, NextFrameIs
  <2>3. Consecutive \in Nat \ {0}
    BY TriggersAssumption
  <2> QED  BY <2>1, <2>2, <2>3
<1>4. CASE e.value = "empty"
  <2>1. o = Outcome(Absent(st, e.at), "")
    BY <1>1, <1>4 DEF SequenceSample
  <2>2. o.state = Absent(st, e.at) /\ o.did = ""
    <3>1. /\ Outcome(Absent(st, e.at), "").state = Absent(st, e.at)
          /\ Outcome(Absent(st, e.at), "").did = ""
      BY Zenon DEF Outcome
    <3> HIDE DEF Outcome
    <3> QED  BY <2>1, <3>1
  <2>3. EmptyFrame(e) /\ Idle(e)
    BY <1>3, <1>4, <2>2 DEF EmptyFrame, Idle
  <2>4. Counting("sequence", m, Absent(st, e.at))
    <3>1. Absent(st, e.at).hits = 0 /\ Absent(st, e.at).candidate = st.candidate
      BY <1>3 DEF Absent, RuleState
    <3>2. e.what = "event" => e.value # "doubt"
      BY <1>3
    <3> QED  BY <1>3, <2>3, <3>1, <3>2, CountRestarts
  <2>5. FrameTaken("sequence", a, m, Absent(st, e.at), e.at)
    BY <1>2, <2>3, <2>4, EmptyStep
  <2> QED  BY <2>2, <2>5, Zenon
<1>5. CASE e.value = "object" /\ (st.latched \/ st.candidate = 0 \/ e.at <= st.candidate)
  <2> DEFINE next == [st EXCEPT !.absentSince = 0, !.hits = 0]
  <2>1. o = Outcome(next, "")
    BY <1>1, <1>5 DEF SequenceSample
  <2>2. /\ next \in RuleState /\ next.lastTrigger = st.lastTrigger /\ next.absentSince = 0
        /\ next.latched = st.latched /\ next.hits = 0 /\ next.candidate = st.candidate
    BY <1>3 DEF RuleState
  <2> HIDE DEF next
  <2>3. o.state = next /\ o.did = ""
    BY <2>1, OutcomeIs
  <2>4. Idle(e)
    BY <2>3 DEF Idle
  <2>5. e.what = "event" => e.value # "doubt"
    BY <1>3
  <2>6. Counting("sequence", m, next)
    BY <1>3, <2>2, <2>4, <2>5, CountRestarts
  <2>7. FrameTaken("sequence", a, m, next, e.at)
    BY <1>2, <2>2, <2>4, <2>6, ObjectStep
  <2> QED  BY <2>3, <2>7, Zenon
<1>6. CASE e.value = "object" /\ ~(st.latched \/ st.candidate = 0 \/ e.at <= st.candidate)
  <2> DEFINE hit  == [st EXCEPT !.absentSince = 0, !.hits = @ + 1]
             used == [hit EXCEPT !.candidate = 0, !.hits = 0]
  <2>1. /\ hit \in RuleState /\ hit.absentSince = 0 /\ hit.hits = st.hits + 1
        /\ hit.latched = st.latched /\ hit.lastTrigger = st.lastTrigger
        /\ hit.candidate = st.candidate /\ st.hits \in Nat /\ st.candidate \in Nat
    <3>1. st \in RuleState
      BY <1>3
    <3>2. st.hits \in Nat /\ st.candidate \in Nat
      BY <3>1 DEF RuleState
    <3>3. PICK n \in Nat : n = st.hits + 1
      BY <3>2
    <3>4. hit = [st EXCEPT !.absentSince = 0, !.hits = n]
      BY <3>1, <3>3 DEF RuleState
    <3> HIDE DEF hit
    <3>5. /\ hit \in RuleState /\ hit.absentSince = 0 /\ hit.hits = n
          /\ hit.latched = st.latched /\ hit.lastTrigger = st.lastTrigger
          /\ hit.candidate = st.candidate
      BY <3>1, <3>4 DEF RuleState
    <3> QED  BY <3>2, <3>3, <3>5
  <2>2. /\ used \in RuleState /\ used.absentSince = 0 /\ used.candidate = 0
        /\ used.latched = st.latched /\ used.lastTrigger = st.lastTrigger
    BY <1>3 DEF RuleState
  <2>3. o = IF hit.hits < Consecutive THEN Outcome(hit, "")
            ELSE IF Cooled(hit, e.at) THEN Fired(used, e.at) ELSE Outcome(used, "skip")
    BY <1>1, <1>6 DEF SequenceSample
  <2> HIDE DEF hit, used
  <2>4. e.at > st.candidate /\ st.candidate # 0 /\ ~st.latched /\ e.value = "object"
    BY <1>3, <1>6, <2>1
  <2>5. PICK j \in 1..Len(l) :
          /\ st.hits < Consecutive
          /\ StillOpen(m, j, st.candidate) /\ NothingDone(m, j, Len(m) - 1)
          /\ Idle(e) => NothingDone(m, j, Len(m))
          /\ \E s \in j + 1..Len(m) + 1 : InARow(m, s, st.candidate, st.hits + 1)
    BY <1>2, <2>4, WindowCounts
  <2>6. CASE hit.hits < Consecutive
    <3>1. o = Outcome(hit, "")
      BY <2>3, <2>6
    <3>2. o.state = hit /\ o.did = ""
      BY <3>1, OutcomeIs
    <3>3. Idle(e)
      BY <3>2 DEF Idle
    <3>4. j \in 1..Len(m)
      BY <1>3
    <3>5. Counting("sequence", m, hit)
      BY <2>1, <2>5, <2>6, <3>3, <3>4 DEF Counting
    <3>6. FrameTaken("sequence", a, m, hit, e.at)
      BY <1>2, <2>1, <3>3, <3>5, ObjectStep
    <3> QED  BY <3>2, <3>6, Zenon
  <2>7. CASE ~(hit.hits < Consecutive)
    <3>1. st.hits + 1 = Consecutive
      BY <1>3, <2>1, <2>5, <2>7
    <3>2. InTheWindow(m, Len(m))
      <4>1. j \in 1..Len(m) - 1 /\ m[j].at = st.candidate
        BY <1>3, <2>5 DEF StillOpen
      <4>2. e.at <= st.candidate + Within
        <5>1. st.candidate = 0 \/ ~(e.at > st.candidate + Within)
          <6>1. before \in RuleState
            BY DEF NextFrame
          <6> QED  BY <1>1, <6>1, DroppedIs
        <5>2. Within \in Nat
          BY TriggersAssumption
        <5> QED  BY <1>3, <2>1, <2>4, <5>1, <5>2
      <4> QED  BY <1>3, <2>4, <2>5, <3>1, <4>1, <4>2 DEF InTheWindow
    <3>3. \E s \in 1..Len(m) + 1 : InARow(m, s, 0, Consecutive)
      <4>1. PICK s \in j + 1..Len(m) + 1 : InARow(m, s, st.candidate, Consecutive)
        BY <2>5, <3>1
      <4>2. \A i \in FramesFrom(m, s) : m[i].at \in Nat
        BY <1>3, FramesAre
      <4>3. \A i \in FramesFrom(m, s) : m[i].value = "object" /\ 0 < m[i].at
        BY <2>1, <4>1, <4>2 DEF InARow
      <4>4. InARow(m, s, 0, Consecutive) /\ s \in 1..Len(m) + 1
        BY <1>3, <4>1, <4>3 DEF InARow
      <4> QED  BY <4>4
    <3>4. CASE Cooled(hit, e.at)
      <4> DEFINE next == [used EXCEPT !.latched = TRUE, !.lastTrigger = e.at]
      <4>1. o = Outcome(next, "fire")
        BY <2>3, <2>7, <3>4 DEF Fired
      <4>2. /\ next \in RuleState /\ next.latched /\ next.lastTrigger = e.at /\ next.absentSince = 0
            /\ next.candidate = 0
        <5>1. used \in RuleState /\ used.absentSince = 0 /\ used.candidate = 0 /\ e.at \in Int
          BY <1>3, <2>2
        <5> QED  BY <5>1 DEF RuleState
      <4> HIDE DEF next
      <4>3. o.state = next /\ o.did = "fire"
        BY <4>1, OutcomeIs
      <4>4. e.did = "fire"
        BY <4>3
      <4>5. Cooled(st, e.at)
        BY <2>1, <3>4 DEF Cooled
      <4>6. FrameTaken("sequence", a, m, next, e.at)
        BY <1>2, <2>4, <3>2, <3>3, <4>2, <4>4, <4>5, RowStep
      <4> QED  BY <4>3, <4>6, Zenon
    <3>5. CASE ~Cooled(hit, e.at)
      <4>1. o = Outcome(used, "skip")
        BY <2>3, <2>7, <3>5
      <4>2. o.state = used /\ o.did = "skip"
        BY <4>1, OutcomeIs
      <4>3. e.did = "skip" /\ ~used.latched
        BY <2>2, <2>4, <4>2
      <4>4. FrameTaken("sequence", a, m, used, e.at)
        BY <1>2, <2>2, <2>4, <3>2, <3>3, <4>3, RowStep
      <4> QED  BY <4>2, <4>4, Zenon
    <3> QED  BY <3>4, <3>5
  <2> QED  BY <2>6, <2>7
<1> QED  BY <1>3, <1>4, <1>5, <1>6

------------------------------------------------------------------------------
(* Events: the cooldown, sensors, sequences.                               *)

SameEvent(e, x) == x.value = e.value /\ x.at = e.at /\ x.from = e.from

(* What was done with the event is logged with it. *)
Done(e, o) == e.did = o.did

LEMMA DoneIs ==
  ASSUME NEW e, NEW o, NEW st, NEW did, Done(e, o), o = Outcome(st, did)
  PROVE  o.state = st /\ o.did = did /\ e.did = did
BY OutcomeIs DEF Done

(* The next event of a rule in the state st. *)
NextEvent(l, e, m, st) ==
  Grows(l, e, m) /\ e.what = "event" /\ Spaced(l, st) /\ st \in RuleState

LEMMA NextEventIs ==
  ASSUME NEW l, NEW e, NEW m, NEW st, NextEvent(l, e, m, st)
  PROVE  /\ Len(l) \in Nat /\ Len(m) = Len(l) + 1 /\ m[Len(m)] = e /\ e.at \in Nat
         /\ l \in Seq(Entries) /\ m \in Seq(Entries) /\ \A i \in 1..Len(l) : m[i] = l[i]
         /\ st \in RuleState
BY DEF NextEvent, Grows, Entries

(* What the cooldown between two firings does. *)
CooledDown(st, fires, at, o) ==
  /\ o.state \in RuleState
  /\ o.state.lastTrigger = IF o.did = "fire" THEN at ELSE st.lastTrigger
  /\ o.state.phase = st.phase /\ o.state.pendingSince = st.pendingSince
  /\ o.state.seen = st.seen /\ o.state.suspended = st.suspended
  /\ o.did = "fire" => Cooled(st, at)
  /\ o.did # "" <=> fires

LEMMA CoolingIs ==
  ASSUME NEW st \in RuleState, NEW fires \in BOOLEAN, NEW at \in Nat, NEW o, o = Cooling(st, fires, at)
  PROVE  CooledDown(st, fires, at, o)
<1> DEFINE next == [st EXCEPT !.lastTrigger = at]
<1>1. /\ next \in RuleState /\ next.lastTrigger = at
      /\ next.phase = st.phase /\ next.pendingSince = st.pendingSince
      /\ next.seen = st.seen /\ next.suspended = st.suspended
  BY DEF RuleState
<1>2. o = IF ~fires THEN Outcome(st, "")
          ELSE IF Cooled(st, at) THEN Outcome(next, "fire") ELSE Outcome(st, "skip")
  BY DEF Cooling
<1> HIDE DEF next
<1>3. CASE ~fires
  <2>1. o = Outcome(st, "")
    BY <1>2, <1>3
  <2>2. o.state = st /\ o.did = ""
    BY <2>1, OutcomeIs
  <2> QED  BY <1>3, <2>2 DEF CooledDown
<1>4. CASE fires /\ Cooled(st, at)
  <2>1. o = Outcome(next, "fire")
    BY <1>2, <1>4
  <2>2. o.state = next /\ o.did = "fire"
    BY <2>1, OutcomeIs
  <2> QED  BY <1>1, <1>4, <2>2 DEF CooledDown
<1>5. CASE fires /\ ~Cooled(st, at)
  <2>1. o = Outcome(st, "skip")
    BY <1>2, <1>5
  <2>2. o.state = st /\ o.did = "skip"
    BY <2>1, OutcomeIs
  <2> QED  BY <1>5, <2>2 DEF CooledDown
<1> QED  BY <1>3, <1>4, <1>5

(* What an outcome does to the time of the last firing. *)
Triggered(e, st, next) ==
  /\ next.lastTrigger = IF e.did = "fire" THEN e.at ELSE st.lastTrigger
  /\ e.did = "fire" => Cooled(st, e.at)

LEMMA EventSpread ==
  ASSUME NEW l, NEW e, NEW m, NEW st, NextEvent(l, e, m, st), NEW next, Triggered(e, st, next)
  PROVE  Spaced(m, next) /\ (e.did = "fire" => Spread(m))
<1>1. Grows(l, e, m) /\ Spaced(l, st) /\ st \in RuleState
  BY DEF NextEvent
<1>2. /\ Spaced(m, next)
      /\ e.did = "fire" => \A h \in 1..Len(l) : m[h].did = "fire" => e.at - m[h].at >= Cooldown
  BY <1>1, SpacedGrows DEF Triggered
<1>3. Len(m) - 1 = Len(l) /\ m[Len(m)] = e
  BY NextEventIs
<1> QED  BY <1>2, <1>3 DEF Spread

(* A sensor or a microphone: every event by itself. *)
LEMMA PlainEvent ==
  ASSUME NEW l, NEW e, NEW m, NEW st, NextEvent(l, e, m, st), NEW fires \in BOOLEAN,
         NEW o, o = Cooling(st, fires, e.at), Done(e, o)
  PROVE  /\ o.state \in RuleState /\ Spaced(m, o.state)
         /\ e.did = "fire" => Spread(m) /\ fires
<1>1. e.at \in Nat /\ st \in RuleState
  BY NextEventIs
<1>2. CooledDown(st, fires, e.at, o)
  BY <1>1, CoolingIs
<1>3. o.state \in RuleState
  BY <1>2 DEF CooledDown
<1>4. Triggered(e, st, o.state)
  BY <1>2 DEF CooledDown, Triggered, Done
<1>5. e.did = "fire" => fires
  BY <1>2 DEF CooledDown, Done
<1> QED  BY <1>3, <1>4, <1>5, EventSpread

(* An event of a sequence rule opens the window, or closes it. *)
LEMMA SequenceTold ==
  ASSUME NEW a \in Nat, NEW l, NEW e, NEW m, NEW before, NEW top \in Nat,
         NextEvent(l, e, m, before), Appearances("sequence", a, l, before, top),
         e.value \in {"rise", "doubt"}, NEW x, SameEvent(e, x),
         NEW o, o = SequenceEvent(before, x), Done(e, o)
  PROVE  /\ o.state \in RuleState /\ Spaced(m, o.state) /\ Idle(e)
         /\ Appearances("sequence", a, m, o.state, top) /\ o.state.suspended = before.suspended
<1>1. /\ Len(l) \in Nat /\ Len(m) = Len(l) + 1 /\ m[Len(m)] = e /\ e.at \in Nat
      /\ l \in Seq(Entries) /\ m \in Seq(Entries) /\ before \in RuleState
  BY NextEventIs
<1>2. Grows(l, e, m) /\ e.what = "event" /\ e.what # "frame" /\ Spaced(l, before)
  BY DEF NextEvent
<1>3. PICK st : st = Expired(before, e.at)
  OBVIOUS
<1>4. /\ st \in RuleState /\ st.latched = before.latched /\ st.lastTrigger = before.lastTrigger
      /\ st.absentSince = before.absentSince /\ st.suspended = before.suspended
      /\ \/ st.hits = before.hits /\ st.candidate = before.candidate
         \/ st.hits = 0 /\ st.candidate = 0
  BY <1>1, <1>3, DroppedIs
<1>5. Appearances("sequence", a, l, st, top)
  BY <1>1, <1>4, Weakened
<1>6. InOrderTaken(a, l, top) /\ Counting("sequence", l, st) /\ Leaving(l, st)
      /\ Settled("sequence", l, st)
  BY <1>5 DEF Appearances
<1> DEFINE opened == [st EXCEPT !.candidate = e.at, !.openedUntil = e.at, !.hits = 0]
<1>7. /\ opened \in RuleState /\ opened.latched = st.latched /\ opened.lastTrigger = st.lastTrigger
      /\ opened.absentSince = st.absentSince /\ opened.hits = 0 /\ opened.candidate = e.at
      /\ opened.suspended = st.suspended
  <2>1. st \in RuleState /\ e.at \in Nat /\ e.at \in Int
    BY <1>1, <1>4
  <2> QED  BY <2>1 DEF RuleState
<1>8. \/ o = Outcome(Dropped(st), "") /\ e.value = "doubt"
      \/ (o = Outcome(st, "") \/ o = Outcome(opened, "")) /\ e.value = "rise"
  <2>1. x.value = e.value /\ x.at = e.at
    BY DEF SameEvent
  <2>0. SequenceEvent(before, x) =
          CASE x.value = "doubt" -> Outcome(Dropped(st), "")
            [] x.value = "rise"  ->
                 IF x.at <= st.openedUntil \/ st.candidate # 0 \/ st.latched
                 THEN Outcome(st, "") ELSE Outcome(opened, "")
    BY <1>3, <2>1 DEF SequenceEvent
  <2> HIDE DEF opened
  <2>2. CASE e.value = "doubt"
    <3>1. x.value = "doubt" /\ x.value # "rise"
      BY <2>1, <2>2
    <3>2. SequenceEvent(before, x) = Outcome(Dropped(st), "")
      BY <2>0, <3>1, Zenon
    <3> QED  BY <2>2, <3>2
  <2>3. CASE e.value = "rise"
    <3>1. x.value = "rise" /\ x.value # "doubt"
      BY <2>1, <2>3
    <3>2. SequenceEvent(before, x) \in {Outcome(st, ""), Outcome(opened, "")}
      BY <2>0, <3>1, Zenon
    <3> QED  BY <2>3, <3>2
  <2> QED  BY <2>2, <2>3
<1> HIDE DEF opened
<1>9. PICK next : /\ o = Outcome(next, "")
                  /\ \/ next = Dropped(st) /\ e.value = "doubt"
                     \/ next = st /\ e.value = "rise"
                     \/ next = opened /\ e.value = "rise"
  BY <1>8
<1>10. o.state = next /\ o.did = ""
  BY <1>9, DoneIs
<1>11. Idle(e) /\ e.did = "" /\ e.did # "fire"
  BY <1>10 DEF Idle, Done
<1>12. /\ next \in RuleState /\ next.latched = st.latched /\ next.lastTrigger = st.lastTrigger
       /\ next.absentSince = st.absentSince /\ next.suspended = st.suspended
  <2>1. CASE next = Dropped(st)
    BY <1>4, <2>1, DroppedIs
  <2>2. CASE next = st \/ next = opened
    BY <1>4, <1>7, <2>2
  <2> QED  BY <1>9, <2>1, <2>2
<1>13. Spaced(m, next)
  <2>1. NextEvent(l, e, m, st)
    BY <1>2, <1>4 DEF NextEvent, Spaced
  <2>2. Triggered(e, st, next)
    BY <1>11, <1>12 DEF Triggered
  <2> QED  BY <2>1, <2>2, EventSpread
<1>14. InOrderTaken(a, m, top)
  BY <1>2, <1>6, OrderGrows
<1>15. Leaving(m, next)
  BY <1>2, <1>6, <1>11, <1>12, LeavingStays
<1>16. Settled("sequence", m, next)
  <2>1. Settling("sequence", e, next)
    BY <1>11 DEF Settling
  <2> QED  BY <1>2, <1>6, <2>1, SettledGrows
<1>17. Counting("sequence", m, next)
  <2>1. CASE next = Dropped(st)
    <3>1. next.candidate = 0
      BY <1>4, <2>1, DroppedIs
    <3> QED  BY <3>1 DEF Counting
  <2>2. CASE next = opened /\ e.value = "rise"
    <3>1. StillOpen(m, Len(m), e.at) /\ NothingDone(m, Len(m), Len(m))
      <4>1. m[Len(m)].what = "event" /\ m[Len(m)].value = "rise" /\ m[Len(m)].at = e.at
            /\ m[Len(m)].did = ""
        BY <1>1, <1>2, <1>11, <2>2, Zenon
      <4>2. \A i \in Len(m)..Len(m) : i = Len(m)
        BY <1>1
      <4>3. \A i \in Len(m)..Len(m) : m[i].value # "doubt" /\ m[i].did = ""
        BY <4>1, <4>2, Zenon
      <4> QED  BY <4>1, <4>3 DEF StillOpen, NothingDone
    <3>2. InARow(m, Len(m) + 1, e.at, 0) /\ Len(m) + 1 \in Len(m) + 1..Len(m) + 1
      BY <1>1, NoRow
    <3>3. Len(m) \in 1..Len(m) /\ 0 < Consecutive
      BY <1>1, TriggersAssumption
    <3> QED  BY <1>7, <2>2, <3>1, <3>2, <3>3 DEF Counting
  <2>3. CASE next = st /\ e.value = "rise"
    <3>1. SUFFICES ASSUME st.candidate # 0
                   PROVE  /\ st.hits < Consecutive
                          /\ \E j \in 1..Len(m) :
                               /\ StillOpen(m, j, st.candidate) /\ NothingDone(m, j, Len(m))
                               /\ \E s \in j + 1..Len(m) + 1 : InARow(m, s, st.candidate, st.hits)
      BY <2>3 DEF Counting
    <3>2. PICK j \in 1..Len(l) :
            /\ st.hits < Consecutive
            /\ StillOpen(l, j, st.candidate) /\ NothingDone(l, j, Len(l))
            /\ \E s \in j + 1..Len(l) + 1 : InARow(l, s, st.candidate, st.hits)
      BY <1>6, <3>1 DEF Counting
    <3>3. PICK s \in j + 1..Len(l) + 1 : InARow(l, s, st.candidate, st.hits)
      BY <3>2
    <3>4. s \in 1..Len(m) /\ s \in j + 1..Len(m) + 1 /\ j \in 1..Len(m)
      BY <1>1
    <3>5. InARow(m, s, st.candidate, st.hits)
      BY <1>2, <3>3, <3>4, RowStays
    <3>6. e.value # "doubt"
      BY <2>3
    <3>7. StillOpen(m, j, st.candidate) /\ NothingDone(m, j, Len(m))
      BY <1>2, <1>11, <3>2, <3>6, WindowStays
    <3> QED  BY <3>2, <3>4, <3>5, <3>7
  <2> QED  BY <1>9, <2>1, <2>2, <2>3
<1> QED  BY <1>4, <1>10, <1>11, <1>12, <1>13, <1>14, <1>15, <1>16, <1>17 DEF Appearances

------------------------------------------------------------------------------
(* Readings of a threshold.                                                *)

(* The value has come back at the entry i at the latest. *)
LEMMA CameBackStays ==
  ASSUME NEW l, NEW e, NEW m, Grows(l, e, m), NEW j \in 1..Len(l) + 1, CameBack(l, j, Len(l)),
         NEW i \in j..Len(m) + 1
  PROVE  CameBack(m, i, Len(m) - 1) /\ (Idle(e) => CameBack(m, i, Len(m)))
<1>1. /\ Len(l) \in Nat /\ Len(m) = Len(l) + 1 /\ m[Len(m)] = e
      /\ \A n \in 1..Len(l) : m[n] = l[n]
  BY DEF Grows
<1>2. \A n \in 1..j - 1 : n \in 1..i - 1 /\ n \in 1..Len(l) /\ 1..n - 1 \subseteq 1..Len(l)
  BY <1>1
<1>3. ASSUME NEW s \in 1..Len(l), NothingDone(l, s, Len(l))
      PROVE  NothingDone(m, s, Len(m) - 1) /\ (Idle(e) => NothingDone(m, s, Len(m)))
  <2>1. Len(m) - 1 = Len(l) /\ \A n \in s..Len(m) : n \in s..Len(l) \/ n = Len(m)
    BY <1>1
  <2>2. \A n \in s..Len(l) : m[n].did = ""
    <3>1. \A n \in s..Len(l) : n \in 1..Len(l)
      BY <1>1
    <3>2. \A n \in s..Len(l) : l[n].did = ""
      BY <1>3, Zenon DEF NothingDone
    <3> QED  BY <1>1, <3>1, <3>2
  <2>3. Idle(e) => m[Len(m)].did = ""
    BY <1>1 DEF Idle
  <2> QED  BY <2>1, <2>2, <2>3 DEF NothingDone
<1>4. ASSUME NEW s \in 1..j - 1, l[s].value = "low", NothingDone(l, s, Len(l))
      PROVE  CameBack(m, i, Len(m) - 1) /\ (Idle(e) => CameBack(m, i, Len(m)))
  <2>1. s \in 1..i - 1 /\ m[s].value = "low"
    BY <1>1, <1>2, <1>4
  <2> QED  BY <1>2, <1>3, <1>4, <2>1 DEF CameBack
<1>5. ASSUME NothingDone(l, 1, Len(l)), NEW s \in 1..j - 1, l[s].value = "mid",
             \A n \in 1..s - 1 : l[n].value = "doubt"
      PROVE  CameBack(m, i, Len(m) - 1) /\ (Idle(e) => CameBack(m, i, Len(m)))
  <2>1. s \in 1..i - 1 /\ m[s].value = "mid" /\ \A n \in 1..s - 1 : m[n].value = "doubt"
    BY <1>1, <1>2, <1>5
  <2>2. 1 \in 1..Len(l)
    BY <1>1, <1>2
  <2> QED  BY <1>3, <1>5, <2>1, <2>2 DEF CameBack
<1> QED  BY <1>4, <1>5 DEF CameBack

(* Two ways of having come back. *)
LEMMA CameBackBy ==
  ASSUME NEW l, NEW j, NEW n, NEW i \in 1..j - 1
  PROVE  /\ l[i].value = "low" /\ NothingDone(l, i, n) => CameBack(l, j, n)
         /\ l[i].value = "mid" /\ (\A s \in 1..i - 1 : l[s].value = "doubt") /\ NothingDone(l, 1, n)
              => CameBack(l, j, n)
BY Zenon DEF CameBack

(* What holds of the values and the state next after one more of them. *)
Measured(m, next) ==
  /\ next.phase \in {"unknown", "clear", "pending", "active"}
  /\ next.phase = "unknown" => \A i \in 1..Len(m) : m[i].value = "doubt" /\ m[i].did = ""
  /\ next.phase = "clear" => CameBack(m, Len(m) + 1, Len(m))
  /\ next.phase = "pending" =>
       \E j \in 1..Len(m) : /\ m[j].at = next.pendingSince /\ CameBack(m, j, Len(m))
                            /\ NothingDone(m, j, Len(m)) /\ \A i \in j..Len(m) : m[i].value = "past"

(* The next reading of a threshold rule. *)
NextReading(l, e, m, st) ==
  NextEvent(l, e, m, st) /\ Values(l, st) /\ e.value \in {"past", "mid", "low", "doubt"}

Reached(e, m, next) ==
  /\ next \in RuleState /\ Spaced(m, next) /\ Values(m, next)
  /\ e.did = "fire" => Spread(m) /\ LongPast(m, Len(m))

LEMMA ReadingTaken ==
  ASSUME NEW l, NEW e, NEW m, NEW st, NextReading(l, e, m, st), NEW next \in RuleState,
         Triggered(e, st, next), Measured(m, next), Idle(e) \/ next.phase = "active",
         Idle(e) \/ LongPast(m, Len(m))
  PROVE  Reached(e, m, next)
<1>1. NextEvent(l, e, m, st) /\ Values(l, st)
  BY DEF NextReading
<1>2. /\ Len(l) \in Nat /\ Len(m) = Len(l) + 1 /\ m[Len(m)] = e
      /\ \A i \in 1..Len(l) : m[i] = l[i]
  BY <1>1, NextEventIs
<1>3. Spaced(m, next) /\ (e.did = "fire" => Spread(m))
  BY <1>1, EventSpread
<1>4. \A i \in 1..Len(m) : m[i].value \in {"past", "mid", "low", "doubt"}
  <2>1. \A i \in 1..Len(m) : i \in 1..Len(l) \/ i = Len(m)
    BY <1>2
  <2>2. \A i \in 1..Len(l) : l[i].value \in {"past", "mid", "low", "doubt"}
    BY <1>1 DEF Values
  <2>3. m[Len(m)].value \in {"past", "mid", "low", "doubt"}
    BY <1>2 DEF NextReading
  <2> QED  BY <1>2, <2>1, <2>2, <2>3
<1>5. m[Len(m)].did # "" => next.phase = "active"
  BY <1>2 DEF Idle
<1>6. Values(m, next)
  BY <1>4, <1>5 DEF Values, Measured
<1>7. e.did = "fire" => LongPast(m, Len(m))
  BY DEF Idle
<1> QED  BY <1>3, <1>6, <1>7 DEF Reached

(* A reading that changes no more than the phase. *)
LEMMA ReadingNoted ==
  ASSUME NEW l, NEW e, NEW m, NEW st, NextReading(l, e, m, st), Idle(e),
         NEW next \in RuleState, next.lastTrigger = st.lastTrigger, Measured(m, next)
  PROVE  Reached(e, m, next)
<1>1. Triggered(e, st, next)
  BY DEF Triggered, Idle
<1> QED  BY <1>1, ReadingTaken

Phases == {"unknown", "clear", "pending", "active", "present", "absent"}

(* What a state with another phase is. *)
Moved(st, next, p, t) ==
  /\ next \in RuleState /\ next.phase = p /\ next.pendingSince = t
  /\ next.lastTrigger = st.lastTrigger /\ next.suspended = st.suspended /\ next.seen = st.seen

LEMMA PhaseIs ==
  ASSUME NEW st, st \in RuleState, NEW p \in Phases, NEW t \in Nat
  PROVE  /\ Moved(st, [st EXCEPT !.phase = p], p, st.pendingSince)
         /\ Moved(st, [st EXCEPT !.phase = p, !.pendingSince = t], p, t)
BY DEF RuleState, Phases, Moved

(* What a reading that does nothing leaves behind, by the phase. *)
LEMMA StillMeasured ==
  ASSUME NEW l, NEW e, NEW m, NEW st, NextReading(l, e, m, st), Idle(e), NEW next,
         \/ next.phase = "active"
         \/ next.phase = "unknown" /\ st.phase = "unknown" /\ e.value = "doubt"
         \/ next.phase = "clear" /\ \/ st.phase \in {"clear", "pending"}
                                    \/ e.value = "low"
                                    \/ e.value = "mid" /\ st.phase = "unknown"
  PROVE  Measured(m, next)
<1>1. NextEvent(l, e, m, st) /\ Values(l, st)
  BY DEF NextReading
<1>2. /\ Len(l) \in Nat /\ Len(m) = Len(l) + 1 /\ m[Len(m)] = e /\ Grows(l, e, m)
      /\ \A i \in 1..Len(l) : m[i] = l[i]
  BY <1>1, NextEventIs DEF NextEvent
<1>3. \A i \in 1..Len(m) : i \in 1..Len(l) \/ i = Len(m)
  BY <1>2
<1>4. CASE next.phase = "active"
  BY <1>4 DEF Measured
<1>5. CASE next.phase = "unknown" /\ st.phase = "unknown" /\ e.value = "doubt"
  <2>1. \A i \in 1..Len(l) : l[i].value = "doubt" /\ l[i].did = ""
    BY <1>1, <1>5 DEF Values
  <2>2. m[Len(m)].value = "doubt" /\ m[Len(m)].did = ""
    BY <1>2, <1>5 DEF Idle
  <2>3. \A i \in 1..Len(m) : m[i].value = "doubt" /\ m[i].did = ""
    BY <1>2, <1>3, <2>1, <2>2
  <2> QED  BY <1>5, <2>3 DEF Measured
<1>6. ASSUME next.phase = "clear", st.phase \in {"clear", "pending"} PROVE Measured(m, next)
  <2>1. PICK j \in 1..Len(l) + 1 : CameBack(l, j, Len(l))
    <3>1. CASE st.phase = "clear"
      <4>1. CameBack(l, Len(l) + 1, Len(l))
        BY <1>1, <3>1, Zenon DEF Values
      <4>2. Len(l) + 1 \in 1..Len(l) + 1
        BY <1>2
      <4> QED  BY <4>1, <4>2
    <3>2. CASE st.phase = "pending"
      <4>1. PICK j \in 1..Len(l) : CameBack(l, j, Len(l))
        BY <1>1, <3>2 DEF Values
      <4>2. j \in 1..Len(l) + 1
        BY <1>2
      <4> QED  BY <4>1, <4>2
    <3> QED  BY <1>6, <3>1, <3>2
  <2>2. Len(m) + 1 \in j..Len(m) + 1
    BY <1>2
  <2>3. CameBack(m, Len(m) + 1, Len(m))
    BY <1>2, <2>1, <2>2, CameBackStays
  <2> QED  BY <1>6, <2>3 DEF Measured
<1>7. ASSUME next.phase = "clear", e.value = "low" PROVE Measured(m, next)
  <2>1. Len(m) \in 1..Len(m) + 1 - 1 /\ m[Len(m)].value = "low" /\ m[Len(m)].did = ""
    <3>1. m[Len(m)].value = "low" /\ m[Len(m)].did = ""
      BY <1>2, <1>7 DEF Idle
    <3>2. Len(m) \in 1..Len(m) + 1 - 1
      BY <1>2
    <3> QED  BY <3>1, <3>2
  <2>2. NothingDone(m, Len(m), Len(m))
    <3>1. \A i \in Len(m)..Len(m) : i = Len(m)
      BY <1>2
    <3> QED  BY <2>1, <3>1 DEF NothingDone
  <2>3. CameBack(m, Len(m) + 1, Len(m))
    <3>1. PICK j : j = Len(m) + 1
      OBVIOUS
    <3>2. Len(m) \in 1..j - 1
      BY <1>2, <3>1
    <3>3. CameBack(m, j, Len(m))
      BY <2>1, <2>2, <3>2, CameBackBy, Zenon
    <3> QED  BY <3>1, <3>3
  <2> QED  BY <1>7, <2>3 DEF Measured
<1>8. ASSUME next.phase = "clear", e.value = "mid", st.phase = "unknown" PROVE Measured(m, next)
  <2>1. Len(m) \in 1..Len(m) + 1 - 1 /\ 1..Len(m) - 1 \subseteq 1..Len(l)
    BY <1>2
  <2>2. m[Len(m)].value = "mid" /\ m[Len(m)].did = ""
    BY <1>2, <1>8 DEF Idle
  <2>3. \A i \in 1..Len(l) : l[i].value = "doubt" /\ l[i].did = ""
    BY <1>1, <1>8 DEF Values
  <2>4. \A i \in 1..Len(m) - 1 : m[i].value = "doubt"
    BY <1>2, <2>1, <2>3
  <2>5. NothingDone(m, 1, Len(m))
    BY <1>2, <1>3, <2>2, <2>3 DEF NothingDone
  <2>6. CameBack(m, Len(m) + 1, Len(m))
    <3>1. PICK j : j = Len(m) + 1
      OBVIOUS
    <3>2. Len(m) \in 1..j - 1
      BY <1>2, <3>1
    <3>3. CameBack(m, j, Len(m))
      BY <2>2, <2>4, <2>5, <3>2, CameBackBy, Zenon
    <3> QED  BY <3>1, <3>3
  <2> QED  BY <1>8, <2>6 DEF Measured
<1> QED  BY <1>4, <1>5, <1>6, <1>7, <1>8

(* Past the limit, after the value had come back. *)
LEMMA StillPast ==
  ASSUME NEW l, NEW e, NEW m, NEW st, NextReading(l, e, m, st), e.value = "past",
         st.phase \in {"clear", "pending"},
         NEW since, since = IF st.phase = "clear" THEN e.at ELSE st.pendingSince
  PROVE  \E j \in 1..Len(m) :
           /\ m[j].at = since /\ \A i \in j..Len(m) : m[i].value = "past"
           /\ CameBack(m, j, Len(m) - 1)
           /\ Idle(e) => CameBack(m, j, Len(m)) /\ NothingDone(m, j, Len(m))
<1>1. NextEvent(l, e, m, st) /\ Values(l, st)
  BY DEF NextReading
<1>2. /\ Len(l) \in Nat /\ Len(m) = Len(l) + 1 /\ m[Len(m)] = e /\ Grows(l, e, m)
      /\ \A i \in 1..Len(l) : m[i] = l[i]
  BY <1>1, NextEventIs DEF NextEvent
<1>3. m[Len(m)].value = "past" /\ (Idle(e) => m[Len(m)].did = "")
  BY <1>2 DEF Idle
<1>4. CASE st.phase = "clear"
  <2>0. CameBack(l, Len(l) + 1, Len(l))
    BY <1>1, <1>4, Zenon DEF Values
  <2>1. Len(l) + 1 \in 1..Len(l) + 1 /\ Len(m) \in 1..Len(m) /\ Len(m) \in Len(l) + 1..Len(m) + 1
    BY <1>2
  <2>2. \A i \in Len(m)..Len(m) : i = Len(m)
    BY <1>2
  <2>3. m[Len(m)].at = since
    BY <1>2, <1>4
  <2>4. CameBack(m, Len(m), Len(m) - 1) /\ (Idle(e) => CameBack(m, Len(m), Len(m)))
    BY <1>2, <2>0, <2>1, CameBackStays
  <2>5. Idle(e) => NothingDone(m, Len(m), Len(m))
    BY <1>3, <2>2 DEF NothingDone
  <2> QED  BY <1>3, <2>1, <2>2, <2>3, <2>4, <2>5
<1>5. CASE st.phase = "pending"
  <2>1. PICK j \in 1..Len(l) : /\ l[j].at = st.pendingSince /\ CameBack(l, j, Len(l))
                               /\ NothingDone(l, j, Len(l))
                               /\ \A i \in j..Len(l) : l[i].value = "past"
    BY <1>1, <1>5 DEF Values
  <2>2. j \in 1..Len(m) /\ j \in 1..Len(l) + 1 /\ j \in j..Len(m) + 1
    BY <1>2
  <2>3. \A i \in j..Len(m) : (i \in 1..Len(l) /\ i \in j..Len(l)) \/ i = Len(m)
    BY <1>2
  <2>4. m[j].at = since
    BY <1>2, <1>5, <2>1
  <2>5. CameBack(m, j, Len(m) - 1) /\ (Idle(e) => CameBack(m, j, Len(m)))
    BY <1>2, <2>1, <2>2, CameBackStays
  <2>6. \A i \in j..Len(m) : m[i].value = "past"
    BY <1>2, <1>3, <2>1, <2>3
  <2>7. Idle(e) => NothingDone(m, j, Len(m))
    BY <1>2, <1>3, <2>1, <2>3 DEF NothingDone
  <2> QED  BY <2>2, <2>4, <2>5, <2>6, <2>7
<1> QED  BY <1>4, <1>5

(* A reading past the limit is held against the time since it began. *)
LEMMA PastReading ==
  ASSUME NEW l, NEW e, NEW m, NEW st, NextReading(l, e, m, st), e.value = "past",
         st.phase \in {"clear", "pending"}, NEW x, SameEvent(e, x),
         NEW o, o = ThresholdEvent(st, x), Done(e, o)
  PROVE  Reached(e, m, o.state) /\ o.state.suspended = st.suspended
<1>1. NextEvent(l, e, m, st) /\ Values(l, st)
  BY DEF NextReading
<1>2. /\ Len(m) \in Nat /\ m[Len(m)] = e /\ e.at \in Nat /\ st \in RuleState
      /\ Len(l) \in Nat /\ Len(m) = Len(l) + 1
  BY <1>1, NextEventIs
<1>3. x.value = "past" /\ x.at = e.at
  BY DEF SameEvent
<1>4. PICK since : since = IF st.phase = "clear" THEN e.at ELSE st.pendingSince
  OBVIOUS
<1>5. since \in Nat /\ Hold \in Nat
  <2>1. st.pendingSince \in Nat
    BY <1>2 DEF RuleState
  <2> QED  BY <1>2, <1>4, <2>1, TriggersAssumption
<1> DEFINE held == e.at - since >= Hold
<1>6. held \in BOOLEAN
  OBVIOUS
<1>7. PICK p, t : p = (IF held THEN "active" ELSE "pending") /\ t = (IF held THEN 0 ELSE since)
  OBVIOUS
<1> DEFINE next == [st EXCEPT !.phase = p, !.pendingSince = t]
<1>long. held => e.at - since >= Hold
  OBVIOUS
<1>8. o = Cooling(next, held, e.at)
  <2>1. ThresholdEvent(st, x) =
          CASE x.value = "doubt" ->
                 Outcome(IF st.phase = "pending"
                         THEN [st EXCEPT !.phase = "clear", !.pendingSince = 0] ELSE st, "")
            [] x.value # "doubt" /\ st.phase = "unknown" ->
                 Outcome([st EXCEPT !.phase = IF x.value = "past" THEN "active" ELSE "clear"], "")
            [] x.value # "doubt" /\ st.phase = "active" ->
                 Outcome([st EXCEPT !.phase = IF x.value = "low" THEN "clear" ELSE @], "")
            [] x.value # "doubt" /\ st.phase \in {"clear", "pending"} ->
                 IF x.value # "past"
                 THEN Outcome([st EXCEPT !.phase = "clear", !.pendingSince = 0], "")
                 ELSE Cooling(next, held, e.at)
    BY <1>3, <1>4, <1>7 DEF ThresholdEvent
  <2> HIDE DEF next, held
  <2> QED  BY <1>3, <2>1
<1>9. /\ next \in RuleState /\ next.phase = p /\ next.lastTrigger = st.lastTrigger
      /\ next.suspended = st.suspended /\ next.pendingSince = t
  <2>1. p \in Phases /\ t \in Nat
    BY <1>5, <1>7 DEF Phases
  <2>2. Moved(st, next, p, t)
    BY <1>2, <2>1, PhaseIs
  <2> HIDE DEF next
  <2> QED  BY <2>2 DEF Moved
<1> HIDE DEF next, held
<1>10. CooledDown(next, held, e.at, o)
  BY <1>2, <1>6, <1>8, <1>9, CoolingIs
<1>11. /\ o.state \in RuleState /\ o.state.phase = p /\ o.state.pendingSince = t
       /\ o.state.suspended = st.suspended
  BY <1>9, <1>10 DEF CooledDown
<1>12. Triggered(e, st, o.state)
  <2>1. Triggered(e, next, o.state)
    BY <1>10 DEF CooledDown, Triggered, Done
  <2> QED  BY <1>9, <2>1 DEF Triggered, Cooled
<1>13. ~Idle(e) <=> held
  BY <1>10 DEF CooledDown, Done, Idle
<1>14. PICK j \in 1..Len(m) :
         /\ m[j].at = since /\ \A i \in j..Len(m) : m[i].value = "past"
         /\ CameBack(m, j, Len(m) - 1)
         /\ Idle(e) => CameBack(m, j, Len(m)) /\ NothingDone(m, j, Len(m))
  BY <1>4, StillPast
<1>15. CASE held
  <2>1. o.state.phase = "active" /\ ~Idle(e)
    BY <1>7, <1>11, <1>13, <1>15
  <2>2. Measured(m, o.state)
    BY <2>1 DEF Measured
  <2>3. m[Len(m)].at - m[j].at >= Hold
    BY <1>2, <1>14, <1>15, <1>long
  <2>4. LongPast(m, Len(m))
    BY <1>14, <2>3 DEF LongPast
  <2>5. Reached(e, m, o.state)
    BY <1>11, <1>12, <2>1, <2>2, <2>4, ReadingTaken
  <2> QED  BY <1>11, <2>5
<1>16. CASE ~held
  <2>1. o.state.phase = "pending" /\ o.state.pendingSince = since /\ Idle(e)
    BY <1>7, <1>11, <1>13, <1>16
  <2>2. Measured(m, o.state)
    BY <1>14, <2>1 DEF Measured
  <2>3. o.state.lastTrigger = st.lastTrigger
    BY <1>12, <2>1 DEF Triggered, Idle
  <2>4. Reached(e, m, o.state)
    BY <1>11, <2>1, <2>2, <2>3, ReadingNoted
  <2> QED  BY <1>11, <2>4
<1> QED  BY <1>15, <1>16

(* Every other reading does nothing and changes at most the phase. *)
LEMMA OtherReading ==
  ASSUME NEW l, NEW e, NEW m, NEW st, NextReading(l, e, m, st),
         e.value # "past" \/ st.phase \in {"unknown", "active"}, NEW x, SameEvent(e, x),
         NEW o, o = ThresholdEvent(st, x), Done(e, o)
  PROVE  Reached(e, m, o.state) /\ o.state.suspended = st.suspended
<1>1. NextEvent(l, e, m, st) /\ Values(l, st) /\ e.value \in {"past", "mid", "low", "doubt"}
  BY DEF NextReading
<1>2. st \in RuleState
  BY <1>1, NextEventIs
<1>3. x.value = e.value
  BY DEF SameEvent
<1>4. st.phase \in {"unknown", "clear", "pending", "active"}
  BY <1>1, Zenon DEF Values
<1> DEFINE moved(p) == [st EXCEPT !.phase = p]
           back     == [st EXCEPT !.phase = "clear", !.pendingSince = 0]
<1>5. o = CASE x.value = "doubt" -> Outcome(IF st.phase = "pending" THEN back ELSE st, "")
            [] x.value # "doubt" /\ st.phase = "unknown" ->
                 Outcome(moved(IF x.value = "past" THEN "active" ELSE "clear"), "")
            [] x.value # "doubt" /\ st.phase = "active" ->
                 Outcome(moved(IF x.value = "low" THEN "clear" ELSE st.phase), "")
            [] x.value # "doubt" /\ st.phase \in {"clear", "pending"} ->
                 IF x.value # "past" THEN Outcome(back, "")
                 ELSE LET since == IF st.phase = "clear" THEN x.at ELSE st.pendingSince
                          held  == x.at - since >= Hold
                      IN Cooling([st EXCEPT !.phase = IF held THEN "active" ELSE "pending",
                                            !.pendingSince = IF held THEN 0 ELSE since],
                                 held, x.at)
  BY DEF ThresholdEvent
<1>6. /\ back \in RuleState /\ back.phase = "clear" /\ back.lastTrigger = st.lastTrigger
      /\ back.suspended = st.suspended
  <2>1. "clear" \in Phases
    BY DEF Phases
  <2>2. Moved(st, back, "clear", 0)
    BY <1>2, <2>1, PhaseIs
  <2> HIDE DEF back
  <2> QED  BY <2>2 DEF Moved
<1>7. \A p \in Phases :
        /\ moved(p) \in RuleState /\ moved(p).phase = p /\ moved(p).lastTrigger = st.lastTrigger
        /\ moved(p).suspended = st.suspended
  <2> SUFFICES ASSUME NEW p \in Phases
               PROVE  /\ moved(p) \in RuleState /\ moved(p).phase = p
                      /\ moved(p).lastTrigger = st.lastTrigger /\ moved(p).suspended = st.suspended
    OBVIOUS
  <2>1. Moved(st, moved(p), p, st.pendingSince)
    BY <1>2, PhaseIs
  <2> HIDE DEF moved
  <2> QED  BY <2>1 DEF Moved
<1> HIDE DEF moved, back
<1>8. PICK next :
        /\ o = Outcome(next, "")
        /\ next \in RuleState /\ next.lastTrigger = st.lastTrigger /\ next.suspended = st.suspended
        /\ \/ next.phase = "active"
           \/ next.phase = "unknown" /\ st.phase = "unknown" /\ e.value = "doubt"
           \/ next.phase = "clear" /\ \/ st.phase \in {"clear", "pending"}
                                      \/ e.value = "low"
                                      \/ e.value = "mid" /\ st.phase = "unknown"
  <2>1. CASE e.value = "doubt" /\ st.phase = "pending"
    <3>1. o = Outcome(back, "")
      BY <1>3, <1>5, <2>1
    <3> QED  BY <1>6, <2>1, <3>1
  <2>2. CASE e.value = "doubt" /\ st.phase # "pending"
    <3>1. o = Outcome(st, "")
      BY <1>3, <1>5, <2>2
    <3>2. st.phase \in {"unknown", "clear", "active"}
      BY <1>4, <2>2
    <3> QED  BY <1>2, <2>2, <3>1, <3>2
  <2>3. CASE e.value # "doubt" /\ st.phase = "unknown"
    <3>1. o = Outcome(moved(IF e.value = "past" THEN "active" ELSE "clear"), "")
      BY <1>3, <1>5, <2>3
    <3>2. CASE e.value = "past"
      <4>1. o = Outcome(moved("active"), "") /\ "active" \in Phases
        BY <3>1, <3>2 DEF Phases
      <4> QED  BY <1>7, <4>1
    <3>3. CASE e.value # "past"
      <4>1. o = Outcome(moved("clear"), "") /\ "clear" \in Phases
        BY <3>1, <3>3 DEF Phases
      <4>2. e.value \in {"mid", "low"}
        BY <1>1, <2>3, <3>3
      <4> QED  BY <1>7, <2>3, <4>1, <4>2
    <3> QED  BY <3>2, <3>3
  <2>4. CASE e.value # "doubt" /\ st.phase = "active"
    <3>1. o = Outcome(moved(IF e.value = "low" THEN "clear" ELSE "active"), "")
      BY <1>3, <1>5, <2>4
    <3>2. CASE e.value = "low"
      <4>1. o = Outcome(moved("clear"), "") /\ "clear" \in Phases
        BY <3>1, <3>2 DEF Phases
      <4> QED  BY <1>7, <3>2, <4>1
    <3>3. CASE e.value # "low"
      <4>1. o = Outcome(moved("active"), "") /\ "active" \in Phases
        BY <3>1, <3>3 DEF Phases
      <4> QED  BY <1>7, <4>1
    <3> QED  BY <3>2, <3>3
  <2>5. CASE e.value # "doubt" /\ st.phase \in {"clear", "pending"}
    <3>1. e.value # "past"
      BY <2>5
    <3>2. o = Outcome(back, "")
      BY <1>3, <1>5, <2>5, <3>1
    <3> QED  BY <1>6, <2>5, <3>2
  <2> QED  BY <1>4, <2>1, <2>2, <2>3, <2>4, <2>5
<1>9. o.state = next /\ Idle(e)
  BY <1>8, DoneIs DEF Idle
<1>10. Measured(m, next)
  BY <1>8, <1>9, StillMeasured
<1>11. Reached(e, m, next)
  BY <1>8, <1>9, <1>10, ReadingNoted
<1> QED  BY <1>8, <1>9, <1>11, Zenon

LEMMA ThresholdStep ==
  ASSUME NEW l, NEW e, NEW m, NEW st, NextReading(l, e, m, st), NEW x, SameEvent(e, x),
         NEW o, o = ThresholdEvent(st, x), Done(e, o)
  PROVE  Reached(e, m, o.state) /\ o.state.suspended = st.suspended
<1>1. st.phase \in {"unknown", "clear", "pending", "active"}
  BY Zenon DEF NextReading, Values
<1>2. CASE e.value = "past" /\ st.phase \in {"clear", "pending"}
  BY <1>2, PastReading
<1>3. CASE e.value # "past" \/ st.phase \in {"unknown", "active"}
  BY <1>3, OtherReading
<1> QED  BY <1>1, <1>2, <1>3

------------------------------------------------------------------------------
(* What the observers say.                                                 *)

(* The next word of an observer. *)
NextWord(l, e, m, st) ==
  /\ NextEvent(l, e, m, st) /\ Present(l, st)
  /\ e.from \in Observers /\ e.value \in {"present", "absent", "doubt"}

LEMMA LastWordsGrow ==
  ASSUME NEW l, NEW e, NEW m, NEW st, NextWord(l, e, m, st),
         NEW seen, seen = [st.seen EXCEPT ![e.from] = Said(e.value)]
  PROVE  LastWords(m, Len(m) - 1, st.seen) /\ LastWords(m, Len(m), seen)
<1>1. NextEvent(l, e, m, st) /\ LastWords(l, Len(l), st.seen) /\ e.from \in Observers
  BY DEF NextWord, Present
<1>2. /\ Len(l) \in Nat /\ Len(m) = Len(l) + 1 /\ m[Len(m)] = e
      /\ \A i \in 1..Len(l) : m[i] = l[i]
  BY <1>1, NextEventIs
<1>3. Said(e.value) \in {"unknown", "present", "absent"}
  BY DEF NextWord, Said
<1>4. /\ st.seen \in [Observers -> {"unknown", "present", "absent"}]
      /\ \A o \in Observers : (\A j \in 1..Len(l) : l[j].from # o) => st.seen[o] = "unknown"
      /\ \A j \in 1..Len(l) :
           (\A i \in j + 1..Len(l) : l[i].from # l[j].from) =>
             l[j].from \in Observers /\ st.seen[l[j].from] = Said(l[j].value)
  BY <1>1 DEF LastWords
<1>5. LastWords(m, Len(m) - 1, st.seen)
  <2>1. Len(m) - 1 = Len(l)
    BY <1>2
  <2>2. \A j \in 1..Len(l) : j + 1..Len(l) \subseteq 1..Len(l)
    BY <1>2
  <2>3. ASSUME NEW o \in Observers, \A j \in 1..Len(l) : m[j].from # o
        PROVE  st.seen[o] = "unknown"
    BY <1>2, <1>4, <2>3
  <2>4. ASSUME NEW j \in 1..Len(l), \A i \in j + 1..Len(l) : m[i].from # m[j].from
        PROVE  m[j].from \in Observers /\ st.seen[m[j].from] = Said(m[j].value)
    <3>1. \A i \in j + 1..Len(l) : l[i].from # l[j].from
      BY <1>2, <2>2, <2>4
    <3> QED  BY <1>2, <1>4, <3>1
  <2> QED  BY <1>4, <2>1, <2>3, <2>4 DEF LastWords
<1>6. /\ seen \in [Observers -> {"unknown", "present", "absent"}]
      /\ seen[e.from] = Said(e.value)
      /\ \A o \in Observers : o # e.from => seen[o] = st.seen[o]
  BY <1>1, <1>3, <1>4
<1>7. Len(m) \in 1..Len(m) /\ \A i \in 1..Len(m) : i \in 1..Len(l) \/ i = Len(m)
  BY <1>2
<1>8. ASSUME NEW o \in Observers, \A j \in 1..Len(m) : m[j].from # o PROVE seen[o] = "unknown"
  <2>1. o # e.from
    BY <1>2, <1>7, <1>8
  <2>2. \A j \in 1..Len(l) : l[j].from # o
    <3>1. \A j \in 1..Len(l) : j \in 1..Len(m)
      BY <1>2
    <3> QED  BY <1>2, <1>8, <3>1
  <2> QED  BY <1>4, <1>6, <2>1, <2>2
<1>9. ASSUME NEW j \in 1..Len(m), \A i \in j + 1..Len(m) : m[i].from # m[j].from
      PROVE  m[j].from \in Observers /\ seen[m[j].from] = Said(m[j].value)
  <2>1. CASE j = Len(m)
    BY <1>1, <1>2, <1>6, <2>1
  <2>2. CASE j \in 1..Len(l)
    <3>1. Len(m) \in j + 1..Len(m) /\ \A i \in j + 1..Len(l) : i \in j + 1..Len(m) /\ i \in 1..Len(l)
      BY <1>2, <2>2
    <3>2. l[j].from # e.from
      BY <1>2, <1>9, <2>2, <3>1
    <3>3. \A i \in j + 1..Len(l) : l[i].from # l[j].from
      BY <1>2, <1>9, <2>2, <3>1
    <3>4. l[j].from \in Observers /\ st.seen[l[j].from] = Said(l[j].value)
      BY <1>4, <2>2, <3>3
    <3> QED  BY <1>2, <1>6, <2>2, <3>2, <3>4
  <2> QED  BY <1>7, <2>1, <2>2
<1>10. LastWords(m, Len(m), seen)
  BY <1>6, <1>8, <1>9 DEF LastWords
<1> QED  BY <1>5, <1>10

WantedBy(k) == IF k = "arrives" THEN "present" ELSE "absent"

LEMMA PresenceStep ==
  ASSUME NEW l, NEW e, NEW m, NEW st, NextWord(l, e, m, st), NEW x, SameEvent(e, x),
         NEW o, o = PresenceEvent(st, x), Done(e, o)
  PROVE  /\ o.state \in RuleState /\ Spaced(m, o.state) /\ Present(m, o.state)
         /\ e.did = "fire" => Spread(m) /\ Changed(kind, m, Len(m))
         /\ o.state.suspended = st.suspended
<1>1. NextEvent(l, e, m, st) /\ Present(l, st) /\ e.from \in Observers
  BY DEF NextWord
<1>2. st \in RuleState /\ e.at \in Nat
  BY <1>1, NextEventIs
<1>3. x.value = e.value /\ x.at = e.at /\ x.from = e.from
  BY DEF SameEvent
<1>4. PICK seen : seen = [st.seen EXCEPT ![e.from] = Said(e.value)]
  OBVIOUS
<1>5. LastWords(m, Len(m) - 1, st.seen) /\ LastWords(m, Len(m), seen)
  BY <1>4, LastWordsGrow
<1>6. seen \in [Observers -> {"unknown", "present", "absent"}]
  BY <1>5 DEF LastWords
<1>7. PICK p : p = Combined(seen)
  OBVIOUS
<1>8. p \in Phases
  BY <1>7 DEF Combined, Phases
<1> DEFINE next  == [st EXCEPT !.seen = seen, !.phase = p]
           fires == next.phase # st.phase /\ next.phase = WantedBy(kind)
<1>9. fires \in BOOLEAN
  OBVIOUS
<1>10. o = Cooling(next, fires, e.at)
  <2>1. seen = [st.seen EXCEPT ![x.from] = IF x.value = "doubt" THEN "unknown" ELSE x.value]
    BY <1>3, <1>4 DEF Said
  <2> QED  BY <1>3, <1>7, <2>1 DEF PresenceEvent, WantedBy
<1>11. /\ next \in RuleState /\ next.phase = p /\ next.seen = seen
       /\ next.lastTrigger = st.lastTrigger /\ next.suspended = st.suspended
  BY <1>2, <1>6, <1>8 DEF RuleState, Phases
<1>12. fires => p # st.phase /\ p = WantedBy(kind)
  BY <1>11
<1> HIDE DEF next, fires
<1>13. CooledDown(next, fires, e.at, o)
  BY <1>2, <1>9, <1>10, <1>11, CoolingIs
<1>14. /\ o.state \in RuleState /\ o.state.phase = p /\ o.state.seen = seen
       /\ o.state.suspended = st.suspended
  BY <1>11, <1>13 DEF CooledDown
<1>15. Triggered(e, st, o.state)
  <2>1. Triggered(e, next, o.state)
    BY <1>13 DEF CooledDown, Triggered, Done
  <2> QED  BY <1>11, <2>1 DEF Triggered, Cooled
<1>16. Spaced(m, o.state) /\ (e.did = "fire" => Spread(m))
  BY <1>1, <1>15, EventSpread
<1>17. Present(m, o.state)
  BY <1>5, <1>7, <1>14 DEF Present
<1>18. e.did = "fire" => Changed(kind, m, Len(m))
  <2>1. e.did = "fire" => fires
    BY <1>13 DEF CooledDown, Done
  <2>2. st.phase = Combined(st.seen)
    BY <1>1 DEF Present
  <2>3. fires => Combined(st.seen) # WantedBy(kind) /\ Combined(seen) = WantedBy(kind)
    BY <1>7, <1>12, <2>2
  <2> QED  BY <1>5, <2>1, <2>3 DEF Changed, WantedBy
<1> QED  BY <1>14, <1>16, <1>17, <1>18

------------------------------------------------------------------------------
(* What the engine does with an outcome.                                   *)

IsOutcome(o) == o.did \in {"", "fire", "skip"}

LEMMA OutcomesAre ==
  ASSUME NEW st, NEW did \in {"", "fire", "skip"} PROVE IsOutcome(Outcome(st, did))
BY OutcomeIs DEF IsOutcome

LEMMA CoolingDoes == ASSUME NEW st, NEW fires, NEW at PROVE IsOutcome(Cooling(st, fires, at))
BY OutcomesAre DEF Cooling

LEMMA KeepsSuspended ==
  ASSUME NEW st, NEW did \in {"", "fire", "skip"}
  PROVE  IsOutcome(Outcome(st, did)) /\ Outcome(st, did).state.suspended = st.suspended
BY OutcomesAre, OutcomeOf

(* Samples do not suspend a rule. *)
LEMMA SampleKeeps ==
  ASSUME NEW st, st \in RuleState, NEW object, NEW at, NEW o,
         o = Confirm(st, object, at) \/ o = SequenceSample(st, object, at)
  PROVE  IsOutcome(o) /\ o.state.suspended = st.suspended
<1>1. \A s \in RuleState : /\ Absent(s, at).suspended = s.suspended
                           /\ Expired(s, at) \in RuleState /\ Expired(s, at).suspended = s.suspended
  <2>1. \A s \in RuleState : Absent(s, at).suspended = s.suspended
    BY DEF RuleState, Absent
  <2> QED  BY <2>1, DroppedIs
<1>2. CASE o = Confirm(st, object, at)
  <2> DEFINE n    == Min({Consecutive, st.hits + 1})
             hit  == [st EXCEPT !.absentSince = 0, !.hits = n]
             next == [hit EXCEPT !.latched = TRUE, !.lastTrigger = at]
  <2>1. \/ o = Outcome(Absent(st, at), "")
        \/ o = Outcome(hit, "")
        \/ o = Outcome(next, "fire")
    BY <1>2 DEF Confirm, Fired
  <2>2. hit.suspended = st.suspended /\ next.suspended = st.suspended
    <3> HIDE DEF n
    <3> QED  BY DEF RuleState
  <2> HIDE DEF n, hit, next
  <2>3. CASE o = Outcome(Absent(st, at), "")
    <3>1. PICK b : b = Absent(st, at)
      OBVIOUS
    <3>2. b.suspended = st.suspended /\ o = Outcome(b, "")
      BY <1>1, <2>3, <3>1
    <3> QED  BY <3>2, KeepsSuspended, Zenon
  <2>4. CASE o = Outcome(hit, "")
    BY <2>2, <2>4, KeepsSuspended, Zenon
  <2>5. CASE o = Outcome(next, "fire")
    BY <2>2, <2>5, KeepsSuspended, Zenon
  <2> QED  BY <2>1, <2>3, <2>4, <2>5
<1>3. CASE o = SequenceSample(st, object, at)
  <2>1. PICK s : s = Expired(st, at)
    OBVIOUS
  <2>2. s \in RuleState /\ s.suspended = st.suspended
    BY <1>1, <2>1
  <2> DEFINE none == [s EXCEPT !.absentSince = 0, !.hits = 0]
             hit  == [s EXCEPT !.absentSince = 0, !.hits = @ + 1]
             used == [hit EXCEPT !.candidate = 0, !.hits = 0]
             next == [used EXCEPT !.latched = TRUE, !.lastTrigger = at]
  <2>3. \/ o = Outcome(Absent(s, at), "")
        \/ o = Outcome(none, "")
        \/ o = Outcome(hit, "")
        \/ o = Outcome(next, "fire")
        \/ o = Outcome(used, "skip")
    BY <1>3, <2>1 DEF SequenceSample, Fired
  <2>4. /\ none.suspended = st.suspended /\ hit.suspended = st.suspended
        /\ used.suspended = st.suspended /\ next.suspended = st.suspended
    BY <2>2 DEF RuleState
  <2> HIDE DEF none, hit, used, next
  <2>5. CASE o = Outcome(Absent(s, at), "")
    <3>1. PICK b : b = Absent(s, at)
      OBVIOUS
    <3>2. b.suspended = st.suspended /\ o = Outcome(b, "")
      BY <1>1, <2>2, <2>5, <3>1
    <3> QED  BY <3>2, KeepsSuspended, Zenon
  <2>6. CASE o = Outcome(none, "")
    BY <2>4, <2>6, KeepsSuspended, Zenon
  <2>7. CASE o = Outcome(hit, "")
    BY <2>4, <2>7, KeepsSuspended, Zenon
  <2>8. CASE o = Outcome(next, "fire")
    BY <2>4, <2>8, KeepsSuspended, Zenon
  <2>9. CASE o = Outcome(used, "skip")
    BY <2>4, <2>9, KeepsSuspended, Zenon
  <2> QED  BY <2>3, <2>5, <2>6, <2>7, <2>8, <2>9
<1> QED  BY <1>2, <1>3

(* What counting is left after frames were missed. *)
LEMMA GapForgets ==
  ASSUME rule \in RuleState, last \in Nat, NEW k, NEW a, NEW l \in Seq(Entries),
         Appearances(k, a, l, rule, last), Spaced(l, rule), NEW at \in Nat,
         NEW st, st = AfterAGap(at)
  PROVE  /\ st \in RuleState /\ st.suspended = rule.suspended
         /\ Appearances(k, a, l, st, last) /\ Spaced(l, st)
         /\ \A e : e.at = at => Follows(e, last, st.hits) /\ Follows(e, last, st.absentSince)
<1>1. CASE last # 0 /\ at - last > MaxGap
  <2>1. PICK d : d = Dropped(rule)
    OBVIOUS
  <2>2. /\ d \in RuleState /\ d.latched = rule.latched /\ d.lastTrigger = rule.lastTrigger
        /\ d.suspended = rule.suspended /\ d.candidate = 0
    BY <2>1, DroppedIs
  <2>3. st = [d EXCEPT !.hits = 0, !.absentSince = 0]
    BY <1>1, <2>1 DEF AfterAGap
  <2>4. /\ st \in RuleState /\ st.latched = rule.latched /\ st.lastTrigger = rule.lastTrigger
        /\ st.suspended = rule.suspended /\ st.hits = 0 /\ st.absentSince = 0 /\ st.candidate = 0
    BY <2>2, <2>3 DEF RuleState
  <2>5. Appearances(k, a, l, st, last)
    BY <2>4, Weakened
  <2> QED  BY <2>4, <2>5 DEF Spaced, Follows
<1>2. CASE ~(last # 0 /\ at - last > MaxGap)
  <2>1. st = rule
    BY <1>2 DEF AfterAGap
  <2>2. MaxGap \in Nat
    BY TriggersAssumption
  <2>3. last # 0 => at - last <= MaxGap
    BY <1>2, <2>2
  <2> QED  BY <2>1, <2>3 DEF Follows
<1> QED  BY <1>1, <1>2

(* What was given is logged after what is remembered, with what was done. *)
LEMMA LoggedAs ==
  ASSUME log \in Seq(Entries), now \in Nat, NEW what \in {"frame", "event"}, NEW value \in Words,
         NEW from \in Sources, NEW at \in Nat, NEW o, IsOutcome(o),
         Apply(Entry(what, value, from, at), o)
  PROVE  /\ rule' = o.state
         /\ \E e : /\ Grows(Remembered, e, log') /\ Done(e, o)
                   /\ e.what = what /\ e.value = value /\ e.from = from /\ e.at = at
                   /\ e.did = "fire" => e.age = now - at
<1>1. PICK d : d = o.did
  OBVIOUS
<1>2. d \in {"", "fire", "skip"}
  BY <1>1 DEF IsOutcome
<1> DEFINE age == IF d = "fire" THEN now - at ELSE 0
           e   == [Entry(what, value, from, at) EXCEPT !.did = d, !.age = age]
<1>3. log' = Append(Remembered, e) /\ rule' = o.state
  <2>1. Entry(what, value, from, at).at = at
    BY DEF Entry
  <2> QED  BY <1>1, <2>1 DEF Apply
<1>4. age \in Int /\ (d = "fire" => age = now - at)
  OBVIOUS
<1> HIDE DEF age
<1>5. e \in Entries
  BY <1>2, <1>4 DEF Entry, Entries
<1>6. /\ e.what = what /\ e.value = value /\ e.from = from /\ e.at = at
      /\ e.age = age /\ e.did = d
  BY DEF Entry
<1> HIDE DEF e
<1>8. Remembered \in Seq(Entries)
  BY RememberedFrom
<1>9. Grows(Remembered, e, log')
  BY <1>3, <1>5, <1>8, Grown
<1>10. Done(e, o) /\ (e.did = "fire" => e.age = now - at)
  BY <1>1, <1>4, <1>6 DEF Done
<1> QED  BY <1>3, <1>6, <1>9, <1>10

------------------------------------------------------------------------------
(* The steps.                                                              *)

LEMMA CountingStarts == NewState \in RuleState /\ \A k, a : Story(k, a, <<>>, NewState, 0)
<1>1. /\ NewState.hits = 0 /\ NewState.latched = FALSE /\ NewState.absentSince = 0
      /\ NewState.phase = "unknown" /\ NewState.candidate = 0
      /\ NewState.seen = [o \in Observers |-> "unknown"]
  BY DEF NewState
<1>2. NewState \in RuleState
  <2>1. Never \in Int
    BY TriggersAssumption DEF Never
  <2> QED  BY <2>1 DEF NewState, RuleState
<1>3. <<>> \in Seq(Entries) /\ Len(<<>>) = 0 /\ Consecutive \in Nat
  BY TriggersAssumption
<1>4. \A i \in 1..Len(<<>>) : FALSE
  BY <1>3
<1> HIDE DEF NewState
<1>9. SUFFICES ASSUME NEW k, NEW a PROVE Story(k, a, <<>>, NewState, 0)
  BY <1>2
<1>5. Spaced(<<>>, NewState)
  BY <1>4 DEF Spaced
<1>6. Appearances(k, a, <<>>, NewState, 0)
  <2>1. FramesOf(<<>>) = {}
    BY <1>4 DEF FramesOf
  <2>2. InOrderTaken(a, <<>>, 0)
    BY <2>1 DEF InOrderTaken
  <2>3. InARow(<<>>, Len(<<>>) + 1, 0, 0) /\ Len(<<>>) + 1 \in 1..Len(<<>>) + 1
    <3>1. \A l \in Seq(Entries) : InARow(l, Len(l) + 1, 0, 0)
      BY NoRow
    <3>2. InARow(<<>>, Len(<<>>) + 1, 0, 0)
      BY <1>3, <3>1, Zenon
    <3> QED  BY <1>3, <3>2
  <2>4. Counting(k, <<>>, NewState)
    BY <1>1, <1>3, <2>3 DEF Counting
  <2>5. Leaving(<<>>, NewState)
    BY <1>1, <1>4 DEF Leaving
  <2>6. Settled(k, <<>>, NewState)
    BY <1>4 DEF Settled
  <2> QED  BY <2>2, <2>4, <2>5, <2>6 DEF Appearances
<1>7. Values(<<>>, NewState)
  BY <1>1, <1>4 DEF Values
<1>8. Present(<<>>, NewState)
  <2>1. LastWords(<<>>, Len(<<>>), NewState.seen)
    BY <1>1, <1>4 DEF LastWords
  <2>2. Observers # {} => NewState.phase = Combined(NewState.seen)
    BY <1>1 DEF Combined
  <2> QED  BY <2>1, <2>2 DEF Present
<1> QED  BY <1>2, <1>5, <1>6, <1>7, <1>8 DEF Story

(* The steps that change nothing of what a firing is judged by. *)
LEMMA FiresStay ==
  ASSUME FiresInv, UNCHANGED <<kind, armed, armedAt, last, rule, log>>, EchoInv'
  PROVE  FiresInv'
<1>1. Watching' <=> Watching
  BY DEF Watching
<1>2. /\ armed' \in BOOLEAN /\ armedAt' \in Nat /\ last' \in Nat /\ rule' \in RuleState
      /\ log' \in Seq(Entries) /\ Fair(kind, armedAt, log)'
  BY DEF FiresInv
<1>3. Watching' => Story(kind, armedAt, log, rule, last)'
  BY <1>1 DEF FiresInv
<1>4. ~Watching' => log' = <<>>
  BY <1>1 DEF FiresInv
<1> QED  BY <1>2, <1>3, <1>4 DEF FiresInv

(* The log is forgotten while the rule is not watching. *)
LEMMA Forgetting ==
  ASSUME FiresInv, EchoInv', log' = <<>>, ~Watching', armed' \in BOOLEAN, armedAt' \in Nat,
         last' \in Nat, rule' \in RuleState
  PROVE  FiresInv'
<1>1. log' \in Seq(Entries)
  OBVIOUS
<1>2. Fair(kind, armedAt, log)'
  BY DEF Fair
<1> QED  BY <1>1, <1>2 DEF FiresInv

LEMMA ArmFires == ASSUME FiresInv, EchoInv', Arm PROVE FiresInv'
<1>1. /\ armed' = TRUE /\ armedAt' = now /\ rule' = NewState /\ last' = 0 /\ log' = <<>>
  BY DEF Arm
<1>2. now \in Nat
  BY DEF FiresInv, EchoInv
<1>3. rule' \in RuleState /\ log' \in Seq(Entries) /\ Story(kind, armedAt, log, rule, last)'
  BY <1>1, CountingStarts
<1>4. Fair(kind, armedAt, log)'
  BY <1>1 DEF Fair
<1>5. Watching'
  BY <1>1 DEF Watching, NewState
<1> QED  BY <1>1, <1>2, <1>3, <1>4, <1>5 DEF FiresInv

LEMMA DisarmFires == ASSUME FiresInv, EchoInv', Disarm PROVE FiresInv'
<1>1. armed' = FALSE /\ log' = <<>> /\ UNCHANGED <<armedAt, last, rule>>
  BY DEF Disarm
<1>2. ~Watching'
  BY <1>1 DEF Watching
<1> QED  BY <1>1, <1>2, Forgetting DEF FiresInv

LEMMA SuspendFires == ASSUME FiresInv, EchoInv', Suspend PROVE FiresInv'
<1>1. /\ rule' = [Dropped(rule) EXCEPT !.suspended = TRUE] /\ log' = <<>>
      /\ UNCHANGED <<armed, armedAt, last>>
  BY DEF Suspend
<1>2. PICK d : d = Dropped(rule)
  OBVIOUS
<1>3. d \in RuleState
  BY <1>2, DroppedIs DEF FiresInv
<1>4. rule' \in RuleState /\ rule'.suspended = TRUE
  BY <1>1, <1>2, <1>3 DEF RuleState
<1>5. ~Watching'
  BY <1>4 DEF Watching
<1> QED  BY <1>1, <1>4, <1>5, Forgetting DEF FiresInv

LEMMA ExpireFires == ASSUME FiresInv, EchoInv', Expire PROVE FiresInv'
<1>1. /\ kind = "sequence" /\ Watching /\ rule' = Expired(rule, now)
      /\ UNCHANGED <<kind, armed, armedAt, last, log>>
  BY DEF Expire
<1>2. rule \in RuleState /\ log \in Seq(Entries) /\ Story(kind, armedAt, log, rule, last)
  BY <1>1 DEF FiresInv
<1>3. /\ rule' \in RuleState /\ rule'.latched = rule.latched /\ rule'.lastTrigger = rule.lastTrigger
      /\ rule'.absentSince = rule.absentSince /\ rule'.suspended = rule.suspended
      /\ \/ rule'.hits = rule.hits /\ rule'.candidate = rule.candidate
         \/ rule'.hits = 0 /\ rule'.candidate = 0
  BY <1>1, <1>2, DroppedIs
<1>4. Spaced(log, rule) /\ Appearances("sequence", armedAt, log, rule, last)
  BY <1>1, <1>2 DEF Story
<1>5. Spaced(log, rule') /\ Appearances("sequence", armedAt, log, rule', last)
  BY <1>2, <1>3, <1>4, Weakened DEF Spaced
<1>6. Story(kind, armedAt, log, rule, last)'
  BY <1>1, <1>5 DEF Story
<1>7. Watching'
  BY <1>1, <1>3 DEF Watching
<1>8. Fair(kind, armedAt, log)'
  BY <1>1 DEF FiresInv
<1> QED  BY <1>1, <1>2, <1>3, <1>6, <1>7, <1>8 DEF FiresInv

(* What the log and the state of the rule become when it was given e. *)
Judged(e, m, next) ==
  /\ next \in RuleState /\ next.suspended = rule.suspended /\ m \in Seq(Entries)
  /\ m[Len(m)] = e /\ m # <<>>
  /\ Story(kind, armedAt, m, next, last')
  /\ Fair(kind, armedAt, m)

LEMMA JudgedFires ==
  ASSUME FiresInv, EchoInv', Watching, NEW e, Judged(e, log', rule'), last' \in Nat,
         UNCHANGED <<kind, armed, armedAt>>
  PROVE  FiresInv'
<1>1. /\ rule' \in RuleState /\ rule'.suspended = rule.suspended /\ log' \in Seq(Entries)
      /\ Story(kind, armedAt, log', rule', last') /\ Fair(kind, armedAt, log')
  BY DEF Judged
<1>2. Story(kind, armedAt, log, rule, last)' /\ Fair(kind, armedAt, log)'
  BY <1>1
<1>3. Watching'
  BY <1>1 DEF Watching
<1> QED  BY <1>1, <1>2, <1>3 DEF FiresInv

(* Soon enough, and not too soon after the last firing. *)
LEMMA InTime ==
  ASSUME NEW a, NEW m, NEW e, m[Len(m)] = e, e.at >= a, Spread(m),
         e.age <= (IF e.what = "frame" THEN MaxGap ELSE Ttl)
  PROVE  Timely(a, m, Len(m))
BY DEF Timely, Spread

LEMMA FrameFires ==
  ASSUME FiresInv, Watching, kind \in {"vision", "sequence"}, NEW captured \in Nat,
         Fresh(captured), NEW object \in BOOLEAN, last' = captured,
         NEW st, st = AfterAGap(captured), NEW o,
         o = IF kind = "vision" THEN Confirm(st, object, captured)
             ELSE SequenceSample(st, object, captured),
         Apply(Entry("frame", IF object THEN "object" ELSE "empty", 0, captured), o)
  PROVE  \E e : Judged(e, log', rule')
<1>1. /\ rule \in RuleState /\ log \in Seq(Entries) /\ Story(kind, armedAt, log, rule, last)
      /\ armedAt \in Nat /\ last \in Nat /\ now \in Nat
  BY DEF FiresInv, EchoInv
<1>2. PICK l : l = Remembered
  OBVIOUS
<1>3. l \in Seq(Entries) /\ Story(kind, armedAt, l, rule, last)
  BY <1>1, <1>2, StoryRecalled
<1>4. Appearances(kind, armedAt, l, rule, last) /\ Spaced(l, rule)
  BY <1>3 DEF Story
<1>5. /\ st \in RuleState /\ st.suspended = rule.suspended
      /\ Appearances(kind, armedAt, l, st, last) /\ Spaced(l, st)
      /\ \A e : e.at = captured => Follows(e, last, st.hits) /\ Follows(e, last, st.absentSince)
  BY <1>1, <1>3, <1>4, GapForgets
<1>6. IsOutcome(o) /\ o.state.suspended = st.suspended
  BY <1>5, SampleKeeps
<1>7. PICK value : value = IF object THEN "object" ELSE "empty"
  OBVIOUS
<1>8. value \in Words /\ value \in {"object", "empty"} /\ ((value = "object") <=> object)
  <2>1. value \in {"object", "empty"} /\ ((value = "object") <=> object)
    <3>1. CASE object
      BY <1>7, <3>1
    <3>2. CASE ~object
      BY <1>7, <3>2
    <3> QED  BY <3>1, <3>2
  <2> QED  BY <2>1 DEF Words
<1>9. 0 \in Sources
  BY DEF Sources
<1>10. PICK e : /\ Grows(Remembered, e, log') /\ Done(e, o) /\ rule' = o.state
                /\ e.what = "frame" /\ e.value = value /\ e.from = 0 /\ e.at = captured
                /\ e.did = "fire" => e.age = now - captured
  BY <1>1, <1>6, <1>7, <1>8, <1>9, LoggedAs
<1>11. NextFrame(kind, armedAt, l, e, log', st, last)
  <2>1. Follows(e, last, st.hits) /\ Follows(e, last, st.absentSince)
    BY <1>5, <1>10
  <2>2. armedAt < captured /\ last < captured
    BY <1>1 DEF Fresh
  <2> QED  BY <1>1, <1>2, <1>5, <1>8, <1>10, <2>1, <2>2 DEF NextFrame
<1>12. FrameTaken(kind, armedAt, log', rule', captured)
  <2>1. object = (e.value = "object")
    BY <1>8, <1>10
  <2>2. e.did = o.did
    BY <1>10 DEF Done
  <2>3. CASE kind = "vision"
    <3>1. o = Confirm(st, e.value = "object", e.at)
      BY <1>10, <2>1, <2>3
    <3>2. FrameTaken("vision", armedAt, log', o.state, e.at)
      BY <1>11, <2>2, <2>3, <3>1, VisionStep
    <3> QED  BY <1>10, <2>3, <3>2, Zenon
  <2>4. CASE kind = "sequence"
    <3>1. o = SequenceSample(st, e.value = "object", e.at)
      BY <1>10, <2>1, <2>4
    <3>2. FrameTaken("sequence", armedAt, log', o.state, e.at)
      BY <1>11, <2>2, <2>4, <3>1, SequenceStep
    <3> QED  BY <1>10, <2>4, <3>2, Zenon
  <2> QED  BY <2>3, <2>4
<1>13. /\ rule' \in RuleState /\ Appearances(kind, armedAt, log', rule', captured)
       /\ Spaced(log', rule') /\ Justified(kind, armedAt, log')
  BY <1>12 DEF FrameTaken
<1>14. Story(kind, armedAt, log', rule', last')
  BY <1>13 DEF Story
<1>15. log' \in Seq(Entries) /\ log'[Len(log')] = e /\ log' # <<>>
  BY <1>10 DEF Grows
<1>16. Fair(kind, armedAt, log')
  <2>1. SUFFICES ASSUME log'[Len(log')].did = "fire"
                 PROVE  /\ Timely(armedAt, log', Len(log'))
                        /\ Appeared(armedAt, log', Len(log'))
                        /\ kind = "sequence" => InTheWindow(log', Len(log'))
    BY DEF Fair
  <2>2. /\ Appeared(armedAt, log', Len(log')) /\ Spread(log')
        /\ kind = "sequence" => InTheWindow(log', Len(log'))
    BY <1>13, <2>1 DEF Justified
  <2>3. e.at >= armedAt /\ e.age <= MaxGap /\ e.what = "frame"
    BY <1>1, <1>10, <1>15, <2>1 DEF Fresh
  <2>4. Timely(armedAt, log', Len(log'))
    BY <1>15, <2>2, <2>3, InTime
  <2> QED  BY <2>2, <2>4
<1>17. rule'.suspended = rule.suspended
  BY <1>5, <1>6, <1>10
<1> QED  BY <1>13, <1>14, <1>15, <1>16, <1>17 DEF Judged

LEMMA ObserveFires ==
  ASSUME FiresInv, EchoInv', NEW captured \in 1..now, NEW object \in BOOLEAN,
         Observe(captured, object)
  PROVE  FiresInv'
<1>1. /\ kind \in {"vision", "sequence"} /\ armed /\ Fresh(captured) /\ last' = captured
      /\ UNCHANGED <<kind, armed, armedAt>>
  BY DEF Observe
<1>2. captured \in Nat /\ armed \in BOOLEAN /\ armedAt \in Nat /\ rule \in RuleState
  BY DEF FiresInv, EchoInv
<1>3. CASE rule.suspended
  <2>1. UNCHANGED <<rule, log>>
    BY <1>3 DEF Observe
  <2>2. ~Watching /\ ~Watching'
    BY <1>1, <1>3, <2>1 DEF Watching
  <2>3. log' = <<>>
    BY <2>1, <2>2 DEF FiresInv
  <2> QED  BY <1>1, <1>2, <2>1, <2>2, <2>3, Forgetting
<1>4. CASE ~rule.suspended
  <2>1. PICK st, o :
          /\ st = AfterAGap(captured)
          /\ o = IF kind = "vision" THEN Confirm(st, object, captured)
                 ELSE SequenceSample(st, object, captured)
    OBVIOUS
  <2>2. Apply(Entry("frame", IF object THEN "object" ELSE "empty", 0, captured), o)
    BY <1>4, <2>1 DEF Observe
  <2>3. Watching
    BY <1>1, <1>4 DEF Watching
  <2>4. PICK e : Judged(e, log', rule')
    BY <1>1, <1>2, <2>1, <2>2, <2>3, FrameFires
  <2> QED  BY <1>1, <1>2, <2>3, <2>4, JudgedFires
<1> QED  BY <1>3, <1>4

(* What may have been received, for the kind of the rule. *)
LEMMA ReportsAre ==
  ASSUME kind \in Kinds, NEW x \in Report
  PROVE  /\ kind \in {"sequence", "sensor", "threshold", "sound", "arrives", "leaves"}
         /\ x.value \in Words /\ x.from \in Sources /\ x.at \in Nat
         /\ kind = "sequence" => x.value \in {"rise", "doubt"}
         /\ kind = "threshold" => x.value \in {"past", "mid", "low", "doubt"}
         /\ kind \in {"arrives", "leaves"} => /\ x.value \in {"present", "absent", "doubt"}
                                              /\ x.from \in Observers
<1>1. x.value \in Readings /\ x.from \in Named /\ x.at \in Nat
  BY DEF Report
<1>2. kind \in {"vision", "sequence", "sensor", "threshold", "sound", "arrives", "leaves", "none"}
  BY TriggersAssumption
<1>3. kind \in {"sequence", "sensor", "threshold", "sound", "arrives", "leaves"}
  <2>1. CASE kind \in {"vision", "none"}
    BY <1>1, <2>1 DEF Readings
  <2> QED  BY <1>2, <2>1
<1>4. /\ kind = "sequence" => x.value \in {"rise", "doubt"}
      /\ kind = "sensor" => x.value \in {"rise", "fall", "doubt"}
      /\ kind = "threshold" => x.value \in {"past", "mid", "low", "doubt"}
      /\ kind = "sound" => x.value \in {"loud", "echo", "doubt"}
      /\ kind \in {"arrives", "leaves"} => x.value \in {"present", "absent", "doubt"}
  BY <1>1 DEF Readings
<1>5. x.value \in Words
  BY <1>3, <1>4 DEF Words
<1>6. x.from \in Sources /\ (kind \in {"arrives", "leaves"} => x.from \in Observers)
  BY <1>1 DEF Named, Sources
<1> QED  BY <1>1, <1>3, <1>4, <1>5, <1>6

LEMMA EventDoes ==
  ASSUME kind \in Kinds, rule \in RuleState, NEW x \in Report,
         kind = "threshold" => rule.phase \in {"unknown", "clear", "pending", "active"}
  PROVE  IsOutcome(EventOutcome(x))
<1>1. /\ kind \in {"sequence", "sensor", "threshold", "sound", "arrives", "leaves"}
      /\ kind = "sequence" => x.value \in {"rise", "doubt"}
      /\ kind = "threshold" => x.value \in {"past", "mid", "low", "doubt"}
  BY ReportsAre
<1>2. \A st : IsOutcome(Outcome(st, ""))
  BY OutcomesAre
<1>3. CASE kind = "sequence"
  <2>1. EventOutcome(x) = SequenceEvent(rule, x)
    BY <1>3 DEF EventOutcome
  <2>2. IsOutcome(SequenceEvent(rule, x))
    BY <1>1, <1>2, <1>3 DEF SequenceEvent
  <2> QED  BY <2>1, <2>2
<1>4. CASE kind = "sensor"
  <2>1. EventOutcome(x) = Cooling(rule, x.value = "rise", x.at)
    BY <1>4 DEF EventOutcome
  <2> QED  BY <2>1, CoolingDoes
<1>5. CASE kind = "threshold"
  <2>1. EventOutcome(x) = ThresholdEvent(rule, x)
    BY <1>5 DEF EventOutcome
  <2>2. rule.phase \in {"unknown", "clear", "pending", "active"}
    BY <1>5
  <2>3. \A st, fires, at : IsOutcome(Cooling(st, fires, at))
    BY CoolingDoes
  <2>4. IsOutcome(ThresholdEvent(rule, x))
    BY <1>2, <2>2, <2>3 DEF ThresholdEvent
  <2> QED  BY <2>1, <2>4
<1>6. CASE kind = "sound"
  <2>1. EventOutcome(x) = Cooling(rule, x.value # "doubt" /\ ~Playing(x.at), x.at)
    BY <1>6 DEF EventOutcome
  <2> QED  BY <2>1, CoolingDoes
<1>7. CASE kind \in {"arrives", "leaves"}
  <2>1. EventOutcome(x) = PresenceEvent(rule, x)
    BY <1>7 DEF EventOutcome
  <2>2. IsOutcome(PresenceEvent(rule, x))
    BY CoolingDoes DEF PresenceEvent
  <2> QED  BY <2>1, <2>2
<1> QED  BY <1>1, <1>3, <1>4, <1>5, <1>6, <1>7

(* What is left to show of an event, by the kind of the rule. *)
Told(e, m, next) ==
  /\ next \in RuleState /\ next.suspended = rule.suspended /\ Spaced(m, next)
  /\ kind = "sequence" => Appearances(kind, armedAt, m, next, last) /\ Idle(e)
  /\ kind = "threshold" => Values(m, next)
  /\ kind \in {"arrives", "leaves"} => Present(m, next)
  /\ e.did = "fire" => /\ Spread(m)
                       /\ kind = "sensor" => e.value = "rise"
                       /\ kind = "threshold" => LongPast(m, Len(m))
                       /\ kind \in {"arrives", "leaves"} => Changed(kind, m, Len(m))

LEMMA EventTold ==
  ASSUME FiresInv, NEW x \in Report, NEW o, o = EventOutcome(x),
         NEW l, NEW e, NEW m, Grows(l, e, m), e.what = "event", SameEvent(e, x), Done(e, o),
         Story(kind, armedAt, l, rule, last)
  PROVE  Told(e, m, o.state)
<1>1. rule \in RuleState /\ armedAt \in Nat /\ last \in Nat /\ kind \in Kinds
  BY DEF FiresInv, EchoInv
<1>2. NextEvent(l, e, m, rule)
  BY <1>1 DEF NextEvent, Story
<1>3. x.value = e.value /\ x.at = e.at /\ x.from = e.from
  BY DEF SameEvent
<1>4. /\ kind \in {"sequence", "sensor", "threshold", "sound", "arrives", "leaves"}
      /\ kind = "sequence" => e.value \in {"rise", "doubt"}
      /\ kind = "threshold" => e.value \in {"past", "mid", "low", "doubt"}
      /\ kind \in {"arrives", "leaves"} => /\ e.value \in {"present", "absent", "doubt"}
                                           /\ e.from \in Observers
  BY <1>1, <1>3, ReportsAre
<1>5. e.at \in Nat
  BY <1>2, NextEventIs
<1>6. ASSUME kind \in {"sensor", "sound"}, NEW fires \in BOOLEAN, o = Cooling(rule, fires, e.at),
             fires /\ kind = "sensor" => e.value = "rise"
      PROVE  Told(e, m, o.state)
  <2>1. /\ o.state \in RuleState /\ Spaced(m, o.state)
        /\ e.did = "fire" => Spread(m) /\ fires
    BY <1>2, <1>6, PlainEvent
  <2>2. CooledDown(rule, fires, e.at, o)
    BY <1>1, <1>5, <1>6, CoolingIs
  <2>3. o.state.suspended = rule.suspended
    BY <2>2 DEF CooledDown
  <2> QED  BY <1>6, <2>1, <2>3 DEF Told
<1>7. CASE kind = "sensor"
  <2>1. o = Cooling(rule, e.value = "rise", e.at) /\ (e.value = "rise") \in BOOLEAN
    BY <1>3, <1>7 DEF EventOutcome
  <2> QED  BY <1>6, <1>7, <2>1
<1>8. CASE kind = "sound"
  <2>1. /\ o = Cooling(rule, e.value # "doubt" /\ ~Playing(e.at), e.at)
        /\ (e.value # "doubt" /\ ~Playing(e.at)) \in BOOLEAN
    BY <1>3, <1>8 DEF EventOutcome
  <2> QED  BY <1>6, <1>8, <2>1
<1>9. CASE kind = "sequence"
  <2>1. o = SequenceEvent(rule, x)
    BY <1>9 DEF EventOutcome
  <2>2. Appearances("sequence", armedAt, l, rule, last)
    BY <1>9 DEF Story
  <2>3. /\ o.state \in RuleState /\ Spaced(m, o.state) /\ Idle(e)
        /\ Appearances("sequence", armedAt, m, o.state, last) /\ o.state.suspended = rule.suspended
    BY <1>1, <1>2, <1>4, <1>9, <2>1, <2>2, SequenceTold
  <2>4. e.did # "fire"
    BY <2>3 DEF Idle
  <2> QED  BY <1>9, <2>3, <2>4 DEF Told
<1>10. CASE kind = "threshold"
  <2>1. o = ThresholdEvent(rule, x)
    BY <1>10 DEF EventOutcome
  <2>2. NextReading(l, e, m, rule)
    BY <1>2, <1>4, <1>10 DEF NextReading, Story
  <2>3. Reached(e, m, o.state) /\ o.state.suspended = rule.suspended
    BY <2>1, <2>2, ThresholdStep
  <2> QED  BY <1>10, <2>3 DEF Told, Reached
<1>11. CASE kind \in {"arrives", "leaves"}
  <2>1. o = PresenceEvent(rule, x)
    BY <1>11 DEF EventOutcome
  <2>2. NextWord(l, e, m, rule)
    BY <1>2, <1>4, <1>11 DEF NextWord, Story
  <2>3. /\ o.state \in RuleState /\ Spaced(m, o.state) /\ Present(m, o.state)
        /\ e.did = "fire" => Spread(m) /\ Changed(kind, m, Len(m))
        /\ o.state.suspended = rule.suspended
    BY <2>1, <2>2, PresenceStep
  <2> QED  BY <1>11, <2>3 DEF Told
<1> QED  BY <1>4, <1>7, <1>8, <1>9, <1>10, <1>11

LEMMA EventJudged ==
  ASSUME FiresInv, Watching, NEW x \in Report, x.at >= armedAt, now - x.at <= Ttl, last' = last,
         Apply(Entry("event", x.value, x.from, x.at), EventOutcome(x))
  PROVE  \E e : Judged(e, log', rule')
<1>1. /\ rule \in RuleState /\ log \in Seq(Entries) /\ Story(kind, armedAt, log, rule, last)
      /\ armedAt \in Nat /\ now \in Nat /\ kind \in Kinds
  BY DEF FiresInv, EchoInv
<1>2. PICK l : l = Remembered
  OBVIOUS
<1>3. l \in Seq(Entries) /\ Story(kind, armedAt, l, rule, last)
  BY <1>1, <1>2, StoryRecalled
<1>4. PICK o : o = EventOutcome(x)
  OBVIOUS
<1>5. IsOutcome(o)
  <2>1. kind = "threshold" => rule.phase \in {"unknown", "clear", "pending", "active"}
    BY <1>1 DEF Story, Values
  <2> QED  BY <1>1, <1>4, <2>1, EventDoes
<1>6. /\ x.value \in Words /\ x.from \in Sources /\ x.at \in Nat
      /\ kind \in {"sequence", "sensor", "threshold", "sound", "arrives", "leaves"}
  BY <1>1, ReportsAre
<1>7. PICK e : /\ Grows(l, e, log') /\ Done(e, o) /\ rule' = o.state
               /\ e.what = "event" /\ e.value = x.value /\ e.from = x.from /\ e.at = x.at
               /\ e.did = "fire" => e.age = now - x.at
  BY <1>1, <1>2, <1>4, <1>5, <1>6, LoggedAs
<1>8. SameEvent(e, x)
  BY <1>7 DEF SameEvent
<1>9. Told(e, log', rule')
  BY <1>3, <1>4, <1>7, <1>8, EventTold
<1>10. log' \in Seq(Entries) /\ log'[Len(log')] = e /\ log' # <<>>
  BY <1>7 DEF Grows
<1>11. Story(kind, armedAt, log', rule', last')
  BY <1>6, <1>9 DEF Told, Story
<1>12. Fair(kind, armedAt, log')
  <2>1. SUFFICES ASSUME e.did = "fire"
                 PROVE  /\ Timely(armedAt, log', Len(log'))
                        /\ kind \notin {"vision", "sequence"}
                        /\ kind = "sensor" => e.value = "rise"
                        /\ kind = "threshold" => LongPast(log', Len(log'))
                        /\ kind \in {"arrives", "leaves"} => Changed(kind, log', Len(log'))
    BY <1>10 DEF Fair
  <2>2. Timely(armedAt, log', Len(log'))
    <3>1. Spread(log') /\ e.at >= armedAt
      BY <1>7, <1>9, <2>1 DEF Told
    <3>2. e.age <= (IF e.what = "frame" THEN MaxGap ELSE Ttl)
      BY <1>7, <2>1
    <3> QED  BY <1>10, <3>1, <3>2, InTime
  <2> QED  BY <1>6, <1>9, <2>1, <2>2 DEF Told, Idle
<1>13. rule' \in RuleState /\ rule'.suspended = rule.suspended
  BY <1>9 DEF Told
<1> QED  BY <1>10, <1>11, <1>12, <1>13 DEF Judged

LEMMA ObserveEventFires == ASSUME FiresInv, EchoInv', ObserveEvent PROVE FiresInv'
<1>1. inbox # <<>> /\ UNCHANGED <<kind, armed, armedAt, last>>
  BY DEF ObserveEvent
<1>2. PICK x : x = Head(inbox)
  OBVIOUS
<1>3. x \in Report
  BY <1>1, <1>2 DEF FiresInv, EchoInv
<1>4. CASE Watching /\ x.at >= armedAt /\ now - x.at <= Ttl
  <2>1. Apply(Entry("event", x.value, x.from, x.at), EventOutcome(x))
    BY <1>2, <1>4 DEF ObserveEvent
  <2>2. PICK e : Judged(e, log', rule')
    BY <1>1, <1>3, <1>4, <2>1, EventJudged
  <2>3. last' \in Nat
    BY <1>1 DEF FiresInv
  <2> QED  BY <1>1, <1>4, <2>2, <2>3, JudgedFires
<1>5. CASE ~(Watching /\ x.at >= armedAt /\ now - x.at <= Ttl)
  <2>1. UNCHANGED <<rule, log>>
    BY <1>2, <1>5 DEF ObserveEvent
  <2> QED  BY <1>1, <2>1, FiresStay
<1> QED  BY <1>4, <1>5

LEMMA FiresStart == ASSUME Init PROVE FiresInv
<1>1. /\ armed = FALSE /\ armedAt = 0 /\ last = 0 /\ rule = NewState /\ log = <<>>
  BY DEF Init
<1>2. EchoInv
  BY EchoStart
<1>3. rule \in RuleState /\ log \in Seq(Entries) /\ ~Watching
  BY <1>1, CountingStarts DEF Watching
<1>4. Fair(kind, armedAt, log)
  BY <1>1 DEF Fair
<1> QED  BY <1>1, <1>2, <1>3, <1>4 DEF FiresInv

LEMMA FiresKept == FiresInv /\ [Next]_vars => FiresInv'
<1> SUFFICES ASSUME FiresInv, [Next]_vars PROVE FiresInv'
  OBVIOUS
<1>1. EchoInv'
  BY EchoKept DEF FiresInv
<1> DEFINE Unjudged == UNCHANGED <<kind, armed, armedAt, last, rule, log>>
<1>2. CASE Arm \/ Disarm \/ Suspend \/ Expire \/ ObserveEvent
  BY <1>1, <1>2, ArmFires, DisarmFires, SuspendFires, ExpireFires, ObserveEventFires
<1>3. ASSUME NEW captured \in 1..now, NEW object \in BOOLEAN, Observe(captured, object) PROVE FiresInv'
  BY <1>1, <1>3, ObserveFires
<1>4. CASE Tick \/ SpeechExpires \/ SpeechEnds
  <2>1. Unjudged
    BY <1>4 DEF Tick, SpeechExpires, SpeechEnds
  <2> QED  BY <1>1, <2>1, FiresStay
<1>5. ASSUME NEW value, NEW from, Receive(value, from) PROVE FiresInv'
  <2>1. Unjudged
    BY <1>5 DEF Receive
  <2> QED  BY <1>1, <2>1, FiresStay
<1>6. ASSUME NEW n, Speak(n) PROVE FiresInv'
  <2>1. Unjudged
    BY <1>6 DEF Speak
  <2> QED  BY <1>1, <2>1, FiresStay
<1>7. CASE UNCHANGED ruleVars
  <2>1. Unjudged
    BY <1>7 DEF ruleVars
  <2> QED  BY <1>1, <2>1, FiresStay
<1>8. CASE Speaking \/ UNCHANGED vars
  <2>1. UNCHANGED ruleVars
    BY <1>8 DEF Speaking, vars
  <2> QED  BY <1>7, <2>1
<1> QED  BY <1>2, <1>3, <1>4, <1>5, <1>6, <1>7, <1>8 DEF Next

------------------------------------------------------------------------------
(* From what holds of the log to the words of the property.                 *)

(* The samples of a stretch are as unbroken as they have no gap. *)
LEMMA NoGapIsUnbroken ==
  ASSUME log \in Seq(Entries), NEW js \in SUBSET (1..Len(log)), NoGap(log, js)
  PROVE  Unbroken(js)
<1> SUFFICES ASSUME NEW j \in js, j # Min(js)
             PROVE  log[j].at - log[Max({k \in js : k < j})].at <= MaxGap
  BY DEF Unbroken
<1>1. js \in SUBSET Nat /\ js # {} /\ j \in Nat /\ Len(log) \in Nat
  OBVIOUS
<1>2. Min(js) \in js /\ Min(js) <= j
  BY <1>1, MinOf
<1> DEFINE before == {k \in js : k < j}
<1>3. before \in SUBSET (0..Len(log)) /\ before # {}
  <2>1. Min(js) \in Nat
    BY <1>1, <1>2
  <2>2. Min(js) \in before
    BY <1>1, <1>2, <2>1
  <2>3. \A x \in before : x \in 0..Len(log)
    OBVIOUS
  <2> HIDE DEF before
  <2> QED  BY <2>2, <2>3
<1>4. PICK i : i = Max(before)
  OBVIOUS
<1>5. i \in before /\ \A x \in before : x <= i
  BY <1>1, <1>3, <1>4, MaxOf
<1>6. i \in js /\ i < j /\ \A x \in js : x <= i \/ j <= x
  <2>1. \A x \in js : x \in Nat
    BY <1>1
  <2> QED  BY <1>1, <1>5, <2>1
<1>7. log[j].at - log[i].at <= MaxGap
  BY <1>6 DEF NoGap
<1> QED  BY <1>4, <1>7

(* Frames that were taken one after another are that many moments. *)
LEMMA EachAnotherFrame ==
  ASSUME log \in Seq(Entries), NEW a, NEW top, InOrderTaken(a, log, top), NEW s
  PROVE  Cardinality({log[j].at : j \in FramesFrom(log, s)}) = Cardinality(FramesFrom(log, s))
<1> DEFINE S == FramesFrom(log, s)
           T == {log[j].at : j \in S}
           f == [j \in S |-> log[j].at]
<1>1. IsFiniteSet(S) /\ S \subseteq FramesOf(log) /\ FramesOf(log) \subseteq 1..Len(log)
      /\ \A i \in 1..Len(log) : log[i].at \in Nat
  BY FramesAre
<1>2. \A i, j \in S : f[i] = f[j] => i = j
  <2> SUFFICES ASSUME NEW i \in S, NEW j \in S, log[i].at = log[j].at, i # j PROVE FALSE
    OBVIOUS
  <2>1. i \in FramesOf(log) /\ j \in FramesOf(log) /\ log[i].at \in Nat /\ log[j].at \in Nat
    BY <1>1
  <2>2. i \in Nat /\ j \in Nat
    BY <1>1
  <2>3. i < j \/ j < i
    BY <2>2
  <2>4. log[i].at < log[j].at \/ log[j].at < log[i].at
    BY <2>1, <2>3 DEF InOrderTaken
  <2> QED  BY <2>1, <2>4
<1> HIDE DEF S
<1>3. f \in [S -> T] /\ \A t \in T : \E j \in S : f[j] = t
  OBVIOUS
<1> HIDE DEF T, f
<1>4. f \in Bijection(S, T)
  BY <1>2, <1>3 DEF Bijection, Injection, IsInjective, Surjection
<1>5. ExistsBijection(S, T)
  BY <1>4 DEF ExistsBijection
<1> QED  BY <1>1, <1>5, FS_Bijection DEF S, T

LEMMA AppearedIsSighted ==
  ASSUME log \in Seq(Entries), armedAt \in Nat, Appeared(armedAt, log, Len(log))
  PROVE  Sighted(Len(log))
<1> DEFINE n == Len(log)
<1>1. n \in Nat /\ log[n].what = "frame" /\ InOrderTaken(armedAt, log, log[n].at)
  BY DEF Appeared
<1>2. PICK s \in 1..n + 1 : InARow(log, s, 0, Consecutive)
  BY DEF Appeared
<1>3. PICK js : js = FramesFrom(log, s)
  OBVIOUS
<1>4. js \subseteq FramesOf(log) /\ FramesOf(log) \subseteq 1..n /\ FramesOf(log) = Upto(n, "frame")
      /\ IsFiniteSet(js)
  BY <1>3, FramesAre DEF Upto, FramesOf
<1>5. /\ \A j \in js : log[j].value = "object" /\ log[j].at > armedAt
      /\ NoGap(log, js) /\ Cardinality(js) = Consecutive
  <2>1. \A j \in js : log[j].value = "object" /\ armedAt < log[j].at /\ log[j].at \in Nat
    BY <1>1, <1>2, <1>3, <1>4, FramesAre DEF InARow, InOrderTaken
  <2> QED  BY <1>2, <1>3, <2>1 DEF InARow
<1>6. Unbroken(js)
  <2>1. js \in SUBSET (1..Len(log))
    BY <1>4
  <2> QED  BY <1>5, <2>1, NoGapIsUnbroken
<1>7. Cardinality({log[j].at : j \in js}) = Consecutive
  BY <1>1, <1>3, <1>5, EachAnotherFrame
<1>8. js # {}
  <2>1. Consecutive # 0
    BY TriggersAssumption
  <2> QED  BY <1>5, <2>1, FS_EmptySet
<1>9. n \in js
  <2>1. PICK j \in js : j \in 1..n /\ s <= j
    BY <1>3, <1>4, <1>8 DEF FramesFrom
  <2>2. s <= n /\ n \in 1..n
    BY <1>1, <2>1
  <2>3. n \in FramesOf(log)
    BY <1>1, <2>2 DEF FramesOf
  <2> QED  BY <1>3, <2>2, <2>3 DEF FramesFrom
<1>10. ASSUME NEW j \in Upto(n, "frame"), j >= Min(js) PROVE j \in js
  <2>1. js \in SUBSET Nat
    BY <1>1, <1>4
  <2>2. Min(js) \in js
    BY <1>8, <2>1, MinOf
  <2>3. s <= Min(js) /\ Min(js) \in Nat /\ j \in Nat
    BY <1>3, <1>4, <2>1, <2>2 DEF FramesFrom
  <2>4. s <= j
    BY <1>2, <1>10, <2>3
  <2> QED  BY <1>3, <1>4, <2>4 DEF FramesFrom
<1> HIDE DEF n
<1>11. js \in SUBSET Upto(n, "frame")
  BY <1>4
<1>12. Sighted(n)
  BY <1>5, <1>6, <1>7, <1>9, <1>10, <1>11 DEF Sighted
<1> QED  BY <1>12 DEF n

LEMMA AwayIsAwaySince ==
  ASSUME log \in Seq(Entries), NEW h \in 1..Len(log), Away(log, h)
  PROVE  AwaySince(h, Len(log))
<1>1. PICK s \in FramesOf(log), t \in FramesOf(log) :
        /\ h < s /\ s <= t /\ log[t].at - log[s].at >= Rearm
        /\ \A j \in FramesWithin(log, s, t) : log[j].value = "empty"
        /\ NoGap(log, FramesWithin(log, s, t))
  BY DEF Away
<1>2. PICK js : js = FramesWithin(log, s, t)
  OBVIOUS
<1>3. Len(log) \in Nat /\ FramesOf(log) \subseteq 1..Len(log) /\ FramesOf(log) = Upto(Len(log), "frame")
  BY FramesAre DEF Upto, FramesOf
<1>4. /\ js \in SUBSET (1..Len(log)) /\ js \in SUBSET Nat /\ js \in SUBSET (0..Len(log))
      /\ js \subseteq FramesOf(log) /\ js # {} /\ s \in js /\ t \in js
      /\ \A j \in js : s <= j /\ j <= t
  BY <1>1, <1>2, <1>3 DEF FramesWithin
<1>5. Min(js) = s
  <2>1. Min(js) \in js /\ Min(js) <= s /\ s <= Min(js)
    BY <1>4, MinOf
  <2>2. Min(js) \in Nat /\ s \in Nat
    BY <1>4, <2>1
  <2> QED  BY <2>1, <2>2
<1>6. Max(js) = t
  <2>1. Max(js) \in js /\ t <= Max(js) /\ Max(js) <= t
    BY <1>3, <1>4, MaxOf
  <2>2. Max(js) \in Nat /\ t \in Nat
    BY <1>4, <2>1
  <2> QED  BY <2>1, <2>2
<1>7. Unbroken(js)
  BY <1>1, <1>2, <1>4, NoGapIsUnbroken
<1>8. js \in SUBSET {j \in Upto(Len(log), "frame") : j > h}
  BY <1>1, <1>3, <1>4
<1>9. \A j \in Upto(Len(log), "frame") : j >= Min(js) /\ j <= Max(js) => j \in js
  <2>1. \A j \in Upto(Len(log), "frame") : j \in FramesOf(log) /\ j \in Nat
    BY <1>3
  <2>2. s \in Nat
    BY <1>4
  <2> QED  BY <1>2, <1>5, <1>6, <2>1, <2>2 DEF FramesWithin
<1> QED  BY <1>1, <1>2, <1>4, <1>5, <1>6, <1>7, <1>8, <1>9 DEF AwaySince

(* Where something was done last. *)
LEMMA LastDoneIs ==
  ASSUME log \in Seq(Entries), NEW j \in 1..Len(log), NothingDone(log, j, Len(log) - 1)
  PROVE  LastDone(Len(log)) < j /\ (j = 1 => LastDone(Len(log)) = 0)
<1>1. Len(log) \in Nat
  OBVIOUS
<1> DEFINE done == {i \in 1..Len(log) - 1 : log[i].did # ""}
<1>2. ({0} \cup done) \in SUBSET (0..Len(log)) /\ {0} \cup done # {}
  <2>1. done \subseteq 1..Len(log) - 1
    BY Zenon
  <2> HIDE DEF done
  <2>2. \A i \in 1..Len(log) - 1 : i \in 0..Len(log)
    BY <1>1
  <2> QED  BY <1>1, <2>1, <2>2
<1>3. PICK d : d = LastDone(Len(log))
  OBVIOUS
<1>4. d \in {0} \cup done
  <2>1. d = Max({0} \cup done)
    BY <1>3 DEF LastDone
  <2> HIDE DEF done
  <2> QED  BY <1>1, <1>2, <2>1, MaxOf
<1>5. CASE d = 0
  BY <1>3, <1>5
<1>6. CASE d \in done
  <2>0. log[d].did # ""
    BY <1>6, Zenon
  <2>1. d \in 1..Len(log) - 1
    BY <1>6, Zenon
  <2>2. ~(j <= d)
    <3>1. SUFFICES ASSUME j <= d PROVE FALSE
      OBVIOUS
    <3>2. d \in j..Len(log) - 1
      BY <1>1, <2>1, <3>1
    <3>3. log[d].did = ""
      BY <3>2, Zenon DEF NothingDone
    <3> QED  BY <2>0, <3>3, Zenon
  <2>3. d < j /\ j # 1
    <3> HIDE DEF done
    <3> QED  BY <1>1, <2>1, <2>2
  <2> QED  BY <1>3, <2>3
<1> QED  BY <1>4, <1>5, <1>6

LEMMA InTheWindowIsConfirmed ==
  ASSUME log \in Seq(Entries), InTheWindow(log, Len(log)) PROVE Confirmed(Len(log))
<1>1. Len(log) \in Nat
  OBVIOUS
<1>2. PICK j \in 1..Len(log) - 1 :
        /\ StillOpen(log, j, log[j].at) /\ NothingDone(log, j, Len(log) - 1)
        /\ log[Len(log)].at > log[j].at /\ log[Len(log)].at <= log[j].at + Within
        /\ \E s \in j + 1..Len(log) + 1 : InARow(log, s, log[j].at, Consecutive)
  BY DEF InTheWindow
<1>3. PICK s \in j + 1..Len(log) + 1 : InARow(log, s, log[j].at, Consecutive)
  BY <1>2
<1>4. j \in 1..Len(log)
  BY <1>1
<1>5. j \in Upto(Len(log), "event") /\ log[j].value = "rise"
      /\ \A k \in j..Len(log) : log[k].what = "event" => log[k].value # "doubt"
  BY <1>2, <1>4 DEF StillOpen, Upto
<1>6. j > LastDone(Len(log))
  <2>1. LastDone(Len(log)) < j
    BY <1>2, <1>4, LastDoneIs
  <2> QED  BY <2>1
<1>7. Cardinality({k \in j..Len(log) : log[k].value = "object" /\ log[k].at > log[j].at})
        >= Consecutive
  <2> DEFINE S == {k \in j..Len(log) : log[k].value = "object" /\ log[k].at > log[j].at}
  <2>1. FramesFrom(log, s) \subseteq 1..Len(log) /\ Cardinality(FramesFrom(log, s)) = Consecutive
        /\ \A i \in 1..Len(log) : log[i].at \in Nat
    BY <1>3, FramesAre DEF InARow
  <2>2. FramesFrom(log, s) \in SUBSET S
    <3>1. \A k \in FramesFrom(log, s) : k \in 1..Len(log) /\ s <= k
      BY <2>1 DEF FramesFrom
    <3>2. \A k \in FramesFrom(log, s) : k \in j..Len(log)
      BY <1>1, <1>3, <1>4, <3>1
    <3>3. \A k \in FramesFrom(log, s) : log[k].value = "object" /\ log[j].at < log[k].at
      BY <1>3 DEF InARow
    <3>4. \A k \in FramesFrom(log, s) : log[k].at > log[j].at
      BY <1>4, <2>1, <3>1, <3>3
    <3> QED  BY <3>2, <3>3, <3>4
  <2>3. IsFiniteSet(S)
    <3>1. IsFiniteSet(1..Len(log))
      BY <1>1, FS_Interval
    <3>2. S \in SUBSET (1..Len(log))
      BY <1>1, <1>4
    <3> QED  BY <3>1, <3>2, FS_Subset
  <2> HIDE DEF S
  <2>4. Cardinality(FramesFrom(log, s)) <= Cardinality(S) /\ Cardinality(S) \in Nat
    BY <2>2, <2>3, FS_Subset, FS_CardinalityType
  <2>5. Cardinality(S) >= Consecutive
    BY <2>1, <2>4, TriggersAssumption
  <2> QED  BY <2>5 DEF S
<1> QED  BY <1>2, <1>5, <1>6, <1>7 DEF Confirmed

LEMMA LongPastIsHeldPast ==
  ASSUME log \in Seq(Entries), LongPast(log, Len(log)) PROVE HeldPast(Len(log))
<1>1. Len(log) \in Nat
  OBVIOUS
<1>2. PICK j \in 1..Len(log) : /\ \A m \in j..Len(log) : log[m].value = "past"
                               /\ log[Len(log)].at - log[j].at >= Hold
                               /\ CameBack(log, j, Len(log) - 1)
  BY DEF LongPast
<1> DEFINE good == {k \in 1..j - 1 : log[k].value # "doubt"}
<1>3. \/ \E k \in good : k > LastDone(Len(log)) /\ log[k].value = "low"
      \/ good # {} /\ LastDone(Len(log)) = 0 /\ log[Min(good)].value = "mid"
  <2>1. ASSUME NEW i \in 1..j - 1, log[i].value = "low", NothingDone(log, i, Len(log) - 1)
        PROVE  i \in good /\ i > LastDone(Len(log))
    <3>1. i \in 1..Len(log)
      BY <1>1
    <3>2. LastDone(Len(log)) < i
      BY <2>1, <3>1, LastDoneIs
    <3> QED  BY <2>1, <3>2
  <2>2. ASSUME NothingDone(log, 1, Len(log) - 1), NEW i \in 1..j - 1, log[i].value = "mid",
               \A m \in 1..i - 1 : log[m].value = "doubt"
        PROVE  good # {} /\ LastDone(Len(log)) = 0 /\ log[Min(good)].value = "mid"
    <3>1. 1 \in 1..Len(log) /\ i \in good
      BY <1>1, <2>2
    <3>2. LastDone(Len(log)) = 0
      BY <2>2, <3>1, LastDoneIs
    <3>3. good \in SUBSET Nat /\ good # {}
      BY <3>1
    <3>4. Min(good) \in good /\ Min(good) <= i
      BY <3>1, <3>3, MinOf
    <3>5. ~(Min(good) < i)
      <4>1. SUFFICES ASSUME Min(good) < i PROVE FALSE
        OBVIOUS
      <4>2. Min(good) \in 1..j - 1 /\ log[Min(good)].value # "doubt"
        BY <3>4
      <4>3. Min(good) \in 1..i - 1
        BY <4>1, <4>2
      <4> QED  BY <2>2, <4>2, <4>3
    <3>6. Min(good) = i
      <4>1. Min(good) \in Nat /\ i \in Nat
        BY <3>3, <3>4
      <4> QED  BY <3>4, <3>5, <4>1
    <3> QED  BY <2>2, <3>1, <3>2, <3>6
  <2> QED  BY <1>2, <2>1, <2>2 DEF CameBack
<1> HIDE DEF good
<1>4. /\ \A k \in j..Len(log) : log[k].value = "past"
      /\ log[Len(log)].at - log[j].at >= Hold
  BY <1>2
<1> QED  BY <1>3, <1>4 DEF HeldPast, good

(* The last words of the observers are what is said by an entry. *)
LEMMA SaidByIs ==
  ASSUME log \in Seq(Entries), NEW n \in 0..Len(log), NEW seen, LastWords(log, n, seen)
  PROVE  SaidBy(n) = Combined(seen)
<1> DEFINE words(o) == {j \in 1..n : log[j].from = o}
           said(o)  == IF words(o) = {} \/ log[Max(words(o))].value = "doubt" THEN "unknown"
                       ELSE log[Max(words(o))].value
<1>1. seen \in [Observers -> {"unknown", "present", "absent"}]
  BY DEF LastWords
<1>2. ASSUME NEW o \in Observers PROVE said(o) = seen[o]
  <2>1. CASE words(o) = {}
    <3>1. \A j \in 1..n : log[j].from # o
      BY <2>1
    <3>2. seen[o] = "unknown"
      BY <3>1 DEF LastWords
    <3> QED  BY <2>1, <3>2
  <2>2. CASE words(o) # {}
    <3>1. words(o) \in SUBSET (0..n) /\ n \in Nat
      OBVIOUS
    <3>2. PICK w : w = Max(words(o))
      OBVIOUS
    <3>3. w \in words(o) /\ \A x \in words(o) : x <= w
      BY <2>2, <3>1, <3>2, MaxOf
    <3>4. w \in 1..n /\ log[w].from = o /\ \A i \in w + 1..n : log[i].from # log[w].from
      <4>1. w \in 1..n /\ log[w].from = o
        BY <3>3
      <4>2. ASSUME NEW i \in w + 1..n, log[i].from = o PROVE FALSE
        <5>1. i \in words(o) /\ ~(i <= w)
          BY <4>1, <4>2
        <5> QED  BY <3>3, <5>1
      <4> QED  BY <4>1, <4>2
    <3>5. seen[o] = Said(log[w].value)
      BY <3>4 DEF LastWords
    <3> HIDE DEF words
    <3> QED  BY <2>2, <3>2, <3>5 DEF Said
  <2> QED  BY <2>1, <2>2
<1>3. SaidBy(n) = Combined([o \in Observers |-> said(o)])
  BY DEF SaidBy
<1> HIDE DEF said
<1>4. [o \in Observers |-> said(o)] = seen
  BY <1>1, <1>2
<1> QED  BY <1>3, <1>4

LEMMA ChangedIsSaid ==
  ASSUME log \in Seq(Entries), log # <<>>, Changed(kind, log, Len(log))
  PROVE  SaidBy(Len(log)) = Wanted /\ SaidBy(Len(log) - 1) # Wanted
<1>1. Len(log) \in 0..Len(log) /\ Len(log) - 1 \in 0..Len(log)
  OBVIOUS
<1>2. PICK before, after :
        /\ LastWords(log, Len(log) - 1, before) /\ Combined(before) # Wanted
        /\ LastWords(log, Len(log), after) /\ Combined(after) = Wanted
  BY DEF Changed, Wanted
<1>3. SaidBy(Len(log) - 1) = Combined(before) /\ SaidBy(Len(log)) = Combined(after)
  BY <1>1, <1>2, SaidByIs
<1> QED  BY <1>2, <1>3

LEMMA FairIsDeserved ==
  ASSUME log \in Seq(Entries), armedAt \in Nat, Fair(kind, armedAt, log)
  PROVE  FiresAreDeserved
<1> SUFFICES ASSUME Len(log) \in Fires PROVE Deserved(Len(log))
  BY DEF FiresAreDeserved
<1>1. Len(log) \in 1..Len(log) /\ log # <<>> /\ log[Len(log)].did = "fire" /\ Len(log) \in Nat
  BY DEF Fires
<1>2. /\ Timely(armedAt, log, Len(log))
      /\ kind \in {"vision", "sequence"} => Appeared(armedAt, log, Len(log))
      /\ kind = "sequence" => InTheWindow(log, Len(log))
      /\ kind = "sensor" => log[Len(log)].value = "rise"
      /\ kind = "threshold" => LongPast(log, Len(log))
      /\ kind \in {"arrives", "leaves"} => Changed(kind, log, Len(log))
  BY <1>1, Zenon DEF Fair
<1>3. \A h \in Fires : h \in 1..Len(log) /\ log[h].did = "fire" /\ (h < Len(log) => h \in 1..Len(log) - 1)
  BY <1>1 DEF Fires
<1>4. /\ log[Len(log)].at >= armedAt
      /\ log[Len(log)].age <= (IF log[Len(log)].what = "frame" THEN MaxGap ELSE Ttl)
      /\ \A h \in Fires : h < Len(log) => log[Len(log)].at - log[h].at >= Cooldown
  BY <1>2, <1>3 DEF Timely
<1>5. ASSUME kind \in {"vision", "sequence"}
      PROVE  /\ Sighted(Len(log))
             /\ \A h \in Fires : h < Len(log) => AwaySince(h, Len(log))
  <2>1. Appeared(armedAt, log, Len(log))
    BY <1>2, <1>5
  <2>2. \A h \in Fires : h < Len(log) => Away(log, h)
    BY <1>3, <2>1 DEF Appeared, AwaySinceAll
  <2>3. \A h \in Fires : h < Len(log) => AwaySince(h, Len(log))
    BY <1>3, <2>2, AwayIsAwaySince
  <2> QED  BY <2>1, <2>3, AppearedIsSighted
<1>6. kind = "sequence" => Confirmed(Len(log))
  BY <1>2, InTheWindowIsConfirmed
<1>7. kind = "threshold" => HeldPast(Len(log))
  BY <1>2, LongPastIsHeldPast
<1>8. kind \in {"arrives", "leaves"} => SaidBy(Len(log)) = Wanted /\ SaidBy(Len(log) - 1) # Wanted
  BY <1>1, <1>2, ChangedIsSaid
<1> QED  BY <1>2, <1>4, <1>5, <1>6, <1>7, <1>8 DEF Deserved

(* A rule goes off only for what it was given since it was armed, however  *)
(* samples and events are delayed, repeated, lost or interleaved, for      *)
(* every kind of rule and every value of its counts and times.             *)
THEOREM FiringsAreDeserved == Spec => []FiresAreDeserved
<1>1. Init => FiresInv
  BY FiresStart
<1>2. FiresInv => FiresAreDeserved
  BY FairIsDeserved DEF FiresInv
<1> QED  BY <1>1, <1>2, FiresKept, PTL DEF Spec

------------------------------------------------------------------------------
(* The detector's boxes (module Vision).                                    *)

(* A list begins the detector in one piece, of which nothing but the end   *)
(* is left once the thread is in it.                                       *)
InOrder(s) ==
  \A i \in 1..Len(s) :
    /\ s[i] = "begin" => i + 2 <= Len(s) /\ s[i + 1] = "load" /\ s[i + 2] = "register"
    /\ s[i] = "load" => (i = 1 \/ s[i - 1] = "begin") /\ i < Len(s) /\ s[i + 1] = "register"
    /\ s[i] = "register" => i = 1 \/ s[i - 1] = "load"

Lists == {s \in Seq(ProgramStep) : InOrder(s)}
Whole == {s \in Lists : s # << >> => s[1] \notin {"load", "register"}}

Plain == ProgramStep \ {"begin", "load", "register"}

LEMMA OneStep == ASSUME NEW x \in Plain PROVE <<x>> \in Whole
BY DEF Plain, Whole, Lists, InOrder, ProgramStep

LEMMA NoStep == << >> \in Whole
BY DEF Whole, Lists, InOrder

LEMMA TwoLists ==
  ASSUME NEW a \in Lists, NEW b \in Whole
  PROVE  a \o b \in Lists /\ (a \in Whole => a \o b \in Whole)
<1>1. a \in Seq(ProgramStep) /\ b \in Seq(ProgramStep) /\ InOrder(a) /\ InOrder(b)
      /\ (b # << >> => b[1] \notin {"load", "register"})
  BY DEF Lists, Whole
<1> DEFINE c == a \o b
<1>2. /\ c \in Seq(ProgramStep) /\ Len(c) = Len(a) + Len(b)
      /\ \A i \in 1..Len(a) : c[i] = a[i]
      /\ \A i \in 1..Len(c) : i > Len(a) => i - Len(a) \in 1..Len(b) /\ c[i] = b[i - Len(a)]
      /\ Len(a) \in Nat /\ Len(b) \in Nat
  BY <1>1
<1> HIDE DEF c
<1>3. ASSUME NEW i \in 1..Len(c)
      PROVE  /\ c[i] = "begin" => i + 2 <= Len(c) /\ c[i + 1] = "load" /\ c[i + 2] = "register"
             /\ c[i] = "load" => (i = 1 \/ c[i - 1] = "begin") /\ i < Len(c) /\ c[i + 1] = "register"
             /\ c[i] = "register" => i = 1 \/ c[i - 1] = "load"
  <2>1. CASE i \in 1..Len(a)
    <3>1. c[i] = a[i] /\ (i > 1 => c[i - 1] = a[i - 1])
      BY <1>2, <2>1
    <3>2. /\ a[i] = "begin" => i + 2 <= Len(a) /\ a[i + 1] = "load" /\ a[i + 2] = "register"
          /\ a[i] = "load" => (i = 1 \/ a[i - 1] = "begin") /\ i < Len(a) /\ a[i + 1] = "register"
          /\ a[i] = "register" => i = 1 \/ a[i - 1] = "load"
      BY <1>1, <2>1 DEF InOrder
    <3>3. i + 2 <= Len(a) => c[i + 2] = a[i + 2] /\ c[i + 1] = a[i + 1]
      BY <1>2, <2>1
    <3>4. i < Len(a) => c[i + 1] = a[i + 1]
      BY <1>2, <2>1
    <3> QED  BY <1>2, <2>1, <3>1, <3>2, <3>3, <3>4
  <2>2. CASE i \notin 1..Len(a)
    <3> DEFINE k == i - Len(a)
    <3>1. k \in 1..Len(b) /\ c[i] = b[k] /\ i = Len(a) + k
      BY <1>2, <2>2
    <3>2. \A j \in 1..Len(b) : c[Len(a) + j] = b[j]
      <4> SUFFICES ASSUME NEW j \in 1..Len(b) PROVE c[Len(a) + j] = b[j]
        OBVIOUS
      <4>1. Len(a) + j \in 1..Len(c) /\ Len(a) + j > Len(a) /\ (Len(a) + j) - Len(a) = j
        BY <1>2
      <4> QED  BY <1>2, <4>1
    <3>3. /\ c[i] = "begin" => i + 2 <= Len(c) /\ c[i + 1] = "load" /\ c[i + 2] = "register"
          /\ c[i] = "load" => i < Len(c) /\ c[i + 1] = "register"
      <4>1. /\ b[k] = "begin" => k + 2 <= Len(b) /\ b[k + 1] = "load" /\ b[k + 2] = "register"
            /\ b[k] = "load" => k < Len(b) /\ b[k + 1] = "register"
        BY <1>1, <3>1 DEF InOrder
      <4>2. k + 2 <= Len(b) => c[i + 2] = b[k + 2] /\ c[i + 1] = b[k + 1]
        BY <1>2, <3>1, <3>2
      <4>3. k < Len(b) => c[i + 1] = b[k + 1]
        BY <1>2, <3>1, <3>2
      <4> QED  BY <1>2, <3>1, <4>1, <4>2, <4>3
    <3>4. CASE k = 1
      BY <1>1, <3>1, <3>3, <3>4
    <3>5. CASE k # 1
      <4>1. k - 1 \in 1..Len(b) /\ Len(a) + (k - 1) = i - 1
        BY <1>2, <3>1, <3>5
      <4>2. c[i - 1] = b[k - 1]
        BY <3>2, <4>1
      <4>3. /\ b[k] = "load" => b[k - 1] = "begin"
            /\ b[k] = "register" => b[k - 1] = "load"
        BY <1>1, <3>1, <3>5 DEF InOrder
      <4> QED  BY <3>1, <3>3, <4>2, <4>3
    <3> QED  BY <3>4, <3>5
  <2> QED  BY <2>1, <2>2
<1>4. InOrder(c)
  BY <1>3 DEF InOrder
<1>5. a \in Whole => (c # << >> => c[1] \notin {"load", "register"})
  <2>1. CASE a = << >>
    BY <1>1, <1>2, <2>1 DEF c
  <2>2. CASE a # << >>
    <3>1. 1 \in 1..Len(a)
      BY <1>1, <2>2
    <3> QED  BY <1>2, <2>2, <3>1 DEF Whole
  <2> QED  BY <2>1, <2>2
<1> QED  BY <1>2, <1>4, <1>5 DEF Lists, Whole, c

LEMMA Lateron ==
  ASSUME NEW s \in Lists, s # << >>, NEW n \in 1..3, n <= Len(s)
  PROVE  /\ SubSeq(s, n + 1, Len(s)) \in Lists
         /\ (s[n] \notin {"begin", "load"} => SubSeq(s, n + 1, Len(s)) \in Whole)
<1> DEFINE c == SubSeq(s, n + 1, Len(s))
<1>1. s \in Seq(ProgramStep) /\ Len(s) \in Nat /\ InOrder(s)
  BY DEF Lists
<1>2. c \in Seq(ProgramStep) /\ Len(c) = Len(s) - n
      /\ \A i \in 1..Len(c) : c[i] = s[n + i]
  BY <1>1
<1> HIDE DEF c
<1>3. InOrder(c)
  <2> SUFFICES ASSUME NEW i \in 1..Len(c)
               PROVE  /\ c[i] = "begin" => i + 2 <= Len(c) /\ c[i + 1] = "load"
                                           /\ c[i + 2] = "register"
                      /\ c[i] = "load" => (i = 1 \/ c[i - 1] = "begin") /\ i < Len(c)
                                          /\ c[i + 1] = "register"
                      /\ c[i] = "register" => i = 1 \/ c[i - 1] = "load"
    BY DEF InOrder
  <2>1. n + i \in 1..Len(s) /\ c[i] = s[n + i]
    BY <1>1, <1>2
  <2>2. i + 1 <= Len(c) => c[i + 1] = s[(n + i) + 1]
    <3>1. i + 1 <= Len(c) => i + 1 \in 1..Len(c) /\ n + (i + 1) = (n + i) + 1
      BY <1>1, <1>2
    <3> QED  BY <1>2, <3>1
  <2>3. i + 2 <= Len(c) => c[i + 2] = s[(n + i) + 2]
    <3>1. i + 2 <= Len(c) => i + 2 \in 1..Len(c) /\ n + (i + 2) = (n + i) + 2
      BY <1>1, <1>2
    <3> QED  BY <1>2, <3>1
  <2>4. i # 1 => c[i - 1] = s[(n + i) - 1]
    <3>1. i # 1 => i - 1 \in 1..Len(c) /\ n + (i - 1) = (n + i) - 1
      BY <1>1, <1>2
    <3> QED  BY <1>2, <3>1
  <2>5. LET m == n + i IN
        /\ s[m] = "begin" => m + 2 <= Len(s) /\ s[m + 1] = "load" /\ s[m + 2] = "register"
        /\ s[m] = "load" => (m = 1 \/ s[m - 1] = "begin") /\ m < Len(s)
                             /\ s[m + 1] = "register"
        /\ s[m] = "register" => m = 1 \/ s[m - 1] = "load"
    BY <1>1, <2>1 DEF InOrder
  <2> QED  BY <1>1, <1>2, <2>1, <2>2, <2>3, <2>4, <2>5
<1>4. ASSUME s[n] \notin {"begin", "load"}, c # << >>
      PROVE  c[1] \notin {"load", "register"}
  <2>1. 1 \in 1..Len(c) /\ n + 1 \in 1..Len(s) /\ c[1] = s[n + 1] /\ n + 1 # 1
        /\ (n + 1) - 1 = n
    BY <1>1, <1>2, <1>4
  <2> QED  BY <1>1, <1>4, <2>1 DEF InOrder
<1> QED  BY <1>2, <1>3, <1>4 DEF Lists, Whole, c

LEMMA WholeLists == \A a, b \in Whole : a \o b \in Whole
<1>1. Whole \subseteq Lists
  BY DEF Whole
<1> QED  BY <1>1, TwoLists

LEMMA WholeHead ==
  ASSUME NEW s \in Whole, s # << >>
  PROVE  Head(s) \notin {"load", "register"}
BY DEF Whole, Lists

LEMMA StepPieces ==
  /\ Pause \in Whole /\ Off \in Whole /\ StartSteps \in Whole /\ StopCapture \in Whole
<1>1. <<"halt">> \in Whole /\ <<"off">> \in Whole /\ <<"release">> \in Whole
      /\ <<"stop">> \in Whole /\ <<"join">> \in Whole
  BY OneStep DEF Plain, ProgramStep
<1>2. /\ <<"halt", "release">> = <<"halt">> \o <<"release">>
      /\ <<"off", "release">> = <<"off">> \o <<"release">>
      /\ <<"stop", "join">> = <<"stop">> \o <<"join">>
  OBVIOUS
<1>3. Pause \in Whole /\ Off \in Whole /\ <<"stop", "join">> \in Whole
  BY <1>1, <1>2, WholeLists DEF Pause, Off
<1>4. StartSteps \in Whole
  <2>1. StartSteps \in Seq(ProgramStep) /\ Len(StartSteps) = 3 /\ StartSteps[1] = "begin"
        /\ StartSteps[2] = "load" /\ StartSteps[3] = "register"
    BY DEF StartSteps, ProgramStep
  <2> HIDE DEF StartSteps
  <2>2. InOrder(StartSteps)
    <3> SUFFICES ASSUME NEW i \in 1..3
                 PROVE  /\ StartSteps[i] = "begin" => i = 1
                        /\ StartSteps[i] = "load" => i = 2
                        /\ StartSteps[i] = "register" => i = 3
      BY <2>1 DEF InOrder
    <3>1. i = 1 \/ i = 2 \/ i = 3
      OBVIOUS
    <3> QED  BY <2>1, <3>1
  <2> QED  BY <2>1, <2>2 DEF Whole, Lists
<1>5. StopCapture \in Whole
  BY <1>3, WholeLists DEF StopCapture
<1> QED  BY <1>3, <1>4, <1>5

LEMMA Programs ==
  ASSUME NEW op \in Operations
  PROVE  Program(op) \in Whole
<1>1. /\ <<"ensure">> \in Whole /\ <<"restore">> \in Whole /\ <<"enable">> \in Whole
      /\ <<"check">> \in Whole /\ << >> \in Whole
  BY OneStep, NoStep DEF Plain, ProgramStep
<1>2. \A a, b \in Whole : a \o b \in Whole
  BY WholeLists
<1>3. <<"enable", "ensure">> = <<"enable">> \o <<"ensure">>
  OBVIOUS
<1>4. CASE op = "arm"
  <2>1. Pause \o <<"enable", "ensure">> \in Whole
    BY <1>1, <1>2, <1>3, StepPieces
  <2>2. Pause \o <<"enable", "ensure">> \o StartSteps \in Whole
    BY <2>1, <1>2, StepPieces
  <2>3. Pause \o <<"enable", "ensure">> \o StartSteps \o <<"check">> \in Whole
    BY <2>2, <1>1, <1>2
  <2> QED  BY <1>4, <2>3 DEF Program
<1>5. CASE op \in {"start", "stop", "watch", "disarm", "detect", "plain"}
  BY <1>1, <1>2, <1>5, StepPieces DEF Program
<1> QED  BY <1>4, <1>5, VisionConstants

LEMMA Handlers ==
  ASSUME NEW op
  PROVE  Handler(op) \in Whole
<1>1. <<"restore">> \in Whole /\ << >> \in Whole
  BY OneStep, NoStep DEF Plain, ProgramStep
<1> QED  BY <1>1, StepPieces, WholeLists DEF Handler

LEMMA Restores ==
  ASSUME NEW p, NEW q, NEW r
  PROVE  (IF p THEN Off ELSE <<"enable">> \o IF q THEN StartSteps ELSE << >>)
         \o (IF r THEN << >> ELSE StopCapture) \in Whole
<1>1. <<"enable">> \in Whole /\ << >> \in Whole
  BY OneStep, NoStep DEF Plain, ProgramStep
<1>2. (IF q THEN StartSteps ELSE << >>) \in Whole /\ (IF r THEN << >> ELSE StopCapture) \in Whole
  BY <1>1, StepPieces
<1>3. <<"enable">> \o (IF q THEN StartSteps ELSE << >>) \in Whole
  BY <1>1, <1>2, WholeLists
<1> QED  BY <1>2, <1>3, StepPieces, WholeLists

------------------------------------------------------------------------------
(* What the steps do to the lists.                                         *)

(* The caller's list when it does x and puts more in front of the rest.    *)
LEMMA CallerThen ==
  ASSUME VisionTypeOK, todo["caller"] \in Lists, NEW x, Has("caller", x), NEW more \in Whole,
         Then("caller", more), x \in {"begin", "load"} => more = << >>
  PROVE  /\ todo' \in [Threads -> Seq(ProgramStep)] /\ todo'["caller"] \in Lists
         /\ call' \in Operations \cup {None, "raised"}
         /\ (x # "begin" => ~Has("caller", "load")')
<1> DEFINE s == todo["caller"]
<1>1. s \in Lists /\ s # << >> /\ s[1] = x /\ Len(s) \in Nat /\ 1 <= Len(s)
      /\ s \in Seq(ProgramStep)
  BY DEF Has, Lists
<1>2. Tail(s) = SubSeq(s, 2, Len(s)) /\ Tail(s) \in Lists
      /\ (x \notin {"begin", "load"} => Tail(s) \in Whole)
  <2>1. Tail(s) = SubSeq(s, 2, Len(s)) /\ 1 + 1 = 2 /\ 1 \in 1..3
    BY <1>1
  <2>2. SubSeq(s, 1 + 1, Len(s)) \in Lists
        /\ (s[1] \notin {"begin", "load"} => SubSeq(s, 1 + 1, Len(s)) \in Whole)
    BY <1>1, <2>1, Lateron
  <2> QED  BY <1>1, <2>1, <2>2
<1>3. more \o Tail(s) \in Lists /\ (x \notin {"begin", "load"} => more \o Tail(s) \in Whole)
  <2>1. CASE more = << >>
    <3>1. Tail(s) \in Seq(ProgramStep)
      BY <1>2 DEF Lists
    <3>2. more \o Tail(s) = Tail(s)
      BY <2>1, <3>1
    <3> QED  BY <1>2, <3>2
  <2>2. CASE more # << >>
    <3>1. x \notin {"begin", "load"}
      BY <2>2
    <3> QED  BY <1>2, <3>1, WholeLists DEF Whole
  <2> QED  BY <2>1, <2>2
<1>4. todo' = [todo EXCEPT !["caller"] = more \o Tail(s)]
  BY DEF Then, LeaveSteps
<1>5. todo' \in [Threads -> Seq(ProgramStep)] /\ todo'["caller"] = more \o Tail(s)
  BY <1>3, <1>4 DEF VisionTypeOK, Threads, Lists
<1>6. call' \in Operations \cup {None, "raised"}
  BY DEF Then, LeaveSteps, VisionTypeOK
<1>7. x = "load" => (Tail(s) # << >> => Tail(s)[1] # "load") /\ more = << >>
  <2>1. x = "load" => 1 < Len(s) /\ s[2] = "register"
    BY <1>1 DEF Lists, InOrder
  <2>2. Tail(s) # << >> => Tail(s)[1] = s[2]
    BY <1>1
  <2> QED  BY <2>1, <2>2
<1>8. x # "begin" => ~Has("caller", "load")'
  <2>1. CASE x = "load"
    <3>1. more \o Tail(s) = Tail(s)
      BY <1>2, <1>7, <2>1 DEF Lists
    <3> QED  BY <1>5, <1>7, <2>1, <3>1 DEF Has
  <2>2. CASE x \notin {"begin", "load"}
    BY <1>3, <1>5, <2>2, WholeHead DEF Has
  <2> QED  BY <2>1, <2>2
<1> QED  BY <1>3, <1>5, <1>6, <1>8

(* Another thread's list. *)
LEMMA CaptureThen ==
  ASSUME VisionTypeOK, NEW more \in Seq(ProgramStep), Then("capture", more), todo["capture"] # << >>
  PROVE  /\ todo' \in [Threads -> Seq(ProgramStep)] /\ todo'["caller"] = todo["caller"]
         /\ call' = call
<1>1. todo["capture"] \in Seq(ProgramStep)
  BY DEF VisionTypeOK, Threads
<1>2. more \o Tail(todo["capture"]) \in Seq(ProgramStep)
  BY <1>1
<1> QED  BY <1>2 DEF Then, LeaveSteps, VisionTypeOK, Threads

(* What is left of a list when the detector is not begun. *)
LEMMA CallerSkips ==
  ASSUME VisionTypeOK, todo["caller"] \in Lists,
         \/ Has("caller", "load") /\ Skip("caller", 1)
         \/ Has("caller", "begin") /\ Skip("caller", 2)
  PROVE  /\ todo' \in [Threads -> Seq(ProgramStep)] /\ todo'["caller"] \in Lists
         /\ call' \in Operations \cup {None, "raised"}
         /\ ~Has("caller", "load")'
<1> DEFINE s == todo["caller"]
<1>1. PICK n \in {1, 2} : Skip("caller", n) /\ Has("caller", IF n = 1 THEN "load" ELSE "begin")
  OBVIOUS
<1>2. s \in Lists /\ s # << >> /\ s[1] = (IF n = 1 THEN "load" ELSE "begin")
      /\ Len(s) \in Nat /\ 1 <= Len(s) /\ s \in Seq(ProgramStep)
  BY <1>1 DEF Has, Lists
<1>3. n + 1 <= Len(s) /\ s[n + 1] = "register"
  BY <1>2 DEF Lists, InOrder
<1>4. SubSeq(s, n + 2, Len(s)) \in Whole
  <2>1. n + 1 \in 1..3 /\ (n + 1) + 1 = n + 2
    OBVIOUS
  <2> QED  BY <1>2, <1>3, <2>1, Lateron
<1>5. todo' = [todo EXCEPT !["caller"] = SubSeq(s, n + 2, Len(s))]
      /\ call' \in Operations \cup {None, "raised"}
  BY <1>1 DEF Skip, LeaveSteps, VisionTypeOK
<1>6. todo' \in [Threads -> Seq(ProgramStep)] /\ todo'["caller"] = SubSeq(s, n + 2, Len(s))
  BY <1>4, <1>5 DEF VisionTypeOK, Threads, Whole, Lists
<1>7. todo'["caller"] \in Lists /\ ~Has("caller", "load")'
  BY <1>4, <1>6, WholeHead DEF Whole, Has
<1> QED  BY <1>5, <1>6, <1>7

LEMMA CallerRaises ==
  ASSUME VisionTypeOK, Raise
  PROVE  /\ todo' \in [Threads -> Seq(ProgramStep)] /\ todo'["caller"] \in Lists
         /\ call' \in Operations \cup {None, "raised"}
         /\ ~Has("caller", "load")'
         /\ preview' \in BOOLEAN /\ monitoring' \in BOOLEAN /\ previewDetects' \in BOOLEAN
<1>1. Handler(call) \in Whole
  BY Handlers
<1>2. todo' \in [Threads -> Seq(ProgramStep)] /\ todo'["caller"] = Handler(call)
  BY <1>1 DEF Raise, VisionTypeOK, Threads, Whole, Lists
<1>3. call' \in Operations \cup {None, "raised"}
  BY DEF Raise
<1>4. preview' \in BOOLEAN /\ monitoring' \in BOOLEAN /\ previewDetects' \in BOOLEAN
  BY DEF Raise, VisionTypeOK
<1>5. todo'["caller"] \in Lists /\ ~Has("caller", "load")'
  BY <1>1, <1>2, WholeHead DEF Whole, Has
<1> QED  BY <1>2, <1>3, <1>4, <1>5

------------------------------------------------------------------------------
(* Once the detector has begun, until its demand is registered, nothing    *)
(* that could become its boxes is about.                                   *)
Stale(thr) == \A w \in Workers : thr[w].camera = Primary => thr[w].epoch # "now"

NothingNew == /\ demands[Primary] # "now" /\ pending[Primary] # "now" /\ Stale(threads)
              /\ worker[Primary].result = None

Results == \A c \in Cameras : /\ worker[c].result # "old"
                              /\ worker[c].stopped => worker[c].result = None

BoxesInv == /\ VisionTypeOK /\ todo["caller"] \in Lists /\ Results
            /\ Has("caller", "load") => NothingNew

(* The worker threads.                                                     *)
LEMMA NewWorkers == NoWorker \in Worker /\ [NoWorker EXCEPT !.at = "wait"] \in Worker
                    /\ NoWorker.camera = None
BY DEF NoWorker, Worker, Epoch

LEMMA Passing == ASSUME NEW e \in Epoch PROVE Passed(e) \in Epoch \ {"now"}
BY VisionConstants DEF Passed, Epoch

LEMMA AgedWorkers ==
  ASSUME VisionTypeOK, NEW c \in Cameras
  PROVE  /\ Aged(c) \in [Workers -> Worker]
         /\ c = Primary => Stale(Aged(c))
         /\ Stale(threads) => Stale(Aged(c))
<1> SUFFICES ASSUME NEW w \in Workers
             PROVE  /\ Aged(c)[w] \in Worker
                    /\ c = Primary /\ Aged(c)[w].camera = Primary => Aged(c)[w].epoch # "now"
                    /\ Stale(threads) /\ Aged(c)[w].camera = Primary => Aged(c)[w].epoch # "now"
  BY DEF Stale, Aged
<1>1. threads[w] \in Worker
  BY DEF VisionTypeOK
<1>2. Passed(threads[w].epoch) \in Epoch \ {"now"}
  BY <1>1, Passing DEF Worker
<1>3. [threads[w] EXCEPT !.epoch = Passed(@)] \in Worker
      /\ [threads[w] EXCEPT !.epoch = Passed(@)].epoch # "now"
  BY <1>1, <1>2 DEF Worker
<1>4. Aged(c)[w] = IF threads[w].camera # c THEN threads[w]
                   ELSE [threads[w] EXCEPT !.epoch = Passed(@)]
  BY DEF Aged
<1> QED  BY <1>1, <1>3, <1>4 DEF Stale

LEMMA NewEpochs ==
  ASSUME VisionTypeOK, NEW c \in Cameras, NewEpoch(c)
  PROVE  /\ submitting' \in Epoch /\ demands' \in [Cameras -> Epoch]
         /\ pending' \in [Cameras -> Epoch] /\ threads' \in [Workers -> Worker]
         /\ c = Primary => demands'[Primary] # "now" /\ pending'[Primary] # "now"
                           /\ Stale(threads')
<1>1. Passed(submitting) \in Epoch /\ Passed(demands[c]) \in Epoch \ {"now"}
      /\ Passed(pending[c]) \in Epoch \ {"now"}
  BY Passing DEF VisionTypeOK
<1>2. submitting' \in Epoch
  BY <1>1 DEF NewEpoch, VisionTypeOK
<1>3. demands' = [demands EXCEPT ![c] = Passed(@)] /\ pending' = [pending EXCEPT ![c] = Passed(@)]
      /\ threads' = Aged(c)
  BY DEF NewEpoch
<1>4. /\ demands' \in [Cameras -> Epoch] /\ pending' \in [Cameras -> Epoch]
      /\ demands'[c] # "now" /\ pending'[c] # "now"
  BY <1>1, <1>3 DEF VisionTypeOK
<1> QED  BY <1>2, <1>3, <1>4, AgedWorkers

LEMMA StartingWorker ==
  ASSUME VisionTypeOK, NEW thr \in [Workers -> Worker], StartWorker(thr)
  PROVE  /\ threads' \in [Workers -> Worker] /\ serving' \in Workers \cup {None}
         /\ Stale(thr) => Stale(threads')
<1>1. CASE threads' = thr /\ UNCHANGED serving
  BY <1>1 DEF VisionTypeOK
<1>2. CASE /\ \E w \in Workers : ~Alive(w)
           /\ serving' = CHOOSE w \in Workers : ~Alive(w)
           /\ threads' = [thr EXCEPT ![serving'] = [NoWorker EXCEPT !.at = "wait"]]
  <2>1. serving' \in Workers
    BY <1>2
  <2>2. threads' \in [Workers -> Worker]
    BY <1>2, <2>1, NewWorkers
  <2>3. \/ [NoWorker EXCEPT !.at = "wait"].camera = None /\ None # Primary
        \/ [NoWorker EXCEPT !.at = "wait"].epoch # "now"
    BY VisionConstants DEF NoWorker
  <2>4. Stale(thr) => Stale(threads')
    BY <1>2, <2>1, <2>3 DEF Stale
  <2> QED  BY <2>1, <2>2, <2>4
<1> QED  BY <1>1, <1>2 DEF StartWorker

LEMMA Stopping ==
  ASSUME NEW thr \in [Workers -> Worker], NEW x
  PROVE  /\ [thr EXCEPT ![x].stop = TRUE] \in [Workers -> Worker]
         /\ Stale(thr) => Stale([thr EXCEPT ![x].stop = TRUE])
<1> DEFINE then == [thr EXCEPT ![x].stop = TRUE]
<1>1. then = [w \in Workers |-> IF w = x THEN [thr[x] EXCEPT !.stop = TRUE] ELSE thr[w]]
  OBVIOUS
<1> HIDE DEF then
<1>2. ASSUME NEW w \in Workers
      PROVE  then[w] \in Worker /\ then[w].camera = thr[w].camera /\ then[w].epoch = thr[w].epoch
  <2>1. thr[w] \in Worker
    OBVIOUS
  <2>2. [thr[w] EXCEPT !.stop = TRUE] \in Worker
        /\ [thr[w] EXCEPT !.stop = TRUE].camera = thr[w].camera
        /\ [thr[w] EXCEPT !.stop = TRUE].epoch = thr[w].epoch
    BY <2>1 DEF Worker
  <2> QED  BY <1>1, <2>1, <2>2
<1>3. then \in [Workers -> Worker]
  BY <1>1, <1>2
<1>4. Stale(thr) => Stale(then)
  BY <1>2 DEF Stale
<1> QED  BY <1>3, <1>4 DEF then

LEMMA Withdrawing ==
  ASSUME VisionTypeOK, NEW c \in Cameras, NEW thr \in [Workers -> Worker], Withdraw(c, thr)
  PROVE  /\ demands' \in [Cameras -> Epoch] /\ pending' \in [Cameras -> Epoch]
         /\ threads' \in [Workers -> Worker]
         /\ Stale(thr) => Stale(threads')
         /\ \A d \in Cameras : /\ demands'[d] \in {None, demands[d]}
                               /\ pending'[d] \in {None, pending[d]}
<1>1. /\ demands' = [demands EXCEPT ![c] = None] /\ pending' = [pending EXCEPT ![c] = None]
      /\ threads' = thr \/ threads' = [thr EXCEPT ![serving].stop = TRUE]
  BY DEF Withdraw
<1>2. demands' \in [Cameras -> Epoch] /\ pending' \in [Cameras -> Epoch]
      /\ \A d \in Cameras : /\ demands'[d] \in {None, demands[d]}
                            /\ pending'[d] \in {None, pending[d]}
  BY <1>1 DEF VisionTypeOK, Epoch
<1>3. threads' \in [Workers -> Worker] /\ (Stale(thr) => Stale(threads'))
  BY <1>1, Stopping
<1> QED  BY <1>2, <1>3

------------------------------------------------------------------------------
(* The caller's steps.                                                     *)

(* A step that puts more in front and leaves the detector alone. *)
LEMMA QuietSteps ==
  ASSUME BoxesInv, Restore \/ EnsureCapture \/ Launch \/ AwaitReady \/ Check \/ StopsCapture
                   \/ JoinCapture
  PROVE  BoxesInv'
<1>0. VisionTypeOK /\ todo["caller"] \in Lists /\ Results
  BY DEF BoxesInv
<1>1. UNCHANGED <<carried, worker, submitting, demands, pending, model, serving, threads>>
  BY DEF Restore, EnsureCapture, Launch, AwaitReady, Check, StopsCapture, JoinCapture, scheduler
<1>2. << >> \in Whole /\ StartSteps \o <<"launch", "ready">> \in Whole
  <2>1. <<"launch">> \in Whole /\ <<"ready">> \in Whole
        /\ <<"launch", "ready">> = <<"launch">> \o <<"ready">>
    BY OneStep DEF Plain, ProgramStep
  <2>2. <<"launch", "ready">> \in Whole
    BY <2>1, WholeLists
  <2> QED  BY <2>2, NoStep, StepPieces, WholeLists
<1>3. \/ \E x \in Plain, more \in Whole : Has("caller", x) /\ Then("caller", more)
      \/ Raise
  <2>1. CASE Restore
    BY <2>1, Restores DEF Restore, Plain, ProgramStep
  <2>2. CASE EnsureCapture
    BY <2>2, <1>2 DEF EnsureCapture, Plain, ProgramStep
  <2>3. CASE Launch
    BY <2>3, <1>2 DEF Launch, Plain, ProgramStep
  <2>4. CASE AwaitReady
    BY <2>4, <1>2 DEF AwaitReady, Plain, ProgramStep
  <2>5. CASE Check
    BY <2>5, <1>2 DEF Check, Plain, ProgramStep
  <2>6. CASE StopsCapture
    BY <2>6, <1>2 DEF StopsCapture, Plain, ProgramStep
  <2>7. CASE JoinCapture
    BY <2>7, <1>2 DEF JoinCapture, Plain, ProgramStep
  <2> QED  BY <2>1, <2>2, <2>3, <2>4, <2>5, <2>6, <2>7
<1>4. /\ todo' \in [Threads -> Seq(ProgramStep)] /\ todo'["caller"] \in Lists
      /\ call' \in Operations \cup {None, "raised"} /\ ~Has("caller", "load")'
  <2>1. ASSUME NEW x \in Plain, NEW more \in Whole, Has("caller", x), Then("caller", more)
        PROVE  /\ todo' \in [Threads -> Seq(ProgramStep)] /\ todo'["caller"] \in Lists
               /\ call' \in Operations \cup {None, "raised"} /\ ~Has("caller", "load")'
    <3>1. x \notin {"begin", "load"}
      BY DEF Plain
    <3> QED  BY <1>0, <2>1, <3>1, CallerThen
  <2> QED  BY <1>0, <1>3, <2>1, CallerRaises
<1>5. preview' \in BOOLEAN /\ monitoring' \in BOOLEAN /\ previewDetects' \in BOOLEAN
  BY <1>0, CallerRaises DEF Restore, EnsureCapture, Launch, AwaitReady, Check, StopsCapture,
     JoinCapture, VisionTypeOK, switches
<1>6. /\ capture' \in {"none", "opening", "running", "failed", "ending"}
      /\ stopped' \in BOOLEAN /\ ready' \in BOOLEAN /\ failed' \in BOOLEAN /\ lock' \in BOOLEAN
      /\ robbed' \in BOOLEAN /\ abandoned' \in BOOLEAN
  <2>1. capture' = capture \/ capture' = "opening"
    BY DEF Restore, EnsureCapture, Launch, AwaitReady, Check, StopsCapture, JoinCapture, camera
  <2>2. stopped' = stopped \/ stopped' \in BOOLEAN
    BY DEF Restore, EnsureCapture, Launch, AwaitReady, Check, StopsCapture, JoinCapture, camera
  <2>3. /\ ready' = ready \/ ready' = FALSE
        /\ failed' = failed \/ failed' = FALSE
        /\ lock' = lock \/ lock' = TRUE
    BY DEF Restore, EnsureCapture, Launch, AwaitReady, Check, StopsCapture, JoinCapture, camera
  <2>4. robbed' = robbed /\ (abandoned' = abandoned \/ abandoned' = FALSE)
    BY DEF Restore, EnsureCapture, Launch, AwaitReady, Check, StopsCapture, JoinCapture, history
  <2>5. capture \in {"none", "opening", "running", "failed", "ending"}
        /\ stopped \in BOOLEAN /\ ready \in BOOLEAN /\ failed \in BOOLEAN /\ lock \in BOOLEAN
        /\ robbed \in BOOLEAN /\ abandoned \in BOOLEAN
    BY <1>0 DEF VisionTypeOK
  <2> QED  BY <2>1, <2>2, <2>3, <2>4, <2>5
<1>7. mishaps' \in 0..MaxMishaps /\ asks' \in 0..MaxAsks
  BY <1>0, VisionConstants DEF Restore, EnsureCapture, Launch, AwaitReady, Check, StopsCapture,
     JoinCapture, VisionTypeOK, Mishap, budget
<1> QED  BY <1>0, <1>1, <1>4, <1>5, <1>6, <1>7 DEF BoxesInv, VisionTypeOK, Results

LEMMA EnableKeeps == ASSUME BoxesInv, Enable PROVE BoxesInv'
<1>0. VisionTypeOK /\ todo["caller"] \in Lists /\ Results
  BY DEF BoxesInv
<1>1. /\ Has("caller", "enable")
      /\ UNCHANGED <<carried, capture, stopped, ready, failed, lock, robbed, submitting, demands,
                     pending, serving, threads>>
  BY DEF Enable, camera
<1>2. CASE /\ model' = TRUE /\ worker' = [worker EXCEPT ![Primary].enabled = TRUE]
           /\ previewDetects' = (previewDetects \/ call = "detect")
           /\ Then("caller", << >>) /\ UNCHANGED <<preview, monitoring, abandoned, budget>>
  <2>1. /\ todo' \in [Threads -> Seq(ProgramStep)] /\ todo'["caller"] \in Lists
        /\ call' \in Operations \cup {None, "raised"} /\ ~Has("caller", "load")'
    BY <1>0, <1>1, <1>2, CallerThen, NoStep
  <2>2. worker' \in [Cameras -> Detector]
        /\ \A c \in Cameras : worker'[c].result = worker[c].result
                              /\ worker'[c].stopped = worker[c].stopped
    BY <1>0, <1>2 DEF VisionTypeOK, Detector
  <2>3. Results'
    BY <1>0, <2>2 DEF Results
  <2>4. VisionTypeOK'
    BY <1>0, <1>1, <1>2, <2>1, <2>2 DEF VisionTypeOK, budget
  <2> QED  BY <2>1, <2>3, <2>4 DEF BoxesInv
<1>3. CASE /\ CannotLoad /\ Raise /\ UNCHANGED <<model, worker>>
           /\ abandoned' = (abandoned \/ call \in {"disarm", "raised"})
  <2>1. /\ todo' \in [Threads -> Seq(ProgramStep)] /\ todo'["caller"] \in Lists
        /\ call' \in Operations \cup {None, "raised"} /\ ~Has("caller", "load")'
        /\ preview' \in BOOLEAN /\ monitoring' \in BOOLEAN /\ previewDetects' \in BOOLEAN
    BY <1>0, <1>3, CallerRaises
  <2>2. mishaps' \in 0..MaxMishaps /\ asks' \in 0..MaxAsks
    BY <1>0, <1>3, VisionConstants DEF CannotLoad, Mishap, VisionTypeOK
  <2>3. VisionTypeOK'
    BY <1>0, <1>1, <1>3, <2>1, <2>2 DEF VisionTypeOK
  <2> QED  BY <1>0, <1>3, <2>1, <2>3 DEF BoxesInv, Results
<1> QED  BY <1>2, <1>3 DEF Enable

LEMMA LoadKeeps == ASSUME BoxesInv, Load PROVE BoxesInv'
<1>0. VisionTypeOK /\ todo["caller"] \in Lists /\ Results /\ NothingNew /\ Has("caller", "load")
  BY DEF BoxesInv, Load
<1>1. UNCHANGED <<preview, monitoring, previewDetects, capture, stopped, ready, failed, lock,
                  robbed, abandoned, submitting, demands, pending, serving, threads>>
  BY DEF Load, switches, camera, history
<1>2. CASE model' = TRUE /\ Then("caller", << >>) /\ UNCHANGED <<worker, carried, budget>>
  <2>1. /\ todo' \in [Threads -> Seq(ProgramStep)] /\ todo'["caller"] \in Lists
        /\ call' \in Operations \cup {None, "raised"} /\ ~Has("caller", "load")'
    BY <1>0, <1>2, CallerThen, NoStep
  <2>2. VisionTypeOK'
    BY <1>0, <1>1, <1>2, <2>1 DEF VisionTypeOK, budget
  <2> QED  BY <1>0, <1>2, <2>1, <2>2 DEF BoxesInv, Results
<1>3. CASE /\ CannotLoad /\ Skip("caller", 1) /\ UNCHANGED model
           /\ worker' = [worker EXCEPT ![Primary].stopped = TRUE, ![Primary].enabled = FALSE]
           /\ carried' = None
  <2>1. /\ todo' \in [Threads -> Seq(ProgramStep)] /\ todo'["caller"] \in Lists
        /\ call' \in Operations \cup {None, "raised"} /\ ~Has("caller", "load")'
    BY <1>0, <1>3, CallerSkips
  <2>2. worker' \in [Cameras -> Detector]
        /\ \A c \in Cameras : worker'[c].result = worker[c].result
                              /\ (c # Primary => worker'[c].stopped = worker[c].stopped)
    BY <1>0, <1>3 DEF VisionTypeOK, Detector
  <2>3. Results'
    BY <1>0, <2>2 DEF Results, NothingNew
  <2>4. mishaps' \in 0..MaxMishaps /\ asks' \in 0..MaxAsks
    BY <1>0, <1>3, VisionConstants DEF CannotLoad, Mishap, VisionTypeOK
  <2>5. VisionTypeOK'
    BY <1>0, <1>1, <1>3, <2>1, <2>2, <2>4 DEF VisionTypeOK, Epoch
  <2> QED  BY <2>1, <2>3, <2>5 DEF BoxesInv
<1> QED  BY <1>2, <1>3 DEF Load

LEMMA RegisterKeeps == ASSUME BoxesInv, Register PROVE BoxesInv'
<1>0. VisionTypeOK /\ todo["caller"] \in Lists /\ Results /\ Has("caller", "register")
  BY DEF BoxesInv, Register
<1>1. /\ todo' \in [Threads -> Seq(ProgramStep)] /\ todo'["caller"] \in Lists
      /\ call' \in Operations \cup {None, "raised"} /\ ~Has("caller", "load")'
  BY <1>0, CallerThen, NoStep DEF Register
<1>2. threads' \in [Workers -> Worker] /\ serving' \in Workers \cup {None}
  BY <1>0, StartingWorker DEF Register, VisionTypeOK
<1>3. demands' \in [Cameras -> Epoch] /\ carried' \in Epoch
  BY <1>0 DEF Register, VisionTypeOK, Epoch
<1>4. UNCHANGED <<preview, monitoring, previewDetects, capture, stopped, ready, failed, lock,
                  worker, robbed, abandoned, submitting, pending, model, mishaps, asks>>
  BY DEF Register, switches, camera, history, budget
<1> QED  BY <1>0, <1>1, <1>2, <1>3, <1>4 DEF BoxesInv, VisionTypeOK, Results

LEMMA BeginKeeps == ASSUME BoxesInv, Begin PROVE BoxesInv'
<1>0. VisionTypeOK /\ todo["caller"] \in Lists /\ Results /\ Has("caller", "begin")
  BY DEF BoxesInv, Begin
<1>1. UNCHANGED <<robbed, abandoned, preview, monitoring, previewDetects, capture, stopped, ready,
                  failed, lock, model, serving, mishaps, asks>>
  BY DEF Begin, switches, camera, history, budget
<1>2. CASE ~worker[Primary].enabled \/ ~worker[Primary].stopped
  <2>1. Skip("caller", 2) /\ UNCHANGED <<worker, carried, submitting, demands, pending, threads>>
    BY <1>2 DEF Begin
  <2>2. /\ todo' \in [Threads -> Seq(ProgramStep)] /\ todo'["caller"] \in Lists
        /\ call' \in Operations \cup {None, "raised"} /\ ~Has("caller", "load")'
    BY <1>0, <2>1, CallerSkips
  <2>3. VisionTypeOK'
    BY <1>0, <1>1, <2>1, <2>2 DEF VisionTypeOK
  <2> QED  BY <1>0, <2>1, <2>2, <2>3 DEF BoxesInv, Results
<1>3. CASE worker[Primary].enabled /\ worker[Primary].stopped
  <2>1. /\ NewEpoch(Primary) /\ carried' = "now" /\ Then("caller", << >>)
        /\ worker' = [worker EXCEPT ![Primary].stopped = FALSE, ![Primary].result = Passed(@)]
    BY <1>3 DEF Begin
  <2>2. /\ todo' \in [Threads -> Seq(ProgramStep)] /\ todo'["caller"] \in Lists
        /\ call' \in Operations \cup {None, "raised"}
    BY <1>0, <2>1, CallerThen, NoStep
  <2>3. Primary \in Cameras /\ worker[Primary].result = None
    BY <1>0, <1>3 DEF Cameras, Results
  <2>4. /\ submitting' \in Epoch /\ demands' \in [Cameras -> Epoch]
        /\ pending' \in [Cameras -> Epoch] /\ threads' \in [Workers -> Worker]
        /\ demands'[Primary] # "now" /\ pending'[Primary] # "now" /\ Stale(threads')
    BY <1>0, <2>1, <2>3, NewEpochs
  <2>5. /\ worker' \in [Cameras -> Detector] /\ worker'[Primary].result = None
        /\ \A c \in Cameras : worker'[c].result = worker[c].result
                              /\ (c # Primary => worker'[c].stopped = worker[c].stopped)
    <3>1. Passed(None) = None
      BY DEF Passed
    <3>2. worker \in [Cameras -> Detector] /\ worker[Primary] \in Detector
      BY <1>0, <2>3 DEF VisionTypeOK
    <3> DEFINE d == [worker[Primary] EXCEPT !.stopped = FALSE, !.result = Passed(@)]
    <3>3. d \in Detector /\ d.result = None
      BY <2>3, <3>1, <3>2 DEF Detector, Epoch
    <3>4. worker'[Primary] = d /\ \A c \in Cameras \ {Primary} : worker'[c] = worker[c]
      BY <2>1, <2>3, <3>2
    <3>5. worker' = [c \in Cameras |-> worker'[c]]
      BY <2>1, <3>2
    <3> HIDE DEF d
    <3> QED  BY <2>3, <3>2, <3>3, <3>4, <3>5
  <2>6. Results'
    BY <1>0, <2>3, <2>5 DEF Results
  <2>7. VisionTypeOK'
    BY <1>0, <1>1, <2>1, <2>2, <2>4, <2>5 DEF VisionTypeOK, Epoch
  <2>8. NothingNew'
    BY <2>4, <2>5 DEF NothingNew, Stale
  <2> QED  BY <2>2, <2>6, <2>7, <2>8 DEF BoxesInv
<1> QED  BY <1>2, <1>3

------------------------------------------------------------------------------
(* Everybody else's steps.                                                 *)

(* A step that leaves the caller's list alone. *)
LEMMA Elsewhere ==
  ASSUME BoxesInv, VisionTypeOK', Results', todo'["caller"] = todo["caller"], NothingNew => NothingNew'
  PROVE  BoxesInv'
BY DEF BoxesInv, Has

LEMMA AskKeeps == ASSUME BoxesInv, NEW op \in Operations, Ask(op) PROVE BoxesInv'
<1>0. VisionTypeOK /\ todo["caller"] \in Lists /\ Results
  BY DEF BoxesInv
<1>1. Program(op) \in Whole
  BY Programs
<1>2. todo' \in [Threads -> Seq(ProgramStep)] /\ todo'["caller"] = Program(op)
  BY <1>0, <1>1 DEF Ask, VisionTypeOK, Threads, Whole, Lists
<1>3. todo'["caller"] \in Lists /\ ~Has("caller", "load")'
  BY <1>1, <1>2, WholeHead DEF Whole, Has
<1>4. asks' \in 0..MaxAsks /\ call' \in Operations \cup {None, "raised"}
  BY <1>0, VisionConstants DEF Ask, Asked, VisionTypeOK
<1>5. preview' \in BOOLEAN /\ monitoring' \in BOOLEAN /\ previewDetects' \in BOOLEAN
  BY <1>0 DEF Ask, VisionTypeOK
<1>6. VisionTypeOK'
  BY <1>0, <1>2, <1>4, <1>5 DEF Ask, VisionTypeOK, camera, history, scheduler
<1> QED  BY <1>0, <1>3, <1>6 DEF Ask, BoxesInv, Results

(* A step of either thread: it does x, and puts more in front. *)
LEMMA EitherThen ==
  ASSUME BoxesInv, NEW t \in Threads, NEW x \in Plain, Has(t, x), NEW more \in Whole,
         Then(t, more)
  PROVE  /\ todo' \in [Threads -> Seq(ProgramStep)] /\ todo'["caller"] \in Lists
         /\ call' \in Operations \cup {None, "raised"}
         /\ Has("caller", "load")' => Has("caller", "load")
<1>0. VisionTypeOK /\ todo["caller"] \in Lists
  BY DEF BoxesInv
<1>1. CASE t = "caller"
  <2>1. x \notin {"begin", "load"}
    BY DEF Plain
  <2> QED  BY <1>0, <1>1, <2>1, CallerThen
<1>2. CASE t = "capture"
  <2>1. more \in Seq(ProgramStep) /\ todo["capture"] # << >>
    BY <1>2 DEF Whole, Lists, Has
  <2>2. todo' \in [Threads -> Seq(ProgramStep)] /\ todo'["caller"] = todo["caller"]
        /\ call' = call
    BY <1>0, <1>2, <2>1, CaptureThen
  <2> QED  BY <1>0, <2>2 DEF VisionTypeOK, Has
<1> QED  BY <1>1, <1>2 DEF Threads

LEMMA ReleaseKeeps == ASSUME BoxesInv, NEW t \in Threads, Release(t) PROVE BoxesInv'
<1>0. VisionTypeOK /\ Results
  BY DEF BoxesInv
<1>1. (IF threads' = threads THEN << >> ELSE <<"await">>) \in Whole
      /\ "release" \in Plain
  BY OneStep, NoStep DEF Plain, ProgramStep
<1>2. /\ todo' \in [Threads -> Seq(ProgramStep)] /\ todo'["caller"] \in Lists
      /\ call' \in Operations \cup {None, "raised"}
      /\ Has("caller", "load")' => Has("caller", "load")
  BY <1>1, EitherThen DEF Release
<1>3. Primary \in Cameras /\ threads \in [Workers -> Worker] /\ Withdraw(Primary, threads)
  BY <1>0 DEF Cameras, VisionTypeOK, Release
<1>4. /\ demands' \in [Cameras -> Epoch] /\ pending' \in [Cameras -> Epoch]
      /\ threads' \in [Workers -> Worker] /\ (Stale(threads) => Stale(threads'))
      /\ demands'[Primary] \in {None, demands[Primary]}
      /\ pending'[Primary] \in {None, pending[Primary]}
  BY <1>0, <1>3, Withdrawing
<1>5. VisionTypeOK'
  BY <1>0, <1>2, <1>4
     DEF Release, VisionTypeOK, switches, camera, budget
<1>6. NothingNew => NothingNew'
  BY <1>4, VisionConstants DEF Release, NothingNew, Stale
<1>7. Results'
  BY <1>0 DEF Release, Results
<1> QED  BY <1>2, <1>5, <1>6, <1>7 DEF BoxesInv

LEMMA AwaitKeeps == ASSUME BoxesInv, NEW t \in Threads, Await(t) PROVE BoxesInv'
<1>0. VisionTypeOK /\ Results
  BY DEF BoxesInv
<1>1. "await" \in Plain
  BY DEF Plain, ProgramStep
<1>2. /\ todo' \in [Threads -> Seq(ProgramStep)] /\ todo'["caller"] \in Lists
      /\ call' \in Operations \cup {None, "raised"}
      /\ Has("caller", "load")' => Has("caller", "load")
  BY <1>1, EitherThen, NoStep DEF Await
<1>3. mishaps' \in 0..MaxMishaps /\ asks' \in 0..MaxAsks
  BY <1>0, VisionConstants DEF Await, Mishap, VisionTypeOK, budget
<1>4. VisionTypeOK'
  BY <1>0, <1>2, <1>3 DEF Await, VisionTypeOK, switches, camera, history, scheduler
<1>5. Results' /\ (NothingNew => NothingNew')
  BY <1>0 DEF Await, Results, NothingNew, Stale, scheduler
<1> QED  BY <1>2, <1>4, <1>5 DEF BoxesInv

LEMMA HaltKeeps == ASSUME BoxesInv, NEW t \in Threads, Halt(t) PROVE BoxesInv'
<1>0. VisionTypeOK /\ Results
  BY DEF BoxesInv
<1>1. "halt" \in Plain /\ "off" \in Plain
  BY DEF Plain, ProgramStep
<1>2. /\ todo' \in [Threads -> Seq(ProgramStep)] /\ todo'["caller"] \in Lists
      /\ call' \in Operations \cup {None, "raised"}
      /\ Has("caller", "load")' => Has("caller", "load")
  BY <1>1, EitherThen, NoStep DEF Halt
<1>3. Primary \in Cameras /\ NewEpoch(Primary) /\ carried' \in Epoch
  BY <1>0, Passing DEF Cameras, Halt, VisionTypeOK
<1>4. /\ submitting' \in Epoch /\ demands' \in [Cameras -> Epoch]
      /\ pending' \in [Cameras -> Epoch] /\ threads' \in [Workers -> Worker]
      /\ demands'[Primary] # "now" /\ pending'[Primary] # "now" /\ Stale(threads')
  BY <1>0, <1>3, NewEpochs
<1>5. /\ worker' = [worker EXCEPT ![Primary] =
           [stopped |-> TRUE, result |-> None, enabled |-> @.enabled /\ Has(t, "halt")]]
      /\ worker[Primary] \in Detector
  BY <1>0, <1>3 DEF Halt, VisionTypeOK
<1>6. [stopped |-> TRUE, result |-> None,
       enabled |-> worker[Primary].enabled /\ Has(t, "halt")] \in Detector
  BY <1>5 DEF Detector, Epoch
<1>7. worker' \in [Cameras -> Detector] /\ worker'[Primary].result = None
      /\ \A c \in Cameras : c # Primary => worker'[c] = worker[c]
  BY <1>0, <1>5, <1>6, <1>3 DEF VisionTypeOK
<1>8. VisionTypeOK'
  <2>1. UNCHANGED <<preview, monitoring, previewDetects, capture, stopped, ready, failed, lock,
                    abandoned, model, serving, mishaps, asks>>
        /\ robbed' = FALSE
    BY DEF Halt, switches, camera, budget
  <2>2. robbed' \in BOOLEAN /\ abandoned' \in BOOLEAN
    BY <1>0, <2>1 DEF VisionTypeOK
  <2> QED  BY <1>0, <1>2, <1>3, <1>4, <1>7, <2>1, <2>2 DEF VisionTypeOK
<1>9. Results'
  BY <1>0, <1>7, VisionConstants DEF Results
<1>10. NothingNew'
  BY <1>4, <1>7 DEF NothingNew, Stale
<1> QED  BY <1>2, <1>8, <1>9, <1>10 DEF BoxesInv

(* The capture thread, as far as the detector is not concerned. *)
LEMMA CaptureKeeps ==
  ASSUME BoxesInv, Opened \/ Submit \/ CameraGoes \/ Finally \/ LetCameraGo
  PROVE  BoxesInv'
<1>0. VisionTypeOK /\ Results
  BY DEF BoxesInv
<1>1. UNCHANGED <<carried, call, switches, worker, history, scheduler, threads>>
  BY DEF Opened, Submit, CameraGoes, Finally, LetCameraGo
<1>2. Pause \in Seq(ProgramStep)
  BY StepPieces DEF Whole, Lists
<1>3. todo' \in [Threads -> Seq(ProgramStep)] /\ todo'["caller"] = todo["caller"]
  BY <1>0, <1>2 DEF Opened, Submit, CameraGoes, Finally, LetCameraGo, VisionTypeOK, Threads
<1>4. /\ capture' \in {"none", "opening", "running", "failed", "ending"}
      /\ stopped' \in BOOLEAN /\ ready' \in BOOLEAN /\ failed' \in BOOLEAN /\ lock' \in BOOLEAN
      /\ submitting' \in Epoch
  BY <1>0 DEF Opened, Submit, CameraGoes, Finally, LetCameraGo, VisionTypeOK, camera, Epoch
<1>5. mishaps' \in 0..MaxMishaps /\ asks' \in 0..MaxAsks
  BY <1>0, VisionConstants DEF Opened, Submit, CameraGoes, Finally, LetCameraGo, VisionTypeOK, Mishap,
     budget
<1>6. VisionTypeOK'
  BY <1>0, <1>1, <1>3, <1>4, <1>5 DEF VisionTypeOK, switches, history, scheduler
<1>7. Results' /\ (NothingNew => NothingNew')
  BY <1>0, <1>1 DEF Results, NothingNew, Stale, scheduler
<1> QED  BY <1>3, <1>6, <1>7, Elsewhere

LEMMA OfferKeeps == ASSUME BoxesInv, Offer PROVE BoxesInv'
<1>0. VisionTypeOK /\ Results
  BY DEF BoxesInv
<1>1. PICK same \in Same(demands[Primary], submitting) :
        pending' = [pending EXCEPT ![Primary] = IF same THEN submitting ELSE @]
  BY DEF Offer
<1>2. same = TRUE => demands[Primary] = submitting
  BY <1>1 DEF Same
<1>3. pending' \in [Cameras -> Epoch] /\ submitting' \in Epoch /\ Primary \in Cameras
  BY <1>0, <1>1 DEF Offer, VisionTypeOK, Epoch, Cameras
<1>4. VisionTypeOK'
  BY <1>0, <1>3 DEF Offer, VisionTypeOK, switches, camera, history, budget
<1>5. NothingNew => NothingNew'
  BY <1>0, <1>1, <1>2, <1>3 DEF Offer, NothingNew, Stale, VisionTypeOK
<1>6. Results' /\ todo'["caller"] = todo["caller"]
  BY <1>0 DEF Offer, Results
<1> QED  BY <1>4, <1>5, <1>6, Elsewhere

LEMMA OtherKeeps ==
  ASSUME BoxesInv, WatchOther \/ UnwatchOther \/ OtherFrame
  PROVE  BoxesInv'
<1>0. VisionTypeOK /\ Results /\ Other \in Cameras /\ Primary \in Cameras /\ Other # Primary
  BY VisionConstants DEF BoxesInv, Cameras
<1>1. UNCHANGED <<todo, carried, call, switches, camera, history, submitting>>
  BY DEF WatchOther, UnwatchOther, OtherFrame
<1>2. mishaps' \in 0..MaxMishaps /\ asks' \in 0..MaxAsks
  BY <1>0, VisionConstants DEF WatchOther, UnwatchOther, OtherFrame, Asked, VisionTypeOK, budget
<1>3. worker' \in [Cameras -> Detector] /\ worker'[Primary] = worker[Primary] /\ Results'
  <2>1. CASE worker' = [worker EXCEPT ![Other].stopped = FALSE, ![Other].enabled = TRUE]
    <3>1. worker \in [Cameras -> Detector] /\ worker[Other] \in Detector
      BY <1>0 DEF VisionTypeOK
    <3> DEFINE d == [worker[Other] EXCEPT !.stopped = FALSE, !.enabled = TRUE]
    <3>2. d \in Detector /\ d.result = worker[Other].result /\ ~d.stopped
      BY <3>1 DEF Detector
    <3>3. worker'[Other] = d /\ \A c \in Cameras \ {Other} : worker'[c] = worker[c]
      BY <1>0, <2>1, <3>1
    <3>4. DOMAIN worker' = Cameras /\ worker' = [c \in Cameras |-> worker'[c]]
      BY <2>1, <3>1
    <3> HIDE DEF d
    <3>5. worker' \in [Cameras -> Detector] /\ worker'[Primary] = worker[Primary]
      BY <1>0, <3>1, <3>2, <3>3, <3>4
    <3>6. Results'
      BY <1>0, <3>2, <3>3 DEF Results
    <3> QED  BY <3>5, <3>6
  <2>2. CASE worker' = [worker EXCEPT ![Other].enabled = FALSE]
    BY <1>0, <2>2 DEF VisionTypeOK, Detector, Results
  <2>3. CASE worker' = [worker EXCEPT ![Other] =
                          [stopped |-> TRUE, enabled |-> FALSE, result |-> None]]
    BY <1>0, <2>3, VisionConstants DEF VisionTypeOK, Detector, Results, Epoch
  <2>4. CASE UNCHANGED worker
    BY <1>0, <2>4 DEF VisionTypeOK, Results
  <2> QED  BY <2>1, <2>2, <2>3, <2>4 DEF WatchOther, UnwatchOther, OtherFrame
<1>4. /\ Aged(Other) \in [Workers -> Worker]
      /\ Stale(threads) => Stale(Aged(Other))
  BY <1>0, AgedWorkers
<1>5. /\ demands' \in [Cameras -> Epoch] /\ pending' \in [Cameras -> Epoch]
      /\ threads' \in [Workers -> Worker] /\ model' \in BOOLEAN
      /\ serving' \in Workers \cup {None}
      /\ Stale(threads) => Stale(threads')
      /\ demands'[Primary] \in {None, demands[Primary]}
      /\ pending'[Primary] \in {None, pending[Primary]}
  <2>1. CASE WatchOther
    <3>1. CASE UNCHANGED <<model, demands, serving, threads, pending>>
      BY <1>0, <3>1 DEF VisionTypeOK
    <3>2. CASE /\ model' = TRUE /\ demands' = [demands EXCEPT ![Other] = "now"]
               /\ StartWorker(Aged(Other)) /\ UNCHANGED pending
      <4>1. /\ threads' \in [Workers -> Worker] /\ serving' \in Workers \cup {None}
            /\ (Stale(Aged(Other)) => Stale(threads'))
        BY <1>0, <1>4, <3>2, StartingWorker
      <4> QED  BY <1>0, <1>4, <3>2, <4>1 DEF VisionTypeOK, Epoch
    <3> QED  BY <2>1, <3>1, <3>2 DEF WatchOther
  <2>2. CASE UnwatchOther
    <3>1. /\ demands' \in [Cameras -> Epoch] /\ pending' \in [Cameras -> Epoch]
          /\ threads' \in [Workers -> Worker]
          /\ (Stale(Aged(Other)) => Stale(threads'))
          /\ demands'[Primary] \in {None, demands[Primary]}
          /\ pending'[Primary] \in {None, pending[Primary]}
      BY <1>0, <1>4, <2>2, Withdrawing DEF UnwatchOther
    <3> QED  BY <1>0, <1>4, <2>2, <3>1 DEF UnwatchOther, VisionTypeOK
  <2>3. CASE OtherFrame
    BY <1>0, <2>3 DEF OtherFrame, VisionTypeOK, Epoch
  <2> QED  BY <2>1, <2>2, <2>3
<1>6. VisionTypeOK'
  BY <1>0, <1>1, <1>2, <1>3, <1>5 DEF VisionTypeOK, switches, camera, history
<1>7. NothingNew => NothingNew'
  BY <1>0, <1>3, <1>5, VisionConstants DEF NothingNew, Stale
<1> QED  BY <1>1, <1>3, <1>6, <1>7, Elsewhere

(* One worker thread goes on, carrying nothing it did not carry. *)
LEMMA WorkerGoesOn ==
  ASSUME VisionTypeOK, NEW w \in Workers, NEW r \in Worker,
         r.camera # Primary \/ r.epoch # "now"
         \/ (r.camera = threads[w].camera /\ r.epoch = threads[w].epoch)
  PROVE  /\ [threads EXCEPT ![w] = r] \in [Workers -> Worker]
         /\ Stale(threads) => Stale([threads EXCEPT ![w] = r])
BY DEF VisionTypeOK, Stale

LEMMA Ends ==
  ASSUME VisionTypeOK, NEW w \in Workers, Leaves(w)
  PROVE  /\ threads' \in [Workers -> Worker] /\ serving' \in Workers \cup {None}
         /\ Stale(threads) => Stale(threads')
<1>1. NoWorker \in Worker /\ NoWorker.epoch # "now"
  BY NewWorkers, VisionConstants DEF NoWorker
<1> QED  BY <1>1, WorkerGoesOn DEF Leaves, VisionTypeOK

LEMMA Waits ==
  ASSUME VisionTypeOK, NEW w \in Workers, WaitsAgain(w)
  PROVE  threads' \in [Workers -> Worker] /\ (Stale(threads) => Stale(threads'))
<1> DEFINE r == [NoWorker EXCEPT !.at = "wait", !.stop = threads[w].stop]
<1>1. threads[w].stop \in BOOLEAN
  BY DEF VisionTypeOK, Worker
<1>2. r \in Worker /\ r.epoch # "now"
  BY <1>1, VisionConstants DEF NoWorker, Worker, Epoch
<1>3. threads' = [threads EXCEPT ![w] = r]
  BY DEF WaitsAgain
<1> HIDE DEF r
<1> QED  BY <1>2, <1>3, WorkerGoesOn

LEMMA PickKeeps ==
  ASSUME BoxesInv, NEW w \in Workers, NEW c \in Cameras, Pick(w, c)
  PROVE  BoxesInv'
<1>0. VisionTypeOK /\ Results
  BY DEF BoxesInv
<1> DEFINE r == [threads[w] EXCEPT !.at = "detect", !.camera = c, !.epoch = pending[c],
                                   !.loaded = model]
<1>1. r \in Worker /\ r.camera = c /\ r.epoch = pending[c]
  <2>1. threads[w] \in Worker /\ pending[c] \in Epoch /\ model \in BOOLEAN
    BY <1>0 DEF VisionTypeOK
  <2> QED  BY <2>1 DEF Worker
<1>2. threads' = [threads EXCEPT ![w] = r] /\ pending' = [pending EXCEPT ![c] = None]
  BY DEF Pick
<1> HIDE DEF r
<1>3. threads' \in [Workers -> Worker] /\ pending' \in [Cameras -> Epoch]
  BY <1>0, <1>1, <1>2 DEF VisionTypeOK, Epoch
<1>4. NothingNew => Stale(threads')
  BY <1>0, <1>1, <1>2, WorkerGoesOn DEF NothingNew
<1>5. NothingNew => NothingNew'
  BY <1>0, <1>2, <1>4, VisionConstants DEF Pick, NothingNew, Stale, VisionTypeOK
<1>6. VisionTypeOK'
  BY <1>0, <1>3 DEF Pick, VisionTypeOK, switches, camera, history, budget
<1>7. Results' /\ todo'["caller"] = todo["caller"]
  BY <1>0 DEF Pick, Results
<1> QED  BY <1>5, <1>6, <1>7, Elsewhere

LEMMA AnsweredKeeps ==
  ASSUME BoxesInv, NEW w \in Workers, Stops(w) \/ Detected(w) \/ Failed(w)
  PROVE  BoxesInv'
<1>0. VisionTypeOK /\ Results /\ threads[w] \in Worker
  BY DEF BoxesInv, VisionTypeOK
<1>1. UNCHANGED <<todo, carried, call, switches, camera, worker, history, submitting>>
  BY DEF Stops, Detected, Failed
<1>2. /\ threads' \in [Workers -> Worker] /\ serving' \in Workers \cup {None}
      /\ Stale(threads) => Stale(threads')
  <2>1. CASE Leaves(w)
    BY <1>0, <2>1, Ends
  <2>2. CASE WaitsAgain(w) /\ UNCHANGED serving
    BY <1>0, <2>2, Waits DEF VisionTypeOK
  <2>3. CASE threads' = [threads EXCEPT ![w].at = "deliver"] /\ UNCHANGED serving
    <3> DEFINE r == [threads[w] EXCEPT !.at = "deliver"]
    <3>1. r \in Worker /\ r.camera = threads[w].camera /\ r.epoch = threads[w].epoch
      BY <1>0 DEF Worker
    <3>2. threads' = [threads EXCEPT ![w] = r]
      BY <2>3
    <3> HIDE DEF r
    <3>3. /\ [threads EXCEPT ![w] = r] \in [Workers -> Worker]
          /\ Stale(threads) => Stale([threads EXCEPT ![w] = r])
      BY <1>0, <3>1, WorkerGoesOn
    <3>4. serving' \in Workers \cup {None}
      BY <1>0, <2>3 DEF VisionTypeOK
    <3> QED  BY <3>2, <3>3, <3>4
  <2>4. CASE /\ UNCHANGED serving
             /\ threads' = [threads EXCEPT ![w] =
                  [NoWorker EXCEPT !.at = "tell", !.stop = TRUE,
                                   !.tell = {c \in Cameras : demands[c] # None}]]
    <3> DEFINE r == [NoWorker EXCEPT !.at = "tell", !.stop = TRUE,
                                     !.tell = {c \in Cameras : demands[c] # None}]
    <3>1. r \in Worker /\ r.epoch # "now"
      BY VisionConstants DEF NoWorker, Worker, Epoch
    <3>2. threads' = [threads EXCEPT ![w] = r]
      BY <2>4
    <3> HIDE DEF r
    <3>3. /\ [threads EXCEPT ![w] = r] \in [Workers -> Worker]
          /\ Stale(threads) => Stale([threads EXCEPT ![w] = r])
      BY <1>0, <3>1, WorkerGoesOn
    <3>4. serving' \in Workers \cup {None}
      BY <1>0, <2>4 DEF VisionTypeOK
    <3> QED  BY <3>2, <3>3, <3>4
  <2> QED  BY <2>1, <2>2, <2>3, <2>4 DEF Stops, Detected, Failed
<1>3. /\ demands' \in [Cameras -> Epoch] /\ pending' \in [Cameras -> Epoch]
      /\ model' \in BOOLEAN
      /\ demands'[Primary] \in {None, demands[Primary]}
      /\ pending'[Primary] \in {None, pending[Primary]}
  <2>1. Primary \in Cameras
    BY DEF Cameras
  <2> QED  BY <1>0, <2>1 DEF Stops, Detected, Failed, VisionTypeOK, Epoch
<1>4. mishaps' \in 0..MaxMishaps /\ asks' \in 0..MaxAsks
  BY <1>0, VisionConstants DEF Stops, Detected, Failed, Mishap, VisionTypeOK, budget
<1>5. VisionTypeOK'
  BY <1>0, <1>1, <1>2, <1>3, <1>4 DEF VisionTypeOK, switches, camera, history
<1>6. NothingNew => NothingNew'
  BY <1>1, <1>2, <1>3, VisionConstants DEF NothingNew, Stale
<1>7. Results'
  BY <1>0, <1>1 DEF Results
<1> QED  BY <1>1, <1>5, <1>6, <1>7, Elsewhere

LEMMA DeliverKeeps == ASSUME BoxesInv, NEW w \in Workers, Deliver(w) PROVE BoxesInv'
<1>0. VisionTypeOK /\ Results /\ threads[w] \in Worker
  BY DEF BoxesInv, VisionTypeOK
<1> DEFINE c == threads[w].camera
<1>1. threads' \in [Workers -> Worker] /\ (Stale(threads) => Stale(threads'))
  BY <1>0, Waits DEF Deliver
<1>2. worker' = (IF worker[c].stopped \/ threads[w].epoch # "now" THEN worker
                 ELSE [worker EXCEPT ![c].result = threads[w].epoch])
  BY DEF Deliver
<1>3. /\ worker' \in [Cameras -> Detector] /\ Results'
      /\ NothingNew => worker'[Primary] = worker[Primary]
  <2>1. CASE worker' = worker
    BY <1>0, <2>1 DEF VisionTypeOK, Results
  <2>2. CASE /\ ~worker[c].stopped /\ threads[w].epoch = "now"
             /\ worker' = [worker EXCEPT ![c].result = "now"]
    <3>1. worker' \in [Cameras -> Detector]
      BY <1>0, <2>2 DEF VisionTypeOK, Detector, Epoch
    <3>2. Results'
      BY <1>0, <2>2 DEF VisionTypeOK, Detector, Results
    <3>3. NothingNew => worker'[Primary] = worker[Primary]
      BY <1>0, <2>2 DEF NothingNew, Stale, VisionTypeOK, Cameras
    <3> QED  BY <3>1, <3>2, <3>3
  <2> QED  BY <1>2, <2>1, <2>2
<1>4. VisionTypeOK'
  BY <1>0, <1>1, <1>3 DEF Deliver, VisionTypeOK, switches, camera, history, scheduler, budget
<1>5. NothingNew => NothingNew'
  BY <1>1, <1>3 DEF Deliver, NothingNew, Stale, scheduler
<1>6. todo'["caller"] = todo["caller"]
  BY DEF Deliver
<1> QED  BY <1>3, <1>4, <1>5, <1>6, Elsewhere

LEMMA TellKeeps == ASSUME BoxesInv, NEW w \in Workers, Tell(w) PROVE BoxesInv'
<1>0. VisionTypeOK /\ Results /\ threads[w] \in Worker
  BY DEF BoxesInv, VisionTypeOK
<1>1. /\ UNCHANGED <<todo, carried, call, switches, camera, history, submitting, demands, pending,
                     model, budget>>
      /\ todo'["caller"] = todo["caller"]
  BY DEF Tell
<1>2. CASE threads[w].tell = {}
  <2>1. Leaves(w) /\ UNCHANGED worker
    BY <1>2 DEF Tell
  <2>2. /\ threads' \in [Workers -> Worker] /\ serving' \in Workers \cup {None}
        /\ (Stale(threads) => Stale(threads'))
    BY <1>0, <2>1, Ends
  <2>3. VisionTypeOK'
    BY <1>0, <1>1, <2>1, <2>2 DEF VisionTypeOK, switches, camera, history, budget
  <2>4. Results' /\ (NothingNew => NothingNew')
    BY <1>0, <1>1, <2>1, <2>2 DEF Results, NothingNew, Stale
  <2> QED  BY <1>1, <2>3, <2>4, Elsewhere
<1>3. CASE threads[w].tell # {}
  <2>1. PICK c \in threads[w].tell :
          /\ threads' = [threads EXCEPT ![w].tell = @ \ {c}]
          /\ worker' = (IF worker[c].stopped THEN worker
                        ELSE [worker EXCEPT ![c] = [stopped |-> TRUE, enabled |-> FALSE,
                                                    result |-> None]])
          /\ UNCHANGED serving
    BY <1>3 DEF Tell
  <2>2. c \in Cameras
    BY <1>0 DEF Worker
  <2> DEFINE r == [threads[w] EXCEPT !.tell = @ \ {c}]
  <2>3. r \in Worker /\ r.camera = threads[w].camera /\ r.epoch = threads[w].epoch
    BY <1>0 DEF Worker
  <2>4. threads' = [threads EXCEPT ![w] = r]
    BY <2>1
  <2> HIDE DEF r
  <2>5. threads' \in [Workers -> Worker] /\ (Stale(threads) => Stale(threads'))
    BY <1>0, <2>3, <2>4, WorkerGoesOn
  <2>6. [stopped |-> TRUE, enabled |-> FALSE, result |-> None] \in Detector
    BY DEF Detector, Epoch
  <2>7. /\ worker' \in [Cameras -> Detector] /\ Results'
        /\ worker[Primary].result = None => worker'[Primary].result = None
    BY <1>0, <2>1, <2>2, <2>6, VisionConstants DEF VisionTypeOK, Results, Cameras
  <2>8. VisionTypeOK'
    BY <1>0, <1>1, <2>1, <2>5, <2>7 DEF VisionTypeOK, switches, camera, history, budget
  <2>9. NothingNew => NothingNew'
    BY <1>1, <2>5, <2>7 DEF NothingNew, Stale
  <2> QED  BY <1>1, <2>7, <2>8, <2>9, Elsewhere
<1> QED  BY <1>2, <1>3

------------------------------------------------------------------------------
LEMMA BoxesStart == ASSUME VisionInit PROVE BoxesInv
<1>1. << >> \in Whole
  BY NoStep
<1>2. todo \in [Threads -> Seq(ProgramStep)] /\ todo["caller"] = << >>
  BY DEF VisionInit, Threads
<1>3. todo["caller"] \in Lists /\ ~Has("caller", "load")
  BY <1>1, <1>2 DEF Whole, Has
<1>4. worker \in [Cameras -> Detector] /\ Results
  BY VisionConstants DEF VisionInit, Detector, Epoch, Results
<1>5. threads \in [Workers -> Worker]
  BY NewWorkers DEF VisionInit
<1>6. VisionTypeOK
  <2>1. None \in Epoch /\ mishaps \in 0..MaxMishaps /\ asks \in 0..MaxAsks
        /\ previewDetects \in BOOLEAN
    BY VisionConstants DEF VisionInit, Epoch
  <2> QED  BY <1>2, <1>4, <1>5, <2>1 DEF VisionInit, VisionTypeOK
<1> QED  BY <1>3, <1>4, <1>6 DEF BoxesInv

LEMMA BoxesStep == ASSUME BoxesInv, [VisionNext]_visionVars PROVE BoxesInv'
<1>1. CASE Caller
  <2>1. "caller" \in Threads
    BY DEF Threads
  <2> QED
    BY <1>1, <2>1, ReleaseKeeps, AwaitKeeps, HaltKeeps, LoadKeeps, RegisterKeeps, BeginKeeps,
       EnableKeeps, QuietSteps DEF Caller, Steps
<1>2. CASE Capture
  <2>1. "capture" \in Threads
    BY DEF Threads
  <2> QED
    BY <1>2, <2>1, ReleaseKeeps, AwaitKeeps, HaltKeeps, OfferKeeps, CaptureKeeps
       DEF Capture, Steps
<1>3. CASE WatchOther \/ UnwatchOther \/ OtherFrame
  BY <1>3, OtherKeeps
<1>4. CASE \E op \in Operations : Ask(op)
  BY <1>4, AskKeeps
<1>5. CASE \E w \in Workers : Inference(w)
  BY <1>5, PickKeeps, AnsweredKeeps, DeliverKeeps, TellKeeps DEF Inference
<1>6. CASE UNCHANGED visionVars
  <2>1. VisionTypeOK' /\ Results' /\ todo'["caller"] = todo["caller"] /\ (NothingNew => NothingNew')
    BY <1>6 DEF BoxesInv, VisionTypeOK, Results, NothingNew, Stale, visionVars, switches, camera, history,
       scheduler, budget
  <2> QED  BY <2>1, Elsewhere
<1> QED  BY <1>1, <1>2, <1>3, <1>4, <1>5, <1>6 DEF VisionNext

(* Whatever the threads of the primary camera, the other camera and the    *)
(* worker threads do, and in whatever order, the boxes shown over a camera *)
(* are of the run of its detector that is on: what an older run found, or  *)
(* a frame handed in before the last stop, is never shown, and a detector  *)
(* that is stopped shows nothing (DetectionWorker, InferenceScheduler).    *)
THEOREM BoxesStayCurrent == VisionSpec => [](VisionTypeOK /\ BoxesAreCurrent)
<1>1. BoxesInv => VisionTypeOK /\ BoxesAreCurrent
  BY DEF BoxesInv, VisionTypeOK, Results, BoxesAreCurrent, Detector, Epoch
<1> QED  BY <1>1, BoxesStart, BoxesStep, PTL DEF VisionSpec
=============================================================================
