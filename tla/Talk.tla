-------------------------------- MODULE Talk --------------------------------
(***************************************************************************)
(* The node's one speaker and everything that plays through it             *)
(* (audio/talk.py, audio/speech.py, audio/sounds.py, audio/playback.py,    *)
(* hardware/speaker.py and the audio routes of web.py).                    *)
(*                                                                         *)
(* audio_lock is a plain lock: its holder is the push-to-talk stream, a    *)
(* web request that plays speech, a saved sample, a sound or a tune, or    *)
(* the sentry worker (module Triggers).  Push-to-talk is a session: start  *)
(* takes the lock and a thread plays what the phone sends until it is      *)
(* finished, cancelled, expired or broken.  The sessions share one object: *)
(* one cancelled event, one queue, one error, whoever is current.  A       *)
(* chunk is a number, its bytes are not modelled; the player processes     *)
(* (aplay, ffmpeg, espeak) are external, and each may fail at any point.   *)
(***************************************************************************)
EXTENDS Naturals, Sequences

CONSTANTS MaxSessions,  \* bound: push-to-talk sessions opened
          MaxChunks,    \* bound: chunks a phone offers in one session
          Depth         \* chunks.maxsize (12 in the code)

ASSUME TalkAssumption == /\ MaxSessions \in Nat \ {0}
                         /\ MaxChunks \in Nat
                         /\ Depth \in Nat \ {0}

VARIABLES
    holder,   \* who holds audio_lock: "nobody", "talk", "web" or "engine"
    left,     \* commands the file player that holds the lock has still to run
    talk,     \* the TalkStream's fields; token is the number of the session
    player,   \* session -> its _play thread: where it is, the chunks it was
              \* sent and the chunks it has written to the speaker
    finish,   \* session -> the finish() call the phone waits on
    told,     \* session -> what the last finish() call that ended well said
    closed,   \* shutdown_requested is set and TalkStream.close() was called
    cut       \* history: sessions whose audio was given up on their behalf:
              \* cancelled was set while they were the current one

talkVars == <<holder, left, talk, player, finish, told, closed, cut>>

Sessions == 1 .. MaxSessions

TalkInit ==
    /\ holder = "nobody" /\ left = 0
    /\ talk = [token |-> 0, error |-> FALSE, accepting |-> FALSE,
               chunks |-> <<>>, sequence |-> 0, cancelled |-> FALSE]
    /\ player = [s \in Sessions |-> [at |-> "unborn", sent |-> 0, heard |-> 0]]
    /\ finish = [s \in Sessions |-> [at |-> "no", cancel |-> FALSE]]
    /\ told = [s \in Sessions |-> "nothing"]
    /\ closed = FALSE
    /\ cut = {}

----------------------------------------------------------------------------
(* The phone's requests.  Each one runs under the stream's guard.          *)

(* start: the lock without waiting, a fresh token, queue and sequence, the *)
(* cancelled event cleared, and the thread.  A device or a process that    *)
(* cannot be had gives the lock back and changes nothing.                  *)
Start(s) ==
    /\ ~closed /\ holder = "nobody" /\ s = talk.token + 1
    /\ holder' = "talk"
    /\ talk' = [token |-> s, error |-> FALSE, accepting |-> TRUE,
                chunks |-> <<>>, sequence |-> 0, cancelled |-> FALSE]
    /\ player' = [player EXCEPT ![s].at = "preroll"]
    /\ UNCHANGED <<left, finish, told, closed, cut>>

(* _check: the token is the current one and nothing has gone wrong.        *)
Checked(s) == talk.token = s /\ ~talk.error

(* cancelled.set(), which gives up the audio of whoever is current.        *)
GiveUp == cut' = IF talk.token \in Sessions THEN cut \cup {talk.token} ELSE cut

(* chunk: in sequence while the session accepts; a full queue cancels the  *)
(* session and tells the phone that its connection is too slow.            *)
Chunk(s) ==
    /\ ~closed /\ Checked(s) /\ talk.accepting /\ talk.sequence < MaxChunks
    /\ \/ /\ Len(talk.chunks) < Depth
          /\ talk' = [talk EXCEPT !.chunks = Append(@, "chunk"),
                                  !.sequence = @ + 1]
          /\ player' = [player EXCEPT ![s].sent = @ + 1]
          /\ UNCHANGED cut
       \/ /\ Len(talk.chunks) = Depth
          /\ talk' = [talk EXCEPT !.cancelled = TRUE]
          /\ GiveUp
          /\ UNCHANGED player
    /\ UNCHANGED <<holder, left, finish, told, closed>>

End == "end"  \* the None that finish() puts behind the last chunk

(* finish, up to the join: cancel, or the end mark, for which a full queue *)
(* has no room (the session is cancelled and goes on accepting).           *)
Finish(s, cancel) ==
    /\ ~closed /\ finish[s].at = "no" /\ Checked(s)
    /\ LET full == ~cancel /\ talk.accepting /\ Len(talk.chunks) = Depth
       IN /\ talk' = [talk EXCEPT
                !.cancelled = @ \/ cancel \/ full,
                !.accepting = full,
                !.chunks = IF ~cancel /\ talk.accepting /\ ~full
                           THEN Append(@, End) ELSE @]
          /\ IF cancel \/ full THEN GiveUp ELSE UNCHANGED cut
          /\ finish' = IF full THEN finish
                       ELSE [finish EXCEPT ![s] = [at |-> "join", cancel |-> cancel]]
    /\ UNCHANGED <<holder, left, player, told, closed>>

(* The join ends with the thread, or after six seconds without it.         *)
Join(s) ==
    /\ finish[s].at = "join"
    /\ finish' = [finish EXCEPT ![s].at = IF player[s].at = "dead" THEN "check"
                                          ELSE "late"]
    /\ UNCHANGED <<holder, left, talk, player, told, closed, cut>>

(* The thread was alive: the event is set, whoever is current by now.      *)
GiveUpLate(s) ==
    /\ finish[s].at = "late"
    /\ talk' = [talk EXCEPT !.cancelled = TRUE]
    /\ GiveUp
    /\ finish' = [finish EXCEPT ![s].at = "no"]
    /\ UNCHANGED <<holder, left, player, told, closed>>

(* The second _check, and the answer.                                      *)
Answer(s) ==
    /\ finish[s].at = "check"
    /\ told' = IF Checked(s)
               THEN [told EXCEPT ![s] = IF finish[s].cancel THEN "cancelled" ELSE "finished"]
               ELSE told
    /\ finish' = [finish EXCEPT ![s].at = "no"]
    /\ UNCHANGED <<holder, left, talk, player, closed, cut>>

(* The web server stops: no further request, and close() cancels.          *)
Close ==
    /\ ~closed
    /\ closed' = TRUE
    /\ talk' = [talk EXCEPT !.cancelled = TRUE]
    /\ GiveUp
    /\ UNCHANGED <<holder, left, player, finish, told>>

----------------------------------------------------------------------------
(* The thread of a session: _play.                                         *)

Goes(s, to) == player' = [player EXCEPT ![s].at = to]

Preroll(s) ==
    /\ player[s].at = "preroll"
    /\ Goes(s, "loop")
    /\ UNCHANGED <<holder, left, talk, finish, told, closed, cut>>

(* The next chunk, or the end mark.                                        *)
Take(s) ==
    /\ player[s].at = "loop" /\ ~talk.cancelled /\ talk.chunks # <<>>
    /\ Goes(s, IF Head(talk.chunks) = End THEN "tail" ELSE "write")
    /\ talk' = [talk EXCEPT !.chunks = Tail(@)]
    /\ UNCHANGED <<holder, left, finish, told, closed, cut>>

Write(s) ==
    /\ player[s].at = "write"
    /\ player' = [player EXCEPT ![s].at = "loop", ![s].heard = @ + 1]
    /\ UNCHANGED <<holder, left, talk, finish, told, closed, cut>>

(* The silence after the last chunk, and the wait for the players to end.  *)
Drain(s) ==
    /\ player[s].at = "tail"
    /\ Goes(s, "ending")
    /\ UNCHANGED <<holder, left, talk, finish, told, closed, cut>>

(* The loop's condition, or InterruptedError out of a write.               *)
Interrupted(s) ==
    /\ talk.cancelled /\ player[s].at \in {"preroll", "loop", "write", "tail"}
    /\ Goes(s, "ending")
    /\ UNCHANGED <<holder, left, talk, finish, told, closed, cut>>

(* Mutant of Break: the failure is logged but not kept for the phone. *)
BreakQuietly(s) ==
    /\ player[s].at \in {"preroll", "loop", "write", "tail"}
    /\ player[s].at = "loop" => ~talk.cancelled
    /\ Goes(s, "ending")
    /\ UNCHANGED <<holder, left, talk, finish, told, closed, cut>>

(* A speaker that disconnected or stopped consuming, a failing voice       *)
(* effect, or a transmission that expired: IDLE_SECONDS without a chunk,   *)
(* or MAX_SECONDS in all.                                                  *)
Break(s) ==
    /\ player[s].at \in {"preroll", "loop", "write", "tail"}
    /\ player[s].at = "loop" => ~talk.cancelled
    /\ talk' = [talk EXCEPT !.error = TRUE]
    /\ Goes(s, "ending")
    /\ UNCHANGED <<holder, left, finish, told, closed, cut>>

(* Mutant of LetGo: the lock is given back only after a clean ending. *)
LetGoUnlessBroken(s) ==
    /\ player[s].at = "ending"
    /\ talk' = [talk EXCEPT !.accepting = FALSE]
    /\ holder' = IF talk.error THEN holder ELSE "nobody"
    /\ Goes(s, "leaving")
    /\ UNCHANGED <<left, finish, told, closed, cut>>

(* finally: the processes are ended, and the lock is given back.           *)
LetGo(s) ==
    /\ player[s].at = "ending"
    /\ talk' = [talk EXCEPT !.accepting = FALSE]
    /\ holder' = "nobody"
    /\ Goes(s, "leaving")
    /\ UNCHANGED <<left, finish, told, closed, cut>>

(* The thread is over some time after it gave the lock back.               *)
Leave(s) ==
    /\ player[s].at = "leaving"
    /\ Goes(s, "dead")
    /\ UNCHANGED <<holder, left, talk, finish, told, closed, cut>>

Plays(s) == \/ Preroll(s) \/ Take(s) \/ Write(s) \/ Drain(s) \/ Interrupted(s)
            \/ Break(s) \/ LetGo(s) \/ Leave(s)

----------------------------------------------------------------------------
(* Playing from a file: so many bounded commands, one after the other.     *)

RenderedBy == 1   \* espeak-ng or Kokoro, text into a file
PreparedBy == 1   \* ffmpeg: volume, pitch, lead-in and tail
PlayedBy   == 1   \* pw-play, paplay or aplay

Speech == RenderedBy + PreparedBy + PlayedBy   \* text from the page
Sample == PreparedBy + PlayedBy                \* a saved message, rendered before
Sound  == PreparedBy + PlayedBy                \* an uploaded file
Tune   == PlayedBy
Tone   == PlayedBy                             \* the test of the speaker

Pieces == {Speech, Sample, Sound, Tune, Tone}

(* speak, play_from_soundboard, sounds/play, tunes/play, test-output: the  *)
(* lock, or "Speaker is busy".                                             *)
WebPlay(n) ==
    /\ ~closed /\ holder = "nobody"
    /\ holder' = "web" /\ left' = n
    /\ UNCHANGED <<talk, player, finish, told, closed, cut>>

(* One command ends well.  The next one does not start once the stop event *)
(* is set; the one that is running when it is set may still end by itself. *)
CommandEnds(stopped) ==
    /\ left > 0
    /\ left > 1 => ~stopped
    /\ left' = left - 1
    /\ UNCHANGED <<holder, talk, player, finish, told, closed, cut>>

(* A command fails, runs out of time or is ended by the stop event.        *)
CommandFails ==
    /\ left > 0
    /\ left' = 0
    /\ UNCHANGED <<holder, talk, player, finish, told, closed, cut>>

WebLetsGo ==
    /\ holder = "web" /\ left = 0
    /\ holder' = "nobody"
    /\ UNCHANGED <<left, talk, player, finish, told, closed, cut>>

WebStep == \/ \E n \in Pieces : WebPlay(n)
           \/ holder = "web" /\ (CommandEnds(closed) \/ CommandFails)
           \/ WebLetsGo

TalkStep ==
    \/ \E s \in Sessions : \/ Start(s) \/ Chunk(s)
                           \/ \E cancel \in BOOLEAN : Finish(s, cancel)
                           \/ Join(s) \/ GiveUpLate(s) \/ Answer(s) \/ Plays(s)
    \/ Close

(* Every command and every write has a deadline, and the loop expires, so  *)
(* a thread that holds the speaker always takes another step.              *)
TalkFairness == /\ \A s \in Sessions : WF_talkVars(Plays(s))
                /\ WF_talkVars(holder = "web" /\ (CommandEnds(closed) \/ CommandFails))
                /\ WF_talkVars(WebLetsGo)

----------------------------------------------------------------------------
(* A phone that was told "Transmission finished." was heard: every chunk   *)
(* the node accepted in that session was written to the speaker, whatever  *)
(* other sessions, late joins and failures did to the fields they share.   *)
(* The exception is a session whose audio was given up for it (a cancel, a *)
(* full queue, the shutdown): talk.py answers "finished" there too.        *)
FinishedMeansHeard ==
    \A s \in Sessions : told[s] = "finished" /\ s \notin cut =>
                            player[s].heard = player[s].sent

(* The speaker is always given back, whatever happens to the phone, the    *)
(* player processes or the request that took it.                           *)
SpeakerGivenBack == \A who \in {"talk", "web", "engine"} :
                        (holder = who) ~> (holder # who)

=============================================================================
