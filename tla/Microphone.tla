----------------------------- MODULE Microphone -----------------------------
(***************************************************************************)
(* A satellite's microphone on its way to a reader on the hub              *)
(* (satellite audio/capture.py, audio/publisher.py, audio/source.py; hub   *)
(* audio/blocks.py and the subscriptions of audio/remote.py).              *)
(*                                                                         *)
(* On the node one capture thread reads the device for every tap and runs  *)
(* only while there is one: subscribe and unsubscribe start it and let it  *)
(* go through the tap list, the wake event and a join, under a lock that   *)
(* is not held throughout.  Blocks go to the hub over a connection of the  *)
(* media gateway (module Media), numbered from zero on each; the hub puts  *)
(* them back together and hands them to the subscription.                  *)
(*                                                                         *)
(* A block is one unit of sound; its content is its first sample's number. *)
(***************************************************************************)
EXTENDS Naturals, Sequences, FiniteSets

CONSTANTS None,          \* no thread
          QueueBlocks,   \* QUEUE_BLOCKS of a tap
          QueueBytes,    \* QUEUE_BYTES of a subscription, in blocks
          MaxFill,       \* MAX_FILL, in blocks: the longest gap filled
          MaxAway,       \* bound: blocks lost while the program is restarted
          Threads,       \* threads to tell apart: one more than can be in use
          MaxMishaps     \* bound: dying captures, lost links, slow joins

ASSUME MicrophoneAssumption ==
    /\ {QueueBlocks, QueueBytes} \subseteq Nat \ {0}
    /\ {MaxFill, MaxAway, MaxMishaps} \subseteq Nat
    /\ None \notin Threads

VARIABLES
    reader,   \* reader -> its part in subscribe: "off", "joining", "on", and
              \* the thread it found there
    taps,     \* the readers in the capture's tap list
    queue,    \* the publisher's tap: chunks waiting (the detector's is not kept:
              \* it only measures a level)
    thread,   \* capture thread -> "run", "reading", "closing", "retry",
              \* "leaving" (past the last look at the taps) or "dead"
    current,  \* the capture's thread, None if there never was one
    slow,     \* history: readers that gave up joining a slow thread
    wake,     \* the capture's wake event
    samples,  \* samples counted, and whether the program was away since
    link,     \* the publisher's connection: up, and the next block's number
    wire,     \* the block on its way to the hub
    sink,     \* the hub's reassembler for that connection
    share,    \* the subscription: open, and its chunks
    mishaps   \* bound: mishaps so far

micVars == <<reader, taps, queue, thread, current, slow, wake, samples, link, wire, sink, share,
             mishaps>>

Readers == {"stream", "activity"}
Alive == {"run", "reading", "closing", "retry", "leaving"}
NoSink == [sequence |-> 0, next |-> 0, any |-> FALSE]
Silence == 0

IsAlive(t) == t # None /\ thread[t] \in Alive

MicInit ==
    /\ reader = [r \in Readers |-> [at |-> "off", old |-> None]]
    /\ taps = {}
    /\ queue = <<>>
    /\ thread = [t \in Threads |-> "dead"] /\ current = None
    /\ slow = {}
    /\ wake = FALSE
    /\ samples = [count |-> 1, away |-> FALSE]
    /\ link = [up |-> FALSE, sequence |-> 0]
    /\ wire = <<>>
    /\ sink = NoSink
    /\ share = [open |-> FALSE, chunks |-> <<>>]
    /\ mishaps = 0

Mishap == mishaps < MaxMishaps /\ mishaps' = mishaps + 1

----------------------------------------------------------------------------
(* The capture's readers.                                                  *)

(* Who subscribes: the activity detector once, the publisher's connection  *)
(* after its handshake; and who leaves: the publisher when its connection  *)
(* is over, the detector when the source is stopped.                       *)
Comes(r) == r = "stream" => link.up
Goes(r)  == r = "stream" => ~link.up

(* Capture.subscribe up to the join: a capture that is running and is not  *)
(* closing takes the tap along.                                            *)
Subscribe(r) ==
    /\ reader[r].at = "off" /\ Comes(r)
    /\ taps' = taps \cup {r}
    /\ queue' = IF r = "stream" THEN <<>> ELSE queue
    /\ reader' = [reader EXCEPT ![r] =
           IF IsAlive(current) /\ ~wake THEN [at |-> "on", old |-> None]
           ELSE [at |-> "joining", old |-> current]]
    /\ UNCHANGED <<thread, current, slow, wake, samples, link, wire, sink, share, mishaps>>

(* A new capture thread.                                                   *)
StartThread ==
    LET t == CHOOSE t \in Threads : ~IsAlive(t) /\ \A r \in Readers : reader[r].old # t
    IN /\ thread' = [thread EXCEPT ![t] = "run"]
       /\ current' = t
       /\ wake' = FALSE

(* Mutant of StartIfNeeded: another reader's thread is not looked at. *)
StartAnyway(r) == reader' = [reader EXCEPT ![r] = [at |-> "on", old |-> None]] /\ StartThread

(* Under the lock again: a new thread, unless one is alive or nobody reads *)
(* any more.                                                               *)
StartIfNeeded(r) ==
    /\ reader' = [reader EXCEPT ![r] = [at |-> "on", old |-> None]]
    /\ IF taps # {} /\ ~IsAlive(current)
       THEN StartThread
       ELSE UNCHANGED <<wake, thread, current>>

(* The join ends with the thread that was found.                           *)
Joined(r) ==
    /\ reader[r].at = "joining" /\ ~IsAlive(reader[r].old)
    /\ StartIfNeeded(r)
    /\ UNCHANGED <<taps, queue, slow, samples, link, wire, sink, share, mishaps>>

(* The join gives up on a capture that takes more than five seconds to     *)
(* close; the tap then has no thread behind it.                            *)
JoinGivesUp(r) ==
    /\ reader[r].at = "joining" /\ IsAlive(reader[r].old)
    /\ Mishap
    /\ StartIfNeeded(r)
    /\ slow' = slow \cup {r}
    /\ UNCHANGED <<taps, queue, samples, link, wire, sink, share>>

(* Mutant of Unsubscribe: the last reader's leave does not wake the thread. *)
UnsubscribeAsleep(r) ==
    /\ reader[r].at = "on" /\ Goes(r)
    /\ reader' = [reader EXCEPT ![r].at = "off"]
    /\ taps' = taps \ {r}
    /\ UNCHANGED <<queue, thread, current, slow, wake, samples, link, wire, sink, share, mishaps>>

Unsubscribe(r) ==
    /\ reader[r].at = "on" /\ Goes(r)
    /\ reader' = [reader EXCEPT ![r].at = "off"]
    /\ taps' = taps \ {r}
    /\ wake' = (wake \/ taps = {r})
    /\ UNCHANGED <<queue, thread, current, slow, samples, link, wire, sink, share, mishaps>>

----------------------------------------------------------------------------
(* The capture's own thread.                                               *)

Wanted == taps # {} /\ ~wake

(* _once: the program is started.  What it missed while it was away is     *)
(* added to the count.                                                     *)
Open(t) ==
    /\ thread[t] = "run"
    /\ IF Wanted
       THEN /\ thread' = [thread EXCEPT ![t] = "reading"]
            /\ \E away \in 0 .. (IF samples.away THEN MaxAway ELSE 0) :
                   samples' = [count |-> samples.count + away, away |-> FALSE]
       ELSE /\ thread' = [thread EXCEPT ![t] = "leaving"]
            /\ UNCHANGED samples
    /\ UNCHANGED <<reader, taps, queue, current, slow, wake, link, wire, sink, share, mishaps>>

(* Tap.put: the oldest chunk makes room for the newest.                    *)
TapPut(chunks, c) == Append(IF Len(chunks) >= QueueBlocks THEN Tail(chunks) ELSE chunks, c)

(* A block is read and put on every tap.                                   *)
ReadBlock(t) ==
    /\ thread[t] = "reading" /\ Wanted
    /\ queue' = IF "stream" \in taps THEN TapPut(queue, samples.count) ELSE queue
    /\ samples' = [samples EXCEPT !.count = @ + 1]
    /\ UNCHANGED <<reader, taps, thread, current, slow, wake, link, wire, sink, share, mishaps>>

(* The program exits, stalls or cannot be opened.                          *)
CaptureDies(t) ==
    /\ thread[t] = "reading" /\ Mishap
    /\ thread' = [thread EXCEPT ![t] = "closing"]
    /\ UNCHANGED <<reader, taps, queue, current, slow, wake, samples, link, wire, sink, share>>

(* Nobody reads any more.                                                  *)
Unwanted(t) ==
    /\ thread[t] = "reading" /\ ~Wanted
    /\ thread' = [thread EXCEPT ![t] = "closing"]
    /\ UNCHANGED <<reader, taps, queue, current, slow, wake, samples, link, wire, sink, share, mishaps>>

(* finally: the program is stopped, which frees the device.                *)
Closed(t) ==
    /\ thread[t] = "closing"
    /\ thread' = [thread EXCEPT ![t] = "retry"]
    /\ samples' = [samples EXCEPT !.away = TRUE]
    /\ UNCHANGED <<reader, taps, queue, current, slow, wake, link, wire, sink, share, mishaps>>

Retry(t) ==
    /\ thread[t] = "retry"
    /\ thread' = [thread EXCEPT ![t] = IF wake THEN "leaving" ELSE "run"]
    /\ UNCHANGED <<reader, taps, queue, current, slow, wake, samples, link, wire, sink, share, mishaps>>

(* The thread that has decided to leave is gone.                           *)
Exit(t) ==
    /\ thread[t] = "leaving"
    /\ thread' = [thread EXCEPT ![t] = "dead"]
    /\ UNCHANGED <<reader, taps, queue, current, slow, wake, samples, link, wire, sink, share, mishaps>>

CaptureStep(t) == \/ Open(t) \/ ReadBlock(t) \/ CaptureDies(t) \/ Unwanted(t)
                  \/ Closed(t) \/ Retry(t) \/ Exit(t)

----------------------------------------------------------------------------
(* The connection.                                                         *)

(* A stream somebody on the hub asked for is connected, with a sink of its *)
(* own on the hub's side.                                                  *)
Connect ==
    /\ ~link.up /\ share.open /\ reader["stream"].at = "off"
    /\ link' = [up |-> TRUE, sequence |-> 0]
    /\ sink' = NoSink
    /\ UNCHANGED <<reader, taps, queue, thread, current, slow, wake, samples, wire, share, mishaps>>

HangUp == link' = [link EXCEPT !.up = FALSE] /\ wire' = <<>>

(* Lost, too slow, or over because nobody wants it any more.               *)
LinkFails ==
    /\ link.up /\ Mishap /\ HangUp
    /\ UNCHANGED <<reader, taps, queue, thread, current, slow, wake, samples, sink, share>>

StreamStops ==
    /\ link.up /\ ~share.open /\ HangUp
    /\ UNCHANGED <<reader, taps, queue, thread, current, slow, wake, samples, sink, share, mishaps>>

(* _pump: the oldest chunk as a numbered block.                            *)
Pump ==
    /\ link.up /\ reader["stream"].at = "on" /\ wire = <<>>
    /\ queue # <<>>
    /\ wire' = <<[sequence |-> link.sequence + 1, first |-> Head(queue)]>>
    /\ link' = [link EXCEPT !.sequence = @ + 1]
    /\ queue' = Tail(queue)
    /\ UNCHANGED <<reader, taps, thread, current, slow, wake, samples, sink, share, mishaps>>

(* How much silence stands for a gap: all of it, or none.                  *)
Filled(missing) == IF missing <= MaxFill THEN missing ELSE 0

(* Subscription.put: the oldest chunks make room.                          *)
PutAll(chunks, new) ==
    LET all == chunks \o new
    IN SubSeq(all, 1 + (IF Len(all) > QueueBytes THEN Len(all) - QueueBytes ELSE 0), Len(all))

(* feed and _accept: a block that is not newer is dropped, one that        *)
(* overlaps ends the connection, and a gap is filled if it is short.       *)
Feed ==
    /\ wire # <<>>
    /\ LET b       == Head(wire)
           missing == IF sink.any /\ b.first > sink.next THEN b.first - sink.next ELSE 0
           fill    == Filled(missing)
       IN \/ /\ sink.any /\ b.sequence <= sink.sequence
             /\ wire' = <<>> /\ UNCHANGED <<sink, share, link>>
          \/ /\ sink.any /\ b.sequence > sink.sequence /\ b.first < sink.next
             /\ HangUp /\ UNCHANGED <<sink, share>>
          \/ /\ ~sink.any \/ (b.sequence > sink.sequence /\ b.first >= sink.next)
             /\ sink' = [sequence |-> b.sequence, next |-> b.first + 1, any |-> TRUE]
             /\ share' = IF share.open
                         THEN [share EXCEPT !.chunks =
                                  PutAll(@, [i \in 1 .. fill |-> Silence] \o <<b.first>>)]
                         ELSE share
             /\ wire' = <<>> /\ UNCHANGED link
    /\ UNCHANGED <<reader, taps, queue, thread, current, slow, wake, samples, mishaps>>

MicStep ==
    \/ \E r \in Readers : Subscribe(r) \/ Joined(r) \/ JoinGivesUp(r) \/ Unsubscribe(r)
    \/ \E t \in Threads : CaptureStep(t)
    \/ Connect \/ LinkFails \/ StreamStops \/ Pump \/ Feed

(* The node's threads keep running: a join ends when its thread does, and  *)
(* a capture that may take a step takes one.                               *)
MicFairness == /\ \A r \in Readers : WF_micVars(Joined(r))
               /\ \A t \in Threads : /\ WF_micVars(Open(t)) /\ WF_micVars(Unwanted(t))
                                     /\ WF_micVars(Closed(t)) /\ WF_micVars(Retry(t))
                                     /\ WF_micVars(Exit(t))

----------------------------------------------------------------------------
(* ALSA gives the device to one program: however readers come and go, no   *)
(* two capture threads hold it at once.                                    *)
OpenedOnce == Cardinality({t \in Threads : thread[t] \in {"reading", "closing"}}) <= 1

(* A reader in the capture's tap list gets a capture: in the end the       *)
(* device is being read, or it has left, or a join gave up on a thread     *)
(* that was slow to close (which leaves its reader without one).           *)
NoReaderIsDeaf ==
    \A r \in Readers :
        (r \in taps) ~> (r \notin taps \/ slow # {}
                         \/ \E t \in Threads : thread[t] = "reading")

=============================================================================
