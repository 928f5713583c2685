-------------------------------- MODULE Spool --------------------------------
(***************************************************************************)
(* The bounded queue a satellite agent keeps its events in until the hub   *)
(* lets it send them (satellite/src/sentry_satellite/spool.py).            *)
(*                                                                         *)
(* A spool is a value: the queue, the byte count the code maintains beside *)
(* it, and the three drop counters.  Each method that takes the spool's    *)
(* lock is one operator from a spool to a spool; Agent.tla holds the value *)
(* in a variable and applies one operator per critical section.            *)
(***************************************************************************)
EXTENDS Integers, Sequences

CONSTANTS Sources,    \* what the node reads: the origins of its events
          MaxCount,   \* Spool.max_count
          MaxBytes,   \* Spool.max_bytes
          MaxAge      \* Spool.max_age_seconds, in whole ticks; 0 is less than a tick

ASSUME SpoolLimits == /\ MaxCount \in Nat \ {0}
                      /\ MaxBytes \in Nat \ {0}
                      /\ MaxAge \in Nat

(* A held event: which one, how big and when it was queued.  Its contents  *)
(* play no part in what the spool does.                                    *)
Held == [source : Sources, seq : Nat, size : Nat \ {0}, queued_at : Nat]

Drops == [count : Nat, bytes : Nat, age : Nat]

Spools == [items : Seq(Held), nbytes : Int, drops : Drops]

EmptySpool == [items |-> << >>, nbytes |-> 0,
               drops |-> [count |-> 0, bytes |-> 0, age |-> 0]]

DropsTotal(d) == d.count + d.bytes + d.age

(* The bytes held by the first n items of a queue. *)
BytesOf(items, n) ==
  LET upTo[i \in 0..n] == IF i = 0 THEN 0 ELSE upTo[i - 1] + items[i].size
  IN  upTo[n]

Front(s, n) == SubSeq(s, n + 1, Len(s))

Lesser(a, b) == IF a < b THEN a ELSE b

(* Throw the n oldest away and count them under a reason. *)
Discard(sp, n, reason) ==
  [items  |-> Front(sp.items, n),
   nbytes |-> sp.nbytes - BytesOf(sp.items, n),
   drops  |-> [sp.drops EXCEPT ![reason] = @ + n]]

(* How many at the head are past the age limit.  Only the head is looked   *)
(* at: an old item behind a younger one is not reached.                    *)
ExpiredAt(sp, now) ==
  CHOOSE n \in 0..Len(sp.items) :
    /\ \A i \in 1..n : sp.items[i].queued_at < now - MaxAge
    /\ n < Len(sp.items) => sp.items[n + 1].queued_at >= now - MaxAge

Expire(sp, now) == Discard(sp, ExpiredAt(sp, now), "age")

OverCount(sp) == IF Len(sp.items) > MaxCount THEN Len(sp.items) - MaxCount ELSE 0

(* The fewest that must go for the rest to fit in the byte limit. *)
OverBytes(sp) ==
  CHOOSE n \in 0..Len(sp.items) :
    /\ \A m \in 0..(n - 1) : sp.nbytes - BytesOf(sp.items, m) > MaxBytes
    /\ n < Len(sp.items) => sp.nbytes - BytesOf(sp.items, n) <= MaxBytes

Put(sp, held, now) ==
  LET added  == [sp EXCEPT !.items = Append(@, held), !.nbytes = @ + held.size]
      fresh  == Expire(added, now)
      few    == Discard(fresh, OverCount(fresh), "count")
  IN  Discard(few, OverBytes(few), "bytes")

(* take(limit): what is handed out, and the spool without it. *)
Taken(sp, limit, now) ==
  LET fresh == Expire(sp, now)
  IN  SubSeq(fresh.items, 1, Lesser(limit, Len(fresh.items)))

Take(sp, limit, now) ==
  LET fresh == Expire(sp, now)
      n     == Lesser(limit, Len(fresh.items))
  IN  [fresh EXCEPT !.items  = Front(@, n),
                    !.nbytes = @ - BytesOf(fresh.items, n)]

(* Mutant of Requeue: the trimmed tail is not counted. *)
RequeueUncounted(sp, held) ==
  LET back == <<held>> \o sp.items
      keep == Lesser(MaxCount, Len(back))
  IN  [sp EXCEPT !.items = SubSeq(back, 1, keep), !.nbytes = BytesOf(back, keep)]

(* requeue: back at the head; a queue that is now too long loses its tail. *)
(* Neither the byte limit nor the age limit is looked at here.             *)
Requeue(sp, held) ==
  LET back == <<held>> \o sp.items
      keep == Lesser(MaxCount, Len(back))
      lost == Len(back) - keep
  IN  [items  |-> SubSeq(back, 1, keep),
       nbytes |-> sp.nbytes + held.size - (BytesOf(back, Len(back)) - BytesOf(back, keep)),
       drops  |-> [sp.drops EXCEPT !.count = @ + lost]]
==============================================================================
