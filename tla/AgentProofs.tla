----------------------------- MODULE AgentProofs -----------------------------
(***************************************************************************)
(* The agent, for any sources, limits, grants and requests and any number  *)
(* of kills, reconnections and repeated commands.                          *)
(*                                                                         *)
(* Every event it numbered is in the spool, in hand, sent, refused or      *)
(* counted as dropped: the invariant adds what each thread is holding.     *)
(* The counts are sums over sources, whose laws come first.  The spool     *)
(* takes no more room than it may: the invariant adds what is in hand, for *)
(* that can come back after others took its place.  What the node runs is  *)
(* what it saved, and what it told the hub it applied is on disk: the      *)
(* invariant says where the one configure thread stands, and that an       *)
(* answer on its way is about a list already written.                      *)
(***************************************************************************)
EXTENDS MCAgent, FiniteSetTheorems, WellFoundedInduction, TLAPS

(* Every non-empty set of numbers has a least one. *)
LEMMA LeastOf ==
  ASSUME NEW A \in SUBSET Nat, A # {}
  PROVE  \E x \in A : \A y \in A : x <= y
<1>1. \E x \in A : \A y \in A : <<y, x>> \notin OpToRel(<, Nat)
  BY NatLessThanWellFounded, WFMin, Zenon
<1>2. \A x, y \in Nat : <<y, x>> \notin OpToRel(<, Nat) => x <= y
  BY DEF OpToRel
<1> QED  BY <1>1, <1>2, Zenon

(* Induction, over a set of numbers instead of a predicate. *)
LEMMA Induction ==
  ASSUME NEW A \in SUBSET Nat, 0 \in A, \A n \in Nat : n \in A => n + 1 \in A
  PROVE  A = Nat
<1>1. SUFFICES ASSUME Nat \ A # {} PROVE FALSE
  OBVIOUS
<1>2. PICK x \in Nat \ A : \A y \in Nat \ A : x <= y
  <2>1. Nat \ A \in SUBSET Nat
    OBVIOUS
  <2> QED  BY <1>1, <2>1, LeastOf
<1>3. x - 1 \in Nat /\ x - 1 \notin Nat \ A
  BY <1>2
<1> QED  BY <1>2, <1>3

------------------------------------------------------------------------------
(* The bytes of a queue. *)
Summed(items, n, f) ==
  /\ f \in [0..n -> Nat]
  /\ \A i \in 0..n : f[i] = IF i = 0 THEN 0 ELSE f[i - 1] + items[i].size

(* A queue's bytes are added up from its head. *)
LEMMA BytesAddUp ==
  ASSUME NEW items \in Seq(Held)
  PROVE  /\ BytesOf(items, 0) = 0
         /\ \A n \in 0..Len(items) : BytesOf(items, n) \in Nat
         /\ \A n \in 1..Len(items) : BytesOf(items, n) = BytesOf(items, n - 1) + items[n].size
<1> DEFINE Eq(g, n) == g = [i \in 0..n |-> IF i = 0 THEN 0 ELSE g[i - 1] + items[i].size]
           up(n) == CHOOSE g : Eq(g, n)
           A == {k \in Nat : k <= Len(items) => \E f : Summed(items, k, f)}
<1>1. \A i \in 1..Len(items) : items[i].size \in Nat
  <2>1. \A i \in 1..Len(items) : items[i] \in Held
    OBVIOUS
  <2> QED  BY <2>1 DEF Held
<1>2. 0 \in A
  <2>1. Summed(items, 0, [i \in 0..0 |-> 0])
    BY DEF Summed
  <2> QED  BY <2>1
<1>3. ASSUME NEW k \in Nat, k \in A PROVE k + 1 \in A
  <2>1. SUFFICES ASSUME k + 1 <= Len(items) PROVE \E f : Summed(items, k + 1, f)
    OBVIOUS
  <2>2. PICK f : Summed(items, k, f)
    BY <1>3, <2>1
  <2> DEFINE g == [i \in 0..(k + 1) |-> IF i = k + 1 THEN f[k] + items[k + 1].size ELSE f[i]]
  <2>3. items[k + 1].size \in Nat /\ f[k] \in Nat
    BY <1>1, <2>1, <2>2 DEF Summed
  <2>4. g \in [0..(k + 1) -> Nat]
    BY <2>2, <2>3 DEF Summed
  <2>5. \A i \in 0..(k + 1) : g[i] = IF i = 0 THEN 0 ELSE g[i - 1] + items[i].size
    BY <2>2 DEF Summed
  <2> QED  BY <2>4, <2>5 DEF Summed
<1>4. A = Nat
  <2> HIDE DEF A
  <2>1. A \in SUBSET Nat
    BY DEF A
  <2> QED  BY <1>2, <1>3, <2>1, Induction
<1>5. \A n \in 0..Len(items) : Eq(up(n), n)
  <2> TAKE n \in 0..Len(items)
  <2>1. PICK f : Summed(items, n, f)
    BY <1>4
  <2>2. Eq(f, n)
    BY <2>1 DEF Summed
  <2> QED  BY <2>2
<1>6. \A n \in 0..Len(items) : BytesOf(items, n) = up(n)[n]
  BY DEF BytesOf
<1> HIDE DEF up
(* Whatever n it was made for, up(n) adds up the same. *)
<1> DEFINE B == {k \in Nat : \A n \in 0..Len(items) :
                   k <= n => up(n)[k] = up(k)[k] /\ up(k)[k] \in Nat}
<1>7. 0 \in B
  <2>1. \A n \in 0..Len(items) : up(n)[0] = 0
    BY <1>5
  <2> QED  BY <2>1
<1>8. ASSUME NEW k \in Nat, k \in B PROVE k + 1 \in B
  <2> SUFFICES ASSUME NEW n \in 0..Len(items), k + 1 <= n
               PROVE  up(n)[k + 1] = up(k + 1)[k + 1] /\ up(k + 1)[k + 1] \in Nat
    OBVIOUS
  <2>1. k + 1 \in 0..Len(items) /\ k + 1 \in 1..Len(items)
    OBVIOUS
  <2>2. up(n)[k + 1] = up(n)[k] + items[k + 1].size
    BY <1>5
  <2>3. up(k + 1)[k + 1] = up(k + 1)[k] + items[k + 1].size
    BY <1>5, <2>1
  <2>4. up(n)[k] = up(k)[k] /\ up(k + 1)[k] = up(k)[k] /\ up(k)[k] \in Nat
    BY <1>8, <2>1
  <2> QED  BY <1>1, <2>1, <2>2, <2>3, <2>4
<1>9. B = Nat
  <2> HIDE DEF B
  <2>1. B \in SUBSET Nat
    BY DEF B
  <2> QED  BY <1>7, <1>8, <2>1, Induction
<1>10. \A n \in 0..Len(items) : BytesOf(items, n) \in Nat
  BY <1>6, <1>9
<1>11. BytesOf(items, 0) = 0
  BY <1>5, <1>6
<1>12. \A n \in 1..Len(items) : BytesOf(items, n) = BytesOf(items, n - 1) + items[n].size
  <2> TAKE n \in 1..Len(items)
  <2>1. n \in 0..Len(items) /\ n - 1 \in 0..Len(items) /\ n - 1 \in Nat /\ n \in Nat
    OBVIOUS
  <2>2. up(n)[n] = up(n)[n - 1] + items[n].size
    BY <1>5, <2>1
  <2>3. up(n)[n - 1] = up(n - 1)[n - 1]
    BY <1>9, <2>1
  <2> QED  BY <1>6, <2>1, <2>2, <2>3
<1> QED  BY <1>10, <1>11, <1>12

LEMMA BytesAreNumbers ==
  ASSUME NEW items \in Seq(Held), NEW n \in 0..Len(items)
  PROVE  BytesOf(items, n) \in Nat
BY BytesAddUp

(* What a spool has in it or has counted as dropped. *)
Weight(sp) == Len(sp.items) + DropsTotal(sp.drops)

LEMMA SpoolParts ==
  ASSUME NEW sp \in Spools
  PROVE  /\ sp.items \in Seq(Held) /\ Len(sp.items) \in Nat
         /\ sp.nbytes \in Int /\ sp.drops \in Drops
         /\ DropsTotal(sp.drops) \in Nat /\ Weight(sp) \in Nat
<1>1. sp.items \in Seq(Held) /\ sp.nbytes \in Int /\ sp.drops \in Drops
  BY DEF Spools
<1>2. DropsTotal(sp.drops) \in Nat
  BY <1>1 DEF Drops, DropsTotal
<1> QED  BY <1>1, <1>2 DEF Weight

LEMMA Counted ==
  ASSUME NEW d \in Drops, NEW n \in Nat, NEW reason \in {"count", "bytes", "age"}
  PROVE  /\ [d EXCEPT ![reason] = @ + n] \in Drops
         /\ DropsTotal([d EXCEPT ![reason] = @ + n]) = DropsTotal(d) + n
BY DEF Drops, DropsTotal

With(sp, i, b) == [sp EXCEPT !.items = i, !.nbytes = b]

LEMMA SpoolWith ==
  ASSUME NEW sp \in Spools, NEW i \in Seq(Held), NEW b \in Int
  PROVE  /\ With(sp, i, b) \in Spools
         /\ With(sp, i, b).items = i /\ With(sp, i, b).drops = sp.drops
BY DEF Spools, With

(* Throwing some away moves them from the queue to a counter. *)
LEMMA DiscardCounts ==
  ASSUME NEW sp \in Spools, NEW n \in 0..Len(sp.items),
         NEW reason \in {"count", "bytes", "age"}
  PROVE  /\ Discard(sp, n, reason) \in Spools
         /\ Weight(Discard(sp, n, reason)) = Weight(sp)
         /\ Len(Discard(sp, n, reason).items) = Len(sp.items) - n
<1> DEFINE d == Discard(sp, n, reason)
           left == SubSeq(sp.items, n + 1, Len(sp.items))
           e == [sp.drops EXCEPT ![reason] = @ + n]
<1>1. sp.items \in Seq(Held) /\ Len(sp.items) \in Nat /\ sp.nbytes \in Int /\ sp.drops \in Drops
  BY SpoolParts
<1>2. BytesOf(sp.items, n) \in Nat
  BY <1>1, BytesAreNumbers
<1>3. d = [items |-> left, nbytes |-> sp.nbytes - BytesOf(sp.items, n), drops |-> e]
  BY DEF Discard, Front
<1>4. left \in Seq(Held) /\ Len(left) = Len(sp.items) - n
  BY <1>1
<1>5. e \in Drops /\ DropsTotal(e) = DropsTotal(sp.drops) + n
  <2>1. n \in Nat
    BY <1>1
  <2> QED  BY <1>1, <2>1, Counted
<1>6. d \in Spools
  BY <1>1, <1>2, <1>3, <1>4, <1>5 DEF Spools
<1>7. d.items = left /\ d.drops = e
  BY <1>3
<1>8. DropsTotal(sp.drops) \in Nat
  BY SpoolParts
<1> HIDE DEF d, left, e
<1>9. Weight(d) = Weight(sp) /\ Len(d.items) = Len(sp.items) - n
  BY <1>1, <1>4, <1>5, <1>7, <1>8 DEF Weight
<1> QED  BY <1>6, <1>9 DEF d

LEMMA ExpiredIsACount ==
  ASSUME NEW sp \in Spools, NEW t \in Nat
  PROVE  ExpiredAt(sp, t) \in 0..Len(sp.items)
<1> DEFINE Young(n) == n = Len(sp.items) \/ sp.items[n + 1].queued_at >= t - MaxAge
           A == {n \in 0..Len(sp.items) : Young(n)}
<1>1. sp.items \in Seq(Held) /\ Len(sp.items) \in Nat
  BY SpoolParts
<1>2. \A i \in 1..Len(sp.items) : sp.items[i].queued_at \in Nat
  <2>1. \A i \in 1..Len(sp.items) : sp.items[i] \in Held
    BY <1>1
  <2> QED  BY <2>1 DEF Held
<1>3. PICK n \in A : \A m \in A : n <= m
  <2>1. A \in SUBSET Nat /\ A # {}
    BY <1>1
  <2> HIDE DEF A
  <2> QED  BY <2>1, LeastOf
<1>4. n \in 0..Len(sp.items) /\ Young(n) /\ \A m \in 0..(n - 1) : m \notin A
  BY <1>3
<1>5. \A i \in 1..n : sp.items[i].queued_at < t - MaxAge
  <2>1. TAKE i \in 1..n
  <2>2. i - 1 \in 0..(n - 1) /\ i - 1 \in 0..Len(sp.items) /\ i - 1 # Len(sp.items)
        /\ i \in 1..Len(sp.items) /\ (i - 1) + 1 = i
    BY <1>1, <1>4
  <2>3. ~(sp.items[i].queued_at >= t - MaxAge)
    BY <1>4, <2>2
  <2> QED  BY <1>2, <2>2, <2>3, SpoolLimits
<1>6. \E k \in 0..Len(sp.items) :
        /\ \A i \in 1..k : sp.items[i].queued_at < t - MaxAge
        /\ k < Len(sp.items) => sp.items[k + 1].queued_at >= t - MaxAge
  BY <1>1, <1>4, <1>5
<1> QED  BY <1>6 DEF ExpiredAt

LEMMA ExpireCounts ==
  ASSUME NEW sp \in Spools, NEW t \in Nat
  PROVE  /\ Expire(sp, t) \in Spools
         /\ Weight(Expire(sp, t)) = Weight(sp)
BY ExpiredIsACount, DiscardCounts DEF Expire

LEMMA OverBytesIsFound ==
  ASSUME NEW sp \in Spools
  PROVE  /\ OverBytes(sp) \in 0..Len(sp.items)
         /\ OverBytes(sp) < Len(sp.items) =>
              sp.nbytes - BytesOf(sp.items, OverBytes(sp)) <= MaxBytes
<1> DEFINE Fits(n) == n = Len(sp.items) \/ sp.nbytes - BytesOf(sp.items, n) <= MaxBytes
           A == {n \in 0..Len(sp.items) : Fits(n)}
<1>1. sp.items \in Seq(Held) /\ Len(sp.items) \in Nat /\ sp.nbytes \in Int
  BY SpoolParts
<1>2. \A n \in 0..Len(sp.items) : BytesOf(sp.items, n) \in Nat
  BY <1>1, BytesAreNumbers
<1>3. PICK n \in A : \A m \in A : n <= m
  <2>1. A \in SUBSET Nat /\ A # {}
    BY <1>1
  <2> HIDE DEF A
  <2> QED  BY <2>1, LeastOf
<1>4. n \in 0..Len(sp.items) /\ Fits(n) /\ \A m \in 0..(n - 1) : m \notin A
  BY <1>3
<1>5. \A m \in 0..(n - 1) : sp.nbytes - BytesOf(sp.items, m) > MaxBytes
  <2>1. TAKE m \in 0..(n - 1)
  <2>2. m \in 0..Len(sp.items) /\ m # Len(sp.items)
    BY <1>1, <1>4
  <2>3. ~(sp.nbytes - BytesOf(sp.items, m) <= MaxBytes)
    BY <1>4, <2>2
  <2> QED  BY <1>1, <1>2, <2>2, <2>3, SpoolLimits
<1>6. \E k \in 0..Len(sp.items) :
        /\ \A m \in 0..(k - 1) : sp.nbytes - BytesOf(sp.items, m) > MaxBytes
        /\ k < Len(sp.items) => sp.nbytes - BytesOf(sp.items, k) <= MaxBytes
  BY <1>1, <1>4, <1>5
<1> QED  BY <1>6 DEF OverBytes

(* put: one more, in the queue or in a counter, whatever it pushes out. *)
LEMMA PutCounts ==
  ASSUME NEW sp \in Spools, NEW held \in Held, NEW t \in Nat
  PROVE  Put(sp, held, t) \in Spools /\ Weight(Put(sp, held, t)) = Weight(sp) + 1
<1> DEFINE added == [sp EXCEPT !.items = Append(@, held), !.nbytes = @ + held.size]
           fresh == Expire(added, t)
           few   == Discard(fresh, OverCount(fresh), "count")
<1>1. sp.items \in Seq(Held) /\ sp.nbytes \in Int /\ sp.drops \in Drops /\ held.size \in Nat
      /\ DropsTotal(sp.drops) \in Nat
  BY SpoolParts DEF Held
<1>2. Append(sp.items, held) \in Seq(Held) /\ sp.nbytes + held.size \in Int
      /\ Len(Append(sp.items, held)) = Len(sp.items) + 1 /\ Len(sp.items) \in Nat
  BY <1>1
<1>3. added \in Spools /\ added.items = Append(sp.items, held) /\ added.drops = sp.drops
  <2>1. [sp EXCEPT !.items = Append(sp.items, held)].nbytes = sp.nbytes
    BY DEF Spools
  <2>2. added = With(sp, Append(sp.items, held), sp.nbytes + held.size)
    BY <2>1, Zenon DEF With
  <2> HIDE DEF added
  <2> QED  BY <1>2, <2>2, SpoolWith
<1>4. Weight(added) = Weight(sp) + 1
  <2> HIDE DEF added
  <2> QED  BY <1>1, <1>2, <1>3 DEF Weight
<1> HIDE DEF added
<1>5. fresh \in Spools /\ Weight(fresh) = Weight(sp) + 1
  BY <1>3, <1>4, ExpireCounts
<1> HIDE DEF fresh
<1>6. OverCount(fresh) \in 0..Len(fresh.items)
  BY <1>5, SpoolParts, SpoolLimits DEF OverCount
<1>7. few \in Spools /\ Weight(few) = Weight(sp) + 1
  BY <1>5, <1>6, DiscardCounts
<1> HIDE DEF few
<1>8. OverBytes(few) \in 0..Len(few.items)
  BY <1>7, OverBytesIsFound
<1>9. Discard(few, OverBytes(few), "bytes") \in Spools
      /\ Weight(Discard(few, OverBytes(few), "bytes")) = Weight(sp) + 1
  BY <1>7, <1>8, DiscardCounts
<1>10. Put(sp, held, t) = Discard(few, OverBytes(few), "bytes")
  BY DEF Put, few, fresh, added
<1> QED  BY <1>9, <1>10

(* take: what is handed out is what leaves the queue uncounted. *)
LEMMA TakeCounts ==
  ASSUME NEW sp \in Spools, NEW limit \in Nat, NEW t \in Nat
  PROVE  /\ Take(sp, limit, t) \in Spools /\ Taken(sp, limit, t) \in Seq(Held)
         /\ Len(Taken(sp, limit, t)) + Weight(Take(sp, limit, t)) = Weight(sp)
<1> DEFINE fresh == Expire(sp, t)
           n     == Lesser(limit, Len(fresh.items))
           rest  == [fresh EXCEPT !.items = Front(@, n), !.nbytes = @ - BytesOf(fresh.items, n)]
           out   == SubSeq(fresh.items, 1, n)
<1>1. fresh \in Spools /\ Weight(fresh) = Weight(sp)
  BY ExpireCounts
<1>2. Take(sp, limit, t) = rest /\ Taken(sp, limit, t) = out
  BY DEF Take, Taken
<1> HIDE DEF fresh
<1>3. fresh.items \in Seq(Held) /\ Len(fresh.items) \in Nat /\ fresh.nbytes \in Int
      /\ fresh.drops \in Drops /\ DropsTotal(fresh.drops) \in Nat
  BY <1>1, SpoolParts
<1>4. n \in 0..Len(fresh.items)
  BY <1>3 DEF Lesser
<1> HIDE DEF n
<1>5. BytesOf(fresh.items, n) \in Nat
  BY <1>3, <1>4, BytesAreNumbers
<1> DEFINE left == Front(fresh.items, n)
<1>6. left \in Seq(Held) /\ Len(left) = Len(fresh.items) - n
      /\ out \in Seq(Held) /\ Len(out) = n
  BY <1>3, <1>4 DEF Front
<1>7. fresh.nbytes - BytesOf(fresh.items, n) \in Int
  BY <1>3, <1>5
<1>8. rest \in Spools /\ rest.items = left /\ rest.drops = fresh.drops
  <2>1. [fresh EXCEPT !.items = left].nbytes = fresh.nbytes
    BY <1>1 DEF Spools
  <2>2. rest = With(fresh, left, fresh.nbytes - BytesOf(fresh.items, n))
    BY <2>1, Zenon DEF With
  <2> HIDE DEF rest, left
  <2> QED  BY <1>1, <1>6, <1>7, <2>2, SpoolWith
<1> HIDE DEF left
<1> HIDE DEF rest, out
<1>10. Len(out) + Weight(rest) = Weight(fresh)
  BY <1>3, <1>4, <1>6, <1>8 DEF Weight
<1> QED  BY <1>1, <1>2, <1>6, <1>8, <1>10

(* requeue: one more again, and the tail it pushes out is counted. *)
LEMMA RequeueCounts ==
  ASSUME NEW sp \in Spools, NEW held \in Held
  PROVE  Requeue(sp, held) \in Spools /\ Weight(Requeue(sp, held)) = Weight(sp) + 1
<1> DEFINE back == <<held>> \o sp.items
           keep == Lesser(MaxCount, Len(back))
           lost == Len(back) - keep
           kept == SubSeq(back, 1, keep)
           e    == [sp.drops EXCEPT !["count"] = @ + lost]
           out  == [items |-> kept,
                    nbytes |-> sp.nbytes + held.size
                               - (BytesOf(back, Len(back)) - BytesOf(back, keep)),
                    drops |-> e]
<1>1. Requeue(sp, held) = out
  BY DEF Requeue
<1>2. sp.items \in Seq(Held) /\ Len(sp.items) \in Nat /\ sp.nbytes \in Int
      /\ sp.drops \in Drops /\ held.size \in Nat /\ DropsTotal(sp.drops) \in Nat
  BY SpoolParts DEF Held
<1>3. back \in Seq(Held) /\ Len(back) = Len(sp.items) + 1
  BY <1>2
<1> HIDE DEF back
<1>4. keep \in 0..Len(back) /\ lost \in Nat /\ keep + lost = Len(back)
  BY <1>2, <1>3, SpoolLimits DEF Lesser
<1> HIDE DEF keep, lost
<1>5. BytesOf(back, keep) \in Nat /\ BytesOf(back, Len(back)) \in Nat
  BY <1>2, <1>3, <1>4, BytesAreNumbers
<1>6. kept \in Seq(Held) /\ Len(kept) = keep
  BY <1>2, <1>3, <1>4
<1>7. e \in Drops /\ DropsTotal(e) = DropsTotal(sp.drops) + lost
  BY <1>2, <1>4, Counted
<1> HIDE DEF kept, e
<1>8. out \in Spools
  BY <1>2, <1>5, <1>6, <1>7 DEF Spools
<1>9. out.items = kept /\ out.drops = e
  OBVIOUS
<1> HIDE DEF out
<1>10. Weight(out) = Weight(sp) + 1
  <2>1. Weight(out) = keep + (DropsTotal(sp.drops) + lost)
    BY <1>6, <1>7, <1>9 DEF Weight
  <2>2. Weight(sp) = Len(sp.items) + DropsTotal(sp.drops)
    BY DEF Weight
  <2>3. keep \in Nat /\ lost \in Nat /\ keep + lost = Len(sp.items) + 1
    BY <1>2, <1>3, <1>4
  <2>4. Len(sp.items) \in Nat /\ DropsTotal(sp.drops) \in Nat
    BY <1>2
  <2>5. \A k, l, m, d \in Nat : k + l = m + 1 => k + (d + l) = (m + d) + 1
    OBVIOUS
  <2> QED  BY <2>1, <2>2, <2>3, <2>4, <2>5
<1> QED  BY <1>1, <1>8, <1>10

------------------------------------------------------------------------------
(* The numbers given out, over all sources.  g adds up f on every subset.  *)
One(S) == CHOOSE s \in S : TRUE

SumOn(f, S, g) == IF S = {} THEN 0 ELSE f[One(S)] + g[S \ {One(S)}]

Adds(f, g) == /\ g \in [SUBSET Sources -> Nat]
              /\ \A S \in SUBSET Sources : g[S] = SumOn(f, S, g)

Small(n) == {S \in SUBSET Sources : Cardinality(S) <= n}

LEMMA Smaller ==
  /\ \A S \in SUBSET Sources : Cardinality(S) \in Nat
  /\ Small(0) = {{}}
  /\ \A n \in Nat : \A S \in Small(n + 1) : S # {} =>
       One(S) \in Sources /\ S \ {One(S)} \in Small(n)
  /\ \E n \in Nat : Small(n) = SUBSET Sources
<1>1. IsFiniteSet(Sources)
  BY AgentConstants
<1>2. \A S \in SUBSET Sources : IsFiniteSet(S) /\ Cardinality(S) \in Nat
                                /\ Cardinality(S) <= Cardinality(Sources)
  BY <1>1, FS_Subset, FS_CardinalityType
<1>3. Small(0) = {{}}
  <2>1. \A S \in SUBSET Sources : Cardinality(S) <= 0 <=> S = {}
    BY <1>2, FS_EmptySet
  <2> QED  BY <2>1 DEF Small
<1>4. ASSUME NEW n \in Nat, NEW S \in Small(n + 1), S # {}
      PROVE  One(S) \in Sources /\ S \ {One(S)} \in Small(n)
  <2>1. One(S) \in S /\ S \in SUBSET Sources /\ Cardinality(S) <= n + 1
    BY <1>4 DEF One, Small
  <2>2. Cardinality(S \ {One(S)}) = Cardinality(S) - 1
    BY <1>2, <2>1, FS_RemoveElement
  <2>3. Cardinality(S \ {One(S)}) <= n
    BY <1>2, <2>1, <2>2
  <2>4. S \ {One(S)} \in SUBSET Sources /\ One(S) \in Sources
    BY <2>1
  <2> QED  BY <2>3, <2>4 DEF Small
<1>5. Cardinality(Sources) \in Nat /\ Small(Cardinality(Sources)) = SUBSET Sources
  <2>1. Small(Cardinality(Sources)) = SUBSET Sources
    BY <1>2 DEF Small
  <2> QED  BY <1>1, <2>1, FS_CardinalityType
<1> QED  BY <1>2, <1>3, <1>4, <1>5

(* What holds of the empty set, and of a set when it does of the set less  *)
(* one element, holds of every set of sources.                             *)
LEMMA BySources ==
  ASSUME NEW A \in SUBSET SUBSET Sources, {} \in A,
         \A S \in SUBSET Sources : S # {} /\ S \ {One(S)} \in A => S \in A
  PROVE  A = SUBSET Sources
<1> DEFINE B == {n \in Nat : Small(n) \subseteq A}
<1>1. 0 \in B
  BY Smaller
<1>2. ASSUME NEW n \in Nat, n \in B PROVE n + 1 \in B
  <2>1. ASSUME NEW S \in Small(n + 1) PROVE S \in A
    <3>1. CASE S = {}
      BY <3>1
    <3>2. CASE S # {}
      <4>1. S \ {One(S)} \in A
        BY <1>2, <2>1, <3>2, Smaller
      <4>2. S \in SUBSET Sources
        BY <2>1 DEF Small
      <4> QED  BY <3>2, <4>1, <4>2
    <3> QED  BY <3>1, <3>2
  <2> QED  BY <2>1
<1>3. B = Nat
  <2> HIDE DEF B
  <2>1. B \in SUBSET Nat
    BY DEF B
  <2> QED  BY <1>1, <1>2, <2>1, Induction
<1>4. PICK n \in Nat : Small(n) = SUBSET Sources
  BY Smaller
<1>5. Small(n) \subseteq A
  BY <1>3
<1> QED  BY <1>4, <1>5

LEMMA AddsExists ==
  ASSUME NEW f \in [Sources -> Nat]
  PROVE  \E g : Adds(f, g)
<1> DEFINE On(n, g) == /\ g \in [Small(n) -> Nat]
                       /\ \A S \in Small(n) : g[S] = SumOn(f, S, g)
           A == {n \in Nat : \E g : On(n, g)}
<1>1. 0 \in A
  <2>1. On(0, [S \in Small(0) |-> 0])
    BY Smaller DEF SumOn
  <2> QED  BY <2>1
<1>2. ASSUME NEW n \in Nat, n \in A PROVE n + 1 \in A
  <2>1. PICK g : On(n, g)
    BY <1>2
  <2> DEFINE h == [S \in Small(n + 1) |-> SumOn(f, S, g)]
  <2>2. ASSUME NEW S \in Small(n + 1), S # {}
        PROVE  /\ f[One(S)] \in Nat /\ g[S \ {One(S)}] \in Nat
               /\ S \ {One(S)} \in Small(n)
    <3>1. One(S) \in Sources /\ S \ {One(S)} \in Small(n)
      BY <2>2, Smaller
    <3> QED  BY <2>1, <3>1
  <2>3. \A S \in Small(n + 1) : SumOn(f, S, g) \in Nat
    BY <2>2 DEF SumOn
  <2>4. h \in [Small(n + 1) -> Nat]
    BY <2>3
  <2>5. \A T \in Small(n) : T \in Small(n + 1)
    BY Smaller DEF Small
  <2>6. \A T \in Small(n) : h[T] = g[T]
    BY <2>1, <2>5
  <2>7. \A S \in Small(n + 1) : h[S] = SumOn(f, S, h)
    BY <2>2, <2>6 DEF SumOn
  <2>8. On(n + 1, h)
    BY <2>4, <2>7
  <2> HIDE DEF h, On
  <2> QED  BY <2>8
<1>3. A = Nat
  <2> HIDE DEF A
  <2>1. A \in SUBSET Nat
    BY DEF A
  <2> QED  BY <1>1, <1>2, <2>1, Induction
<1>4. PICK n \in Nat : Small(n) = SUBSET Sources
  BY Smaller
<1>5. PICK g : On(n, g)
  BY <1>3
<1>6. Adds(f, g)
  BY <1>4, <1>5 DEF Adds
<1> QED  BY <1>6

(* Total is that sum, over all the sources. *)
LEMMA TotalAdds ==
  ASSUME NEW f \in [Sources -> Nat]
  PROVE  \E g : Adds(f, g) /\ Total(f) = g[Sources]
<1> DEFINE Eq(g) == g = [S \in SUBSET Sources |-> SumOn(f, S, g)]
           h == CHOOSE g : Eq(g)
<1>1. PICK g : Adds(f, g)
  BY AddsExists
<1>2. Eq(g)
  BY <1>1 DEF Adds
<1>3. Eq(h)
  BY <1>2
<1>4. Total(f) = h[Sources]
  BY DEF Total, SumOn, One
<1> HIDE DEF h
<1> DEFINE A == {S \in SUBSET Sources : h[S] \in Nat}
<1>5. \A S \in SUBSET Sources : h[S] = SumOn(f, S, h)
  BY <1>3
<1>6. {} \in A
  <2>1. h[{}] = SumOn(f, {}, h)
    BY <1>5
  <2> QED  BY <2>1 DEF SumOn
<1>7. ASSUME NEW S \in SUBSET Sources, S # {}, S \ {One(S)} \in A PROVE S \in A
  <2>1. One(S) \in Sources
    BY <1>7 DEF One
  <2>2. h[S] = f[One(S)] + h[S \ {One(S)}]
    BY <1>5, <1>7 DEF SumOn
  <2> QED  BY <1>7, <2>1, <2>2
<1>8. A = SUBSET Sources
  <2> HIDE DEF A
  <2>1. A \in SUBSET SUBSET Sources
    BY DEF A
  <2> QED  BY <1>6, <1>7, <2>1, BySources
<1>9. Adds(f, h)
  <2>1. h \in [SUBSET Sources -> Nat]
    BY <1>3, <1>8
  <2> QED  BY <1>5, <2>1 DEF Adds
<1> QED  BY <1>4, <1>9

LEMMA TotalOfNothing == Total([s \in Sources |-> 0]) = 0
<1> DEFINE f == [s \in Sources |-> 0]
<1>1. f \in [Sources -> Nat] /\ \A s \in Sources : f[s] = 0
  OBVIOUS
<1> HIDE DEF f
<1>2. PICK g : Adds(f, g) /\ Total(f) = g[Sources]
  BY <1>1, TotalAdds
<1> DEFINE A == {S \in SUBSET Sources : g[S] = 0}
<1>3. {} \in A
  BY <1>2 DEF Adds, SumOn
<1>4. ASSUME NEW S \in SUBSET Sources, S # {}, S \ {One(S)} \in A PROVE S \in A
  <2>1. One(S) \in Sources
    BY <1>4 DEF One
  <2>2. g[S] = f[One(S)] + g[S \ {One(S)}]
    BY <1>2, <1>4 DEF Adds, SumOn
  <2> QED  BY <1>1, <1>4, <2>1, <2>2
<1>5. A = SUBSET Sources
  <2> HIDE DEF A
  <2>1. A \in SUBSET SUBSET Sources
    BY DEF A
  <2> QED  BY <1>3, <1>4, <2>1, BySources
<1>6. g[Sources] = 0
  BY <1>5
<1> QED  BY <1>2, <1>6 DEF f

OneMore(f, s) == [f EXCEPT ![s] = @ + 1]

LEMMA TotalOfOneMore ==
  ASSUME NEW f \in [Sources -> Nat], NEW s \in Sources
  PROVE  /\ OneMore(f, s) \in [Sources -> Nat]
         /\ Total(OneMore(f, s)) = Total(f) + 1
<1> DEFINE e == OneMore(f, s)
<1>1. e \in [Sources -> Nat] /\ e[s] = f[s] + 1 /\ \A r \in Sources \ {s} : e[r] = f[r]
  BY DEF OneMore
<1> HIDE DEF e
<1>2. PICK g : Adds(f, g) /\ Total(f) = g[Sources]
  BY TotalAdds
<1>3. PICK h : Adds(e, h) /\ Total(e) = h[Sources]
  BY <1>1, TotalAdds
<1> DEFINE A == {S \in SUBSET Sources : h[S] = g[S] + (IF s \in S THEN 1 ELSE 0)}
<1>4. {} \in A
  <2>1. g[{}] = SumOn(f, {}, g) /\ h[{}] = SumOn(e, {}, h)
    BY <1>2, <1>3 DEF Adds
  <2> QED  BY <2>1 DEF SumOn
<1>5. ASSUME NEW S \in SUBSET Sources, S # {}, S \ {One(S)} \in A PROVE S \in A
  <2> DEFINE o == One(S)
             T == S \ {o}
  <2>1. o \in S /\ o \in Sources /\ T \in SUBSET Sources
    BY <1>5 DEF One
  <2>2. g[S] = f[o] + g[T] /\ h[S] = e[o] + h[T]
    BY <1>2, <1>3, <1>5 DEF Adds, SumOn
  <2>3. g[T] \in Nat /\ f[o] \in Nat
    BY <1>2, <2>1 DEF Adds
  <2>4. h[T] = g[T] + (IF s \in T THEN 1 ELSE 0)
    BY <1>5
  <2>5. s \notin T \/ o # s
    OBVIOUS
  <2>6. s \in S <=> (s \in T \/ o = s)
    BY <2>1
  <2> HIDE DEF o, T
  <2>7. h[S] = g[S] + (IF s \in S THEN 1 ELSE 0)
    <3>1. CASE o = s
      BY <1>1, <2>2, <2>3, <2>4, <2>5, <2>6, <3>1
    <3>2. CASE o # s
      BY <1>1, <2>1, <2>2, <2>3, <2>4, <2>6, <3>2
    <3> QED  BY <3>1, <3>2
  <2> QED  BY <2>7
<1>6. A = SUBSET Sources
  <2> HIDE DEF A
  <2>1. A \in SUBSET SUBSET Sources
    BY DEF A
  <2> QED  BY <1>4, <1>5, <2>1, BySources
<1>7. h[Sources] = g[Sources] + 1
  BY <1>6
<1>8. g[Sources] \in Nat
  BY <1>2 DEF Adds
<1>9. Total(e) = Total(f) + 1
  BY <1>2, <1>3, <1>7, <1>8
<1> QED  BY <1>1, <1>9 DEF e

------------------------------------------------------------------------------
(* No event is lost without a counter saying so.                           *)

Busy == {t \in Threads : making[t] # None}

Sending == IF delivery = None THEN 0 ELSE 1

EventsTyped ==
  /\ now \in Nat /\ refused \in Nat /\ published \in Nat
  /\ spool \in Spools
  /\ nextSeq \in [Sources -> Nat]
  /\ making \in [Threads -> Event \cup {None}]
  /\ hand \in Seq(Held)
  /\ delivery # None => delivery.held \in Held

(* The network thread works on what it took, and takes nothing more before *)
(* it has put all of it somewhere.                                         *)
HandIsWorkedOn ==
  /\ net = "sending" <=> (hand # << >> \/ delivery # None)
  /\ follows = "configuration" => hand = << >> /\ delivery = None

Accounts == Total(nextSeq) = Weight(spool) + Len(hand) + Sending + Cardinality(Busy)
                             + published + refused

AccountInv == EventsTyped /\ HandIsWorkedOn /\ Accounts

LEMMA CountsAreNumbers ==
  ASSUME EventsTyped
  PROVE  /\ Total(nextSeq) \in Nat /\ Weight(spool) \in Nat /\ Len(hand) \in Nat
         /\ Sending \in Nat /\ Cardinality(Busy) \in Nat /\ published \in Nat
         /\ refused \in Nat /\ IsFiniteSet(Busy)
<1>1. IsFiniteSet(Threads)
  BY AgentConstants, FS_AddElement DEF Threads
<1>2. IsFiniteSet(Busy) /\ Cardinality(Busy) \in Nat
  BY <1>1, FS_Subset, FS_CardinalityType DEF Busy
<1>3. Total(nextSeq) \in Nat
  <2>1. PICK g : Adds(nextSeq, g) /\ Total(nextSeq) = g[Sources]
    BY TotalAdds DEF EventsTyped
  <2> QED  BY <2>1 DEF Adds
<1>4. Weight(spool) \in Nat /\ Len(hand) \in Nat
  BY SpoolParts DEF EventsTyped
<1> QED  BY <1>2, <1>3, <1>4 DEF EventsTyped, Sending

LEMMA EventsAreNotNone ==
  /\ None \notin Event
  /\ \A s, n : [source |-> s, seq |-> n] # None
  /\ \A h, c, e, g, r : [held |-> h, conn |-> c, epoch |-> e, grant |-> g, replayed |-> r] # None
BY DEF None, Event

(* A number is taken: the event is being recorded or has been refused. *)
LEMMA RecordCounts ==
  ASSUME EventsTyped, NEW t \in Threads, NEW s \in Sources,
         Numbered(t, s) \/ Unsendable(t, s)
  PROVE  /\ nextSeq' \in [Sources -> Nat] /\ making' \in [Threads -> Event \cup {None}]
         /\ refused' \in Nat /\ Cardinality(Busy') \in Nat
         /\ Total(nextSeq') = Total(nextSeq) + 1
         /\ Cardinality(Busy') + refused' = Cardinality(Busy) + refused + 1
<1>1. nextSeq[s] \in Nat /\ nextSeq \in [Sources -> Nat] /\ refused \in Nat
      /\ making \in [Threads -> Event \cup {None}] /\ Cardinality(Busy) \in Nat
      /\ IsFiniteSet(Busy)
  BY CountsAreNumbers DEF EventsTyped
<1>2. nextSeq' = OneMore(nextSeq, s)
  BY DEF Numbered, Unsendable, OneMore
<1>3. nextSeq' \in [Sources -> Nat] /\ Total(nextSeq') = Total(nextSeq) + 1
  BY <1>1, <1>2, TotalOfOneMore
<1>4. CASE Numbered(t, s)
  <2> DEFINE e == [source |-> s, seq |-> nextSeq[s]]
  <2>1. e \in Event /\ e # None
    BY <1>1, EventsAreNotNone DEF Event
  <2>2. making' = [making EXCEPT ![t] = e] /\ refused' = refused /\ making[t] = None
    BY <1>4 DEF Numbered
  <2> HIDE DEF e
  <2>3. Busy' = Busy \cup {t} /\ t \notin Busy
    BY <1>1, <2>1, <2>2 DEF Busy, Threads
  <2>4. Cardinality(Busy') = Cardinality(Busy) + 1
    BY <1>1, <2>3, FS_AddElement
  <2>5. making' \in [Threads -> Event \cup {None}]
    BY <1>1, <2>1, <2>2
  <2> QED  BY <1>1, <1>3, <2>2, <2>4, <2>5
<1>5. CASE Unsendable(t, s)
  <2>1. making' = making /\ refused' = refused + 1
    BY <1>5 DEF Unsendable
  <2>2. Busy' = Busy
    BY <2>1 DEF Busy, Threads
  <2> QED  BY <1>1, <1>3, <2>1, <2>2
<1> QED  BY <1>4, <1>5

LEMMA Balance ==
  ASSUME NEW w \in Nat, NEW l \in Nat, NEW x \in Nat, NEW c \in Nat, NEW d \in Nat,
         NEW p \in Nat, NEW q \in Nat, NEW z \in Nat, d + z = c + q + 1
  PROVE  w + l + x + c + p + q + 1 = w + l + x + d + p + z
OBVIOUS

LEMMA AfterOneFollows ==
  ASSUME AccountInv, follows' = follows, NEW rest, net' = AfterOne(rest), hand' = rest,
         delivery' = None, follows # "configuration"
  PROVE  HandIsWorkedOn'
BY DEF AfterOne, HandIsWorkedOn

LEMMA AccountStart == ASSUME Init, RemoteInit PROVE AccountInv
<1>1. EmptySpool \in Spools /\ Weight(EmptySpool) = 0
  BY DEF EmptySpool, Spools, Drops, Weight, DropsTotal
<1>2. EventsTyped
  BY <1>1 DEF Init, EventsTyped
<1>3. Busy = {}
  BY DEF Init, Busy
<1>4. Cardinality(Busy) = 0
  BY <1>3, FS_EmptySet
<1>5. Total(nextSeq) = 0
  BY TotalOfNothing DEF Init
<1>6. Accounts
  BY <1>1, <1>4, <1>5 DEF Init, Accounts, Sending
<1> QED  BY <1>2, <1>6 DEF AccountInv, HandIsWorkedOn, Init

LEMMA RecordingStep ==
  ASSUME AccountInv, UNCHANGED remoteVars, NEW s \in Sources,
         DriverReads(s) \/ TakeBaseline(s)
  PROVE  AccountInv'
<1>1. UNCHANGED <<now, published, spool, hand, delivery, net, follows>>
  BY DEF DriverReads, TakeBaseline, output, remoteVars
<1>2. Total(nextSeq) \in Nat /\ Weight(spool) \in Nat /\ Len(hand) \in Nat
      /\ Sending \in Nat /\ Cardinality(Busy) \in Nat /\ published \in Nat /\ refused \in Nat
  BY CountsAreNumbers DEF AccountInv
<1>3. Sending' = Sending /\ HandIsWorkedOn'
  BY <1>1 DEF Sending, HandIsWorkedOn, AccountInv
<1>4. CASE \E t \in Threads : Numbered(t, s) \/ Unsendable(t, s)
  <2>1. /\ nextSeq' \in [Sources -> Nat] /\ making' \in [Threads -> Event \cup {None}]
        /\ refused' \in Nat /\ Cardinality(Busy') \in Nat
        /\ Total(nextSeq') = Total(nextSeq) + 1
        /\ Cardinality(Busy') + refused' = Cardinality(Busy) + refused + 1
    BY <1>4, RecordCounts DEF AccountInv
  <2>2. EventsTyped'
    BY <1>1, <2>1 DEF AccountInv, EventsTyped, Threads
  <2>3. Total(nextSeq') = Weight(spool) + Len(hand) + Sending + Cardinality(Busy')
                          + published + refused'
    <3>1. Total(nextSeq) = Weight(spool) + Len(hand) + Sending + Cardinality(Busy)
                           + published + refused
      BY DEF AccountInv, Accounts
    <3>2. Total(nextSeq') = Weight(spool) + Len(hand) + Sending + Cardinality(Busy)
                            + published + refused + 1
      BY <2>1, <3>1
    <3>3. Cardinality(Busy') \in Nat /\ refused' \in Nat
          /\ Cardinality(Busy') + refused' = Cardinality(Busy) + refused + 1
      BY <2>1
    <3>4. Cardinality(Busy') = Cardinality(Busy) + refused + 1 - refused'
      BY <1>2, <3>3
    <3>5. ASSUME NEW W \in Nat
          PROVE  W + Cardinality(Busy) + published + refused + 1
                   = W + Cardinality(Busy') + published + refused'
      <4>1. Cardinality(Busy) \in Nat /\ refused \in Nat /\ published \in Nat
        BY <1>2
      <4> QED  BY <3>3, <3>4, <4>1
    <3>6. Weight(spool) + Len(hand) + Sending \in Nat
      BY <1>2
    <3> QED  BY <3>2, <3>5, <3>6
  <2>4. Accounts'
    BY <1>1, <1>3, <2>3 DEF Accounts
  <2> QED  BY <1>3, <2>2, <2>4 DEF AccountInv
<1>5. CASE UNCHANGED <<recording, refused>>
  BY <1>1, <1>3, <1>5 DEF AccountInv, EventsTyped, Accounts, recording, Threads, Busy
<1>6. s \in Threads /\ "command" \in Threads
  BY DEF Threads
<1> QED  BY <1>4, <1>5, <1>6 DEF DriverReads, TakeBaseline

LEMMA PutStep ==
  ASSUME AccountInv, UNCHANGED remoteVars, NEW t \in Threads, PutInSpool(t)
  PROVE  AccountInv'
<1>1. UNCHANGED <<now, published, refused, nextSeq, hand, delivery, net, follows>>
  BY DEF PutInSpool, output, remoteVars
<1>2. Total(nextSeq) \in Nat /\ Weight(spool) \in Nat /\ Len(hand) \in Nat
      /\ Sending \in Nat /\ Cardinality(Busy) \in Nat /\ published \in Nat /\ refused \in Nat
      /\ IsFiniteSet(Busy)
  BY CountsAreNumbers DEF AccountInv
<1>3. Sending' = Sending /\ HandIsWorkedOn'
  BY <1>1 DEF Sending, HandIsWorkedOn, AccountInv
<1>4. making[t] \in Event /\ making[t] # None /\ making' = [making EXCEPT ![t] = None]
      /\ making \in [Threads -> Event \cup {None}]
  BY DEF PutInSpool, AccountInv, EventsTyped
<1>5. spool' \in Spools /\ Weight(spool') = Weight(spool) + 1
  <2>1. PICK size \in Sizes :
          spool' = Put(spool, [source |-> making[t].source, seq |-> making[t].seq,
                               size |-> size, queued_at |-> now], now)
    BY DEF PutInSpool
  <2> DEFINE held == [source |-> making[t].source, seq |-> making[t].seq,
                      size |-> size, queued_at |-> now]
  <2>2. now \in Nat /\ spool \in Spools /\ size \in Nat \ {0}
    BY AgentConstants DEF AccountInv, EventsTyped
  <2>3. held \in Held
    BY <1>4, <2>2 DEF Event, Held
  <2> HIDE DEF held
  <2>4. spool' = Put(spool, held, now)
    BY <2>1 DEF held
  <2> QED  BY <2>2, <2>3, <2>4, PutCounts
<1>6. Busy' = Busy \ {t} /\ t \in Busy
  BY <1>4 DEF Busy, Threads
<1>7. Cardinality(Busy') = Cardinality(Busy) - 1
  BY <1>2, <1>6, FS_RemoveElement
<1>8. making' \in [Threads -> Event \cup {None}]
  BY <1>4
<1>9. EventsTyped'
  BY <1>1, <1>5, <1>8 DEF AccountInv, EventsTyped, Threads
<1>10. Accounts'
  BY <1>1, <1>2, <1>3, <1>5, <1>7 DEF AccountInv, Accounts
<1> QED  BY <1>3, <1>9, <1>10 DEF AccountInv

(* What a step of the network thread does not touch. *)
NetworkSpares == UNCHANGED <<now, nextSeq, making, follows>> /\ Busy' = Busy

LEMMA NetworkKeeps ==
  ASSUME AccountInv, UNCHANGED remoteVars,
         TakeBatch \/ Prepare \/ Published \/ NotPublished
  PROVE  NetworkSpares
<1>1. UNCHANGED <<now, nextSeq, making, follows>>
  BY DEF TakeBatch, Prepare, Published, NotPublished, recording, remoteVars
<1>2. Busy' = Busy
  BY <1>1 DEF Busy, Threads
<1> QED  BY <1>1, <1>2 DEF NetworkSpares

LEMMA TakeStep ==
  ASSUME AccountInv, UNCHANGED remoteVars, TakeBatch, follows = "events"
  PROVE  AccountInv'
<1>1. NetworkSpares /\ UNCHANGED <<delivery, published, refused>>
  BY NetworkKeeps DEF TakeBatch, output
<1>2. Total(nextSeq) \in Nat /\ Weight(spool) \in Nat /\ Len(hand) \in Nat
      /\ Sending \in Nat /\ Cardinality(Busy) \in Nat /\ published \in Nat /\ refused \in Nat
  BY CountsAreNumbers DEF AccountInv
<1>3. hand = << >> /\ delivery = None
  BY DEF TakeBatch, AccountInv, HandIsWorkedOn
<1>4. spool' \in Spools /\ hand' \in Seq(Held) /\ Len(hand') + Weight(spool') = Weight(spool)
  <2>1. spool \in Spools /\ now \in Nat /\ Batch \in Nat
    BY AgentConstants DEF AccountInv, EventsTyped
  <2>2. hand' = Taken(spool, Batch, now) /\ spool' = Take(spool, Batch, now)
    BY DEF TakeBatch
  <2> QED  BY <2>1, <2>2, TakeCounts
<1>5. Weight(spool') \in Nat /\ Len(hand') \in Nat
  BY <1>4, SpoolParts
<1>6. EventsTyped'
  BY <1>1, <1>4 DEF AccountInv, EventsTyped, NetworkSpares, Threads
<1>7. Len(hand) = 0 /\ Sending' = Sending
  BY <1>1, <1>3 DEF Sending
<1>8. Total(nextSeq) = Weight(spool') + Len(hand') + Sending + Cardinality(Busy)
                       + published + refused
  BY <1>2, <1>4, <1>5, <1>7 DEF AccountInv, Accounts
<1>9. Accounts'
  BY <1>1, <1>7, <1>8 DEF Accounts, NetworkSpares
<1>10. HandIsWorkedOn'
  BY <1>1, <1>3 DEF TakeBatch, HandIsWorkedOn, NetworkSpares
<1> QED  BY <1>6, <1>9, <1>10 DEF AccountInv

LEMMA PrepareStep ==
  ASSUME AccountInv, UNCHANGED remoteVars, Prepare, follows = "events"
  PROVE  AccountInv'
<1>1. NetworkSpares /\ UNCHANGED published /\ delivery = None
  BY NetworkKeeps DEF Prepare, output
<1>2. Total(nextSeq) \in Nat /\ Weight(spool) \in Nat /\ Len(hand) \in Nat
      /\ Sending \in Nat /\ Cardinality(Busy) \in Nat /\ published \in Nat /\ refused \in Nat
  BY CountsAreNumbers DEF AccountInv
<1> DEFINE held == Head(hand)
           rest == Tail(hand)
<1>3. held \in Held /\ rest \in Seq(Held) /\ Len(hand) = Len(rest) + 1 /\ Len(rest) \in Nat
  <2>1. hand # << >> /\ hand \in Seq(Held)
    BY DEF Prepare, AccountInv, EventsTyped, HandIsWorkedOn
  <2> QED  BY <2>1
<1>4. hand' = rest /\ Sending = 0
  BY <1>1 DEF Prepare, Sending
<1>5. spool \in Spools /\ refused \in Nat
  BY DEF AccountInv, EventsTyped
<1>6. CASE spool' = Requeue(spool, held) /\ net' = AfterOne(hand') /\ UNCHANGED <<delivery, refused>>
  <2>1. spool' \in Spools /\ Weight(spool') = Weight(spool) + 1
    BY <1>3, <1>5, <1>6, RequeueCounts
  <2> HIDE DEF held, rest
  <2>2. EventsTyped'
    BY <1>1, <1>3, <1>4, <1>6, <2>1 DEF AccountInv, EventsTyped, NetworkSpares, Threads
  <2>3. Sending' = 0
    BY <1>1, <1>6 DEF Sending
  <2>4. Total(nextSeq) = Weight(spool') + Len(rest) + 0 + Cardinality(Busy) + published + refused
    BY <1>2, <1>3, <1>4, <2>1 DEF AccountInv, Accounts
  <2>5. Accounts'
    BY <1>1, <1>4, <1>6, <2>3, <2>4 DEF Accounts, NetworkSpares
  <2>6. HandIsWorkedOn'
    BY <1>1, <1>6, AfterOneFollows DEF NetworkSpares
  <2> QED  BY <2>2, <2>5, <2>6 DEF AccountInv
<1>7. CASE refused' = refused + 1 /\ net' = AfterOne(hand') /\ UNCHANGED <<delivery, spool>>
  <2> HIDE DEF held, rest
  <2>1. EventsTyped'
    BY <1>1, <1>3, <1>4, <1>5, <1>7 DEF AccountInv, EventsTyped, NetworkSpares, Threads
  <2>2. Sending' = 0
    BY <1>1, <1>7 DEF Sending
  <2>3. Total(nextSeq) = Weight(spool) + Len(rest) + 0 + Cardinality(Busy)
                         + published + (refused + 1)
    <3>1. Total(nextSeq) = Weight(spool) + Len(hand) + 0 + Cardinality(Busy)
                           + published + refused
      BY <1>4 DEF AccountInv, Accounts
    <3>2. Total(nextSeq) = Weight(spool) + (Len(rest) + 1) + 0 + Cardinality(Busy)
                           + published + refused
      BY <1>3, <3>1
    <3>3. \A w, l, c, p, q \in Nat : w + (l + 1) + 0 + c + p + q = w + l + 0 + c + p + (q + 1)
      OBVIOUS
    <3> QED  BY <1>2, <1>3, <3>2, <3>3
  <2>4. Accounts'
    BY <1>1, <1>4, <1>7, <2>2, <2>3 DEF Accounts, NetworkSpares
  <2>5. HandIsWorkedOn'
    BY <1>1, <1>7, AfterOneFollows DEF NetworkSpares
  <2> QED  BY <2>1, <2>4, <2>5 DEF AccountInv
<1>8. CASE /\ delivery' = [held |-> held, conn |-> conn, epoch |-> grant.epoch,
                           grant |-> grant.grant, replayed |-> Replayed(held)]
           /\ UNCHANGED <<net, refused, spool>>
  <2>1. delivery' # None /\ delivery'.held = held
    BY <1>8, EventsAreNotNone
  <2> HIDE DEF held, rest
  <2>2. EventsTyped'
    BY <1>1, <1>3, <1>4, <1>5, <1>8, <2>1 DEF AccountInv, EventsTyped, NetworkSpares, Threads
  <2>3. Sending' = 1
    BY <2>1 DEF Sending
  <2>4. Total(nextSeq) = Weight(spool) + Len(rest) + 1 + Cardinality(Busy)
                         + published + refused
    BY <1>2, <1>3, <1>4 DEF AccountInv, Accounts
  <2>5. Accounts'
    BY <1>1, <1>4, <1>8, <2>3, <2>4 DEF Accounts, NetworkSpares
  <2>6. HandIsWorkedOn'
    BY <1>1, <1>8, <2>1 DEF Prepare, HandIsWorkedOn, NetworkSpares
  <2> QED  BY <2>2, <2>5, <2>6 DEF AccountInv
<1> QED  BY <1>6, <1>7, <1>8 DEF Prepare

LEMMA OutcomeStep ==
  ASSUME AccountInv, UNCHANGED remoteVars, Published \/ NotPublished, follows = "events"
  PROVE  AccountInv'
<1>1. NetworkSpares /\ UNCHANGED <<hand, refused>> /\ delivery # None /\ delivery' = None
      /\ net' = AfterOne(hand)
  BY NetworkKeeps DEF Published, NotPublished, output
<1>2. Total(nextSeq) \in Nat /\ Weight(spool) \in Nat /\ Len(hand) \in Nat
      /\ Sending \in Nat /\ Cardinality(Busy) \in Nat /\ published \in Nat /\ refused \in Nat
  BY CountsAreNumbers DEF AccountInv
<1>3. Sending = 1 /\ Sending' = 0 /\ HandIsWorkedOn'
  BY <1>1, AfterOneFollows DEF Sending, NetworkSpares
<1>4. spool \in Spools /\ delivery.held \in Held
  BY <1>1 DEF AccountInv, EventsTyped
<1>5. CASE Published
  <2>1. published' = published + 1 /\ spool' = spool
    BY <1>5 DEF Published
  <2>2. EventsTyped'
    BY <1>1, <1>2, <2>1 DEF AccountInv, EventsTyped, NetworkSpares, Threads
  <2>3. Total(nextSeq) = Weight(spool) + Len(hand) + 0 + Cardinality(Busy) + (published + 1)
                         + refused
    <3>1. Total(nextSeq) = Weight(spool) + Len(hand) + 1 + Cardinality(Busy)
                           + published + refused
      BY <1>3 DEF AccountInv, Accounts
    <3>2. ASSUME NEW W \in Nat, NEW C \in Nat
          PROVE  W + 1 + C + published + refused = W + 0 + C + (published + 1) + refused
      BY <1>2
    <3>3. Weight(spool) + Len(hand) \in Nat /\ Cardinality(Busy) \in Nat
      BY <1>2
    <3> QED  BY <3>1, <3>2, <3>3
  <2>4. Accounts'
    BY <1>1, <1>3, <2>1, <2>3 DEF Accounts, NetworkSpares
  <2> QED  BY <1>3, <2>2, <2>4 DEF AccountInv
<1>6. CASE NotPublished
  <2>1. published' = published /\ spool' = Requeue(spool, delivery.held)
    BY <1>6 DEF NotPublished, output
  <2>2. spool' \in Spools /\ Weight(spool') = Weight(spool) + 1
    BY <1>4, <2>1, RequeueCounts
  <2>3. EventsTyped'
    BY <1>1, <2>1, <2>2 DEF AccountInv, EventsTyped, NetworkSpares, Threads
  <2>4. Total(nextSeq) = Weight(spool') + Len(hand) + 0 + Cardinality(Busy) + published + refused
    BY <1>2, <1>3, <2>2 DEF AccountInv, Accounts
  <2>5. Accounts'
    BY <1>1, <1>3, <2>1, <2>4 DEF Accounts, NetworkSpares
  <2> QED  BY <1>3, <2>3, <2>5 DEF AccountInv
<1> QED  BY <1>5, <1>6

(* The other steps leave the events where they are. *)
EventsStay == UNCHANGED <<spool, nextSeq, making, hand, delivery, published, refused, follows>>

LEMMA StayStep ==
  ASSUME AccountInv, EventsStay, now' \in Nat, (net' = "sending") <=> (net = "sending")
  PROVE  AccountInv'
<1>1. EventsTyped'
  BY DEF AccountInv, EventsTyped, EventsStay, Threads
<1>2. Busy' = Busy /\ Sending' = Sending
  BY DEF EventsStay, Busy, Sending, Threads
<1>3. Accounts'
  BY <1>2 DEF AccountInv, Accounts, EventsStay
<1>4. HandIsWorkedOn'
  BY DEF AccountInv, HandIsWorkedOn, EventsStay
<1> QED  BY <1>1, <1>3, <1>4 DEF AccountInv

LEMMA AccountEvents ==
  ASSUME AccountInv, follows = "events", UNCHANGED remoteVars, Next
  PROVE  AccountInv'
<1> USE DEF link, commanded, recording, output
<1>1. UNCHANGED follows /\ now \in Nat
  BY DEF remoteVars, AccountInv, EventsTyped
<1>2. CASE \E s \in Sources : DriverReads(s) \/ TakeBaseline(s)
  BY <1>2, RecordingStep
<1>3. CASE \E t \in Threads : PutInSpool(t)
  BY <1>3, PutStep
<1>4. CASE TakeBatch
  BY <1>4, TakeStep
<1>5. CASE Prepare
  BY <1>5, PrepareStep
<1>6. CASE Published \/ NotPublished
  BY <1>6, OutcomeStep
<1>7. CASE Dial \/ Linked \/ GiveUp \/ NetworkExits
  <2>1. EventsStay /\ now' = now /\ net # "sending" /\ net' # "sending"
    BY <1>1, <1>7 DEF Dial, Linked, GiveUp, NetworkExits, EventsStay
  <2> QED  BY <1>1, <2>1, StayStep
<1>8. CASE LinkUp \/ LinkDown \/ RequestStop \/ Goodbye
  <2>1. EventsStay /\ now' = now /\ net' = net
    BY <1>1, <1>8 DEF LinkUp, LinkDown, RequestStop, Goodbye, EventsStay
  <2> QED  BY <1>1, <2>1, StayStep
<1>9. CASE \E c \in Commands : OnCommand(c)
  <2>1. EventsStay /\ now' = now /\ net' = net
    BY <1>1, <1>9 DEF OnCommand, EventsStay
  <2> QED  BY <1>1, <2>1, StayStep
<1>10. CASE Tick
  <2>1. EventsStay /\ now' = now + 1 /\ net' = net
    BY <1>1, <1>10 DEF Tick, EventsStay
  <2> QED  BY <1>1, <2>1, StayStep
<1> QED
  BY <1>2, <1>3, <1>4, <1>5, <1>6, <1>7, <1>8, <1>9, <1>10 DEF Next, NetworkThread

(* A behaviour that follows a configuration moves the link and no event. *)
RemoteSpares ==
  /\ EventsStay /\ UNCHANGED <<now, grant, stale>>
  /\ net # "sending" => net' # "sending"

LEMMA RemoteKeeps ==
  ASSUME RemoteNext PROVE RemoteSpares
<1> USE DEF link, commanded, recording, output
<1> SUFFICES /\ UNCHANGED <<now, spool, nextSeq, making, hand, delivery, published, refused,
                            grant, stale, follows>>
             /\ net # "sending" => net' # "sending"
  BY DEF RemoteSpares, EventsStay
<1>1. CASE LinkStep
  BY <1>1 DEF LinkStep, Dial, NetworkExits, LinkUp, GiveUp, RequestStop, LinkDown, Goodbye,
              remoteVars
<1>2. CASE Announce
  BY <1>2 DEF Announce, Linked
<1>3. CASE StartsAgain
  BY <1>3 DEF StartsAgain
<1>4. ASSUME UNCHANGED vars, UNCHANGED follows
      PROVE  /\ UNCHANGED <<now, spool, nextSeq, making, hand, delivery, published, refused,
                            grant, stale, follows>>
             /\ net # "sending" => net' # "sending"
  BY <1>4 DEF vars
<1>5. CASE PublishState \/ PatienceEnds \/ HubHears \/ HubRestarts \/ BeginConfigure
  <2>1. UNCHANGED <<vars, follows>>
    BY <1>5 DEF PublishState, PatienceEnds, HubHears, HubRestarts, BeginConfigure
  <2> QED  BY <1>4, <2>1
<1>6. CASE \E list \in Lists : Configure(list)
  <2>1. UNCHANGED <<vars, follows>>
    BY <1>6 DEF Configure
  <2> QED  BY <1>4, <2>1
<1>7. CASE \E id \in Ids : Works(id)
  <2>1. UNCHANGED <<vars, follows>>
    BY <1>7 DEF Works, Check, StopDrivers, Build, Probe, Save, Commit, Restore, Tell,
                Release, Answer, restOfConfigure
  <2> QED  BY <1>4, <2>1
<1> QED  BY <1>1, <1>2, <1>3, <1>5, <1>6, <1>7 DEF RemoteNext

LEMMA AccountKept == AccountInv /\ [MCNext]_allVars => AccountInv'
<1> SUFFICES ASSUME AccountInv, [MCNext]_allVars PROVE AccountInv'
  OBVIOUS
<1>1. CASE Events(Next)
  BY <1>1, AccountEvents DEF Events
<1>2. CASE follows = "configuration" /\ RemoteNext
  <2>1. RemoteSpares
    BY <1>2, RemoteKeeps
  <2>2. now' \in Nat /\ net # "sending"
    BY <1>2, <2>1 DEF RemoteSpares, AccountInv, EventsTyped, HandIsWorkedOn
  <2> QED  BY <2>1, <2>2, StayStep DEF RemoteSpares
<1>3. CASE UNCHANGED allVars
  <2>1. EventsStay /\ now' \in Nat /\ net' = net
    BY <1>3 DEF allVars, vars, remoteVars, EventsStay, AccountInv, EventsTyped
  <2> QED  BY <2>1, StayStep
<1> QED  BY <1>1, <1>2, <1>3 DEF MCNext

LEMMA AccountsAnswer == ASSUME AccountInv PROVE EveryEventAccountedFor
<1>1. Total(nextSeq) \in Nat /\ Len(hand) \in Nat
      /\ Sending \in Nat /\ Cardinality(Busy) \in Nat /\ published \in Nat /\ refused \in Nat
  BY CountsAreNumbers DEF AccountInv
<1>2. Len(spool.items) \in Nat /\ DropsTotal(spool.drops) \in Nat
  BY SpoolParts DEF AccountInv, EventsTyped
<1> DEFINE L == Len(spool.items)
           D == DropsTotal(spool.drops)
           C == Cardinality(Busy)
<1>3. Total(nextSeq) = (L + D) + Len(hand) + Sending + C + published + refused
  BY DEF AccountInv, Accounts, Weight
<1>4. InFlight = Len(hand) + Sending + C
  BY DEF InFlight, Sending, Busy
<1>5. L \in Nat /\ D \in Nat /\ C \in Nat
  BY <1>1, <1>2
<1> HIDE DEF L, D, C
<1>6. ASSUME NEW F \in Nat PROVE (L + D) + F + published + refused = L + F + published + refused + D
  BY <1>1, <1>5
<1>7. (L + D) + Len(hand) + Sending + C + published + refused
        = L + (Len(hand) + Sending + C) + published + refused + D
  <2>1. Len(hand) + Sending + C \in Nat
    BY <1>1, <1>5
  <2>2. (L + D) + Len(hand) + Sending + C = (L + D) + (Len(hand) + Sending + C)
    BY <1>1, <1>5
  <2>3. (L + D) + (Len(hand) + Sending + C) + published + refused
          = L + (Len(hand) + Sending + C) + published + refused + D
    BY <1>6, <2>1
  <2> QED  BY <2>2, <2>3
<1> QED  BY <1>3, <1>4, <1>7 DEF EveryEventAccountedFor, Numbers, L, D

(* Whatever the bounds of the spool, the batch and the sources are: every  *)
(* number that Sequencer gave out is an event still being recorded, in the *)
(* spool, in the network thread's hand, published, refused or counted as   *)
(* dropped, in every interleaving of drivers, commands and network thread. *)
THEOREM EventsAreAccountedFor == MCSpec => []EveryEventAccountedFor
<1>1. MCInit => AccountInv
  BY AccountStart DEF MCInit
<1>2. AccountInv => EveryEventAccountedFor
  BY AccountsAnswer
<1> QED  BY <1>1, <1>2, AccountKept, PTL DEF MCSpec

------------------------------------------------------------------------------
(* The room the spool takes.                                               *)

(* The bytes of a stretch of a queue, p being what q has after its first m. *)
LEMMA BytesOfAStretch ==
  ASSUME NEW p \in Seq(Held), NEW q \in Seq(Held), NEW m \in Nat, m + Len(p) <= Len(q),
         \A i \in 1..Len(p) : p[i] = q[m + i],
         NEW n \in 0..Len(p)
  PROVE  BytesOf(q, m + n) = BytesOf(q, m) + BytesOf(p, n)
<1> DEFINE A == {k \in Nat : k <= Len(p) => BytesOf(q, m + k) = BytesOf(q, m) + BytesOf(p, k)}
<1>1. 0 \in A
  <2>1. BytesOf(p, 0) = 0 /\ BytesOf(q, m) \in Nat /\ m + 0 = m
    BY BytesAddUp
  <2> QED  BY <2>1
<1>2. ASSUME NEW k \in Nat, k \in A PROVE k + 1 \in A
  <2>1. SUFFICES ASSUME k + 1 <= Len(p)
                 PROVE  BytesOf(q, m + (k + 1)) = BytesOf(q, m) + BytesOf(p, k + 1)
    OBVIOUS
  <2>2. k + 1 \in 1..Len(p) /\ m + (k + 1) \in 1..Len(q) /\ (m + (k + 1)) - 1 = m + k
        /\ (k + 1) - 1 = k /\ m \in 0..Len(q) /\ k \in 0..Len(p)
    BY <2>1
  <2>3. BytesOf(q, m + (k + 1)) = BytesOf(q, m + k) + q[m + (k + 1)].size
    BY <2>2, BytesAddUp
  <2>4. BytesOf(p, k + 1) = BytesOf(p, k) + p[k + 1].size
    BY <2>2, BytesAddUp
  <2>5. BytesOf(q, m + k) = BytesOf(q, m) + BytesOf(p, k)
    BY <1>2, <2>1
  <2>6. p[k + 1] = q[m + (k + 1)] /\ p[k + 1] \in Held
    BY <2>2
  <2>7. p[k + 1].size \in Nat /\ BytesOf(q, m) \in Nat /\ BytesOf(p, k) \in Nat
    BY <2>2, <2>6, BytesAddUp DEF Held
  <2> QED  BY <2>3, <2>4, <2>5, <2>6, <2>7
<1>3. A = Nat
  <2> HIDE DEF A
  <2>1. A \in SUBSET Nat
    BY DEF A
  <2> QED  BY <1>1, <1>2, <2>1, Induction
<1> QED  BY <1>3

LEMMA BytesOfTheRest ==
  ASSUME NEW items \in Seq(Held), NEW n \in 0..Len(items)
  PROVE  /\ Front(items, n) \in Seq(Held) /\ Len(Front(items, n)) = Len(items) - n
         /\ BytesOf(Front(items, n), Len(items) - n)
              = BytesOf(items, Len(items)) - BytesOf(items, n)
         /\ BytesOf(SubSeq(items, 1, n), n) = BytesOf(items, n)
<1> DEFINE rest == SubSeq(items, n + 1, Len(items))
           head == SubSeq(items, 1, n)
<1>1. Len(items) \in Nat /\ n \in Nat /\ n <= Len(items)
  OBVIOUS
<1>2. rest \in Seq(Held) /\ Len(rest) = Len(items) - n
      /\ \A i \in 1..Len(rest) : rest[i] = items[n + i]
  BY <1>1
<1>3. head \in Seq(Held) /\ Len(head) = n /\ \A i \in 1..Len(head) : head[i] = items[0 + i]
  BY <1>1
<1> DEFINE k == Len(items) - n
<1>4. k \in Nat /\ k \in 0..Len(rest) /\ n + Len(rest) <= Len(items) /\ n + k = Len(items)
      /\ n \in 0..Len(head) /\ 0 + Len(head) <= Len(items) /\ 0 + n = n
  BY <1>1, <1>2, <1>3
<1> HIDE DEF rest, head, k
<1>5. BytesOf(items, n + k) = BytesOf(items, n) + BytesOf(rest, k)
  BY <1>1, <1>2, <1>4, BytesOfAStretch
<1>6. BytesOf(items, 0 + n) = BytesOf(items, 0) + BytesOf(head, n)
  BY <1>1, <1>3, <1>4, BytesOfAStretch
<1>7. BytesOf(items, 0) = 0 /\ BytesOf(items, n) \in Nat /\ BytesOf(head, n) \in Nat
      /\ BytesOf(rest, k) \in Nat
  BY <1>1, <1>2, <1>3, <1>4, BytesAddUp
<1>8. BytesOf(rest, k) = BytesOf(items, Len(items)) - BytesOf(items, n)
      /\ BytesOf(head, n) = BytesOf(items, n)
  BY <1>4, <1>5, <1>6, <1>7
<1>9. Front(items, n) = rest
  BY DEF Front, rest
<1>10. Len(items) - n = k /\ SubSeq(items, 1, n) = head
  BY DEF k, head
<1> QED  BY <1>2, <1>8, <1>9, <1>10

(* Events none of which is larger than L. *)
Light(L) == {h \in Held : h.size <= L}

LEMMA LightIsHeld == ASSUME NEW L, NEW items \in Seq(Light(L)) PROVE items \in Seq(Held)
<1>1. Light(L) \subseteq Held
  BY DEF Light
<1> HIDE DEF Light
<1> QED  BY <1>1

LEMMA LightStretch ==
  ASSUME NEW L, NEW items \in Seq(Light(L)), NEW m \in 1..Len(items) + 1, NEW n \in 0..Len(items)
  PROVE  SubSeq(items, m, n) \in Seq(Light(L))
OBVIOUS

LEMMA BytesOfLight ==
  ASSUME NEW L \in Nat, NEW items \in Seq(Light(L)), NEW n \in 0..Len(items)
  PROVE  BytesOf(items, n) <= n * L
<1> DEFINE A == {k \in Nat : k <= Len(items) => BytesOf(items, k) <= k * L}
<1>1. items \in Seq(Held) /\ \A i \in 1..Len(items) : items[i].size <= L /\ items[i].size \in Nat
  <2>1. \A i \in 1..Len(items) : items[i] \in Light(L)
    OBVIOUS
  <2> QED  BY <2>1, LightIsHeld DEF Light, Held
<1>2. 0 \in A
  BY <1>1, BytesAddUp
<1>3. ASSUME NEW k \in Nat, k \in A PROVE k + 1 \in A
  <2>1. SUFFICES ASSUME k + 1 <= Len(items) PROVE BytesOf(items, k + 1) <= (k + 1) * L
    OBVIOUS
  <2>2. k + 1 \in 1..Len(items) /\ (k + 1) - 1 = k /\ k \in 0..Len(items)
    BY <2>1
  <2>3. BytesOf(items, k + 1) = BytesOf(items, k) + items[k + 1].size
    BY <1>1, <2>2, BytesAddUp
  <2>4. BytesOf(items, k) <= k * L /\ BytesOf(items, k) \in Nat
    BY <1>1, <1>3, <2>2, BytesAddUp
  <2>5. (k + 1) * L = k * L + L /\ k * L \in Nat
    OBVIOUS
  <2> QED  BY <1>1, <2>2, <2>3, <2>4, <2>5
<1>4. A = Nat
  <2> HIDE DEF A
  <2>1. A \in SUBSET Nat
    BY DEF A
  <2> QED  BY <1>2, <1>3, <2>1, Induction
<1> QED  BY <1>4

(* The byte count beside the queue is that of the queue. *)
Honest(sp, L) ==
  /\ sp \in Spools /\ sp.items \in Seq(Light(L))
  /\ sp.nbytes = BytesOf(sp.items, Len(sp.items))

LEMMA HonestParts ==
  ASSUME NEW L, NEW sp, Honest(sp, L)
  PROVE  /\ sp \in Spools /\ sp.items \in Seq(Light(L)) /\ sp.items \in Seq(Held)
         /\ Len(sp.items) \in Nat
         /\ sp.nbytes = BytesOf(sp.items, Len(sp.items)) /\ sp.nbytes \in Nat
<1>1. sp.items \in Seq(Held) /\ Len(sp.items) \in Nat
  BY SpoolParts DEF Honest
<1>2. BytesOf(sp.items, Len(sp.items)) \in Nat
  BY <1>1, BytesAddUp
<1> QED  BY <1>1, <1>2 DEF Honest

LEMMA DiscardIsHonest ==
  ASSUME NEW L \in Nat, NEW sp, Honest(sp, L), NEW n \in 0..Len(sp.items),
         NEW reason \in {"count", "bytes", "age"}
  PROVE  LET d == Discard(sp, n, reason)
         IN  /\ Honest(d, L) /\ Len(d.items) = Len(sp.items) - n
             /\ d.nbytes = sp.nbytes - BytesOf(sp.items, n) /\ d.nbytes <= sp.nbytes
<1> DEFINE d == Discard(sp, n, reason)
<1>1. d \in Spools /\ Len(d.items) = Len(sp.items) - n
  BY DiscardCounts DEF Honest
<1>2. d.items = Front(sp.items, n) /\ d.nbytes = sp.nbytes - BytesOf(sp.items, n)
  BY DEF Discard
<1>3. sp.items \in Seq(Held) /\ sp.items \in Seq(Light(L)) /\ n \in Nat /\ n <= Len(sp.items)
      /\ Len(sp.items) \in Nat
  BY SpoolParts DEF Honest
<1>4. d.items \in Seq(Light(L))
  <2>1. n + 1 \in 1..Len(sp.items) + 1 /\ Len(sp.items) \in 0..Len(sp.items)
    BY <1>3
  <2> QED  BY <1>2, <1>3, <2>1, LightStretch DEF Front
<1>5. BytesOf(d.items, Len(d.items)) = BytesOf(sp.items, Len(sp.items)) - BytesOf(sp.items, n)
  BY <1>1, <1>2, <1>3, BytesOfTheRest
<1>6. BytesOf(sp.items, n) \in Nat /\ BytesOf(sp.items, Len(sp.items)) \in Nat
  BY <1>3, BytesAddUp
<1> HIDE DEF d
<1>7. Honest(d, L) /\ d.nbytes <= sp.nbytes
  BY <1>1, <1>2, <1>4, <1>5, <1>6 DEF Honest
<1> QED  BY <1>1, <1>2, <1>7 DEF d

LEMMA ExpireIsHonest ==
  ASSUME NEW L \in Nat, NEW sp, Honest(sp, L), NEW t \in Nat
  PROVE  /\ Honest(Expire(sp, t), L) /\ Len(Expire(sp, t).items) <= Len(sp.items)
         /\ Expire(sp, t).nbytes <= sp.nbytes
<1>1. ExpiredAt(sp, t) \in 0..Len(sp.items)
  BY ExpiredIsACount DEF Honest
<1>2. Len(sp.items) \in Nat
  BY SpoolParts DEF Honest
<1> QED  BY <1>1, <1>2, DiscardIsHonest DEF Expire

LEMMA OverBytesIsEnough ==
  ASSUME NEW L \in Nat, NEW sp, Honest(sp, L)
  PROVE  /\ OverBytes(sp) \in 0..Len(sp.items)
         /\ sp.nbytes - BytesOf(sp.items, OverBytes(sp)) <= MaxBytes
<1> DEFINE n == OverBytes(sp)
<1>1. sp \in Spools /\ sp.items \in Seq(Held) /\ Len(sp.items) \in Nat
      /\ sp.nbytes = BytesOf(sp.items, Len(sp.items)) /\ sp.nbytes \in Nat
  BY SpoolParts, BytesAddUp DEF Honest
<1>2. n \in 0..Len(sp.items)
  BY <1>1, OverBytesIsFound
<1>3. n < Len(sp.items) => sp.nbytes - BytesOf(sp.items, n) <= MaxBytes
  BY <1>1, OverBytesIsFound
<1> HIDE DEF n
<1>4. n = Len(sp.items) \/ n < Len(sp.items)
  BY <1>1, <1>2
<1> QED  BY <1>1, <1>2, <1>3, <1>4, SpoolLimits DEF n

(* put: what waits is honest, no longer and no heavier than it may be. *)
LEMMA PutFits ==
  ASSUME NEW L \in Nat, NEW sp, Honest(sp, L), NEW held \in Light(L), NEW t \in Nat
  PROVE  LET p == Put(sp, held, t)
         IN  Honest(p, L) /\ Len(p.items) <= MaxCount /\ p.nbytes <= MaxBytes
<1> DEFINE added == [sp EXCEPT !.items = Append(@, held), !.nbytes = @ + held.size]
           fresh == Expire(added, t)
           few   == Discard(fresh, OverCount(fresh), "count")
           put   == Discard(few, OverBytes(few), "bytes")
           longer == Append(sp.items, held)
<1>1. sp \in Spools /\ sp.items \in Seq(Light(L)) /\ sp.items \in Seq(Held)
      /\ Len(sp.items) \in Nat /\ sp.nbytes = BytesOf(sp.items, Len(sp.items)) /\ sp.nbytes \in Nat
      /\ held \in Held /\ held.size \in Nat
  <2>1. held \in Held /\ held.size \in Nat
    BY DEF Light, Held
  <2> QED  BY <2>1, HonestParts
<1>2. longer \in Seq(Light(L)) /\ longer \in Seq(Held) /\ Len(longer) = Len(sp.items) + 1
      /\ longer[Len(sp.items) + 1] = held /\ \A i \in 1..Len(sp.items) : longer[i] = sp.items[i]
  BY <1>1
<1> HIDE DEF longer
<1>3. BytesOf(longer, Len(longer)) = sp.nbytes + held.size
  <2>1. \A i \in 1..Len(sp.items) : sp.items[i] = longer[0 + i]
    BY <1>1, <1>2
  <2>2. 0 + Len(sp.items) <= Len(longer) /\ Len(sp.items) \in 0..Len(sp.items)
        /\ 0 + Len(sp.items) = Len(sp.items)
    BY <1>1, <1>2
  <2>3. BytesOf(longer, Len(sp.items)) = BytesOf(longer, 0) + BytesOf(sp.items, Len(sp.items))
    BY <1>1, <1>2, <2>1, <2>2, BytesOfAStretch
  <2>4. Len(sp.items) + 1 \in 1..Len(longer) /\ (Len(sp.items) + 1) - 1 = Len(sp.items)
    BY <1>1, <1>2
  <2>5. BytesOf(longer, Len(sp.items) + 1)
          = BytesOf(longer, Len(sp.items)) + longer[Len(sp.items) + 1].size
    BY <1>2, <2>4, BytesAddUp
  <2>6. BytesOf(longer, 0) = 0
    BY <1>2, BytesAddUp
  <2> QED  BY <1>1, <1>2, <2>3, <2>5, <2>6
<1>4. Honest(added, L)
  <2>1. added = [sp EXCEPT !.items = longer, !.nbytes = sp.nbytes + held.size]
    <3>1. [sp EXCEPT !.items = longer].nbytes = sp.nbytes
      BY <1>1 DEF Spools
    <3> QED  BY <3>1, Zenon DEF longer
  <2>2. added = With(sp, longer, sp.nbytes + held.size)
    BY <2>1, Zenon DEF With
  <2>3. added \in Spools /\ added.items = longer
    <3>1. sp.nbytes + held.size \in Int
      BY <1>1
    <3> HIDE DEF added
    <3> QED  BY <1>1, <1>2, <2>2, <3>1, SpoolWith
  <2>4. added.nbytes = sp.nbytes + held.size
    BY <1>1 DEF Spools
  <2> HIDE DEF added
  <2> QED  BY <1>2, <1>3, <2>3, <2>4 DEF Honest
<1> HIDE DEF added
<1>5. Honest(fresh, L)
  BY <1>4, ExpireIsHonest
<1> HIDE DEF fresh
<1>6. OverCount(fresh) \in 0..Len(fresh.items) /\ Len(fresh.items) \in Nat
      /\ Len(fresh.items) - OverCount(fresh) <= MaxCount
  BY <1>5, SpoolParts, SpoolLimits DEF OverCount, Honest
<1>7. Honest(few, L) /\ Len(few.items) = Len(fresh.items) - OverCount(fresh)
  BY <1>5, <1>6, DiscardIsHonest
<1>8. Len(few.items) <= MaxCount
  BY <1>6, <1>7
<1> HIDE DEF few
<1>9. /\ OverBytes(few) \in 0..Len(few.items)
      /\ few.nbytes - BytesOf(few.items, OverBytes(few)) <= MaxBytes
  BY <1>7, OverBytesIsEnough
<1>10. Honest(put, L) /\ Len(put.items) = Len(few.items) - OverBytes(few)
       /\ put.nbytes = few.nbytes - BytesOf(few.items, OverBytes(few))
  BY <1>7, <1>9, DiscardIsHonest
<1> HIDE DEF put
<1>11. Len(few.items) \in Nat
  BY <1>7, SpoolParts DEF Honest
<1>12. Len(put.items) <= MaxCount /\ put.nbytes <= MaxBytes
  BY <1>8, <1>9, <1>10, <1>11, SpoolLimits
<1>13. Put(sp, held, t) = put
  BY DEF Put, put, few, fresh, added
<1> QED  BY <1>10, <1>12, <1>13

(* take: the bytes that leave the spool are those of the batch. *)
LEMMA TakeFits ==
  ASSUME NEW L \in Nat, NEW sp, Honest(sp, L), NEW limit \in Nat, NEW t \in Nat
  PROVE  LET out == Taken(sp, limit, t)
             left == Take(sp, limit, t)
         IN  /\ Honest(left, L) /\ Len(left.items) <= Len(sp.items)
             /\ out \in Seq(Light(L)) /\ Len(out) <= limit
             /\ left.nbytes + BytesOf(out, Len(out)) <= sp.nbytes
<1> DEFINE fresh == Expire(sp, t)
           n     == Lesser(limit, Len(fresh.items))
           rest  == Front(fresh.items, n)
           left  == [fresh EXCEPT !.items = rest, !.nbytes = @ - BytesOf(fresh.items, n)]
           out   == SubSeq(fresh.items, 1, n)
<1>1. Honest(fresh, L) /\ Len(fresh.items) <= Len(sp.items) /\ fresh.nbytes <= sp.nbytes
  BY ExpireIsHonest
<1>2. Take(sp, limit, t) = left /\ Taken(sp, limit, t) = out
  BY DEF Take, Taken
<1>3. sp.nbytes \in Int /\ Len(sp.items) \in Nat
  BY SpoolParts DEF Honest
<1> HIDE DEF fresh
<1>4. fresh \in Spools /\ fresh.items \in Seq(Light(L)) /\ fresh.items \in Seq(Held)
      /\ Len(fresh.items) \in Nat /\ fresh.nbytes = BytesOf(fresh.items, Len(fresh.items))
      /\ fresh.nbytes \in Nat
  BY <1>1, SpoolParts, BytesAddUp, LightIsHeld DEF Honest
<1>5. n \in 0..Len(fresh.items) /\ n <= limit /\ n \in Nat
  BY <1>4 DEF Lesser
<1> HIDE DEF n
<1>6. BytesOf(fresh.items, n) \in Nat
  BY <1>4, <1>5, BytesAddUp
<1>7. rest \in Seq(Held) /\ Len(rest) = Len(fresh.items) - n
      /\ BytesOf(rest, Len(fresh.items) - n) = fresh.nbytes - BytesOf(fresh.items, n)
      /\ BytesOf(out, n) = BytesOf(fresh.items, n)
  BY <1>4, <1>5, BytesOfTheRest
<1>8. rest \in Seq(Light(L)) /\ out \in Seq(Light(L)) /\ Len(out) = n
  <2>1. n + 1 \in 1..Len(fresh.items) + 1 /\ Len(fresh.items) \in 0..Len(fresh.items)
        /\ 1 \in 1..Len(fresh.items) + 1
    BY <1>4, <1>5
  <2>2. Len(out) = n
    BY <1>4, <1>5
  <2> QED  BY <1>4, <1>5, <2>1, <2>2, LightStretch DEF Front
<1> HIDE DEF rest, out
<1>9. left \in Spools /\ left.items = rest /\ left.nbytes = fresh.nbytes - BytesOf(fresh.items, n)
  <2>1. [fresh EXCEPT !.items = rest].nbytes = fresh.nbytes
    BY <1>4 DEF Spools
  <2>2. left = With(fresh, rest, fresh.nbytes - BytesOf(fresh.items, n))
    BY <2>1, Zenon DEF With
  <2>3. left.nbytes = fresh.nbytes - BytesOf(fresh.items, n)
    BY <1>4 DEF Spools
  <2>4. fresh.nbytes - BytesOf(fresh.items, n) \in Int
    BY <1>4, <1>6
  <2> HIDE DEF left
  <2> QED  BY <1>4, <1>7, <2>2, <2>3, <2>4, SpoolWith
<1> HIDE DEF left
<1>10. Honest(left, L)
  BY <1>7, <1>8, <1>9 DEF Honest
<1>11. Len(left.items) <= Len(sp.items) /\ left.nbytes + BytesOf(out, Len(out)) <= sp.nbytes
  BY <1>1, <1>3, <1>4, <1>5, <1>6, <1>7, <1>8, <1>9
<1> QED  BY <1>2, <1>5, <1>8, <1>10, <1>11

(* requeue: one event heavier at most. *)
LEMMA RequeueFits ==
  ASSUME NEW L \in Nat, NEW sp, Honest(sp, L), NEW held \in Light(L)
  PROVE  LET r == Requeue(sp, held)
         IN  Honest(r, L) /\ Len(r.items) <= MaxCount /\ r.nbytes <= sp.nbytes + held.size
<1> DEFINE back == <<held>> \o sp.items
           keep == Lesser(MaxCount, Len(back))
           kept == SubSeq(back, 1, keep)
           r    == Requeue(sp, held)
<1>1. sp \in Spools /\ sp.items \in Seq(Light(L)) /\ sp.items \in Seq(Held)
      /\ Len(sp.items) \in Nat /\ sp.nbytes = BytesOf(sp.items, Len(sp.items)) /\ sp.nbytes \in Nat
      /\ held \in Held /\ held.size \in Nat
  <2>1. held \in Held /\ held.size \in Nat
    BY DEF Light, Held
  <2> QED  BY <2>1, HonestParts
<1>2. back \in Seq(Light(L)) /\ Len(back) = Len(sp.items) + 1 /\ back[1] = held
      /\ \A i \in 1..Len(sp.items) : sp.items[i] = back[1 + i]
  <2>1. <<held>> \in Seq(Light(L))
    OBVIOUS
  <2> QED  BY <1>1, <2>1
<1>3. back \in Seq(Held)
  BY <1>2, LightIsHeld
<1>4. r.items = kept
      /\ r.nbytes = sp.nbytes + held.size - (BytesOf(back, Len(back)) - BytesOf(back, keep))
  BY DEF Requeue
<1>5. r \in Spools
  BY <1>1, RequeueCounts
<1> HIDE DEF back, r
<1>6. keep \in 0..Len(back) /\ keep \in Nat /\ keep <= MaxCount
  BY <1>1, <1>2, SpoolLimits DEF Lesser
<1> HIDE DEF keep
<1>7. BytesOf(back, Len(back)) = held.size + sp.nbytes
  <2>1. 1 + Len(sp.items) <= Len(back) /\ Len(sp.items) \in 0..Len(sp.items)
        /\ 1 + Len(sp.items) = Len(back) /\ 1 \in 1..Len(back) /\ 1 - 1 = 0
    BY <1>1, <1>2
  <2>2. BytesOf(back, 1 + Len(sp.items)) = BytesOf(back, 1) + BytesOf(sp.items, Len(sp.items))
    BY <1>1, <1>2, <1>3, <2>1, BytesOfAStretch
  <2>3. BytesOf(back, 1) = BytesOf(back, 0) + back[1].size /\ BytesOf(back, 0) = 0
    BY <1>3, <2>1, BytesAddUp
  <2> QED  BY <1>1, <1>2, <2>1, <2>2, <2>3
<1>8. BytesOf(kept, keep) = BytesOf(back, keep) /\ BytesOf(back, keep) \in Nat
  BY <1>3, <1>6, BytesOfTheRest, BytesAddUp
<1>9. BytesOf(back, Len(back)) >= BytesOf(back, keep)
  <2>1. BytesOf(Front(back, keep), Len(back) - keep)
          = BytesOf(back, Len(back)) - BytesOf(back, keep)
        /\ Front(back, keep) \in Seq(Held) /\ Len(Front(back, keep)) = Len(back) - keep
    BY <1>3, <1>6, BytesOfTheRest
  <2>2. Len(back) - keep \in 0..Len(Front(back, keep))
    BY <1>2, <1>6, <1>1, <2>1
  <2>3. BytesOf(Front(back, keep), Len(back) - keep) \in Nat
    BY <2>1, <2>2, BytesAddUp
  <2> QED  BY <1>1, <1>7, <1>8, <2>1, <2>3
<1>10. kept \in Seq(Light(L)) /\ Len(kept) = keep
  <2>1. 1 \in 1..Len(back) + 1
    BY <1>1, <1>2
  <2>2. Len(kept) = keep
    BY <1>2, <1>6
  <2> QED  BY <1>2, <1>6, <2>1, <2>2, LightStretch
<1>11. r.nbytes = BytesOf(back, keep) /\ r.nbytes <= sp.nbytes + held.size
  BY <1>1, <1>4, <1>7, <1>8, <1>9
<1>12. Honest(r, L)
  BY <1>4, <1>5, <1>8, <1>10, <1>11 DEF Honest
<1> QED  BY <1>4, <1>6, <1>10, <1>11, <1>12 DEF r

(* The bytes the network thread has in hand. *)
InHand == BytesOf(hand, Len(hand)) + (IF delivery = None THEN 0 ELSE delivery.held.size)

(* No event is larger than L, and neither is what a batch can hold; what   *)
(* is in the spool and in hand together is what a put leaves, and a batch. *)
RoomInv(L) ==
  /\ Honest(spool, L) /\ Len(spool.items) <= MaxCount
  /\ hand \in Seq(Light(L)) /\ (delivery # None => delivery.held \in Light(L))
  /\ InHand <= Batch * L /\ spool.nbytes + InHand <= MaxBytes + Batch * L

LEMMA Products == ASSUME NEW L \in Nat, NEW a \in Nat, NEW b \in Nat, a <= b
                  PROVE  a * L \in Nat /\ b * L \in Nat /\ a * L <= b * L
<1>1. b - a \in Nat /\ (b - a) * L \in Nat /\ a * L \in Nat /\ b * L \in Nat
  OBVIOUS
<1>2. b * L = a * L + (b - a) * L
  <2>1. b = a + (b - a)
    OBVIOUS
  <2>2. \A x, y \in Nat : (x + y) * L = x * L + y * L
    OBVIOUS
  <2> QED  BY <1>1, <2>1, <2>2
<1> QED  BY <1>1, <1>2

LEMMA RoomParts ==
  ASSUME NEW L \in Nat, RoomInv(L)
  PROVE  /\ spool.nbytes \in Nat /\ InHand \in Nat /\ Batch * L \in Nat /\ MaxBytes \in Nat
         /\ Len(spool.items) \in Nat /\ MaxCount \in Nat
         /\ hand \in Seq(Held) /\ BytesOf(hand, Len(hand)) \in Nat
         /\ delivery # None => delivery.held.size \in Nat
<1>1. hand \in Seq(Held) /\ (delivery # None => delivery.held.size \in Nat)
  BY LightIsHeld DEF RoomInv, Light, Held
<1>2. BytesOf(hand, Len(hand)) \in Nat
  BY <1>1, BytesAddUp
<1>3. Batch * L \in Nat
  BY AgentConstants, Products
<1>4. spool.nbytes \in Nat /\ Len(spool.items) \in Nat
  BY HonestParts DEF RoomInv
<1> QED  BY <1>1, <1>2, <1>3, <1>4, SpoolLimits DEF InHand

(* What goes back makes the hand lighter by what the spool can get heavier. *)
LEMMA Lighter ==
  ASSUME NEW L \in Nat, RoomInv(L), NEW z \in Nat, NEW c \in Nat, NEW h \in Nat,
         InHand = c + h, z <= spool.nbytes + h
  PROVE  c <= Batch * L /\ z + c <= MaxBytes + Batch * L
<1> DEFINE b == Batch * L
<1>1. b \in Nat /\ MaxBytes \in Nat /\ spool.nbytes \in Nat
  BY RoomParts
<1>2. InHand <= b /\ spool.nbytes + InHand <= MaxBytes + b
  BY DEF RoomInv
<1> HIDE DEF b
<1>3. c <= b /\ z + c <= MaxBytes + b
  BY <1>1, <1>2
<1> QED  BY <1>3 DEF b

LEMMA RoomStays ==
  ASSUME NEW L \in Nat, RoomInv(L), UNCHANGED <<spool, hand, delivery>>
  PROVE  RoomInv(L)'
BY DEF RoomInv, Honest, InHand

LEMMA RoomPut ==
  ASSUME NEW L \in Nat, \A size \in Sizes : size <= L, AccountInv, RoomInv(L),
         NEW t \in Threads, PutInSpool(t)
  PROVE  RoomInv(L)'
<1>1. PICK size \in Sizes :
        spool' = Put(spool, [source |-> making[t].source, seq |-> making[t].seq,
                             size |-> size, queued_at |-> now], now)
  BY DEF PutInSpool
<1> DEFINE held == [source |-> making[t].source, seq |-> making[t].seq,
                    size |-> size, queued_at |-> now]
<1>2. now \in Nat /\ making[t] \in Event /\ size \in Nat \ {0} /\ size <= L
  BY AgentConstants DEF AccountInv, EventsTyped, PutInSpool
<1>3. held \in Light(L)
  BY <1>2 DEF Event, Held, Light
<1> HIDE DEF held
<1>4. spool' = Put(spool, held, now)
  BY <1>1 DEF held
<1>5. Honest(spool', L) /\ Len(spool'.items) <= MaxCount /\ spool'.nbytes <= MaxBytes
  BY <1>2, <1>3, <1>4, PutFits DEF RoomInv
<1>6. spool'.nbytes \in Nat
  BY <1>5, HonestParts
<1>7. hand' = hand /\ delivery' = delivery
  BY DEF PutInSpool
<1>8. InHand' = InHand
  BY <1>7 DEF InHand
<1>9. spool'.nbytes + InHand <= MaxBytes + Batch * L
  BY <1>5, <1>6, RoomParts DEF RoomInv
<1> QED  BY <1>5, <1>7, <1>8, <1>9 DEF RoomInv, Honest

LEMMA RoomTake ==
  ASSUME NEW L \in Nat, AccountInv, RoomInv(L), TakeBatch
  PROVE  RoomInv(L)'
<1>1. hand = << >> /\ delivery = None /\ delivery' = None /\ now \in Nat /\ Batch \in Nat
  BY AgentConstants DEF TakeBatch, AccountInv, HandIsWorkedOn, EventsTyped
<1>2. hand' = Taken(spool, Batch, now) /\ spool' = Take(spool, Batch, now)
  BY DEF TakeBatch
<1>3. /\ Honest(spool', L) /\ Len(spool'.items) <= Len(spool.items)
      /\ hand' \in Seq(Light(L)) /\ Len(hand') <= Batch
      /\ spool'.nbytes + BytesOf(hand', Len(hand')) <= spool.nbytes
  BY <1>1, <1>2, TakeFits DEF RoomInv
<1>4. Len(hand') \in Nat /\ Len(hand') \in 0..Len(hand')
  BY <1>3
<1>5. BytesOf(hand', Len(hand')) \in Nat
  BY <1>3, <1>4, LightIsHeld, BytesAddUp
<1>6. BytesOf(hand', Len(hand')) <= Len(hand') * L
  BY <1>3, <1>4, BytesOfLight
<1>7. Len(hand') * L \in Nat /\ Batch * L \in Nat /\ Len(hand') * L <= Batch * L
  BY <1>1, <1>3, <1>4, Products
<1>8. InHand' = BytesOf(hand', Len(hand'))
  BY <1>1, <1>5 DEF InHand
<1>9. InHand = 0
  <2>1. BytesOf(hand, Len(hand)) = 0
    BY <1>1, RoomParts, BytesAddUp
  <2> QED  BY <1>1, <2>1 DEF InHand
<1>10. spool'.nbytes \in Nat /\ Len(spool'.items) \in Nat
  BY <1>3, HonestParts
<1>11. InHand' <= Batch * L /\ spool'.nbytes + InHand' <= MaxBytes + Batch * L
  <2>1. spool.nbytes <= MaxBytes + Batch * L
    BY <1>9, RoomParts DEF RoomInv
  <2> DEFINE bytes == BytesOf(hand', Len(hand'))
  <2>2. /\ bytes \in Nat /\ bytes <= Batch * L /\ spool'.nbytes + bytes <= spool.nbytes
    <3> DEFINE most == Batch * L
               own  == Len(hand') * L
    <3>1. own \in Nat /\ most \in Nat /\ own <= most /\ bytes <= own /\ bytes \in Nat
      BY <1>5, <1>6, <1>7
    <3> HIDE DEF most, own, bytes
    <3> QED  BY <1>3, <3>1 DEF most, bytes
  <2>3. spool.nbytes \in Nat /\ MaxBytes + Batch * L \in Nat
    BY <1>7, RoomParts
  <2> HIDE DEF bytes
  <2>4. InHand' = bytes
    BY <1>8 DEF bytes
  <2> QED  BY <1>10, <2>1, <2>2, <2>3, <2>4
<1>12. Len(spool'.items) <= MaxCount
  BY <1>3, <1>10, RoomParts DEF RoomInv
<1> QED  BY <1>1, <1>3, <1>11, <1>12 DEF RoomInv, Honest

(* A batch without its first event. *)
LEMMA OneLessInHand ==
  ASSUME NEW L \in Nat, NEW batch \in Seq(Light(L)), batch # << >>
  PROVE  /\ Head(batch) \in Light(L) /\ Tail(batch) \in Seq(Light(L))
         /\ BytesOf(Tail(batch), Len(Tail(batch))) \in Nat /\ Head(batch).size \in Nat
         /\ BytesOf(batch, Len(batch)) = Head(batch).size + BytesOf(Tail(batch), Len(Tail(batch)))
<1>1. batch \in Seq(Held)
  BY LightIsHeld
<1>2. Head(batch) = batch[1] /\ Head(batch) \in Light(L) /\ Tail(batch) \in Seq(Light(L))
      /\ Len(Tail(batch)) = Len(batch) - 1 /\ Len(batch) \in Nat /\ 1 \in 0..Len(batch)
      /\ 1 \in 1..Len(batch) /\ 1 - 1 = 0 /\ Tail(batch) = SubSeq(batch, 1 + 1, Len(batch))
  OBVIOUS
<1>3. BytesOf(batch, 1) = BytesOf(batch, 0) + batch[1].size /\ BytesOf(batch, 0) = 0
      /\ BytesOf(batch, 1) \in Nat /\ BytesOf(batch, Len(batch)) \in Nat
  <2>1. Len(batch) \in 0..Len(batch)
    BY <1>2
  <2> QED  BY <1>1, <1>2, <2>1, BytesAddUp
<1>4. BytesOf(Tail(batch), Len(batch) - 1) = BytesOf(batch, Len(batch)) - BytesOf(batch, 1)
  <2>1. Front(batch, 1) = Tail(batch)
    BY <1>2 DEF Front
  <2> QED  BY <1>1, <1>2, <2>1, BytesOfTheRest
<1>5. Head(batch).size \in Nat
  BY <1>2 DEF Light, Held
<1>6. BytesOf(Tail(batch), Len(Tail(batch))) \in Nat
  <2>1. Tail(batch) \in Seq(Held) /\ Len(Tail(batch)) \in 0..Len(Tail(batch))
    BY <1>2, LightIsHeld
  <2> QED  BY <2>1, BytesAddUp
<1> QED  BY <1>2, <1>3, <1>4, <1>5, <1>6

LEMMA RoomPrepare ==
  ASSUME NEW L \in Nat, AccountInv, RoomInv(L), Prepare
  PROVE  RoomInv(L)'
<1> DEFINE held == Head(hand)
           rest == Tail(hand)
<1>1. delivery = None /\ hand # << >> /\ hand' = rest /\ hand \in Seq(Light(L))
  BY DEF Prepare, AccountInv, HandIsWorkedOn, RoomInv
<1>2. /\ held \in Light(L) /\ rest \in Seq(Light(L)) /\ held.size \in Nat
      /\ BytesOf(rest, Len(rest)) \in Nat
      /\ BytesOf(hand, Len(hand)) = held.size + BytesOf(rest, Len(rest))
  BY <1>1, OneLessInHand
<1>3. InHand = held.size + BytesOf(rest, Len(rest))
  BY <1>1, <1>2 DEF InHand
<1>4. \/ spool' = Requeue(spool, held) /\ delivery' = None
      \/ spool' = spool /\ delivery' = None
      \/ /\ delivery' = [held |-> held, conn |-> conn, epoch |-> grant.epoch,
                         grant |-> grant.grant, replayed |-> Replayed(held)]
         /\ spool' = spool
  BY <1>1 DEF Prepare
<1> HIDE DEF held, rest
<1>5. CASE spool' = Requeue(spool, held) /\ delivery' = None
  <2>1. /\ Honest(spool', L) /\ Len(spool'.items) <= MaxCount
        /\ spool'.nbytes <= spool.nbytes + held.size
    BY <1>2, <1>5, RequeueFits DEF RoomInv
  <2>2. spool'.nbytes \in Nat
    BY <2>1, HonestParts
  <2>3. InHand' = BytesOf(rest, Len(rest))
    BY <1>1, <1>2, <1>5 DEF InHand
  <2>4. InHand' <= Batch * L /\ spool'.nbytes + InHand' <= MaxBytes + Batch * L
    <3>1. InHand = InHand' + held.size /\ InHand' \in Nat
      BY <1>2, <1>3, <2>3
    <3> QED  BY <1>2, <2>1, <2>2, <3>1, Lighter
  <2> QED  BY <1>1, <1>2, <1>5, <2>1, <2>4 DEF RoomInv, Honest
<1>6. CASE spool' = spool /\ delivery' = None
  <2>1. InHand' = BytesOf(rest, Len(rest))
    BY <1>1, <1>2, <1>6 DEF InHand
  <2>2. InHand' <= Batch * L /\ spool.nbytes + InHand' <= MaxBytes + Batch * L
    <3>1. InHand = InHand' + held.size /\ InHand' \in Nat
          /\ spool.nbytes <= spool.nbytes + held.size /\ spool.nbytes \in Nat
      BY <1>2, <1>3, <2>1, RoomParts
    <3> QED  BY <1>2, <3>1, Lighter
  <2> QED  BY <1>1, <1>2, <1>6, <2>2 DEF RoomInv, Honest
<1>7. CASE /\ delivery' = [held |-> held, conn |-> conn, epoch |-> grant.epoch,
                           grant |-> grant.grant, replayed |-> Replayed(held)]
           /\ spool' = spool
  <2>1. delivery' # None /\ delivery'.held = held
    BY <1>7, EventsAreNotNone
  <2>2. InHand' = InHand
    BY <1>1, <1>2, <1>3, <2>1 DEF InHand
  <2> QED  BY <1>1, <1>2, <1>7, <2>1, <2>2 DEF RoomInv, Honest
<1> QED  BY <1>4, <1>5, <1>6, <1>7

LEMMA RoomOutcome ==
  ASSUME NEW L \in Nat, RoomInv(L), Published \/ NotPublished
  PROVE  RoomInv(L)'
<1>1. delivery # None /\ delivery' = None /\ hand' = hand
  BY DEF Published, NotPublished
<1>2. InHand = InHand' + delivery.held.size /\ InHand' \in Nat /\ delivery.held.size \in Nat
  BY <1>1, RoomParts DEF InHand
<1>3. CASE spool' = spool
  <2>1. InHand' <= Batch * L /\ spool.nbytes + InHand' <= MaxBytes + Batch * L
    <3>1. spool.nbytes <= spool.nbytes + delivery.held.size /\ spool.nbytes \in Nat
      BY <1>2, RoomParts
    <3> QED  BY <1>2, <3>1, Lighter
  <2> QED  BY <1>1, <1>3, <2>1 DEF RoomInv, Honest
<1>4. CASE spool' = Requeue(spool, delivery.held)
  <2>1. /\ Honest(spool', L) /\ Len(spool'.items) <= MaxCount
        /\ spool'.nbytes <= spool.nbytes + delivery.held.size
    BY <1>1, <1>4, RequeueFits DEF RoomInv
  <2>2. spool'.nbytes \in Nat
    BY <2>1, HonestParts
  <2>3. InHand' <= Batch * L /\ spool'.nbytes + InHand' <= MaxBytes + Batch * L
    BY <1>2, <2>1, <2>2, Lighter
  <2> QED  BY <1>1, <2>1, <2>3 DEF RoomInv, Honest
<1> QED  BY <1>3, <1>4 DEF Published, NotPublished

LEMMA RoomStarts == ASSUME NEW L \in Nat, Init PROVE RoomInv(L)
<1>1. << >> \in Seq(Light(L)) /\ << >> \in Seq(Held) /\ Len(<< >>) = 0
  OBVIOUS
<1>2. BytesOf(<< >>, 0) = 0
  BY <1>1, BytesAddUp
<1>3. spool = EmptySpool /\ hand = << >> /\ delivery = None
  BY DEF Init
<1>4. Batch * L \in Nat
  BY AgentConstants, Products
<1>5. EmptySpool \in Spools /\ EmptySpool.items = << >> /\ EmptySpool.nbytes = 0
  BY <1>1 DEF EmptySpool, Spools, Drops
<1>6. InHand = 0
  BY <1>1, <1>2, <1>3 DEF InHand
<1>7. Honest(spool, L)
  BY <1>1, <1>2, <1>3, <1>5 DEF Honest
<1> QED  BY <1>1, <1>3, <1>4, <1>5, <1>6, <1>7, SpoolLimits DEF RoomInv

LEMMA RoomKept ==
  ASSUME NEW L \in Nat, \A size \in Sizes : size <= L, AccountInv, RoomInv(L), [MCNext]_allVars
  PROVE  RoomInv(L)'
<1> USE DEF link, commanded, recording, output
<1>1. CASE Events(Next)
  <2>1. CASE \E t \in Threads : PutInSpool(t)
    BY <2>1, RoomPut
  <2>2. CASE TakeBatch
    BY <2>2, RoomTake
  <2>3. CASE Prepare
    BY <2>3, RoomPrepare
  <2>4. CASE Published \/ NotPublished
    BY <2>4, RoomOutcome
  <2>5. CASE \/ \E s \in Sources : DriverReads(s) \/ TakeBaseline(s)
             \/ Dial \/ Linked \/ GiveUp \/ NetworkExits
             \/ LinkUp \/ LinkDown \/ RequestStop \/ Goodbye
             \/ \E c \in Commands : OnCommand(c)
             \/ Tick
    <3>1. UNCHANGED <<spool, hand, delivery>>
      BY <2>5 DEF DriverReads, TakeBaseline, Dial, Linked, GiveUp, NetworkExits, LinkUp,
                  LinkDown, RequestStop, Goodbye, OnCommand, Tick
    <3> QED  BY <3>1, RoomStays
  <2> QED  BY <1>1, <2>1, <2>2, <2>3, <2>4, <2>5 DEF Events, Next, NetworkThread
<1>2. CASE follows = "configuration" /\ RemoteNext
  <2>1. RemoteSpares
    BY <1>2, RemoteKeeps
  <2> QED  BY <2>1, RoomStays DEF RemoteSpares, EventsStay
<1>3. CASE UNCHANGED allVars
  BY <1>3, RoomStays DEF allVars, vars
<1> QED  BY <1>1, <1>2, <1>3 DEF MCNext

(* The memory the spool takes: no more events than max_count, as many      *)
(* bytes as it says it has, and no more of those than max_bytes and one    *)
(* batch of the largest events, as requeue does not look at max_bytes      *)
(* (put, take, requeue).                                                   *)
SpoolTakesRoom(largest) ==
  /\ Len(spool.items) <= MaxCount
  /\ spool.nbytes = BytesOf(spool.items, Len(spool.items))
  /\ spool.nbytes <= MaxBytes + Batch * largest

(* However put, take, requeue, a failing transport and commands            *)
(* interleave, the queue that a node without swap keeps is bounded, and    *)
(* the count of its bytes never drifts from what it holds.                 *)
THEOREM SpoolIsBounded ==
  ASSUME NEW Largest \in Nat, \A size \in Sizes : size <= Largest
  PROVE  MCSpec => []SpoolTakesRoom(Largest)
<1> DEFINE Inv == AccountInv /\ RoomInv(Largest)
           Room == SpoolTakesRoom(Largest)
<1>1. MCInit => Inv
  BY AccountStart, RoomStarts DEF MCInit
<1>2. Inv /\ [MCNext]_allVars => Inv'
  <2> SUFFICES ASSUME Inv, [MCNext]_allVars PROVE Inv'
    OBVIOUS
  <2>1. AccountInv'
    BY AccountKept
  <2>2. RoomInv(Largest)'
    BY RoomKept
  <2> QED  BY <2>1, <2>2
<1>3. Inv => Room
  <2> SUFFICES ASSUME RoomInv(Largest) PROVE Room
    OBVIOUS
  <2>1. spool.nbytes <= MaxBytes + Batch * Largest
    BY RoomParts DEF RoomInv
  <2> QED  BY <2>1 DEF RoomInv, Honest, SpoolTakesRoom
<1> HIDE DEF Inv
<1>4. MCSpec => []Room
  BY <1>1, <1>2, <1>3, PTL DEF MCSpec
<1> QED  BY <1>4

------------------------------------------------------------------------------
(* What goes out after the grant.                                          *)

(* Once one event has gone out without a grant, none is on its way and no  *)
(* grant stands, so the next delivery waits for a new one.                 *)
GrantInv ==
  /\ now \in Nat /\ stale \in {0, 1}
  /\ grant \in Grant \cup {None}
  /\ stale = 1 => ~Valid(grant, now) /\ delivery = None

LEMMA ValidFades ==
  ASSUME NEW g \in Grant \cup {None}, NEW t \in Nat, NEW u \in Nat, t <= u, Valid(g, u)
  PROVE  Valid(g, t)
<1>1. g \in Grant /\ u < g.expires /\ g # None
  BY DEF Valid
<1>2. g.expires \in Nat
  BY <1>1 DEF Grant
<1> QED  BY <1>1, <1>2 DEF Valid

LEMMA GrantEvents ==
  ASSUME GrantInv, Next PROVE GrantInv'
<1> USE DEF link, commanded, recording, output
<1>1. CASE UNCHANGED <<now, stale, grant, delivery>>
  BY <1>1 DEF GrantInv, Valid
<1>2. CASE \/ \E s \in Sources : DriverReads(s) \/ TakeBaseline(s)
           \/ \E t \in Threads : PutInSpool(t)
           \/ Dial \/ Linked \/ GiveUp \/ NetworkExits \/ TakeBatch
           \/ LinkUp \/ LinkDown \/ RequestStop \/ Goodbye
  <2>1. UNCHANGED <<now, stale, grant, delivery>>
    BY <1>2 DEF DriverReads, TakeBaseline, PutInSpool, Dial, Linked, GiveUp, NetworkExits,
                TakeBatch, LinkUp, LinkDown, RequestStop, Goodbye
  <2> QED  BY <1>1, <2>1
<1>3. CASE Prepare
  <2>1. UNCHANGED <<now, stale, grant>> /\ (Valid(grant, now) \/ delivery' = delivery)
    BY <1>3 DEF Prepare, MaySend
  <2> QED  BY <2>1 DEF GrantInv, Valid
<1>4. CASE Published
  <2>1. UNCHANGED <<now, grant>> /\ delivery # None /\ delivery' = None
        /\ stale' = IF Valid(grant, now) THEN 0 ELSE stale + 1
    BY <1>4 DEF Published
  <2>2. stale = 0
    BY <2>1 DEF GrantInv
  <2> QED  BY <2>1, <2>2 DEF GrantInv, Valid
<1>5. CASE NotPublished
  <2>1. UNCHANGED <<now, stale, grant>> /\ delivery' = None
    BY <1>5 DEF NotPublished
  <2> QED  BY <2>1 DEF GrantInv, Valid
<1>6. ASSUME NEW c \in Commands, OnCommand(c) PROVE GrantInv'
  <2>1. UNCHANGED <<now, delivery>> /\ now \in Nat
        /\ stale' = IF grant' \in {grant, None} THEN stale ELSE 0
    BY <1>6 DEF OnCommand, GrantInv
  <2>2. c \in CommandType
    BY AgentConstants
  <2>3. grant' = grant \/ grant' = None \/ grant' = Installed(c)
    BY <1>6, <2>2 DEF OnCommand, Applied, CommandType
  <2>4. Installed(c) \in Grant
    BY <2>1, <2>2 DEF Installed, Grant, CommandType
  <2>5. grant' \in Grant \cup {None}
    BY <2>3, <2>4 DEF GrantInv
  <2>6. CASE grant' \in {grant, None}
    <3>1. stale' = stale
      BY <2>1, <2>6
    <3> QED  BY <2>1, <2>5, <2>6, <3>1 DEF GrantInv, Valid
  <2>7. CASE grant' \notin {grant, None}
    BY <2>1, <2>5, <2>7 DEF GrantInv
  <2> QED  BY <2>6, <2>7
<1>7. CASE Tick
  <2>1. UNCHANGED <<stale, grant, delivery>> /\ now' = now + 1
    BY <1>7 DEF Tick
  <2>2. now \in Nat /\ now' \in Nat /\ now <= now' /\ grant \in Grant \cup {None}
    BY <2>1 DEF GrantInv
  <2>3. ~Valid(grant, now) => ~Valid(grant, now')
    BY <2>2, ValidFades
  <2> QED  BY <2>1, <2>2, <2>3 DEF GrantInv, Valid
<1> QED  BY <1>2, <1>3, <1>4, <1>5, <1>6, <1>7 DEF Next, NetworkThread

LEMMA GrantKept == GrantInv /\ [MCNext]_allVars => GrantInv'
<1> SUFFICES ASSUME GrantInv, [MCNext]_allVars PROVE GrantInv'
  OBVIOUS
<1>1. CASE Events(Next)
  BY <1>1, GrantEvents DEF Events
<1>2. CASE follows = "configuration" /\ RemoteNext
  <2>1. RemoteSpares
    BY <1>2, RemoteKeeps
  <2> QED  BY <2>1 DEF RemoteSpares, EventsStay, GrantInv, Valid
<1>3. CASE UNCHANGED allVars
  BY <1>3 DEF allVars, vars, GrantInv, Valid
<1> QED  BY <1>1, <1>2, <1>3 DEF MCNext

(* However a revocation, a renewal or the end of a grant interleaves with  *)
(* _send, at most the one event already handed to the transport goes out   *)
(* after the grant that let it is over, for grants of every length.        *)
THEOREM GrantIsAskedPerEvent == MCSpec => []AtMostOneAfterTheGrant
<1>1. MCInit => GrantInv
  BY DEF MCInit, Init, GrantInv
<1>2. GrantInv => AtMostOneAfterTheGrant
  BY DEF GrantInv, AtMostOneAfterTheGrant
<1> QED  BY <1>1, <1>2, GrantKept, PTL DEF MCSpec

------------------------------------------------------------------------------
(* The types of the rest.                                                  *)

(* Seen remembers so many commands, each once. *)
SeenOnce(s) ==
  /\ s \in Seq(Nat) /\ Len(s) <= SeenCapacity
  /\ \A i, j \in 1..Len(s) : s[i] = s[j] => i = j

RestTyped ==
  /\ linkedAt \in Nat /\ conn \in Nat
  /\ baselines \subseteq Sources
  /\ net \in {"idle", "dialling", "sending", "exited"}
  /\ delivery \in Delivery \cup {None}
  /\ connected \in BOOLEAN /\ stopping \in BOOLEAN /\ gone \in BOOLEAN
  /\ SeenOnce(seen)

TypesInv == AccountInv /\ GrantInv /\ RestTyped

LEMMA LinkTypes ==
  ASSUME RestTyped, now \in Nat, UNCHANGED <<baselines, delivery, seen>>,
         \/ Dial \/ Linked \/ GiveUp \/ NetworkExits
         \/ LinkUp \/ LinkDown \/ RequestStop \/ Goodbye
  PROVE  RestTyped'
<1> USE DEF link, commanded, RestTyped
<1>1. CASE Dial
  BY <1>1 DEF Dial
<1>2. CASE Linked
  BY <1>2 DEF Linked
<1>3. CASE GiveUp \/ NetworkExits
  BY <1>3 DEF GiveUp, NetworkExits
<1>4. CASE LinkUp \/ LinkDown
  BY <1>4 DEF LinkUp, LinkDown
<1>5. CASE RequestStop \/ Goodbye
  BY <1>5 DEF RequestStop, Goodbye
<1> QED  BY <1>1, <1>2, <1>3, <1>4, <1>5

LEMMA NetworkTypes ==
  ASSUME AccountInv, GrantInv, RestTyped, TakeBatch \/ Prepare \/ Published \/ NotPublished
  PROVE  RestTyped'
<1> USE DEF link, commanded, RestTyped
<1>1. UNCHANGED <<baselines, linkedAt, conn, connected, stopping, gone, seen>>
  BY DEF TakeBatch, Prepare, Published, NotPublished
<1>2. net' \in {"idle", "dialling", "sending", "exited"}
  BY DEF TakeBatch, Prepare, Published, NotPublished, AfterOne
<1>3. delivery' \in Delivery \cup {None}
  <2>1. CASE TakeBatch \/ Published \/ NotPublished
    BY <2>1 DEF TakeBatch, Published, NotPublished
  <2>2. CASE Prepare
    <3> DEFINE held == Head(hand)
               sent == [held |-> held, conn |-> conn, epoch |-> grant.epoch,
                        grant |-> grant.grant, replayed |-> Replayed(held)]
    <3>1. delivery' = delivery \/ (MaySend /\ delivery' = sent)
      BY <2>2 DEF Prepare
    <3>2. held \in Held
      <4>1. hand # << >> /\ hand \in Seq(Held)
        BY <2>2 DEF Prepare, AccountInv, EventsTyped, HandIsWorkedOn
      <4> QED  BY <4>1
    <3> HIDE DEF held
    <3>3. MaySend => grant.epoch \in Nat /\ grant.grant \in Nat
      BY DEF MaySend, Valid, GrantInv, Grant
    <3>4. Replayed(held) \in BOOLEAN
      BY DEF Replayed
    <3>5. MaySend => sent \in Delivery
      BY <3>2, <3>3, <3>4 DEF Delivery
    <3> HIDE DEF sent
    <3> QED  BY <3>1, <3>5
  <2> QED  BY <2>1, <2>2
<1> QED  BY <1>1, <1>2, <1>3

LEMMA Joined ==
  ASSUME NEW p \in Seq(Nat), NEW q \in Seq(Nat)
  PROVE  /\ p \o q \in Seq(Nat) /\ Len(p \o q) = Len(p) + Len(q)
         /\ \A i \in 1..Len(p) + Len(q) : (p \o q)[i] = IF i <= Len(p) THEN p[i] ELSE q[i - Len(p)]
<1>1. p \o q \in Seq(Nat)
  OBVIOUS
<1>2. Len(p \o q) = Len(p) + Len(q)
  OBVIOUS
<1>3. ASSUME NEW i \in 1..Len(p) + Len(q)
      PROVE  (p \o q)[i] = IF i <= Len(p) THEN p[i] ELSE q[i - Len(p)]
  OBVIOUS
<1> QED  BY <1>1, <1>2, <1>3

LEMMA TouchedIsSeen ==
  ASSUME SeenOnce(seen), NEW id \in Nat
  PROVE  SeenOnce(Touched(id))
<1> DEFINE at     == CHOOSE i \in 1..Len(seen) : seen[i] = id
           left   == SubSeq(seen, 1, at - 1) \o SubSeq(seen, at + 1, Len(seen))
           others == IF InSeen(id) THEN left ELSE seen
           all    == Append(others, id)
<1>1. seen \in Seq(Nat) /\ Len(seen) \in Nat /\ Len(seen) <= SeenCapacity /\ SeenCapacity \in Nat
      /\ \A i, j \in 1..Len(seen) : seen[i] = seen[j] => i = j
  BY AgentConstants DEF SeenOnce
<1>2. /\ others \in Seq(Nat) /\ Len(others) \in Nat /\ Len(others) <= SeenCapacity
      /\ \A i, j \in 1..Len(others) : others[i] = others[j] => i = j
      /\ \A i \in 1..Len(others) : others[i] # id
  <2>1. CASE InSeen(id)
    <3>1. at \in 1..Len(seen) /\ seen[at] = id
      BY <2>1 DEF InSeen
    <3> HIDE DEF at
    <3>2. left \in Seq(Nat) /\ Len(left) = Len(seen) - 1
          /\ \A i \in 1..Len(left) : left[i] = IF i < at THEN seen[i] ELSE seen[i + 1]
      <4> DEFINE p == SubSeq(seen, 1, at - 1)
                 q == SubSeq(seen, at + 1, Len(seen))
      <4>1. /\ p \in Seq(Nat) /\ Len(p) = at - 1 /\ q \in Seq(Nat) /\ Len(q) = Len(seen) - at
            /\ \A i \in 1..Len(p) : p[i] = seen[i]
            /\ \A i \in 1..Len(q) : q[i] = seen[at + i]
        BY <1>1, <3>1
      <4> HIDE DEF p, q
      <4>2. p \o q \in Seq(Nat) /\ Len(p \o q) = Len(seen) - 1
            /\ \A i \in 1..Len(p \o q) : (p \o q)[i] = IF i < at THEN p[i] ELSE q[i - (at - 1)]
        <5>1. /\ p \o q \in Seq(Nat) /\ Len(p \o q) = Len(p) + Len(q)
              /\ \A i \in 1..Len(p) + Len(q) :
                   (p \o q)[i] = IF i <= Len(p) THEN p[i] ELSE q[i - Len(p)]
          <6>1. p \in Seq(Nat) /\ q \in Seq(Nat)
            BY <4>1
          <6> QED  BY <6>1, Joined, Zenon
        <5>2. Len(p) + Len(q) = Len(seen) - 1
          BY <1>1, <3>1, <4>1
        <5>3. \A i \in 1..Len(p \o q) : i <= Len(p) <=> i < at
          BY <3>1, <4>1
        <5>4. ASSUME NEW i \in 1..Len(p \o q)
              PROVE  (p \o q)[i] = IF i < at THEN p[i] ELSE q[i - (at - 1)]
          <6>1. (p \o q)[i] = IF i <= Len(p) THEN p[i] ELSE q[i - Len(p)]
            BY <5>1
          <6>2. i <= Len(p) <=> i < at
            BY <5>3
          <6> QED  BY <4>1, <6>1, <6>2
        <5> QED  BY <5>1, <5>2, <5>4
      <4>3. \A i \in 1..Len(p \o q) : (p \o q)[i] = IF i < at THEN seen[i] ELSE seen[i + 1]
        <5> TAKE i \in 1..Len(p \o q)
        <5>1. CASE i < at
          BY <1>1, <3>1, <4>1, <4>2, <5>1
        <5>2. CASE ~(i < at)
          <6>1. i - (at - 1) \in 1..Len(q) /\ at + (i - (at - 1)) = i + 1
            BY <1>1, <3>1, <4>1, <4>2, <5>2
          <6> QED  BY <4>1, <4>2, <5>2, <6>1
        <5> QED  BY <5>1, <5>2
      <4> QED  BY <4>2, <4>3 DEF p, q
    <3> HIDE DEF left
    <3>3. \A i \in 1..Len(left) :
            LET k == IF i < at THEN i ELSE i + 1
            IN  left[i] = seen[k] /\ k \in 1..Len(seen) /\ k # at
      <4> TAKE i \in 1..Len(left)
      <4>1. i \in Nat /\ 1 <= i /\ i <= Len(seen) - 1
        BY <1>1, <3>2
      <4>2. left[i] = IF i < at THEN seen[i] ELSE seen[i + 1]
        BY <3>2
      <4>3. CASE i < at
        BY <1>1, <3>1, <4>1, <4>2, <4>3
      <4>4. CASE ~(i < at)
        BY <1>1, <3>1, <4>1, <4>2, <4>4
      <4> QED  BY <4>3, <4>4
    <3>4. \A i \in 1..Len(left) : left[i] # id
      BY <1>1, <3>1, <3>3
    <3>5. \A i, j \in 1..Len(left) : left[i] = left[j] => i = j
      <4> TAKE i, j \in 1..Len(left)
      <4> HAVE left[i] = left[j]
      <4> DEFINE k == IF i < at THEN i ELSE i + 1
                 l == IF j < at THEN j ELSE j + 1
      <4>1. left[i] = seen[k] /\ k \in 1..Len(seen) /\ left[j] = seen[l] /\ l \in 1..Len(seen)
        BY <3>3
      <4>2. k = l
        <5> HIDE DEF k, l
        <5> QED  BY <1>1, <4>1
      <4>3. i \in Nat /\ j \in Nat /\ at \in Nat
        BY <3>1, <3>2, <1>1
      <4> QED  BY <4>2, <4>3
    <3>6. Len(left) \in Nat /\ Len(left) <= SeenCapacity
      BY <1>1, <3>1, <3>2
    <3>7. others = left /\ left \in Seq(Nat)
      BY <2>1, <3>2
    <3> QED  BY <3>4, <3>5, <3>6, <3>7
  <2>2. CASE ~InSeen(id)
    BY <1>1, <2>2 DEF InSeen
  <2> QED  BY <2>1, <2>2
<1> HIDE DEF others
<1>3. /\ all \in Seq(Nat) /\ Len(all) = Len(others) + 1
      /\ \A i, j \in 1..Len(all) : all[i] = all[j] => i = j
  BY <1>2
<1> HIDE DEF all
<1>4. CASE Len(all) > SeenCapacity
  <2>1. /\ Tail(all) \in Seq(Nat) /\ Len(Tail(all)) = Len(others)
        /\ \A i \in 1..Len(Tail(all)) : Tail(all)[i] = all[i + 1] /\ i + 1 \in 1..Len(all)
    BY <1>1, <1>2, <1>3, <1>4
  <2>2. \A i, j \in 1..Len(Tail(all)) : Tail(all)[i] = Tail(all)[j] => i = j
    <3> TAKE i, j \in 1..Len(Tail(all))
    <3> HAVE Tail(all)[i] = Tail(all)[j]
    <3>1. i + 1 \in 1..Len(all) /\ j + 1 \in 1..Len(all) /\ all[i + 1] = all[j + 1]
      BY <2>1
    <3>2. i + 1 = j + 1
      BY <1>3, <3>1
    <3> QED  BY <3>2
  <2>3. Touched(id) = Tail(all)
    BY <1>4 DEF Touched, all, others
  <2> QED  BY <1>2, <2>1, <2>2, <2>3 DEF SeenOnce
<1>5. CASE ~(Len(all) > SeenCapacity)
  <2>1. Touched(id) = all
    BY <1>5 DEF Touched, all, others
  <2> QED  BY <1>1, <1>2, <1>3, <1>5, <2>1 DEF SeenOnce
<1> QED  BY <1>4, <1>5

LEMMA CommandTypes ==
  ASSUME GrantInv, RestTyped, NEW c \in Commands, OnCommand(c)
  PROVE  RestTyped'
<1> USE DEF link, RestTyped
<1>1. UNCHANGED <<linkedAt, conn, connected, gone, net, delivery>> /\ seen' = Touched(c.id)
  BY DEF OnCommand
<1>2. c.id \in Nat /\ c.action \in {"grant", "renew", "revoke", "stop"}
  BY AgentConstants DEF CommandType
<1>3. baselines' \subseteq Sources /\ stopping' \in BOOLEAN
  BY <1>2 DEF OnCommand, Applied
<1>4. SeenOnce(seen')
  BY <1>1, <1>2, TouchedIsSeen
<1> QED  BY <1>1, <1>3, <1>4

LEMMA RestKept ==
  ASSUME TypesInv, [MCNext]_allVars
  PROVE  RestTyped'
<1> USE DEF link, commanded, recording, output
<1>1. now \in Nat /\ AccountInv /\ GrantInv /\ RestTyped
  BY DEF TypesInv, GrantInv
<1>2. CASE Events(Next)
  <2>1. CASE TakeBatch \/ Prepare \/ Published \/ NotPublished
    BY <1>1, <2>1, NetworkTypes
  <2>2. ASSUME NEW c \in Commands, OnCommand(c) PROVE RestTyped'
    BY <1>1, <2>2, CommandTypes
  <2>3. CASE \/ Dial \/ Linked \/ GiveUp \/ NetworkExits
             \/ LinkUp \/ LinkDown \/ RequestStop \/ Goodbye
    <3>1. UNCHANGED <<baselines, delivery, seen>>
      BY <2>3 DEF Dial, Linked, GiveUp, NetworkExits, LinkUp, LinkDown, RequestStop, Goodbye
    <3> QED  BY <1>1, <2>3, <3>1, LinkTypes
  <2>4. CASE (\E s \in Sources : DriverReads(s)) \/ (\E t \in Threads : PutInSpool(t)) \/ Tick
    BY <1>1, <2>4 DEF DriverReads, PutInSpool, Tick, RestTyped
  <2>5. CASE \E s \in Sources : TakeBaseline(s)
    BY <1>1, <2>5 DEF TakeBaseline, RestTyped
  <2> QED  BY <1>2, <2>1, <2>2, <2>3, <2>4, <2>5 DEF Events, Next, NetworkThread
<1>3. CASE follows = "configuration" /\ RemoteNext
  <2>1. CASE LinkStep
    <3>1. \/ Dial \/ Linked \/ GiveUp \/ NetworkExits
          \/ LinkUp \/ LinkDown \/ RequestStop \/ Goodbye
      BY <2>1 DEF LinkStep
    <3>2. UNCHANGED <<baselines, delivery, seen>>
      BY <3>1 DEF Dial, Linked, GiveUp, NetworkExits, LinkUp, LinkDown, RequestStop, Goodbye
    <3> QED  BY <1>1, <3>1, <3>2, LinkTypes
  <2>2. CASE Announce
    <3>1. Linked /\ UNCHANGED <<baselines, delivery, seen>>
      BY <2>2 DEF Announce, Linked
    <3> QED  BY <1>1, <3>1, LinkTypes
  <2>3. CASE StartsAgain
    BY <1>1, <2>3 DEF StartsAgain, RestTyped
  <2>4. ASSUME UNCHANGED vars PROVE RestTyped'
    BY <1>1, <2>4 DEF vars, RestTyped
  <2>5. CASE PublishState \/ PatienceEnds \/ HubHears \/ HubRestarts \/ BeginConfigure
    <3>1. UNCHANGED vars
      BY <2>5 DEF PublishState, PatienceEnds, HubHears, HubRestarts, BeginConfigure
    <3> QED  BY <2>4, <3>1
  <2>6. CASE (\E list \in Lists : Configure(list)) \/ \E id \in Ids : Works(id)
    <3>1. UNCHANGED vars
      BY <2>6 DEF Configure, Works, Check, StopDrivers, Build, Probe, Save, Commit, Restore,
                  Tell, Release, Answer, restOfConfigure
    <3> QED  BY <2>4, <3>1
  <2> QED  BY <1>3, <2>1, <2>2, <2>3, <2>5, <2>6 DEF RemoteNext
<1>4. CASE UNCHANGED allVars
  BY <1>1, <1>4 DEF allVars, vars, RestTyped
<1> QED  BY <1>2, <1>3, <1>4 DEF MCNext

(* What the agent keeps is what it is taken for, the grant and the events  *)
(* included, and its memory of commands holds each of them once and no     *)
(* more than it has room for (Agent, Seen.remember, Seen.outcome).         *)
THEOREM AgentIsTyped == MCSpec => [](TypeOK /\ SeenOnce(seen))
<1>1. MCInit => TypesInv
  <2> SUFFICES ASSUME MCInit PROVE TypesInv
    OBVIOUS
  <2>1. AccountInv
    BY AccountStart DEF MCInit
  <2>2. GrantInv
    BY DEF MCInit, Init, GrantInv
  <2>3. RestTyped
    <3>1. SeenOnce(<< >>)
      BY AgentConstants DEF SeenOnce
    <3> QED  BY <3>1 DEF MCInit, Init, RestTyped
  <2> QED  BY <2>1, <2>2, <2>3 DEF TypesInv
<1>2. TypesInv /\ [MCNext]_allVars => TypesInv'
  <2> SUFFICES ASSUME TypesInv, [MCNext]_allVars PROVE TypesInv'
    OBVIOUS
  <2>1. AccountInv' /\ RestTyped'
    BY AccountKept, RestKept DEF TypesInv
  <2>2. GrantInv'
    BY GrantKept DEF TypesInv
  <2> QED  BY <2>1, <2>2 DEF TypesInv
<1>3. TypesInv => TypeOK /\ SeenOnce(seen)
  <2> SUFFICES ASSUME TypesInv PROVE TypeOK /\ SeenOnce(seen)
    OBVIOUS
  <2>1. stale \in Nat
    BY DEF TypesInv, GrantInv
  <2> QED  BY <2>1 DEF TypesInv, AccountInv, EventsTyped, GrantInv, RestTyped, SeenOnce, TypeOK
<1> QED  BY <1>1, <1>2, <1>3, PTL DEF MCSpec

------------------------------------------------------------------------------
(* The configuration.                                                      *)

Places == {"idle", "check", "replace", "build", "probe", "save", "commit", "restore",
           "rebuild", "tell", "release", "answer", "done"}

Working == Places \ {"idle", "answer", "done"}

Outcomes == {"received", "failed", "applied"}

Config == [revision : Nat, sources : Known]

Worker == [at : Places, previous : Known, outcome : Outcomes]

States   == [what : {"state"}, conn : Nat, online : BOOLEAN, config : Config]
Messages == States \cup [what : {"ack"}, id : Ids, outcome : Outcomes]

ConfigTyped ==
  /\ issued \in Nat /\ issued <= MaxConfigures /\ conn \in Nat
  /\ command \in [Ids -> Config] /\ config \in Config /\ overlay \in Config
  /\ worker \in [Ids -> Worker]
  /\ busy \in 0..issued
  /\ answered \in [Ids -> Outcomes \cup {"unknown"}]
  /\ toNode \in Seq(1..issued) /\ toHub \in Seq(Messages)
  /\ saying \in States \cup {None} /\ retained \in States \cup {None}

(* _configuring lets one thread at a time be at work. *)
OneAtWork == \A id \in Ids : worker[id].at \in Working <=> id = busy

(* Where the drivers, the configuration in memory and the overlay are, by  *)
(* how far the thread at work is.                                          *)
Agree == /\ config.revision = overlay.revision
         /\ ~adrift => runs = overlay.sources /\ config.sources = overlay.sources

StageOf(w, c) ==
  /\ w.at \in {"check", "tell", "release"} => Agree
  /\ w.at \in {"replace", "build", "probe", "save", "restore", "rebuild"} =>
       /\ config.revision = overlay.revision
       /\ ~adrift => w.previous = overlay.sources
  /\ w.at \in {"replace", "build", "probe", "save"} => c.revision > overlay.revision
  /\ w.at \in {"probe", "save", "commit"} => runs = c.sources /\ config.sources = c.sources
  /\ w.at = "commit" => overlay = c

Stage == IF busy = 0 THEN Agree ELSE StageOf(worker[busy], command[busy])

(* A list that was applied is on the disk, or a later one is. *)
Kept(id) == /\ id \in 1..issued
            /\ overlay.revision > command[id].revision \/ overlay = command[id]

Truthful(m) == m.what = "ack" /\ m.outcome = "applied" => Kept(m.id)

Promises ==
  /\ \A id \in Ids : worker[id].outcome = "applied" => Kept(id)
  /\ \A id \in Ids : answered[id] = "applied" => Kept(id)
  /\ \A i \in 1..Len(toHub) : Truthful(toHub[i])

(* What the hub remembers of the request it sent last. *)
HubRemembers ==
  /\ DOMAIN hub = {"session", "revision", "ready", "pending"}
  /\ DOMAIN hub.pending = {"id", "revision", "state", "overdue"}
  /\ hub.revision \in Nat /\ hub.pending.id \in 0..issued /\ hub.pending.revision \in Nat
  /\ hub.pending.id # 0 => hub.pending.revision = command[hub.pending.id].revision
  /\ hub.pending.state = "applied" => Kept(hub.pending.id)

ConfigInv == ConfigTyped /\ OneAtWork /\ Stage /\ Promises /\ HubRemembers

LEMMA ConfigStart == ASSUME Init, RemoteInit PROVE ConfigInv
<1>1. MaxConfigures \in Nat /\ Ids = 1..MaxConfigures
  BY RemoteConstants DEF Ids
<1>2. [revision |-> 0, sources |-> Installed0] \in Config /\ Idle \in Worker
  BY DEF Config, Known, Idle, Worker, Places, Outcomes
<1>3. ConfigTyped
  BY <1>1, <1>2 DEF Init, RemoteInit, ConfigTyped
<1>4. OneAtWork
  BY <1>1 DEF RemoteInit, OneAtWork, Idle, Working
<1>5. Stage
  BY DEF RemoteInit, Stage, Agree
<1>6. Promises
  BY DEF RemoteInit, Promises, Idle
<1>7. HubRemembers
  BY <1>3 DEF RemoteInit, HubRemembers, NewHub, NothingSent, ConfigTyped
<1> QED  BY <1>3, <1>4, <1>5, <1>6, <1>7 DEF ConfigInv

(* The node's configuration stands still while the hub may number a list.  *)
NodeStill == UNCHANGED <<config, runs, overlay, worker, busy, answered, adrift>>

Grows == /\ issued' \in Nat /\ issued <= issued' /\ issued' <= MaxConfigures
         /\ command' \in [Ids -> Config]
         /\ \A id \in 1..issued : command'[id] = command[id]

KeepsItsWord == \A id : Kept(id) => Kept(id)'

LEMMA StillKeeps ==
  ASSUME ConfigInv, overlay' = overlay, Grows
  PROVE  KeepsItsWord
BY DEF ConfigInv, ConfigTyped, Grows, Kept, KeepsItsWord

LEMMA StillStage ==
  ASSUME ConfigInv, NodeStill, Grows
  PROVE  OneAtWork' /\ Stage'
<1>1. OneAtWork'
  BY DEF ConfigInv, OneAtWork, NodeStill, Ids
<1>2. busy # 0 => command'[busy] = command[busy]
  BY DEF ConfigInv, ConfigTyped, Grows
<1>3. Stage'
  BY <1>2 DEF ConfigInv, Stage, StageOf, Agree, NodeStill
<1> QED  BY <1>1, <1>3

(* What goes to the hub is typed and true. *)
Heard == toHub \in Seq(Messages) /\ \A i \in 1..Len(toHub) : Truthful(toHub[i])

LEMMA PublishHeard ==
  ASSUME ConfigInv, NEW m \in Messages, Truthful(m), Publish(m), KeepsItsWord
  PROVE  Heard' /\ retained' \in States \cup {None}
<1>1. toHub \in Seq(Messages) /\ \A i \in 1..Len(toHub) : Truthful(toHub[i])
  BY DEF ConfigInv, ConfigTyped, Promises
<1>2. \A x : Truthful(x) => (x.what = "ack" /\ x.outcome = "applied" => Kept(x.id)')
  BY DEF Truthful, KeepsItsWord
<1>3. toHub' \in Seq(Messages) /\ \A i \in 1..Len(toHub') : Truthful(toHub'[i])
  BY <1>1 DEF Publish
<1>4. Heard'
  BY <1>2, <1>3 DEF Heard, Truthful
<1>5. m.what = "state" => m \in States
  BY DEF Messages
<1>6. retained' \in States \cup {None}
  BY <1>5 DEF Publish, ConfigInv, ConfigTyped
<1> QED  BY <1>4, <1>6

LEMMA SilentHeard ==
  ASSUME ConfigInv, toHub' = toHub \/ (toHub # << >> /\ toHub' = Tail(toHub)), KeepsItsWord
  PROVE  Heard'
<1>1. toHub \in Seq(Messages) /\ \A i \in 1..Len(toHub) : Truthful(toHub[i])
  BY DEF ConfigInv, ConfigTyped, Promises
<1>2. \A x : Truthful(x) => (x.what = "ack" /\ x.outcome = "applied" => Kept(x.id)')
  BY DEF Truthful, KeepsItsWord
<1>3. toHub' \in Seq(Messages) /\ \A i \in 1..Len(toHub') : Truthful(toHub'[i])
  BY <1>1
<1> QED  BY <1>2, <1>3 DEF Heard, Truthful

LEMMA StateIsALetter ==
  ASSUME ConfigInv, NEW online \in BOOLEAN
  PROVE  /\ State(conn, online) \in States /\ State(conn, online) \in Messages
         /\ Truthful(State(conn, online))
<1>1. conn \in Nat /\ config \in Config
  BY DEF ConfigInv, ConfigTyped
<1>2. State(conn, online) \in States
  BY <1>1 DEF State, States
<1>3. State(conn, online).what = "state"
  BY DEF State
<1> QED  BY <1>2, <1>3 DEF Messages, Truthful

LEMMA GoneHeard ==
  ASSUME ConfigInv, Gone, KeepsItsWord, issued' = issued
  PROVE  Heard' /\ retained' \in States \cup {None} /\ toNode' \in Seq(1..issued')
<1> DEFINE m == State(conn, FALSE)
<1>1. m \in States /\ m \in Messages /\ Truthful(m)
  BY StateIsALetter
<1>2. toHub' = Append(toHub, m) /\ retained' = m /\ toNode' = << >>
  BY DEF Gone
<1> HIDE DEF m
<1>3. toHub \in Seq(Messages) /\ \A i \in 1..Len(toHub) : Truthful(toHub[i])
  BY DEF ConfigInv, ConfigTyped, Promises
<1>4. \A x : Truthful(x) => (x.what = "ack" /\ x.outcome = "applied" => Kept(x.id)')
  BY DEF Truthful, KeepsItsWord
<1>5. toHub' \in Seq(Messages) /\ \A i \in 1..Len(toHub') : Truthful(toHub'[i])
  BY <1>1, <1>2, <1>3
<1>6. Heard'
  BY <1>4, <1>5 DEF Heard, Truthful
<1> QED  BY <1>1, <1>2, <1>6

LEMMA HubSame ==
  ASSUME ConfigInv, hub' = hub, Grows, KeepsItsWord
  PROVE  HubRemembers'
<1>1. HubRemembers /\ issued \in Nat
  BY DEF ConfigInv, ConfigTyped
<1>2. hub.pending.id # 0 => hub.pending.id \in 1..issued
  BY <1>1 DEF HubRemembers
<1>3. hub.pending.id # 0 => command'[hub.pending.id] = command[hub.pending.id]
  BY <1>2 DEF Grows
<1>4. hub.pending.state = "applied" => Kept(hub.pending.id)'
  <2>1. ASSUME NEW id, id = hub.pending.id, hub.pending.state = "applied" PROVE Kept(id)'
    BY <1>1, <2>1 DEF HubRemembers, KeepsItsWord
  <2>2. \A id : id = hub.pending.id /\ hub.pending.state = "applied" =>
          id \in 1..issued' /\ (overlay'.revision > command'[id].revision \/ overlay' = command'[id])
    BY <2>1 DEF Kept
  <2> QED  BY <2>2 DEF Kept
<1>5. hub.pending.id \in 0..issued'
  BY <1>1 DEF HubRemembers, Grows
<1> QED  BY <1>1, <1>3, <1>4, <1>5 DEF HubRemembers

LEMMA StillStep ==
  ASSUME ConfigInv, NodeStill, Grows, conn' \in Nat, toNode' \in Seq(1..issued'), Heard',
         saying' \in States \cup {None}, retained' \in States \cup {None}, HubRemembers'
  PROVE  ConfigInv'
<1>1. KeepsItsWord
  BY StillKeeps DEF NodeStill
<1>2. ConfigTyped'
  BY DEF ConfigInv, ConfigTyped, NodeStill, Grows, Heard
<1>3. Promises'
  BY <1>1 DEF ConfigInv, Promises, NodeStill, Heard, KeepsItsWord, Ids
<1> QED  BY <1>2, <1>3, StillStage DEF ConfigInv

(* Most steps leave the numbering alone as well. *)
LEMMA SameNumbers ==
  ASSUME ConfigInv, UNCHANGED <<command, issued>>
  PROVE  Grows
BY DEF ConfigInv, ConfigTyped, Grows

LEMMA ConfigEvents ==
  ASSUME ConfigInv, UNCHANGED remoteVars, conn' \in Nat
  PROVE  ConfigInv'
<1>1. UNCHANGED <<command, issued, toNode, toHub, retained, saying, hub>> /\ NodeStill
  BY DEF remoteVars, wireVars, nodeVars, NodeStill
<1>2. Grows /\ KeepsItsWord
  BY <1>1, SameNumbers, StillKeeps DEF NodeStill
<1>3. Heard' /\ HubRemembers'
  BY <1>1, <1>2, SilentHeard, HubSame
<1>4. toNode' \in Seq(1..issued') /\ saying' \in States \cup {None}
      /\ retained' \in States \cup {None}
  BY <1>1 DEF ConfigInv, ConfigTyped
<1> QED  BY <1>1, <1>2, <1>3, <1>4, StillStep

LEMMA ConfigLink ==
  ASSUME ConfigInv, LinkStep PROVE ConfigInv'
<1> USE DEF link
<1>1. conn \in Nat
  BY DEF ConfigInv, ConfigTyped
<1>2. CASE UNCHANGED remoteVars /\ (Dial \/ NetworkExits \/ LinkUp \/ GiveUp \/ Goodbye)
  <2>1. conn' \in Nat
    BY <1>1, <1>2 DEF Dial, NetworkExits, LinkUp, GiveUp, Goodbye
  <2> QED  BY <1>2, <2>1, ConfigEvents
<1>3. CASE RequestStop /\ UNCHANGED <<command, issued, wireVars, nodeVars, hub, follows>>
  <2>1. UNCHANGED <<command, issued, toNode, toHub, retained, saying, hub>> /\ NodeStill
        /\ conn' = conn
    BY <1>3 DEF wireVars, nodeVars, NodeStill, RequestStop
  <2>2. Grows /\ KeepsItsWord
    BY <2>1, SameNumbers, StillKeeps DEF NodeStill
  <2>3. Heard' /\ HubRemembers'
    BY <2>1, <2>2, SilentHeard, HubSame
  <2>4. toNode' \in Seq(1..issued') /\ saying' \in States \cup {None}
        /\ retained' \in States \cup {None}
    BY <2>1 DEF ConfigInv, ConfigTyped
  <2> QED  BY <1>1, <2>1, <2>2, <2>3, <2>4, StillStep
<1>4. CASE /\ LinkDown \/ Goodbye
           /\ Gone /\ UNCHANGED <<command, issued, nodeVars, hub, follows>>
  <2>1. UNCHANGED <<command, issued, saying, hub>> /\ NodeStill /\ conn' = conn
    BY <1>4 DEF nodeVars, NodeStill, LinkDown, Goodbye
  <2>2. Grows /\ KeepsItsWord
    BY <2>1, SameNumbers, StillKeeps DEF NodeStill
  <2>3. Heard' /\ HubRemembers' /\ retained' \in States \cup {None} /\ toNode' \in Seq(1..issued')
    BY <1>4, <2>1, <2>2, GoneHeard, HubSame
  <2>4. saying' \in States \cup {None}
    BY <2>1 DEF ConfigInv, ConfigTyped
  <2> QED  BY <1>1, <2>1, <2>2, <2>3, <2>4, StillStep
<1> QED  BY <1>2, <1>3, <1>4 DEF LinkStep

LEMMA ConfigSaying ==
  ASSUME ConfigInv, Announce \/ PublishState PROVE ConfigInv'
<1>1. UNCHANGED <<command, issued, toNode, hub, conn>> /\ NodeStill
  BY DEF Announce, PublishState, Linked, wireVars, nodeVars_, NodeStill, vars
<1>2. Grows /\ KeepsItsWord
  BY <1>1, SameNumbers, StillKeeps DEF NodeStill
<1>3. HubRemembers' /\ toNode' \in Seq(1..issued') /\ conn' \in Nat
  BY <1>1, <1>2, HubSame DEF ConfigInv, ConfigTyped
<1>4. CASE Announce
  <2>1. saying' = State(conn, TRUE) /\ UNCHANGED <<toHub, retained>>
    BY <1>4 DEF Announce, wireVars
  <2>2. saying' \in States \cup {None} /\ retained' \in States \cup {None}
    BY <2>1, StateIsALetter DEF ConfigInv, ConfigTyped
  <2>3. Heard'
    BY <1>2, <2>1, SilentHeard
  <2> QED  BY <1>1, <1>2, <1>3, <2>2, <2>3, StillStep
<1>5. CASE PublishState
  <2>1. Publish(saying) /\ saying' = None /\ saying # None
    BY <1>5 DEF PublishState
  <2>2. saying \in Messages /\ Truthful(saying)
    BY <2>1 DEF ConfigInv, ConfigTyped, Messages, States, Truthful
  <2>3. Heard' /\ retained' \in States \cup {None}
    BY <1>2, <2>1, <2>2, PublishHeard
  <2> QED  BY <1>1, <1>2, <1>3, <2>1, <2>3, StillStep
<1> QED  BY <1>4, <1>5

(* What a step of the hub leaves alone on the node. *)
HubsOwn == NodeStill /\ UNCHANGED <<conn, saying>>

LEMMA SeqWider ==
  ASSUME NEW A, NEW B, A \subseteq B, NEW q \in Seq(A), NEW x \in B
  PROVE  q \in Seq(B) /\ Append(q, x) \in Seq(B)
<1>1. q \in Seq(B)
  <2>1. \A i \in 1..Len(q) : q[i] \in B
    OBVIOUS
  <2> QED  BY <2>1
<1> QED  BY <1>1

LEMMA ConfigNumbered ==
  ASSUME ConfigInv, NEW list \in Lists, Configure(list) PROVE ConfigInv'
<1> DEFINE id == issued + 1
           r  == 1 + Larger(hub.revision, hub.pending.revision)
           c  == [revision |-> r, sources |-> list]
<1>1. HubsOwn /\ UNCHANGED <<toHub, retained>> /\ issued' = id /\ issued < MaxConfigures
      /\ command' = [command EXCEPT ![id] = c]
  BY DEF Configure, HubsOwn, NodeStill, nodeVars, vars
<1>2. HubRemembers /\ issued \in Nat /\ command \in [Ids -> Config] /\ MaxConfigures \in Nat
      /\ Ids = 1..MaxConfigures /\ toNode \in Seq(1..issued)
  BY RemoteConstants DEF ConfigInv, ConfigTyped, Ids
<1>3. r \in Nat
  BY <1>2 DEF HubRemembers, Larger
<1>4. c \in Config
  BY <1>3 DEF Config, Known
<1>5. \E s : hub' = [hub EXCEPT !.pending = [id |-> id, revision |-> r, state |-> s,
                                             overdue |-> FALSE]] /\ s \in {"sent", "failed"}
  BY DEF Configure
<1>6. toNode' = toNode \/ toNode' = Append(toNode, id)
  BY DEF Configure
<1> HIDE DEF r, c
<1>7. id \in Ids /\ id \in 1..issued' /\ id \notin 1..issued
  BY <1>1, <1>2
<1>8. Grows /\ command'[id] = c
  BY <1>1, <1>2, <1>4, <1>7 DEF Grows
<1>9. KeepsItsWord
  BY <1>1, <1>8, StillKeeps DEF HubsOwn, NodeStill
<1>10. Heard'
  BY <1>1, <1>9, SilentHeard
<1>11. toNode' \in Seq(1..issued')
  <2>1. 1..issued \subseteq 1..issued'
    BY <1>1, <1>2
  <2>2. toNode \in Seq(1..issued') /\ Append(toNode, id) \in Seq(1..issued')
    BY <1>2, <1>7, <2>1, SeqWider
  <2> QED  BY <1>6, <2>2
<1>12. HubRemembers'
  <2>1. PICK s \in {"sent", "failed"} :
          hub' = [hub EXCEPT !.pending = [id |-> id, revision |-> r, state |-> s,
                                          overdue |-> FALSE]]
    BY <1>5
  <2>2. /\ DOMAIN hub' = DOMAIN hub /\ hub'.revision = hub.revision
        /\ hub'.pending = [id |-> id, revision |-> r, state |-> s, overdue |-> FALSE]
    BY <1>2, <2>1 DEF HubRemembers
  <2>3. /\ hub'.pending.id = id /\ hub'.pending.revision = r /\ hub'.pending.state # "applied"
        /\ DOMAIN hub'.pending = {"id", "revision", "state", "overdue"}
    BY <2>2
  <2>4. command'[id].revision = r
    BY <1>8 DEF c
  <2> HIDE DEF id
  <2> QED  BY <1>2, <1>3, <1>7, <2>2, <2>3, <2>4 DEF HubRemembers
<1>13. saying' \in States \cup {None} /\ retained' \in States \cup {None} /\ conn' \in Nat
  BY <1>1 DEF HubsOwn, ConfigInv, ConfigTyped
<1> QED  BY <1>1, <1>8, <1>10, <1>11, <1>12, <1>13, StillStep DEF HubsOwn

LEMMA ConfigHears ==
  ASSUME ConfigInv, PatienceEnds \/ HubHears \/ HubRestarts PROVE ConfigInv'
<1>1. HubsOwn /\ UNCHANGED <<command, issued, toNode, retained>>
  BY DEF PatienceEnds, HubHears, HubRestarts, HubsOwn, NodeStill, nodeVars, wireVars, vars
<1>2. Grows /\ KeepsItsWord
  BY <1>1, SameNumbers, StillKeeps DEF HubsOwn, NodeStill
<1>3. toNode' \in Seq(1..issued') /\ saying' \in States \cup {None}
      /\ retained' \in States \cup {None} /\ conn' \in Nat
  BY <1>1 DEF HubsOwn, ConfigInv, ConfigTyped
<1>4. SUFFICES Heard' /\ HubRemembers'
  BY <1>1, <1>2, <1>3, StillStep DEF HubsOwn
<1>5. HubRemembers /\ issued \in Nat /\ toHub \in Seq(Messages)
  BY DEF ConfigInv, ConfigTyped
<1>6. \A id : Kept(id) => id \in 1..issued'
                          /\ (overlay'.revision > command'[id].revision \/ overlay' = command'[id])
  BY <1>2 DEF KeepsItsWord, Kept
<1>7. CASE PatienceEnds
  <2>1. toHub' = toHub /\ hub' = [hub EXCEPT !.pending = [hub.pending EXCEPT !.overdue = TRUE]]
    BY <1>7 DEF PatienceEnds, wireVars
  <2>2. Heard'
    BY <1>2, <2>1, SilentHeard
  <2>3. /\ DOMAIN hub' = DOMAIN hub /\ hub'.revision = hub.revision
        /\ DOMAIN hub'.pending = DOMAIN hub.pending
        /\ hub'.pending.id = hub.pending.id /\ hub'.pending.revision = hub.pending.revision
        /\ hub'.pending.state = hub.pending.state
    BY <1>5, <2>1 DEF HubRemembers
  <2>4. HubRemembers'
    BY <1>1, <1>5, <1>6, <2>3 DEF HubRemembers, Kept
  <2> QED  BY <2>2, <2>4
<1>8. CASE HubHears
  <2> DEFINE m == Head(toHub)
  <2>1. toHub # << >> /\ toHub' = Tail(toHub)
        /\ IF m.what = "state" THEN OnState(m) ELSE OnAck(m)
    BY <1>8 DEF HubHears
  <2>2. Heard'
    BY <1>2, <2>1, SilentHeard
  <2>3. m \in Messages /\ Truthful(m)
    <3>1. m = toHub[1] /\ 1 \in 1..Len(toHub)
      BY <1>5, <2>1
    <3> QED  BY <1>5, <2>1, <3>1 DEF ConfigInv, Promises
  <2> HIDE DEF m
  <2>4. CASE m.what = "state"
    <3>1. m.config.revision \in Nat
      BY <2>3, <2>4 DEF Messages, States, Config
    <3>2. /\ DOMAIN hub' = DOMAIN hub /\ hub'.pending = hub.pending
          /\ hub'.revision \in {hub.revision, m.config.revision}
      BY <1>5, <2>1, <2>4 DEF OnState, HubRemembers
    <3>3. HubRemembers'
      BY <1>1, <1>5, <1>6, <3>1, <3>2 DEF HubRemembers, Kept
    <3> QED  BY <2>2, <3>3
  <2>5. CASE m.what # "state"
    <3>1. m.what = "ack" /\ m.id \in Ids
      BY <2>3, <2>5 DEF Messages, States
    <3>2. hub' = hub \/ (hub.pending.id = m.id
                         /\ hub' = [hub EXCEPT !.pending = [hub.pending EXCEPT !.state = m.outcome]])
      BY <2>1, <2>5 DEF OnAck
    <3>3. CASE hub' = hub
      BY <1>2, <2>2, <3>3, HubSame
    <3>4. CASE /\ hub.pending.id = m.id
               /\ hub' = [hub EXCEPT !.pending = [hub.pending EXCEPT !.state = m.outcome]]
      <4>1. /\ DOMAIN hub' = DOMAIN hub /\ hub'.revision = hub.revision
            /\ DOMAIN hub'.pending = DOMAIN hub.pending
            /\ hub'.pending.id = m.id /\ hub'.pending.revision = hub.pending.revision
            /\ hub'.pending.state = m.outcome
        BY <1>5, <3>4 DEF HubRemembers
      <4>2. m.outcome = "applied" => Kept(m.id)
        BY <2>3, <3>1 DEF Truthful
      <4>3. HubRemembers'
        BY <1>1, <1>5, <1>6, <3>4, <4>1, <4>2 DEF HubRemembers, Kept
      <4> QED  BY <2>2, <4>3
    <3> QED  BY <3>2, <3>3, <3>4
  <2> QED  BY <2>4, <2>5
<1>9. CASE HubRestarts
  <2>1. hub' = NewHub /\ toHub' = IF retained = None THEN << >> ELSE << retained >>
    BY <1>9 DEF HubRestarts
  <2>2. retained # None => retained \in States
    BY DEF ConfigInv, ConfigTyped
  <2>3. toHub' \in Seq(Messages) /\ \A i \in 1..Len(toHub') : toHub'[i].what = "state"
    <3>1. CASE retained = None
      BY <2>1, <3>1
    <3>2. CASE retained # None
      <4>1. retained \in Messages /\ retained.what = "state"
        BY <2>2, <3>2 DEF Messages, States
      <4>2. toHub' = << retained >>
        BY <2>1, <3>2
      <4> QED  BY <4>1, <4>2
    <3> QED  BY <3>1, <3>2
  <2>4. Heard'
    BY <2>3 DEF Heard, Truthful
  <2>5. HubRemembers'
    BY <1>1, <1>5, <2>1 DEF HubRemembers, NewHub, NothingSent
  <2> QED  BY <2>4, <2>5
<1> QED  BY <1>7, <1>8, <1>9

(* A thread moves on; the others stay where they are. *)
Moved(w, k, at, previous, outcome) ==
  [w EXCEPT ![k] = [at |-> at, previous |-> previous, outcome |-> outcome]]

Ended(w, k, at, o) == [w EXCEPT ![k].at = at, ![k].outcome = o]

LEMMA WorkerMoves ==
  ASSUME NEW w \in [Ids -> Worker], NEW k \in Ids, NEW at \in Places
  PROVE  /\ [w EXCEPT ![k].at = at] = Moved(w, k, at, w[k].previous, w[k].outcome)
         /\ \A p : [w EXCEPT ![k].at = at, ![k].previous = p]
                     = Moved(w, k, at, p, w[k].outcome)
         /\ \A o : Ended(w, k, at, o) = Moved(w, k, at, w[k].previous, o)
         /\ w[k].previous \in Known /\ w[k].outcome \in Outcomes
<1> DEFINE Rec(a, p, o) == [at |-> a, previous |-> p, outcome |-> o]
           old == w[k]
<1>1. old \in Worker /\ k \in DOMAIN w
  OBVIOUS
<1>2. [old EXCEPT !.at = at] = Rec(at, old.previous, old.outcome)
  BY <1>1 DEF Worker
<1>3. \A p, o, q : [Rec(at, p, o) EXCEPT !.previous = q] = Rec(at, q, o)
                  /\ [Rec(at, p, o) EXCEPT !.outcome = q] = Rec(at, p, q)
  OBVIOUS
<1>4. \A x, y : [[w EXCEPT ![k] = x] EXCEPT ![k] = y] = [w EXCEPT ![k] = y]
              /\ [w EXCEPT ![k] = x][k] = x
  BY <1>1
<1> DEFINE v == [w EXCEPT ![k] = Rec(at, old.previous, old.outcome)]
<1>5. [w EXCEPT ![k].at = at] = v
  BY <1>2, Zenon
<1>6. v[k] = Rec(at, old.previous, old.outcome)
  BY <1>4
<1>7. ASSUME NEW q
      PROVE  /\ [v EXCEPT ![k] = [v[k] EXCEPT !.previous = q]] = Moved(w, k, at, q, old.outcome)
             /\ [v EXCEPT ![k] = [v[k] EXCEPT !.outcome = q]] = Moved(w, k, at, old.previous, q)
  <2>1. \A y : [v EXCEPT ![k] = y] = [w EXCEPT ![k] = y]
    BY <1>4
  <2> HIDE DEF v, Rec
  <2>2. [v[k] EXCEPT !.previous = q] = Rec(at, q, old.outcome)
        /\ [v[k] EXCEPT !.outcome = q] = Rec(at, old.previous, q)
    BY <1>3, <1>6
  <2> QED  BY <2>1, <2>2, Zenon DEF Moved, Rec
<1>8. v = Moved(w, k, at, old.previous, old.outcome)
  BY DEF Moved
<1> HIDE DEF v
<1>9. \A q : [w EXCEPT ![k].at = at, ![k].previous = q] = Moved(w, k, at, q, old.outcome)
  BY <1>5, <1>7, Zenon
<1>10. \A q : Ended(w, k, at, q) = Moved(w, k, at, old.previous, q)
  BY <1>5, <1>7, Zenon DEF Ended
<1>11. old.previous \in Known /\ old.outcome \in Outcomes
  BY <1>1 DEF Worker
<1> QED  BY <1>5, <1>8, <1>9, <1>10, <1>11

LEMMA GoesMoves ==
  ASSUME worker \in [Ids -> Worker], NEW k \in Ids, NEW at \in Places, NEW p, NEW o,
         p = worker[k].previous, o = worker[k].outcome, Goes(k, at)
  PROVE  worker' = Moved(worker, k, at, p, o)
<1>1. [worker EXCEPT ![k].at = at] = Moved(worker, k, at, worker[k].previous, worker[k].outcome)
  BY WorkerMoves, Zenon
<1> QED  BY <1>1, Zenon DEF Goes

LEMMA EndedMoves ==
  ASSUME NEW w \in [Ids -> Worker], NEW k \in Ids, NEW at \in Places
  PROVE  \A o : Ended(w, k, at, o) = Moved(w, k, at, w[k].previous, o)
BY WorkerMoves, Zenon

LEMMA ReplacedMoves ==
  ASSUME NEW w \in [Ids -> Worker], NEW k \in Ids, NEW at \in Places
  PROVE  \A p : [w EXCEPT ![k].at = at, ![k].previous = p] = Moved(w, k, at, p, w[k].outcome)
BY WorkerMoves, Zenon

LEMMA RefusesMoves ==
  ASSUME worker \in [Ids -> Worker], NEW k \in Ids, NEW at \in Places, NEW p,
         p = worker[k].previous, Refuses(k, at)
  PROVE  worker' = Moved(worker, k, at, p, "failed")
<1>1. worker' = Ended(worker, k, at, "failed")
  BY Zenon DEF Refuses, Ended
<1> QED  BY <1>1, EndedMoves

LEMMA CommitMoves ==
  ASSUME worker \in [Ids -> Worker], NEW k \in Ids, NEW p, p = worker[k].previous,
         worker' = Ended(worker, k, "tell", "applied")
  PROVE  worker' = Moved(worker, k, "tell", p, "applied")
<1>1. "tell" \in Places
  BY DEF Places
<1> QED  BY <1>1, EndedMoves

LEMMA CheckMoves ==
  ASSUME worker \in [Ids -> Worker], NEW k \in Ids, NEW o, o = worker[k].outcome, NEW q,
         worker' = [worker EXCEPT ![k].at = "replace", ![k].previous = q]
  PROVE  worker' = Moved(worker, k, "replace", q, o)
<1>1. "replace" \in Places
  BY DEF Places
<1>2. [worker EXCEPT ![k].at = "replace", ![k].previous = q]
        = Moved(worker, k, "replace", q, worker[k].outcome)
  BY <1>1, ReplacedMoves
<1> QED  BY <1>2

LEMMA MovedIs ==
  ASSUME NEW w \in [Ids -> Worker], NEW k \in Ids, NEW at \in Places,
         NEW p \in Known, NEW o \in Outcomes
  PROVE  /\ Moved(w, k, at, p, o) \in [Ids -> Worker]
         /\ Moved(w, k, at, p, o)[k].at = at
         /\ Moved(w, k, at, p, o)[k].previous = p
         /\ Moved(w, k, at, p, o)[k].outcome = o
         /\ \A i \in Ids \ {k} : Moved(w, k, at, p, o)[i] = w[i]
<1>1. [at |-> at, previous |-> p, outcome |-> o] \in Worker
  BY DEF Worker
<1> QED  BY <1>1 DEF Moved

(* The thread at work goes from one place to another, with the previous    *)
(* list and the outcome it has then, and stays the one at work.            *)
Steps(k, at, p, o) ==
  /\ worker' = Moved(worker, k, at, p, o) /\ p \in Known /\ o \in Outcomes
  /\ UNCHANGED <<command, issued, toNode, hub, saying, conn>>

LEMMA AtWork ==
  ASSUME ConfigInv, NEW k \in Ids, worker[k].at \in Working
  PROVE  /\ busy = k /\ k # 0 /\ k \in 1..issued /\ Ids = 1..MaxConfigures
         /\ StageOf(worker[k], command[k])
         /\ worker \in [Ids -> Worker] /\ worker[k].previous \in Known
         /\ worker[k].outcome \in Outcomes
         /\ command[k] \in Config /\ command[k].revision \in Nat /\ command[k].sources \in Known
         /\ config \in Config /\ config.revision \in Nat /\ config.sources \in Known
         /\ overlay \in Config /\ overlay.revision \in Nat /\ overlay.sources \in Known
<1>1. busy = k /\ k # 0 /\ k \in 1..issued /\ Ids = 1..MaxConfigures
  BY DEF ConfigInv, ConfigTyped, OneAtWork, Ids
<1>2. StageOf(worker[k], command[k])
  BY <1>1 DEF ConfigInv, Stage
<1>3. worker \in [Ids -> Worker] /\ command[k] \in Config /\ config \in Config
      /\ overlay \in Config
  BY DEF ConfigInv, ConfigTyped
<1>4. worker[k] \in Worker
  BY <1>3
<1> QED  BY <1>1, <1>2, <1>3, <1>4 DEF Worker, Config

LEMMA StepKeeps ==
  ASSUME ConfigInv, NEW k \in Ids, worker[k].at \in Working, NEW at \in Working,
         NEW p, NEW o, Steps(k, at, p, o), busy' = busy, UNCHANGED answered, KeepsItsWord,
         Heard', retained' \in States \cup {None},
         config' \in Config, overlay' \in Config,
         o = "applied" => Kept(k)',
         StageOf([at |-> at, previous |-> p, outcome |-> o], command[k])'
  PROVE  ConfigInv'
<1>1. busy = k /\ k # 0 /\ worker \in [Ids -> Worker] /\ Ids' = Ids /\ k \in 1..issued
  BY AtWork DEF Ids
<1>2. at \in Places
  BY DEF Working
<1>3. /\ worker' \in [Ids -> Worker]
      /\ worker'[k].at = at /\ worker'[k].previous = p /\ worker'[k].outcome = o
      /\ \A i \in Ids \ {k} : worker'[i] = worker[i]
  BY <1>1, <1>2, MovedIs DEF Steps
<1>4. UNCHANGED <<command, issued, toNode, hub, saying, conn>>
  BY DEF Steps
<1>5. ConfigTyped'
  BY <1>1, <1>3, <1>4 DEF ConfigInv, ConfigTyped, Heard
<1>6. OneAtWork'
  BY <1>1, <1>3 DEF ConfigInv, OneAtWork
<1>7. Stage'
  <2>1. StageOf(worker[k], command[k])'
    BY <1>3 DEF StageOf
  <2>2. busy' = k /\ k # 0
    BY <1>1
  <2>3. Stage' <=> IF busy' = 0 THEN Agree' ELSE (StageOf(worker[busy], command[busy]))'
    BY DEF Stage
  <2> QED  BY <2>1, <2>2 DEF Stage, StageOf
<1>8. Promises'
  BY <1>1, <1>3 DEF ConfigInv, Promises, Heard, KeepsItsWord
<1>9. HubRemembers'
  BY <1>4, SameNumbers, HubSame
<1> QED  BY <1>5, <1>6, <1>7, <1>8, <1>9 DEF ConfigInv

(* What the thread at work always leaves alone. *)
LEMMA WorkLeaves ==
  ASSUME UNCHANGED restOfConfigure
  PROVE  UNCHANGED <<command, issued, toNode, hub, saying, conn>>
BY DEF restOfConfigure, vars

(* A step of the thread that touches no disk and tells the hub nothing. *)
LEMMA QuietStep ==
  ASSUME ConfigInv, NEW k \in Ids, worker[k].at \in Working, NEW at \in Working,
         NEW p \in Known, NEW o \in Outcomes, worker' = Moved(worker, k, at, p, o),
         UNCHANGED restOfConfigure, UNCHANGED <<toHub, retained, overlay, busy, answered>>,
         config' \in Config, o = "applied" => Kept(k),
         StageOf([at |-> at, previous |-> p, outcome |-> o], command[k])'
  PROVE  ConfigInv'
<1>1. UNCHANGED <<command, issued, toNode, hub, saying, conn>>
  BY WorkLeaves
<1>2. KeepsItsWord
  BY <1>1, SameNumbers, StillKeeps
<1>3. Heard' /\ retained' \in States \cup {None} /\ overlay' \in Config
  BY <1>2, SilentHeard DEF ConfigInv, ConfigTyped
<1>4. Steps(k, at, p, o)
  BY <1>1 DEF Steps
<1>5. o = "applied" => Kept(k)'
  BY <1>2 DEF KeepsItsWord
<1> QED  BY <1>2, <1>3, <1>4, <1>5, StepKeeps

(* An outcome once applied is on the disk. *)
LEMMA OutcomeKept ==
  ASSUME ConfigInv, NEW k \in Ids, worker[k].outcome = "applied" PROVE Kept(k)
BY DEF ConfigInv, Promises

LEMMA CheckKeeps ==
  ASSUME ConfigInv, NEW k \in Ids, Check(k) PROVE ConfigInv'
<1> DEFINE w == worker[k]
<1>1. w.at = "check" /\ w.at \in Working /\ UNCHANGED restOfConfigure
      /\ UNCHANGED <<toHub, retained, config, runs, overlay, busy, answered, adrift>>
  BY DEF Check, At, Working, Places
<1>0. PICK p, o : p = w.previous /\ o = w.outcome
  OBVIOUS
<1>2. /\ worker \in [Ids -> Worker] /\ p \in Known /\ o \in Outcomes
      /\ StageOf(w, command[k]) /\ command' = command
      /\ config \in Config /\ config.sources \in Known /\ config.revision \in Nat
      /\ overlay.revision \in Nat /\ command[k].revision \in Nat
  BY <1>0, <1>1, AtWork, WorkLeaves
<1>3. Agree
  BY <1>1, <1>2 DEF StageOf
<1>4. CASE Refuses(k, "release")
  <2>1. worker' = Moved(worker, k, "release", p, "failed")
    BY <1>0, <1>2, <1>4, RefusesMoves DEF Places
  <2>2. StageOf([at |-> "release", previous |-> p, outcome |-> "failed"], command[k])'
    BY <1>0, <1>1, <1>3 DEF StageOf, Agree
  <2>3. "release" \in Working /\ "failed" \in Outcomes
    BY DEF Working, Places, Outcomes
  <2> QED  BY <1>1, <1>2, <2>1, <2>2, <2>3, QuietStep
<1>5. CASE /\ Acceptable(command[k])
           /\ worker' = [worker EXCEPT ![k].at = "replace", ![k].previous = config.sources]
  <2>1. worker' = Moved(worker, k, "replace", config.sources, o)
    BY <1>0, <1>2, <1>5, CheckMoves, Zenon
  <2>2. command[k].revision > overlay.revision /\ config.revision = overlay.revision
    BY <1>3, <1>5 DEF Acceptable, Agree
  <2>3. StageOf([at |-> "replace", previous |-> config.sources, outcome |-> o],
                command[k])'
    BY <1>0, <1>1, <1>2, <1>3, <2>2 DEF StageOf, Agree
  <2>4. "replace" \in Working
    BY DEF Working, Places
  <2> QED  BY <1>1, <1>2, <2>1, <2>3, <2>4, QuietStep, <1>0, OutcomeKept
<1> QED  BY <1>4, <1>5 DEF Check

LEMMA StopDriversKeeps ==
  ASSUME ConfigInv, NEW k \in Ids, StopDrivers(k) PROVE ConfigInv'
<1> DEFINE w == worker[k]
<1>1. w.at \in {"replace", "restore"} /\ w.at \in Working /\ UNCHANGED restOfConfigure
      /\ UNCHANGED <<toHub, retained, config, overlay, busy, answered, adrift>>
      /\ Goes(k, IF w.at = "replace" THEN "build" ELSE "rebuild")
  BY DEF StopDrivers, At, Working, Places
<1>0. PICK p, o : p = w.previous /\ o = w.outcome
  OBVIOUS
<1>2. /\ worker \in [Ids -> Worker] /\ p \in Known /\ o \in Outcomes
      /\ StageOf(w, command[k]) /\ command' = command /\ config \in Config
  BY <1>0, <1>1, AtWork, WorkLeaves
<1>3. PICK to : to = IF w.at = "replace" THEN "build" ELSE "rebuild"
  OBVIOUS
<1>4. to \in Working /\ to \in Places
  BY <1>3 DEF Working, Places
<1>5. worker' = Moved(worker, k, to, p, o)
  BY <1>0, <1>1, <1>2, <1>3, <1>4, GoesMoves
<1>6. StageOf([at |-> to, previous |-> p, outcome |-> o], command[k])'
  BY <1>0, <1>1, <1>2, <1>3 DEF StageOf
<1> QED  BY <1>0, <1>1, <1>2, <1>4, <1>5, <1>6, QuietStep, OutcomeKept

LEMMA BuildKeeps ==
  ASSUME ConfigInv, NEW k \in Ids, Build(k) PROVE ConfigInv'
<1> DEFINE w == worker[k]
<1>1. w.at = "build" /\ w.at \in Working /\ UNCHANGED restOfConfigure
      /\ UNCHANGED <<toHub, retained, overlay, busy, answered, adrift>>
  BY DEF Build, At, Working, Places
<1>0. PICK p, o : p = w.previous /\ o = w.outcome
  OBVIOUS
<1>2. /\ worker \in [Ids -> Worker] /\ p \in Known /\ o \in Outcomes
      /\ StageOf(w, command[k]) /\ command' = command /\ config \in Config
      /\ command[k].sources \in Known
  BY <1>0, <1>1, AtWork, WorkLeaves
<1>3. {"probe", "restore"} \subseteq Working
  BY DEF Working, Places
<1>4. CASE /\ config' = [config EXCEPT !.sources = command[k].sources]
           /\ runs' = command[k].sources /\ Goes(k, "probe")
  <2>1. config' \in Config /\ config'.sources = command[k].sources
        /\ config'.revision = config.revision
    BY <1>2, <1>4 DEF Config
  <2>2. worker' = Moved(worker, k, "probe", p, o)
    BY <1>0, <1>2, <1>4, GoesMoves DEF Places
  <2>3. StageOf([at |-> "probe", previous |-> p, outcome |-> o], command[k])'
    BY <1>0, <1>1, <1>2, <1>4, <2>1 DEF StageOf
  <2> QED  BY <1>1, <1>2, <1>3, <2>1, <2>2, <2>3, QuietStep, <1>0, OutcomeKept
<1>5. CASE Goes(k, "restore") /\ UNCHANGED <<config, runs>>
  <2>1. worker' = Moved(worker, k, "restore", p, o)
    BY <1>0, <1>2, <1>5, GoesMoves DEF Places
  <2>2. StageOf([at |-> "restore", previous |-> p, outcome |-> o], command[k])'
    BY <1>0, <1>1, <1>2, <1>5 DEF StageOf
  <2> QED  BY <1>1, <1>2, <1>3, <1>5, <2>1, <2>2, QuietStep, <1>0, OutcomeKept
<1> QED  BY <1>4, <1>5 DEF Build

LEMMA ProbeKeeps ==
  ASSUME ConfigInv, NEW k \in Ids, Probe(k) PROVE ConfigInv'
<1> DEFINE w == worker[k]
<1>1. w.at = "probe" /\ w.at \in Working /\ UNCHANGED restOfConfigure
      /\ UNCHANGED <<toHub, retained, config, runs, overlay, busy, answered, adrift>>
  BY DEF Probe, At, Working, Places
<1>0. PICK p, o : p = w.previous /\ o = w.outcome
  OBVIOUS
<1>2. /\ worker \in [Ids -> Worker] /\ p \in Known /\ o \in Outcomes
      /\ StageOf(w, command[k]) /\ command' = command /\ config \in Config
  BY <1>0, <1>1, AtWork, WorkLeaves
<1>3. ASSUME NEW to \in {"save", "restore"}, Goes(k, to) PROVE ConfigInv'
  <2>1. to \in Working /\ to \in Places
    BY DEF Working, Places
  <2>2. worker' = Moved(worker, k, to, p, o)
    BY <1>0, <1>2, <1>3, <2>1, GoesMoves
  <2>3. StageOf([at |-> to, previous |-> p, outcome |-> o], command[k])'
    BY <1>0, <1>1, <1>2 DEF StageOf
  <2> QED  BY <1>1, <1>2, <2>1, <2>2, <2>3, QuietStep, <1>0, OutcomeKept
<1> QED  BY <1>3 DEF Probe

(* The overlay is replaced by a list with a larger number: what was on the *)
(* disk before is kept, or superseded.                                     *)
LEMMA SaveKeeps ==
  ASSUME ConfigInv, NEW k \in Ids, Save(k) PROVE ConfigInv'
<1> DEFINE w == worker[k]
<1>1. w.at = "save" /\ w.at \in Working /\ UNCHANGED restOfConfigure
      /\ UNCHANGED <<toHub, retained, config, runs, busy, answered, adrift>>
  BY DEF Save, At, Working, Places
<1>0. PICK p, o : p = w.previous /\ o = w.outcome
  OBVIOUS
<1>2. /\ worker \in [Ids -> Worker] /\ p \in Known /\ o \in Outcomes
      /\ StageOf(w, command[k]) /\ config \in Config /\ command[k] \in Config
      /\ overlay.revision \in Nat /\ command[k].revision \in Nat
  BY <1>0, <1>1, AtWork
<1>3. UNCHANGED <<command, issued, toNode, hub, saying, conn>>
  BY <1>1, WorkLeaves
<1>4. {"commit", "restore"} \subseteq Working
  BY DEF Working, Places
<1>5. CASE overlay' = command[k] /\ Goes(k, "commit")
  <2>1. overlay'.revision > overlay.revision /\ overlay' \in Config
    BY <1>1, <1>2, <1>5 DEF StageOf
  <2>2. KeepsItsWord
    <3>1. SUFFICES ASSUME NEW id, Kept(id) PROVE Kept(id)'
      BY DEF KeepsItsWord
    <3>2. Kept(id)
      BY <3>1
    <3>0. id \in 1..issued /\ issued \in Nat /\ issued <= MaxConfigures /\ MaxConfigures \in Nat
      BY <3>2, RemoteConstants DEF Kept, ConfigInv, ConfigTyped
    <3>3. id \in Ids /\ command \in [Ids -> Config]
      BY <3>0 DEF ConfigInv, ConfigTyped, Ids
    <3>4. command[id].revision \in Nat /\ overlay'.revision \in Nat
      BY <2>1, <3>3 DEF Config
    <3>5. overlay.revision >= command[id].revision
      BY <1>2, <3>2, <3>4 DEF Kept
    <3>6. overlay'.revision > command[id].revision
      BY <1>2, <2>1, <3>4, <3>5
    <3> QED  BY <1>3, <3>0, <3>6 DEF Kept
  <2>3. Heard' /\ retained' \in States \cup {None}
    BY <1>1, <2>2, SilentHeard DEF ConfigInv, ConfigTyped
  <2>4. worker' = Moved(worker, k, "commit", p, o)
    BY <1>0, <1>2, <1>5, GoesMoves DEF Places
  <2>5. Steps(k, "commit", p, o)
    BY <1>2, <1>3, <2>4 DEF Steps
  <2>6. StageOf([at |-> "commit", previous |-> p, outcome |-> o], command[k])'
    BY <1>0, <1>1, <1>2, <1>3, <1>5 DEF StageOf
  <2>7. o = "applied" => Kept(k)'
    BY <2>2, <1>0, OutcomeKept DEF KeepsItsWord
  <2> QED  BY <1>1, <1>2, <1>4, <2>1, <2>2, <2>3, <2>5, <2>6, <2>7, StepKeeps
<1>6. CASE UNCHANGED overlay /\ Goes(k, "restore")
  <2>1. worker' = Moved(worker, k, "restore", p, o)
    BY <1>0, <1>2, <1>6, GoesMoves DEF Places
  <2>2. StageOf([at |-> "restore", previous |-> p, outcome |-> o], command[k])'
    BY <1>0, <1>1, <1>2, <1>6 DEF StageOf
  <2> QED  BY <1>1, <1>2, <1>4, <1>6, <2>1, <2>2, QuietStep, <1>0, OutcomeKept
<1> QED  BY <1>5, <1>6 DEF Save

LEMMA CommitKeeps ==
  ASSUME ConfigInv, NEW k \in Ids, Commit(k) PROVE ConfigInv'
<1> DEFINE w == worker[k]
<1>1. w.at = "commit" /\ w.at \in Working /\ UNCHANGED restOfConfigure
      /\ UNCHANGED <<toHub, retained, overlay, busy, answered>>
  BY DEF Commit, At, Working, Places
<1>11. /\ config' = [config EXCEPT !.revision = command[k].revision] /\ runs' = runs
       /\ worker' = Ended(worker, k, "tell", "applied")
  BY Zenon DEF Commit, Ended
<1>0. PICK p, o : p = w.previous /\ o = w.outcome
  OBVIOUS
<1>2. /\ worker \in [Ids -> Worker] /\ p \in Known /\ k \in 1..issued
      /\ StageOf(w, command[k]) /\ command' = command /\ config \in Config
      /\ command[k].revision \in Nat
  BY <1>0, <1>1, AtWork, WorkLeaves
<1>9. config'.sources = config.sources /\ config'.revision = command[k].revision
  BY <1>11, <1>2 DEF Config
<1>3. config' \in Config
  BY <1>11, <1>2 DEF Config
<1>4. overlay = command[k] /\ runs = overlay.sources /\ config.sources = overlay.sources
  BY <1>1, <1>2 DEF StageOf
<1>5. Kept(k)
  BY <1>2, <1>4 DEF Kept
<1>6. "tell" \in Working /\ "tell" \in Places /\ "applied" \in Outcomes
  BY DEF Working, Places, Outcomes
<1>7. worker' = Moved(worker, k, "tell", p, "applied")
  BY <1>0, <1>11, <1>2, <1>6, CommitMoves
<1>8. StageOf([at |-> "tell", previous |-> p, outcome |-> "applied"], command[k])'
  BY <1>0, <1>1, <1>11, <1>9, <1>4 DEF StageOf, Agree
<1> HIDE DEF w
<1>12. worker[k].at \in Working
  BY <1>1 DEF w
<1> QED  BY <1>1, <1>12, <1>2, <1>3, <1>5, <1>6, <1>7, <1>8, QuietStep

LEMMA RestoreKeeps ==
  ASSUME ConfigInv, NEW k \in Ids, Restore(k) PROVE ConfigInv'
<1> DEFINE w == worker[k]
<1>1. w.at = "rebuild" /\ w.at \in Working /\ UNCHANGED restOfConfigure
      /\ UNCHANGED <<toHub, retained, overlay, busy, answered>>
  BY DEF Restore, At, Working, Places
<1>0. PICK p, o : p = w.previous /\ o = w.outcome
  OBVIOUS
<1>2. /\ worker \in [Ids -> Worker] /\ p \in Known
      /\ StageOf(w, command[k]) /\ command' = command /\ config \in Config
  BY <1>0, <1>1, AtWork, WorkLeaves
<1>3. {"tell", "release"} \subseteq Working /\ {"tell", "release"} \subseteq Places
      /\ "failed" \in Outcomes
  BY DEF Working, Places, Outcomes
<1>4. CASE /\ config' = [config EXCEPT !.sources = p]
           /\ runs' = p
           /\ Refuses(k, "tell") /\ UNCHANGED adrift
  <2>1. config' \in Config /\ config'.sources = p /\ config'.revision = config.revision
    BY <1>2, <1>4 DEF Config
  <2>2. worker' = Moved(worker, k, "tell", p, "failed")
    BY <1>0, <1>2, <1>3, <1>4, RefusesMoves
  <2>3. StageOf([at |-> "tell", previous |-> p, outcome |-> "failed"], command[k])'
    BY <1>0, <1>1, <1>2, <1>4, <2>1 DEF StageOf, Agree
  <2> QED  BY <1>1, <1>2, <1>3, <2>1, <2>2, <2>3, QuietStep
<1>5. CASE Refuses(k, "release") /\ adrift' = TRUE /\ UNCHANGED <<config, runs>>
  <2>1. worker' = Moved(worker, k, "release", p, "failed")
    BY <1>0, <1>2, <1>3, <1>5, RefusesMoves
  <2>2. StageOf([at |-> "release", previous |-> p, outcome |-> "failed"], command[k])'
    BY <1>0, <1>1, <1>2, <1>5 DEF StageOf, Agree
  <2>3. config' \in Config
    BY <1>2, <1>5
  <2> QED  BY <1>1, <1>2, <1>3, <2>1, <2>2, <2>3, QuietStep
<1>6. \/ /\ config' = [config EXCEPT !.sources = w.previous]
         /\ runs' = w.previous
         /\ Refuses(k, "tell") /\ UNCHANGED adrift
      \/ Refuses(k, "release") /\ adrift' = TRUE /\ UNCHANGED <<config, runs>>
  BY Zenon DEF Restore
<1> HIDE DEF w
<1> QED  BY <1>0, <1>4, <1>5, <1>6, Zenon

LEMMA TellKeeps ==
  ASSUME ConfigInv, NEW k \in Ids, Tell(k) PROVE ConfigInv'
<1> DEFINE w == worker[k]
<1>1. w.at = "tell" /\ w.at \in Working /\ UNCHANGED restOfConfigure
      /\ UNCHANGED <<config, runs, overlay, busy, answered, adrift>>
      /\ Publish(State(conn, TRUE)) /\ Goes(k, "release")
  BY DEF Tell, At, Working, Places
<1>0. PICK p, o : p = w.previous /\ o = w.outcome
  OBVIOUS
<1>2. /\ worker \in [Ids -> Worker] /\ p \in Known /\ o \in Outcomes
      /\ StageOf(w, command[k]) /\ config \in Config /\ overlay \in Config
  BY <1>0, <1>1, AtWork
<1>3. UNCHANGED <<command, issued, toNode, hub, saying, conn>>
  BY <1>1, WorkLeaves
<1>4. KeepsItsWord
  BY <1>1, <1>3, SameNumbers, StillKeeps
<1>5. Heard' /\ retained' \in States \cup {None}
  BY <1>1, <1>4, StateIsALetter, PublishHeard
<1>6. "release" \in Working /\ "release" \in Places
  BY DEF Working, Places
<1>7. worker' = Moved(worker, k, "release", p, o)
  BY <1>0, <1>1, <1>2, <1>6, GoesMoves
<1>8. Steps(k, "release", p, o)
  BY <1>2, <1>3, <1>7 DEF Steps
<1>9. StageOf([at |-> "release", previous |-> p, outcome |-> o], command[k])'
  BY <1>0, <1>1, <1>2 DEF StageOf, Agree
<1>10. o = "applied" => Kept(k)'
  BY <1>4, <1>0, OutcomeKept DEF KeepsItsWord
<1> QED  BY <1>1, <1>2, <1>4, <1>5, <1>6, <1>8, <1>9, <1>10, StepKeeps

(* A request is taken up, given back or answered: the configuration stands *)
(* still, and the threads keep what they promise.                          *)
Turns ==
  /\ UNCHANGED <<command, issued, config, overlay, hub, saying, conn>>
  /\ worker' \in [Ids -> Worker] /\ busy' \in 0..issued
  /\ answered' \in [Ids -> Outcomes \cup {"unknown"}]
  /\ \A id \in Ids : worker'[id].outcome = "applied" => Kept(id)
  /\ \A id \in Ids : answered'[id] = "applied" => Kept(id)

LEMMA TurnKeeps ==
  ASSUME ConfigInv, Turns, toNode' \in Seq(1..issued), Heard',
         retained' \in States \cup {None}, OneAtWork', Stage'
  PROVE  ConfigInv'
<1>1. Grows /\ KeepsItsWord
  BY SameNumbers, StillKeeps DEF Turns
<1>2. ConfigTyped'
  BY DEF ConfigInv, ConfigTyped, Turns, Heard
<1>3. Promises'
  BY <1>1 DEF Turns, Promises, KeepsItsWord, Heard, Ids
<1>4. HubRemembers'
  BY <1>1, HubSame DEF Turns
<1> QED  BY <1>2, <1>3, <1>4 DEF ConfigInv

LEMMA MovesTo ==
  ASSUME worker \in [Ids -> Worker], NEW k \in Ids, NEW at \in Places,
         NEW p \in Known, NEW o \in Outcomes, worker' = Moved(worker, k, at, p, o)
  PROVE  /\ worker' \in [Ids -> Worker] /\ worker'[k].at = at /\ worker'[k].outcome = o
         /\ \A i \in Ids \ {k} : worker'[i] = worker[i]
BY MovedIs

LEMMA ReleaseKeeps ==
  ASSUME ConfigInv, NEW k \in Ids, Release(k) PROVE ConfigInv'
<1> DEFINE w == worker[k]
<1>1. w.at = "release" /\ w.at \in Working /\ UNCHANGED restOfConfigure
      /\ UNCHANGED <<toHub, retained, config, runs, overlay, answered>>
      /\ busy' = 0 /\ Goes(k, "answer")
  BY DEF Release, At, Working, Places
<1>2. adrift' = adrift
  BY DEF Release
<1>0. PICK p, o : p = w.previous /\ o = w.outcome
  OBVIOUS
<1>3. /\ worker \in [Ids -> Worker] /\ p \in Known /\ o \in Outcomes
      /\ StageOf(w, command[k]) /\ busy = k /\ Ids = 1..MaxConfigures /\ issued \in Nat
  BY <1>0, <1>1, AtWork DEF ConfigInv, ConfigTyped
<1>4. UNCHANGED <<command, issued, toNode, hub, saying, conn>>
  BY <1>1, WorkLeaves
<1>5. "answer" \in Places /\ "answer" \notin Working
  BY DEF Working, Places
<1>6. worker' = Moved(worker, k, "answer", p, o)
  BY <1>0, <1>1, <1>3, <1>5, GoesMoves
<1>7. /\ worker' \in [Ids -> Worker] /\ worker'[k].at = "answer" /\ worker'[k].outcome = o
      /\ \A i \in Ids \ {k} : worker'[i] = worker[i]
  BY <1>3, <1>5, <1>6, MovesTo
<1>8. OneAtWork'
  BY <1>1, <1>3, <1>5, <1>7 DEF ConfigInv, OneAtWork, Ids
<1>9. Agree
  BY <1>1, <1>3 DEF StageOf
<1>10. Stage'
  BY <1>1, <1>2, <1>9 DEF Stage, Agree
<1>11. Turns
  BY <1>0, <1>1, <1>3, <1>4, <1>7, OutcomeKept DEF Turns, ConfigInv, ConfigTyped, Promises
<1>12. Heard'
  BY <1>1, <1>4, SameNumbers, StillKeeps, SilentHeard
<1>13. toNode' \in Seq(1..issued) /\ retained' \in States \cup {None}
  BY <1>1, <1>4 DEF ConfigInv, ConfigTyped
<1> QED  BY <1>8, <1>10, <1>11, <1>12, <1>13, TurnKeeps

(* The node acknowledges what it has kept. *)
LEMMA AckIsALetter ==
  ASSUME NEW k \in Ids, NEW o \in Outcomes, o = "applied" => Kept(k)
  PROVE  Ack(k, o) \in Messages /\ Truthful(Ack(k, o))
BY DEF Ack, Messages, Truthful

LEMMA AnswerKeeps ==
  ASSUME ConfigInv, NEW k \in Ids, Answer(k) PROVE ConfigInv'
<1> DEFINE w == worker[k]
<1>1. w.at = "answer" /\ UNCHANGED restOfConfigure
      /\ UNCHANGED <<config, runs, overlay, busy>> /\ Goes(k, "done")
      /\ answered' = [answered EXCEPT ![k] = w.outcome] /\ Publish(Ack(k, w.outcome))
  BY DEF Answer, At
<1>2. adrift' = adrift
  BY DEF Answer
<1>0. PICK p, o : p = w.previous /\ o = w.outcome
  OBVIOUS
<1>3. worker \in [Ids -> Worker] /\ issued \in Nat /\ busy \in 0..issued
      /\ answered \in [Ids -> Outcomes \cup {"unknown"}]
  BY DEF ConfigInv, ConfigTyped
<1>4. w \in Worker
  BY <1>3
<1>5. p \in Known /\ o \in Outcomes /\ (o = "applied" => Kept(k))
  BY <1>0, <1>4, OutcomeKept DEF Worker
<1>6. UNCHANGED <<command, issued, toNode, hub, saying, conn>>
  BY <1>1, WorkLeaves
<1>7. "done" \in Places /\ "done" \notin Working /\ "answer" \notin Working
  BY DEF Working, Places
<1>8. worker' = Moved(worker, k, "done", p, o)
  BY <1>0, <1>1, <1>3, <1>7, GoesMoves
<1>9. /\ worker' \in [Ids -> Worker] /\ worker'[k].at = "done" /\ worker'[k].outcome = o
      /\ \A i \in Ids \ {k} : worker'[i] = worker[i]
  BY <1>3, <1>5, <1>7, <1>8, MovesTo
<1>10. busy # k
  BY <1>1, <1>7 DEF ConfigInv, OneAtWork
<1>11. OneAtWork'
  BY <1>1, <1>7, <1>9, <1>10 DEF ConfigInv, OneAtWork, Ids
<1>12. Stage'
  <2>1. busy # 0 => busy \in Ids
    BY <1>3, RemoteConstants DEF Ids, ConfigInv, ConfigTyped
  <2>2. busy # 0 => worker'[busy] = worker[busy]
    BY <1>9, <1>10, <2>1
  <2> QED  BY <1>1, <1>2, <1>6, <2>2 DEF ConfigInv, Stage, StageOf, Agree
<1>13. answered' = [answered EXCEPT ![k] = o]
  BY <1>0, <1>1
<1>14. Turns
  BY <1>1, <1>3, <1>5, <1>6, <1>9, <1>13 DEF Turns, ConfigInv, Promises
<1>15. Ack(k, o) \in Messages /\ Truthful(Ack(k, o)) /\ Publish(Ack(k, o))
  BY <1>0, <1>1, <1>5, AckIsALetter
<1>16. KeepsItsWord
  BY <1>1, <1>6, SameNumbers, StillKeeps
<1>17. Heard' /\ retained' \in States \cup {None}
  BY <1>15, <1>16, PublishHeard
<1>18. toNode' \in Seq(1..issued)
  BY <1>6 DEF ConfigInv, ConfigTyped
<1> QED  BY <1>11, <1>12, <1>14, <1>17, <1>18, TurnKeeps

LEMMA BeginKeeps ==
  ASSUME ConfigInv, BeginConfigure PROVE ConfigInv'
<1>0. PICK k : k = Head(toNode)
  OBVIOUS
<1>1. /\ toNode # << >>
      /\ toNode' = Tail(toNode) \/ toNode' = toNode
      /\ UNCHANGED <<command, issued, config, runs, overlay, saying, hub, conn>>
  BY DEF BeginConfigure, vars, link
<1>2. adrift' = adrift
  BY DEF BeginConfigure
<1>3. worker \in [Ids -> Worker] /\ issued \in Nat /\ busy \in 0..issued
      /\ answered \in [Ids -> Outcomes \cup {"unknown"}] /\ toNode \in Seq(1..issued)
      /\ issued <= MaxConfigures /\ MaxConfigures \in Nat /\ Ids = 1..MaxConfigures
  BY RemoteConstants DEF ConfigInv, ConfigTyped, Ids
<1>9. k \in 1..issued
  BY <1>0, <1>1, <1>3
<1>4. k \in 1..issued /\ k \in Ids /\ toNode' \in Seq(1..issued)
  <2>1. k \in Ids
    BY <1>3, <1>9
  <2>2. \A S, q : q \in Seq(S) /\ q # << >> => Tail(q) \in Seq(S)
    OBVIOUS
  <2>3. toNode' \in Seq(1..issued)
    BY <1>1, <1>3, <2>2, Zenon
  <2> QED  BY <1>9, <2>1, <2>3
<1>5. KeepsItsWord
  BY <1>1, SameNumbers, StillKeeps
<1>6. ASSUME NEW o \in Outcomes, Publish(Ack(k, o)), o = "applied" => Kept(k)
      PROVE  Heard' /\ retained' \in States \cup {None}
  BY <1>4, <1>5, <1>6, AckIsALetter, PublishHeard
<1>7. CASE UNCHANGED <<worker, busy, answered>>
           /\ \/ Publish(Ack(k, answered[k])) /\ answered[k] # "unknown"
              \/ Publish(Ack(k, "failed"))
  <2>1. "failed" \in Outcomes /\ (answered[k] # "unknown" => answered[k] \in Outcomes)
        /\ (answered[k] = "applied" => Kept(k))
    BY <1>3, <1>4 DEF Outcomes, ConfigInv, Promises
  <2>2. Heard' /\ retained' \in States \cup {None}
    BY <1>6, <1>7, <2>1
  <2>3. Turns
    BY <1>1, <1>3, <1>7 DEF Turns, ConfigInv, Promises
  <2>4. NodeStill /\ Grows
    BY <1>1, <1>2, <1>7, SameNumbers DEF NodeStill
  <2> QED  BY <1>4, <2>2, <2>3, <2>4, StillStage, TurnKeeps
<1>8. CASE /\ busy = 0 /\ busy' = k /\ answered' = [answered EXCEPT ![k] = "received"]
           /\ Publish(Ack(k, "received")) /\ Goes(k, "check")
  <2>0. PICK p, o : p = worker[k].previous /\ o = worker[k].outcome
    OBVIOUS
  <2>1. worker[k] \in Worker
    BY <1>3, <1>4
  <2>2. p \in Known /\ o \in Outcomes /\ (o = "applied" => Kept(k))
    BY <1>4, <2>0, <2>1, OutcomeKept DEF Worker
  <2>3. "check" \in Places /\ "check" \in Working /\ "received" \in Outcomes
    BY DEF Places, Working, Outcomes
  <2>4. worker' = Moved(worker, k, "check", p, o)
    BY <1>3, <1>4, <1>8, <2>0, <2>3, GoesMoves
  <2>5. /\ worker' \in [Ids -> Worker] /\ worker'[k].at = "check" /\ worker'[k].outcome = o
        /\ \A i \in Ids \ {k} : worker'[i] = worker[i]
    BY <1>3, <1>4, <2>2, <2>3, <2>4, MovesTo
  <2>6. OneAtWork'
    BY <1>3, <1>4, <1>8, <2>3, <2>5 DEF ConfigInv, OneAtWork, Ids
  <2>7. Agree'
    BY <1>1, <1>2, <1>8 DEF ConfigInv, Stage, Agree
  <2>8. Stage'
    BY <1>4, <1>8, <2>5, <2>7 DEF Stage, StageOf
  <2>9. Turns
    BY <1>1, <1>3, <1>4, <1>8, <2>2, <2>3, <2>5 DEF Turns, ConfigInv, Promises
  <2>10. Heard' /\ retained' \in States \cup {None}
    BY <1>6, <1>8, <2>3
  <2> QED  BY <1>4, <2>6, <2>8, <2>9, <2>10, TurnKeeps
<1> QED  BY <1>0, <1>7, <1>8, Zenon DEF BeginConfigure, Goes

LEMMA StartsAgainKeeps ==
  ASSUME ConfigInv, StartsAgain PROVE ConfigInv'
<1>1. /\ UNCHANGED <<command, issued, overlay, hub, conn>>
      /\ config' = overlay /\ runs' = overlay.sources
      /\ worker' = [id \in Ids |-> Idle] /\ busy' = 0
      /\ answered' = [id \in Ids |-> "unknown"] /\ saying' = None
  BY DEF StartsAgain
<1>2. Gone \/ UNCHANGED <<toNode, toHub, retained>>
  BY DEF StartsAgain, wireVars
<1>3. issued \in Nat /\ overlay \in Config /\ Idle \in Worker
      /\ Idle.at = "idle" /\ Idle.outcome = "received" /\ "idle" \notin Working
  BY DEF ConfigInv, ConfigTyped, Idle, Worker, Places, Working, Outcomes, Known
<1>4. KeepsItsWord /\ Grows
  BY <1>1, SameNumbers, StillKeeps
<1>5. Heard' /\ retained' \in States \cup {None} /\ toNode' \in Seq(1..issued')
  BY <1>1, <1>2, <1>4, GoneHeard, SilentHeard DEF ConfigInv, ConfigTyped
<1>6. ConfigTyped'
  BY <1>1, <1>3, <1>5 DEF ConfigInv, ConfigTyped, Heard
<1>7. OneAtWork'
  BY <1>1, <1>3 DEF OneAtWork, Ids
<1>8. Stage'
  BY <1>1 DEF Stage, Agree
<1>9. Promises'
  BY <1>1, <1>3, <1>5 DEF Promises, Heard
<1>10. HubRemembers'
  BY <1>1, <1>4, HubSame
<1> QED  BY <1>6, <1>7, <1>8, <1>9, <1>10 DEF ConfigInv

LEMMA EventsConnect ==
  ASSUME Next, conn \in Nat PROVE conn' \in Nat
<1> USE DEF link
<1>1. CASE Dial
  BY <1>1 DEF Dial
<1>2. CASE NetworkThread /\ ~Dial
  BY <1>2 DEF NetworkThread, Linked, GiveUp, TakeBatch, Prepare, Published, NotPublished,
              NetworkExits
<1>3. CASE LinkUp \/ LinkDown \/ RequestStop \/ Goodbye \/ Tick
  BY <1>3 DEF LinkUp, LinkDown, RequestStop, Goodbye, Tick
<1>4. ASSUME NEW s, DriverReads(s) \/ TakeBaseline(s) PROVE conn' = conn
  BY <1>4 DEF DriverReads, TakeBaseline
<1>5. ASSUME NEW t, PutInSpool(t) PROVE conn' = conn
  BY <1>5 DEF PutInSpool
<1>6. ASSUME NEW c, OnCommand(c) PROVE conn' = conn
  BY <1>6 DEF OnCommand
<1> QED  BY <1>1, <1>2, <1>3, <1>4, <1>5, <1>6 DEF Next

(* A step of any thread, of the hub or of the link, and a start, keeps it. *)
LEMMA ConfigKept == ConfigInv /\ [MCNext]_allVars => ConfigInv'
<1> SUFFICES ASSUME ConfigInv, [MCNext]_allVars PROVE ConfigInv'
  OBVIOUS
<1>1. conn \in Nat
  BY DEF ConfigInv, ConfigTyped
<1>2. CASE Events(Next)
  BY <1>1, <1>2, EventsConnect, ConfigEvents DEF Events
<1>3. CASE RemoteNext
  <2>1. CASE LinkStep
    BY <2>1, ConfigLink
  <2>2. CASE Announce \/ PublishState
    BY <2>2, ConfigSaying
  <2>3. CASE \E list \in Lists : Configure(list)
    BY <2>3, ConfigNumbered
  <2>4. CASE PatienceEnds \/ HubHears \/ HubRestarts
    BY <2>4, ConfigHears
  <2>5. CASE BeginConfigure
    BY <2>5, BeginKeeps
  <2>6. ASSUME NEW k \in Ids, Works(k) PROVE ConfigInv'
    BY <2>6, CheckKeeps, StopDriversKeeps, BuildKeeps, ProbeKeeps, SaveKeeps, CommitKeeps,
       RestoreKeeps, TellKeeps, ReleaseKeeps, AnswerKeeps DEF Works
  <2>7. CASE StartsAgain
    BY <2>7, StartsAgainKeeps
  <2> QED  BY <1>3, <2>1, <2>2, <2>3, <2>4, <2>5, <2>6, <2>7 DEF RemoteNext
<1>4. CASE UNCHANGED allVars
  <2>1. UNCHANGED remoteVars /\ conn' = conn
    BY <1>4 DEF allVars, vars, link
  <2> QED  BY <1>1, <2>1, ConfigEvents
<1> QED  BY <1>2, <1>3, <1>4 DEF MCNext

LEMMA ConfigHolds == MCSpec => []ConfigInv
<1>1. MCInit => ConfigInv
  BY ConfigStart DEF MCInit
<1> QED  BY <1>1, ConfigKept, PTL DEF MCSpec

(* Whatever crashes, is lost, repeated, given up on or answered late, the  *)
(* hub never calls a list applied that the node would not start with, or   *)
(* has not already replaced by a later one: for every number of requests,  *)
(* of connections and of mishaps.                                          *)
THEOREM AppliedIsOnDisk == MCSpec => []AppliedIsKept
<1>1. ConfigInv => AppliedIsKept
  <2> SUFFICES ASSUME ConfigInv, hub.pending.state = "applied"
               PROVE  \/ overlay.revision > hub.pending.revision
                      \/ overlay = command[hub.pending.id]
    BY DEF AppliedIsKept
  <2>1. PICK k : k = hub.pending.id
    OBVIOUS
  <2>2. Kept(k) /\ issued \in Nat
    BY <2>1 DEF ConfigInv, HubRemembers, ConfigTyped
  <2>3. k # 0
    BY <2>2 DEF Kept
  <2>4. hub.pending.revision = command[k].revision
    BY <2>1, <2>3 DEF ConfigInv, HubRemembers
  <2> QED  BY <2>1, <2>2, <2>4 DEF Kept
<1> QED  BY <1>1, ConfigHolds, PTL

(* Every way out of _configure leaves the drivers, the configuration in    *)
(* memory and the overlay in agreement, unless the previous list itself    *)
(* could not be started again.                                             *)
THEOREM RunsWhatWasSaved == MCSpec => []RunsWhatItSaved
<1>1. ConfigInv => RunsWhatItSaved
  <2> SUFFICES ASSUME ConfigInv, busy = 0, ~adrift
               PROVE  runs = overlay.sources /\ config = overlay
    BY DEF RunsWhatItSaved
  <2>1. Agree /\ config \in Config /\ overlay \in Config
    BY DEF ConfigInv, Stage, ConfigTyped
  <2>2. runs = overlay.sources /\ config.sources = overlay.sources
        /\ config.revision = overlay.revision
    BY <2>1 DEF Agree
  <2>3. config = overlay
    BY <2>1, <2>2 DEF Config
  <2> QED  BY <2>2, <2>3
<1> QED  BY <1>1, ConfigHolds, PTL
==============================================================================
