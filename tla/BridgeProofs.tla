---------------------------- MODULE BridgeProofs ----------------------------
(***************************************************************************)
(* The board's cable and what the hub makes of it, for any number of       *)
(* connections, parts on the cable and mishaps.                            *)
(*                                                                         *)
(* The cable implements Channel.  What is under way in the channel is what *)
(* Intact makes of the parts between the board's pen and the Reader's      *)
(* hands: the Line, cut down to the frames that came through whole.  A     *)
(* part lost or bent costs at most the frame it is of, which is a fault of *)
(* the channel, but only while no two frames of the Line are alike: hence  *)
(* WideCounter, and the age of what is on the Line in CableInv.            *)
(*                                                                         *)
(* A bridge that ends leaves no session behind.  The board's connections   *)
(* come in an order, and what is on the Line, in the bridge and at the hub *)
(* never goes back in it; r ranks the connections so, and KnownInv says    *)
(* that a ranking exists.                                                  *)
(*                                                                         *)
(* Intact, Feed and the folds over what was published are recursive        *)
(* functions, so the module begins with what lets them be reasoned about:  *)
(* induction over a set, by a size, and the stages of a fold.              *)
(***************************************************************************)
EXTENDS Bridge, WellFoundedInduction, SequenceTheorems, TLAPS

------------------------------------------------------------------------------
(* Induction, and functions that call themselves.                          *)

LEMMA LeastOf ==
  ASSUME NEW A \in SUBSET Nat, A # {}
  PROVE  \E x \in A : \A y \in A : x <= y
<1>1. \E x \in A : \A y \in A : <<y, x>> \notin OpToRel(<, Nat)
  BY NatLessThanWellFounded, WFMin, Zenon
<1>2. \A x, y \in Nat : <<y, x>> \notin OpToRel(<, Nat) => x <= y
  BY DEF OpToRel
<1> QED  BY <1>1, <1>2, Zenon

(* Induction on a size, over a set instead of a predicate. *)
Inductive(D, size, A) ==
  /\ size \in [D -> Nat] /\ A \in SUBSET D
  /\ \A d \in D : (\A e \in D : size[e] < size[d] => e \in A) => d \in A

LEMMA SizeInduction == ASSUME NEW D, NEW size, NEW A, Inductive(D, size, A) PROVE A = D
<1>0. /\ size \in [D -> Nat] /\ A \in SUBSET D
      /\ \A d \in D : (\A e \in D : size[e] < size[d] => e \in A) => d \in A
  BY DEF Inductive
<1> USE <1>0
<1>1. SUFFICES ASSUME NEW d \in D \ A PROVE FALSE
  OBVIOUS
<1> DEFINE B == {size[e] : e \in D \ A}
<1>2. B \in SUBSET Nat /\ B # {}
  BY <1>1
<1>3. PICK n \in B : \A m \in B : n <= m
  BY <1>2, LeastOf
<1>4. PICK x \in D \ A : size[x] = n
  OBVIOUS
<1>5. \A e \in D : size[e] < size[x] => e \in A
  <2>1. \A e \in D \ A : size[x] <= size[e] /\ size[e] \in Nat
    BY <1>3, <1>4
  <2> QED  BY <2>1, <1>4
<1> QED  BY <1>4, <1>5

(* A function that calls itself once, on something smaller, exists. *)
Measured(D, V, size, next, base, b, h) ==
  /\ size \in [D -> Nat] /\ next \in [D -> D] /\ base \in SUBSET D
  /\ b \in [D -> V] /\ h \in [D \X V -> V]
  /\ \A d \in D \ base : size[next[d]] < size[d]

LEMMA Recursion ==
  ASSUME NEW D, NEW V, NEW size, NEW next, NEW base, NEW b, NEW h,
         Measured(D, V, size, next, base, b, h)
  PROVE  \E f \in [D -> V] : \A d \in D : f[d] = IF d \in base THEN b[d] ELSE h[<<d, f[next[d]]>>]
<1>0. /\ size \in [D -> Nat] /\ next \in [D -> D] /\ base \in SUBSET D
      /\ b \in [D -> V] /\ h \in [D \X V -> V]
      /\ \A d \in D \ base : size[next[d]] < size[d]
  BY DEF Measured
<1> USE <1>0
<1> DEFINE Below(n) == {d \in D : size[d] < n}
           Solves(n, g) == \A d \in Below(n) : g[d] = IF d \in base THEN b[d]
                                                      ELSE h[<<d, g[next[d]]>>]
           Unique(d) == \A n, m \in Nat : \A g \in [Below(n) -> V], k \in [Below(m) -> V] :
                          Solves(n, g) /\ Solves(m, k) /\ d \in Below(n) /\ d \in Below(m)
                            => g[d] = k[d]
<1>1. \A d \in D : Unique(d)
  <2> DEFINE A == {d \in D : Unique(d)}
  <2>1. ASSUME NEW d \in D, \A e \in D : size[e] < size[d] => e \in A
        PROVE  d \in A
    <3> SUFFICES ASSUME NEW n \in Nat, NEW m \in Nat, NEW g \in [Below(n) -> V],
                        NEW k \in [Below(m) -> V], Solves(n, g), Solves(m, k),
                        d \in Below(n), d \in Below(m)
                 PROVE  g[d] = k[d]
      <4> HIDE DEF Below, Solves
      <4> QED  OBVIOUS
    <3>1. CASE d \in base
      BY <3>1
    <3>2. CASE d \notin base
      <4>1. next[d] \in D /\ size[next[d]] < size[d] /\ size[next[d]] \in Nat /\ size[d] \in Nat
        BY <3>2
      <4>2. next[d] \in Below(n) /\ next[d] \in Below(m)
        <5> HIDE DEF Solves, Unique, A
        <5> QED  BY <4>1
      <4>3. Unique(next[d])
        <5>1. next[d] \in A
          <6> HIDE DEF Solves, Unique, A, Below
          <6> QED  BY <4>1, <2>1
        <5> HIDE DEF Solves, Unique, Below
        <5> QED  BY <5>1
      <4>4. g[next[d]] = k[next[d]]
        <5> HIDE DEF Solves, Below, A
        <5> QED  BY <4>2, <4>3
      <4>5. g[d] = h[<<d, g[next[d]]>>] /\ k[d] = h[<<d, k[next[d]]>>]
        <5> HIDE DEF Unique, Below, A
        <5> QED  BY <3>2
      <4> QED  BY <4>4, <4>5
    <3> QED  BY <3>1, <3>2
  <2> HIDE DEF Unique
  <2>2. A \in SUBSET D
    OBVIOUS
  <2>3. A = D
    <3> HIDE DEF A
    <3>1. Inductive(D, size, A)
      BY <2>1, <2>2 DEF Inductive
    <3> QED  BY <3>1, SizeInduction
  <2> QED  BY <2>3
<1>2. \A n \in Nat : \E g \in [Below(n) -> V] : Solves(n, g)
  <2> DEFINE N == {n \in Nat : \E g \in [Below(n) -> V] : Solves(n, g)}
  <2>1. 0 \in N
    <3>1. Below(0) = {}
      OBVIOUS
    <3>2. [x \in {} |-> x] \in [Below(0) -> V] /\ Solves(0, [x \in {} |-> x])
      BY <3>1
    <3> QED  BY <3>2
  <2>2. ASSUME NEW n \in Nat, n \in N PROVE n + 1 \in N
    <3>1. PICK g \in [Below(n) -> V] : Solves(n, g)
      BY <2>2
    <3> DEFINE k == [d \in Below(n + 1) |-> IF d \in base THEN b[d] ELSE h[<<d, g[next[d]]>>]]
    <3>2. ASSUME NEW d \in Below(n + 1), d \notin base
          PROVE  next[d] \in Below(n) /\ g[next[d]] \in V /\ <<d, g[next[d]]>> \in D \X V
      <4>1. next[d] \in D /\ size[next[d]] < size[d] /\ size[next[d]] \in Nat /\ size[d] \in Nat
            /\ size[d] < n + 1
        BY <3>2
      <4> QED  BY <4>1
    <3>3. k \in [Below(n + 1) -> V]
      BY <3>2
    <3>4. \A d \in Below(n) : d \in Below(n + 1) /\ k[d] = g[d]
      <4>1. \A d \in Below(n) : d \in Below(n + 1)
        OBVIOUS
      <4> QED  BY <3>1, <4>1
    <3>5. Solves(n + 1, k)
      <4> SUFFICES ASSUME NEW d \in Below(n + 1)
                   PROVE  k[d] = IF d \in base THEN b[d] ELSE h[<<d, k[next[d]]>>]
        OBVIOUS
      <4>1. CASE d \in base
        BY <4>1
      <4>2. CASE d \notin base
        <5>1. k[next[d]] = g[next[d]]
          BY <3>2, <3>4, <4>2
        <5>2. k[d] = h[<<d, g[next[d]]>>]
          BY <4>2
        <5> HIDE DEF Below, Solves, k
        <5> QED  BY <4>2, <5>1, <5>2
      <4> QED  BY <4>1, <4>2
    <3> HIDE DEF Below, Solves, k
    <3> QED  BY <3>3, <3>5
  <2>3. N = Nat
    <3> HIDE DEF N
    <3>1. N \in SUBSET Nat /\ (\A m \in Nat : m \in N => m + 1 \in N)
      BY <2>2 DEF N
    <3>2. SUFFICES ASSUME Nat \ N # {} PROVE FALSE
      BY <3>1
    <3>3. PICK x \in Nat \ N : \A y \in Nat \ N : x <= y
      <4>1. Nat \ N \in SUBSET Nat
        OBVIOUS
      <4> QED  BY <3>2, <4>1, LeastOf
    <3>4. x # 0
      BY <2>1
    <3>5. x - 1 \in Nat /\ x - 1 \notin Nat \ N /\ (x - 1) + 1 = x
      BY <3>3, <3>4
    <3> QED  BY <3>1, <3>5
  <2> QED  BY <2>3
<1> DEFINE sol == [n \in Nat |-> CHOOSE g : g \in [Below(n) -> V] /\ Solves(n, g)]
           f == [d \in D |-> sol[size[d] + 1][d]]
<1>3. \A n \in Nat : sol[n] \in [Below(n) -> V] /\ Solves(n, sol[n])
  <2> SUFFICES ASSUME NEW n \in Nat PROVE sol[n] \in [Below(n) -> V] /\ Solves(n, sol[n])
    OBVIOUS
  <2>1. sol[n] = CHOOSE g : g \in [Below(n) -> V] /\ Solves(n, g)
    OBVIOUS
  <2>2. \E g : g \in [Below(n) -> V] /\ Solves(n, g)
    <3> HIDE DEF Below, Solves, sol, f
    <3> QED  BY <1>2
  <2> HIDE DEF Below, Solves, sol
  <2> QED  BY <2>1, <2>2
<1>4. \A d \in D : size[d] + 1 \in Nat /\ d \in Below(size[d] + 1)
  OBVIOUS
<1>5. f \in [D -> V]
  <2> SUFFICES ASSUME NEW d \in D PROVE sol[size[d] + 1][d] \in V
    OBVIOUS
  <2> HIDE DEF Below, sol, Solves
  <2> QED  BY <1>3, <1>4
<1>6. ASSUME NEW d \in D
      PROVE  f[d] = IF d \in base THEN b[d] ELSE h[<<d, f[next[d]]>>]
  <2> DEFINE g == sol[size[d] + 1]
  <2>1. f[d] = g[d] /\ d \in Below(size[d] + 1) /\ g \in [Below(size[d] + 1) -> V]
        /\ Solves(size[d] + 1, g)
    <3>1. f[d] = g[d]
      OBVIOUS
    <3> HIDE DEF Below, sol, Solves, f
    <3> QED  BY <1>3, <1>4, <3>1
  <2>2. g[d] = IF d \in base THEN b[d] ELSE h[<<d, g[next[d]]>>]
    <3> HIDE DEF g
    <3> QED  BY <2>1
  <2>3. d \notin base => f[next[d]] = g[next[d]]
    <3> SUFFICES ASSUME d \notin base PROVE f[next[d]] = g[next[d]]
      OBVIOUS
    <3> DEFINE e == next[d]
    <3>1. e \in D /\ size[e] < size[d] /\ size[e] \in Nat /\ size[d] \in Nat
      OBVIOUS
    <3>2. e \in Below(size[d] + 1) /\ e \in Below(size[e] + 1)
      BY <3>1
    <3>3. f[e] = sol[size[e] + 1][e]
      BY <3>1
    <3>4. sol[size[e] + 1] \in [Below(size[e] + 1) -> V] /\ Solves(size[e] + 1, sol[size[e] + 1])
          /\ size[e] + 1 \in Nat /\ size[d] + 1 \in Nat
      <4> HIDE DEF sol, Solves, Below, e
      <4> QED  BY <3>1, <1>3
    <3>5. sol[size[e] + 1][e] = g[e]
      <4> HIDE DEF sol, Solves, Below, e, f, g
      <4>1. Unique(e)
        BY <1>1, <3>1
      <4> HIDE DEF Unique
      <4>2. PICK n \in Nat : n = size[e] + 1
        BY <3>4
      <4>3. e \in Below(n) /\ sol[n] \in [Below(n) -> V] /\ Solves(n, sol[n])
        BY <3>2, <3>4, <4>2
      <4>4. PICK m \in Nat : m = size[d] + 1
        BY <3>4
      <4>5. e \in Below(m) /\ g \in [Below(m) -> V] /\ Solves(m, g)
        BY <3>2, <2>1, <4>4
      <4>6. sol[n][e] = g[e]
        BY <4>1, <4>3, <4>5 DEF Unique
      <4> QED  BY <4>2, <4>6
    <3> QED  BY <3>3, <3>5
  <2> HIDE DEF f, g, sol
  <2> QED  BY <2>1, <2>2, <2>3
<1> QED
  <2> HIDE DEF f
  <2> QED  BY <1>5, <1>6

------------------------------------------------------------------------------
(* What Feed and Intact compute.                                           *)
Fed == [frames : Seq(Message), pending : Seq(Part)]

LEMMA Tails ==
  ASSUME NEW p \in Seq(Part), p # << >>
  PROVE  /\ p[1] \in Part /\ Tail(p) \in Seq(Part) /\ Len(Tail(p)) = Len(p) - 1
         /\ Len(p) \in Nat /\ Len(p) > 0
         /\ \A i \in 1..Len(Tail(p)) : Tail(p)[i] = p[i + 1]
         /\ p = <<p[1]>> \o Tail(p)
<1>1. /\ p[1] \in Part /\ Tail(p) \in Seq(Part) /\ Len(Tail(p)) = Len(p) - 1
      /\ Len(p) \in Nat /\ Len(p) > 0
      /\ \A i \in 1..Len(Tail(p)) : Tail(p)[i] = p[i + 1]
  OBVIOUS
<1>2. p = <<p[1]>> \o Tail(p)
  OBVIOUS
<1> QED  BY <1>1, <1>2

LEMMA Thirds ==
  ASSUME NEW p \in Seq(Part), Joined(p)
  PROVE  /\ SubSeq(p, 3, Len(p)) \in Seq(Part) /\ Len(SubSeq(p, 3, Len(p))) = Len(p) - 2
         /\ p[1] \in Part /\ p[2] \in Part /\ p[1].of \in Message /\ p # << >>
         /\ Tail(p) # << >> /\ Tail(Tail(p)) = SubSeq(p, 3, Len(p))
         /\ Tail(p)[1] = p[2] /\ ~Joined(Tail(p))
<1>1. Len(p) \in Nat /\ Len(p) > 1 /\ p[1] \in Part /\ p[2] \in Part /\ p # << >>
      /\ p[2].part = "rest"
  BY DEF Joined
<1>2. SubSeq(p, 3, Len(p)) \in Seq(Part) /\ Len(SubSeq(p, 3, Len(p))) = Len(p) - 2
      /\ \A i \in 1..(Len(p) - 2) : SubSeq(p, 3, Len(p))[i] = p[i + 2]
  <2>1. \A i \in 3..Len(p) : p[i] \in Part
    OBVIOUS
  <2>2. Len(p) - 3 + 1 = Len(p) - 2 /\ \A i \in 1..(Len(p) - 2) : 3 + i - 1 = i + 2
    BY <1>1
  <2>3. 3 \in Nat /\ 3 \in 1..(Len(p) + 1) /\ Len(p) \in 3 - 1 .. Len(p)
    BY <1>1
  <2> QED  BY <1>1, <2>1, <2>2, <2>3, SubSeqProperties
<1>3. Tail(p) # << >> /\ Tail(Tail(p)) = SubSeq(p, 3, Len(p)) /\ Tail(p)[1] = p[2]
  <2>1. Tail(p) # << >> /\ Tail(p)[1] = p[2]
    <3>1. Len(Tail(p)) = Len(p) - 1 /\ 1 \in 1..Len(Tail(p)) /\ 1 + 1 = 2
      BY <1>1, HeadTailProperties
    <3>2. \A i \in 1..Len(Tail(p)) : Tail(p)[i] = p[i + 1]
      BY <1>1, HeadTailProperties
    <3>3. Tail(p) # << >>
      BY <3>1
    <3> QED  BY <3>1, <3>2, <3>3
  <2>2. Tail(p) = SubSeq(p, 2, Len(p))
    BY <1>1, TailIsSubSeq
  <2>3. 2 \in 1..Len(p) /\ Len(p) \in 2..Len(p) /\ 2 + 1 = 3
    BY <1>1
  <2>4. Tail(SubSeq(p, 2, Len(p))) = SubSeq(p, 2 + 1, Len(p))
    BY <2>3, HeadTailOfSubSeq
  <2> QED  BY <2>1, <2>2, <2>3, <2>4
<1>4. ~Joined(Tail(p))
  BY <1>1, <1>3 DEF Joined
<1> QED  BY <1>1, <1>2, <1>3, <1>4 DEF Part

FeedBody(g, p) ==
  IF p = << >> THEN [frames |-> << >>, pending |-> << >>]
  ELSE IF p[1].part = "rest" THEN g[Tail(p)]
  ELSE IF Len(p) <= Claims(p[1]) THEN [frames |-> << >>, pending |-> p]
  ELSE IF Joined(p)
  THEN LET more == g[SubSeq(p, 3, Len(p))]
       IN  [more EXCEPT !.frames = << p[1].of >> \o @]
  ELSE g[Tail(p)]

LEMMA Feeding == Feed \in [Seq(Part) -> Fed] /\ \A p \in Seq(Part) : Feed[p] = FeedBody(Feed, p)
<1> DEFINE D == Seq(Part)
           Whole(p) == p[1].part # "rest" /\ Len(p) > Claims(p[1]) /\ Joined(p)
           size == [p \in D |-> Len(p)]
           next == [p \in D |-> IF p = << >> THEN p
                                ELSE IF Whole(p) THEN SubSeq(p, 3, Len(p)) ELSE Tail(p)]
           base == {p \in D : p = << >> \/ (p[1].part # "rest" /\ Len(p) <= Claims(p[1]))}
           b == [p \in D |-> [frames |-> << >>, pending |-> p]]
           h == [x \in D \X Fed |-> IF Whole(x[1])
                                    THEN [x[2] EXCEPT !.frames = << x[1][1].of >> \o @]
                                    ELSE x[2]]
<1>1. size \in [D -> Nat] /\ base \in SUBSET D
  OBVIOUS
<1>2. next \in [D -> D]
  <2> SUFFICES ASSUME NEW p \in D PROVE next[p] \in D
    OBVIOUS
  <2> QED  BY Tails, Thirds
<1>3. b \in [D -> Fed]
  BY DEF Fed
<1>4. h \in [D \X Fed -> Fed]
  <2> SUFFICES ASSUME NEW p \in D, NEW v \in Fed, Whole(p)
               PROVE  [v EXCEPT !.frames = << p[1].of >> \o @] \in Fed
    OBVIOUS
  <2>1. p[1].of \in Message
    BY Thirds
  <2>2. << p[1].of >> \o v.frames \in Seq(Message)
    BY <2>1 DEF Fed
  <2> QED  BY <2>2 DEF Fed
<1>5. \A p \in D \ base : size[next[p]] < size[p]
  <2> SUFFICES ASSUME NEW p \in D \ base PROVE size[next[p]] < size[p]
    OBVIOUS
  <2>1. p # << >> /\ next[p] \in D
    BY <1>2
  <2>2. size[next[p]] = Len(next[p]) /\ size[p] = Len(p)
    BY <2>1
  <2>3. CASE Whole(p)
    BY <2>1, <2>2, <2>3, Thirds, Tails
  <2>4. CASE ~Whole(p)
    BY <2>1, <2>2, <2>4, Tails
  <2> QED  BY <2>3, <2>4
<1>6. PICK f \in [D -> Fed] :
        \A p \in D : f[p] = IF p \in base THEN b[p] ELSE h[<<p, f[next[p]]>>]
  <2> HIDE DEF D, size, next, base, b, h
  <2>1. Measured(D, Fed, size, next, base, b, h)
    BY <1>1, <1>2, <1>3, <1>4, <1>5 DEF Measured
  <2> QED  BY <2>1, Recursion
<1>7. ASSUME NEW p \in D PROVE f[p] = FeedBody(f, p)
  <2>1. CASE p \in base
    BY <1>6, <2>1 DEF FeedBody
  <2>2. CASE p \notin base
    <3>1. p # << >> /\ next[p] \in D /\ f[next[p]] \in Fed
      BY <1>2, <2>2
    <3>2. f[p] = h[<<p, f[next[p]]>>]
      BY <1>6, <2>2
    <3>3. h[<<p, f[next[p]]>>] = IF Whole(p)
                                 THEN [f[next[p]] EXCEPT !.frames = << p[1].of >> \o @]
                                 ELSE f[next[p]]
      BY <3>1
    <3>4. Len(p) \in Nat /\ Claims(p[1]) \in Nat
      BY BridgeConstants DEF Claims
    <3>5. next[p] = IF Whole(p) THEN SubSeq(p, 3, Len(p)) ELSE Tail(p)
      BY <3>1
    <3> HIDE DEF next, size, h
    <3> QED  BY <2>2, <3>1, <3>2, <3>3, <3>4, <3>5 DEF FeedBody
  <2> QED  BY <2>1, <2>2
<1>8. f = [p \in D |-> FeedBody(f, p)]
  <2> QED  BY <1>7
<1>9. Feed = CHOOSE g : g = [p \in D |-> FeedBody(g, p)]
  BY DEF Feed, FeedBody
<1>10. Feed = [p \in D |-> FeedBody(Feed, p)]
  <2> QED  BY <1>8, <1>9
<1>11. \A p \in D : Feed[p] \in Fed
  <2> DEFINE A == {p \in D : Feed[p] \in Fed}
  <2>1. ASSUME NEW p \in D, \A e \in D : size[e] < size[p] => e \in A
        PROVE  p \in A
    <3>1. CASE p \in base
      <4>1. Feed[p] = FeedBody(Feed, p)
        BY <1>10
      <4>2. FeedBody(Feed, p) = [frames |-> << >>, pending |-> p]
        BY <3>1 DEF FeedBody
      <4>3. << >> \in Seq(Message)
        OBVIOUS
      <4>4. [frames |-> << >>, pending |-> p] \in Fed
        BY <4>3 DEF Fed
      <4> QED  BY <4>1, <4>2, <4>4
    <3>2. CASE p \notin base
      <4>1. p # << >> /\ next[p] \in D /\ Len(p) \in Nat /\ Claims(p[1]) \in Nat
        BY <1>2, <3>2, BridgeConstants DEF Claims
      <4>2. Feed[next[p]] \in Fed
        <5> HIDE DEF next, size, base
        <5> QED  BY <1>5, <2>1, <3>2, <4>1
      <4>3. <<p, Feed[next[p]]>> \in D \X Fed
        BY <4>1, <4>2
      <4>4. h[<<p, Feed[next[p]]>>] \in Fed
        <5> HIDE DEF next, size, base, h
        <5> QED  BY <1>4, <4>3
      <4>5. h[<<p, Feed[next[p]]>>] = IF Whole(p)
              THEN [Feed[next[p]] EXCEPT !.frames = << p[1].of >> \o @] ELSE Feed[next[p]]
        BY <4>3
      <4>6. Feed[p] = FeedBody(Feed, p)
        <5> QED  BY <1>10
      <4>7. FeedBody(Feed, p) = h[<<p, Feed[next[p]]>>]
        <5>1. next[p] = IF Whole(p) THEN SubSeq(p, 3, Len(p)) ELSE Tail(p)
          BY <4>1
        <5> HIDE DEF next, size, h
        <5> QED  BY <3>2, <4>1, <4>5, <5>1 DEF FeedBody
      <4> QED
        <5> HIDE DEF next, size, h, base
        <5> QED  BY <4>4, <4>6, <4>7
    <3> QED  BY <3>1, <3>2
  <2>2. A = D
    <3>1. A \in SUBSET D
      OBVIOUS
    <3> HIDE DEF A, size, D
    <3>2. Inductive(D, size, A)
      BY <1>1, <2>1, <3>1 DEF Inductive
    <3> QED  BY <3>2, SizeInduction
  <2> QED  BY <2>2
<1>12. Feed \in [D -> Fed]
  <2>1. DOMAIN Feed = D /\ Feed = [p \in D |-> Feed[p]]
    <3> QED  BY <1>10
  <2> QED  BY <1>11, <2>1
<1> QED
  <2>1. \A p \in D : Feed[p] = FeedBody(Feed, p)
    <3> QED  BY <1>10
  <2> QED  BY <1>12, <2>1

LEMMA Intacts ==
  /\ Intact \in [Seq(Part) -> Seq(Message)]
  /\ \A p \in Seq(Part) :
       Intact[p] = IF p = << >> THEN << >>
                   ELSE (IF Joined(p) THEN << p[1].of >> ELSE << >>) \o Intact[Tail(p)]
<1> DEFINE D == Seq(Part)
           V == Seq(Message)
           Mine(p) == IF Joined(p) THEN << p[1].of >> ELSE << >>
           size == [p \in D |-> Len(p)]
           next == [p \in D |-> IF p = << >> THEN p ELSE Tail(p)]
           base == {p \in D : p = << >>}
           b == [p \in D |-> << >>]
           h == [x \in D \X V |-> Mine(x[1]) \o x[2]]
<1>1. size \in [D -> Nat] /\ base \in SUBSET D /\ b \in [D -> V]
  OBVIOUS
<1>2. next \in [D -> D]
  BY Tails
<1>3. \A p \in D : Mine(p) \in V
  BY Thirds
<1>4. h \in [D \X V -> V]
  <2> SUFFICES ASSUME NEW p \in D, NEW v \in V PROVE Mine(p) \o v \in V
    OBVIOUS
  <2> HIDE DEF Mine
  <2> QED  BY <1>3
<1>5. \A p \in D \ base : size[next[p]] < size[p]
  BY Tails
<1>6. PICK f \in [D -> V] :
        \A p \in D : f[p] = IF p \in base THEN b[p] ELSE h[<<p, f[next[p]]>>]
  <2> HIDE DEF D, V, size, next, base, b, h
  <2>1. Measured(D, V, size, next, base, b, h)
    BY <1>1, <1>2, <1>4, <1>5 DEF Measured
  <2> QED  BY <2>1, Recursion
<1> DEFINE Body(g, p) == IF p = << >> THEN << >> ELSE Mine(p) \o g[Tail(p)]
<1>7. ASSUME NEW p \in D PROVE f[p] = Body(f, p)
  <2>1. CASE p = << >>
    <3>1. p \in base /\ b[p] = << >>
      BY <2>1
    <3> HIDE DEF base, b, next, h, Mine
    <3> QED  BY <1>6, <2>1, <3>1
  <2>2. CASE p # << >>
    <3>1. p \notin base /\ Tail(p) \in D /\ next[p] = Tail(p)
      BY <2>2, Tails
    <3>2. f[Tail(p)] \in V
      BY <3>1
    <3>3. h[<<p, f[Tail(p)]>>] = Mine(p) \o f[Tail(p)]
      <4> HIDE DEF Mine
      <4> QED  BY <3>2
    <3> HIDE DEF base, b, next, h, Mine
    <3> QED  BY <1>6, <2>2, <3>1, <3>3
  <2> QED  BY <2>1, <2>2
<1>8. f = [p \in D |-> Body(f, p)]
  <2> HIDE DEF Body
  <2> QED  BY <1>7
<1>9. Intact = CHOOSE g : g = [p \in D |-> Body(g, p)]
  BY DEF Intact
<1>10. Intact = [p \in D |-> Body(Intact, p)]
  <2> HIDE DEF Body
  <2> QED  BY <1>8, <1>9
<1>11. \A p \in D : Intact[p] = Body(Intact, p)
  <2> HIDE DEF Body
  <2> QED  BY <1>10
<1>12. \A p \in D : Intact[p] \in V
  <2> DEFINE A == {p \in D : Intact[p] \in V}
  <2>1. ASSUME NEW p \in D, \A e \in D : size[e] < size[p] => e \in A
        PROVE  p \in A
    <3>1. CASE p = << >>
      <4>1. << >> \in V /\ Intact[p] = << >>
        <5>1. Body(Intact, p) = << >> /\ << >> \in V
          BY <3>1
        <5> HIDE DEF Body, V, b, h, next, size, base
        <5> QED  BY <1>11, <5>1
      <4> HIDE DEF Body
      <4> QED  BY <4>1
    <3>2. CASE p # << >>
      <4>1. Tail(p) \in D /\ size[Tail(p)] < size[p]
        BY <3>2, Tails
      <4>2. Intact[Tail(p)] \in V
        <5> HIDE DEF size, Body
        <5> QED  BY <2>1, <4>1
      <4>3. Mine(p) \o Intact[Tail(p)] \in V
        <5> HIDE DEF Mine
        <5> QED  BY <1>3, <4>2
      <4>4. Intact[p] = Mine(p) \o Intact[Tail(p)]
        BY <1>11, <3>2
      <4> HIDE DEF Mine, Body
      <4> QED  BY <4>3, <4>4
    <3> QED  BY <3>1, <3>2
  <2>2. A = D
    <3>1. A \in SUBSET D /\ size \in [D -> Nat]
      OBVIOUS
    <3> HIDE DEF A, size, D, b, h, base, next
    <3>2. Inductive(D, size, A)
      BY <2>1, <3>1 DEF Inductive
    <3> QED  BY <3>2, SizeInduction
  <2> QED  BY <2>2
<1>13. Intact \in [D -> V]
  <2>1. Intact = [p \in D |-> Intact[p]]
    <3> HIDE DEF Body
    <3> QED  BY <1>10
  <2> HIDE DEF Body, V
  <2> QED  BY <1>12, <2>1
<1> QED  BY <1>11, <1>13

(* Induction over lists of parts, a part at a time. *)
LEMMA PartsInduction ==
  ASSUME NEW A \in SUBSET Seq(Part),
         \A p \in Seq(Part) : (\A q \in Seq(Part) : Len(q) < Len(p) => q \in A) => p \in A
  PROVE  A = Seq(Part)
<1> DEFINE D == Seq(Part)
           size == [p \in D |-> Len(p)]
<1>1. size \in [D -> Nat] /\ A \in SUBSET D
  OBVIOUS
<1>2. ASSUME NEW p \in D, \A q \in D : size[q] < size[p] => q \in A
      PROVE  p \in A
  BY <1>2
<1>3. A = D
  <2> HIDE DEF size, D
  <2>1. Inductive(D, size, A)
    BY <1>1, <1>2 DEF Inductive
  <2> QED  BY <2>1, SizeInduction
<1> QED  BY <1>3

LEMMA FirstOfTwo ==
  ASSUME NEW p \in Seq(Part), p # << >>, NEW t \in Seq(Part)
  PROVE  /\ p \o t \in Seq(Part) /\ p \o t # << >> /\ (p \o t)[1] = p[1]
         /\ Tail(p \o t) = Tail(p) \o t
         /\ Len(p) > 1 => (Joined(p \o t) = Joined(p))
<1>1. p \o t \in Seq(Part) /\ Len(p \o t) = Len(p) + Len(t) /\ Len(p) > 0
      /\ Len(p) \in Nat /\ Len(t) \in Nat
      /\ \A i \in 1..Len(p) : (p \o t)[i] = p[i]
  OBVIOUS
<1>2. p \o t # << >> /\ (p \o t)[1] = p[1]
  BY <1>1
<1>3. Tail(p \o t) = Tail(p) \o t
  <2>1. Tail(p) \in Seq(Part) /\ Len(Tail(p)) = Len(p) - 1
        /\ (\A i \in 1..(Len(p) - 1) : Tail(p)[i] = p[i + 1])
    OBVIOUS
  <2> QED  BY <1>1, <2>1
<1>4. Len(p) > 1 => (Joined(p \o t) = Joined(p))
  BY <1>1, <1>2 DEF Joined
<1>5. /\ p \o t \in Seq(Part) /\ p \o t # << >> /\ (p \o t)[1] = p[1]
      /\ Tail(p \o t) = Tail(p) \o t
  BY <1>1, <1>2, <1>3
<1> QED  BY <1>4, <1>5

LEMMA PartsJoin ==
  /\ \A a \in Seq(Part) : << >> \o a = a /\ a \o << >> = a
  /\ \A a, b \in Seq(Part) : a \o b \in Seq(Part)
BY ConcatEmptySeq

LEMMA Regroup == \A a, b, c \in Seq(Part) : (a \o b) \o c = a \o (b \o c)
BY ConcatAssociative

RegroupedLast(a, b, c, d) ==
  a \o (b \o c) \in Seq(Part) /\ a \o (b \o (c \o d)) = (a \o (b \o c)) \o d

LEMMA RegroupFour ==
  ASSUME NEW a \in Seq(Part), NEW b \in Seq(Part), NEW c \in Seq(Part), NEW d \in Seq(Part)
  PROVE  RegroupedLast(a, b, c, d)
<1>1. b \o c \in Seq(Part) /\ a \o (b \o c) \in Seq(Part)
  BY PartsJoin, Zenon
<1>2. (b \o c) \o d = b \o (c \o d)
  BY Regroup, Zenon
<1>3. (a \o (b \o c)) \o d = a \o ((b \o c) \o d)
  <2>1. PICK e \in Seq(Part) : e = b \o c
    BY <1>1
  <2>2. \A y, z \in Seq(Part) : (a \o y) \o z = a \o (y \o z)
    BY Regroup, Zenon
  <2>3. \A z \in Seq(Part) : (a \o e) \o z = a \o (e \o z)
    BY <2>2, Zenon
  <2>4. (a \o e) \o d = a \o (e \o d)
    BY <2>3, Zenon
  <2> QED  BY <2>1, <2>4
<1> QED  BY <1>1, <1>2, <1>3, Zenon DEF RegroupedLast

LEMMA FramesJoin ==
  /\ \A a \in Seq(Message) : << >> \o a = a /\ a \o << >> = a
  /\ \A a, b \in Seq(Message) : a \o b \in Seq(Message)
BY ConcatEmptySeq

LEMMA RegroupFrames == \A a, b, c \in Seq(Message) : (a \o b) \o c = a \o (b \o c)
BY ConcatAssociative

LEMMA Passed ==
  ASSUME NEW p \in Seq(Part), p # << >>, NEW t \in Seq(Part), ~Joined(p \o t)
  PROVE  Intact[p \o t] = Intact[Tail(p) \o t]
<1>1. p \o t \in Seq(Part) /\ p \o t # << >> /\ Tail(p \o t) = Tail(p) \o t
      /\ Tail(p) \o t \in Seq(Part)
  BY FirstOfTwo, Tails
<1>2. Intact[p \o t] = << >> \o Intact[Tail(p) \o t]
  BY <1>1, Intacts
<1>3. Intact[Tail(p) \o t] \in Seq(Message)
  BY <1>1, Intacts
<1> QED  BY <1>2, <1>3

(* A whole frame in front is the first of the frames. *)
LEMMA Taken ==
  ASSUME NEW p \in Seq(Part), Joined(p), NEW t \in Seq(Part)
  PROVE  Intact[p \o t] = << p[1].of >> \o Intact[SubSeq(p, 3, Len(p)) \o t]
<1>1. p # << >> /\ Tail(p) # << >> /\ Tail(Tail(p)) = SubSeq(p, 3, Len(p)) /\ Len(p) > 1
      /\ Tail(p) \in Seq(Part) /\ Tail(p)[1] = p[2] /\ p[2].part = "rest"
  BY Thirds, Tails DEF Joined
<1>2. /\ p \o t \in Seq(Part) /\ p \o t # << >> /\ (p \o t)[1] = p[1]
      /\ Tail(p \o t) = Tail(p) \o t /\ Joined(p \o t)
  BY <1>1, FirstOfTwo
<1>3. Intact[p \o t] = << p[1].of >> \o Intact[Tail(p) \o t]
  BY <1>2, Intacts
<1>4. (Tail(p) \o t)[1].part = "rest"
  BY <1>1, FirstOfTwo
<1>5. ~Joined(Tail(p) \o t)
  BY <1>4 DEF Joined
<1>6. Intact[Tail(p) \o t] = Intact[SubSeq(p, 3, Len(p)) \o t]
  BY <1>1, <1>5, Passed
<1> QED  BY <1>3, <1>6

(* What the Reader hands over and keeps is what was under way. *)
FeedsWell(p) ==
  /\ \A t \in Seq(Part) : Intact[p \o t] = Feed[p].frames \o Intact[Feed[p].pending \o t]
  /\ \E q \in Seq(Part) : p = q \o Feed[p].pending
  /\ Len(Feed[p].pending) <= Stretch

LEMMA Feeds == \A p \in Seq(Part) : FeedsWell(p)
<1> DEFINE A == {p \in Seq(Part) : FeedsWell(p)}
<1>1. ASSUME NEW p \in Seq(Part), \A q \in Seq(Part) : Len(q) < Len(p) => q \in A
      PROVE  FeedsWell(p)
  <2>0. Feed[p] \in Fed
    BY Feeding
  <2>1. CASE p = << >>
    <3>1. Feed[p].frames = << >> /\ Feed[p].pending = << >>
      <4>1. Feed[p] = FeedBody(Feed, p)
        BY Feeding
      <4> QED  BY <2>1, <4>1 DEF FeedBody
    <3>2. Len(<< >>) <= Stretch /\ p = << >> \o << >> /\ << >> \in Seq(Part)
      BY <2>1, BridgeConstants
    <3>3. \A t \in Seq(Part) : Intact[<< >> \o t] \in Seq(Message)
      BY Intacts, PartsJoin, <3>2
    <3>4. \A t \in Seq(Part) : << >> \o Intact[<< >> \o t] = Intact[<< >> \o t]
      BY <3>3, FramesJoin
    <3> QED  BY <2>1, <3>1, <3>2, <3>4 DEF FeedsWell
  <2>2. CASE p # << >> /\ p[1].part # "rest" /\ Len(p) <= Claims(p[1])
    <3>1. Feed[p].frames = << >> /\ Feed[p].pending = p
      <4>1. Feed[p] = FeedBody(Feed, p)
        BY Feeding
      <4> QED  BY <2>2, <4>1 DEF FeedBody
    <3>2. Len(p) <= Stretch /\ p = << >> \o p /\ << >> \in Seq(Part)
      BY <2>2, BridgeConstants, PartsJoin DEF Claims
    <3>3. \A t \in Seq(Part) : Intact[p \o t] \in Seq(Message)
      BY Intacts, PartsJoin
    <3>4. \A t \in Seq(Part) : << >> \o Intact[p \o t] = Intact[p \o t]
      BY <3>3, FramesJoin
    <3> QED  BY <3>1, <3>2, <3>4 DEF FeedsWell
  <2>3. CASE p # << >> /\ (p[1].part = "rest" \/ (Len(p) > Claims(p[1]) /\ ~Joined(p)))
    <3>1. Tail(p) \in Seq(Part) /\ Len(Tail(p)) < Len(p) /\ p = <<p[1]>> \o Tail(p)
          /\ p[1] \in Part /\ Len(p) \in Nat
      BY <2>3, Tails
    <3>2. FeedsWell(Tail(p)) /\ Feed[Tail(p)] \in Fed
      BY <1>1, <3>1, Feeding
    <3>3. Feed[p] = Feed[Tail(p)]
      <4>1. Claims(p[1]) \in Nat
        BY BridgeConstants DEF Claims
      <4>2. Feed[p] = FeedBody(Feed, p)
        BY Feeding
      <4> QED  BY <2>3, <3>1, <4>1, <4>2 DEF FeedBody
    <3>4. ASSUME NEW t \in Seq(Part) PROVE ~Joined(p \o t)
      <4>1. (p \o t)[1] = p[1]
        BY <2>3, FirstOfTwo
      <4>2. CASE p[1].part # "head"
        BY <4>1, <4>2 DEF Joined
      <4>3. CASE p[1].part = "head"
        <5>1. Len(p) > 1 /\ ~Joined(p)
          BY <2>3, <4>3 DEF Claims
        <5> QED  BY <2>3, <5>1, FirstOfTwo
      <4> QED  BY <4>2, <4>3
    <3>5. \A t \in Seq(Part) : Intact[p \o t] = Intact[Tail(p) \o t]
      BY <2>3, <3>4, Passed
    <3>6. PICK q \in Seq(Part) : Tail(p) = q \o Feed[Tail(p)].pending
      BY <3>2 DEF FeedsWell
    <3>7. <<p[1]>> \o q \in Seq(Part) /\ p = (<<p[1]>> \o q) \o Feed[Tail(p)].pending
      <4>1. Feed[Tail(p)].pending \in Seq(Part)
        BY <3>2 DEF Fed
      <4>2. <<p[1]>> \in Seq(Part)
        BY <3>1
      <4>3. <<p[1]>> \o (q \o Feed[Tail(p)].pending) = (<<p[1]>> \o q) \o Feed[Tail(p)].pending
        BY <3>2, <4>1, <4>2, Regroup, Zenon
      <4> QED  BY <3>1, <3>6, <4>2, <4>3, PartsJoin
    <3> QED  BY <3>2, <3>3, <3>5, <3>7 DEF FeedsWell
  <2>4. CASE p # << >> /\ p[1].part # "rest" /\ Len(p) > Claims(p[1]) /\ Joined(p)
    <3> DEFINE r == SubSeq(p, 3, Len(p))
    <3>1. r \in Seq(Part) /\ Len(r) < Len(p) /\ p[1] \in Part /\ p[2] \in Part
          /\ p[1].of \in Message /\ p = <<p[1]>> \o (<<p[2]>> \o r)
      <4>1. Len(p) \in Nat /\ Len(r) = Len(p) - 2 /\ r \in Seq(Part) /\ Tail(Tail(p)) = r
            /\ p[1] \in Part /\ p[2] \in Part /\ p[1].of \in Message /\ Tail(p) # << >>
            /\ Tail(p)[1] = p[2]
        BY <2>4, Thirds
      <4>2. Tail(p) \in Seq(Part) /\ p = <<p[1]>> \o Tail(p)
        BY <2>4, Tails
      <4>3. Tail(p) = <<p[2]>> \o r
        BY <4>1, <4>2, Tails
      <4> QED  BY <4>1, <4>2, <4>3
    <3>2. FeedsWell(r) /\ Feed[r] \in Fed
      BY <1>1, <3>1, Feeding
    <3>3. Feed[p] = [Feed[r] EXCEPT !.frames = << p[1].of >> \o @]
      <4>1. Claims(p[1]) \in Nat /\ Len(p) \in Nat
        BY BridgeConstants DEF Claims
      <4>2. Feed[p] = FeedBody(Feed, p)
        BY Feeding
      <4>3. FeedBody(Feed, p) = [Feed[r] EXCEPT !.frames = << p[1].of >> \o @]
        BY <2>4, <4>1 DEF FeedBody
      <4> QED  BY <4>2, <4>3
    <3>4. Feed[p].frames = << p[1].of >> \o Feed[r].frames /\ Feed[p].pending = Feed[r].pending
      BY <3>2, <3>3 DEF Fed
    <3> HIDE DEF r
    <3>5. ASSUME NEW t \in Seq(Part)
          PROVE  Intact[p \o t] = Feed[p].frames \o Intact[Feed[p].pending \o t]
      <4>1. Intact[p \o t] = << p[1].of >> \o Intact[r \o t]
        BY <2>4, Taken DEF r
      <4>2. Intact[r \o t] = Feed[r].frames \o Intact[Feed[r].pending \o t]
        BY <3>2 DEF FeedsWell
      <4>3. Feed[r].frames \in Seq(Message) /\ Feed[r].pending \o t \in Seq(Part)
        BY <3>2, PartsJoin DEF Fed
      <4>4. Intact[Feed[r].pending \o t] \in Seq(Message) /\ << p[1].of >> \in Seq(Message)
        <5>1. << p[1].of >> \in Seq(Message)
          BY <3>1
        <5> QED  BY <4>3, <5>1, Intacts
      <4> DEFINE a == << p[1].of >>
                 c == Intact[Feed[r].pending \o t]
      <4> HIDE DEF a, c
      <4>5. a \in Seq(Message) /\ c \in Seq(Message)
        BY <4>4 DEF a, c
      <4>6. (a \o Feed[r].frames) \o c = a \o (Feed[r].frames \o c)
        BY <4>3, <4>5, RegroupFrames, Zenon
      <4> QED  BY <3>4, <4>1, <4>2, <4>6 DEF a, c
    <3>6. PICK q \in Seq(Part) : r = q \o Feed[r].pending
      BY <3>2 DEF FeedsWell
    <3>7. \E u \in Seq(Part) : p = u \o Feed[p].pending
      <4>1. Feed[r].pending \in Seq(Part) /\ <<p[1]>> \in Seq(Part) /\ <<p[2]>> \in Seq(Part)
        BY <3>1, <3>2 DEF Fed
      <4> DEFINE x == <<p[1]>>
                 y == <<p[2]>>
                 z == Feed[r].pending
      <4>2. x \in Seq(Part) /\ y \in Seq(Part) /\ z \in Seq(Part) /\ q \in Seq(Part)
        BY <3>6, <4>1
      <4>5. r = q \o z /\ p = x \o (y \o r)
        BY <3>1, <3>6
      <4> HIDE DEF x, y, z
      <4>4. p = (x \o (y \o q)) \o z /\ x \o (y \o q) \in Seq(Part)
        <5>1. RegroupedLast(x, y, q, z)
          BY <4>2, RegroupFour, Zenon
        <5> QED  BY <4>5, <5>1, Zenon DEF RegroupedLast
      <4> QED  BY <3>4, <4>4 DEF z
    <3> QED  BY <3>2, <3>4, <3>5, <3>7 DEF FeedsWell
  <2>5. Len(p) \in Nat /\ Claims(p[1]) \in Nat
    BY BridgeConstants DEF Claims
  <2> QED  BY <2>1, <2>2, <2>3, <2>4, <2>5
<1>2. A = Seq(Part)
  <2>1. A \in SUBSET Seq(Part)
    OBVIOUS
  <2>2. \A p \in Seq(Part) : (\A q \in Seq(Part) : Len(q) < Len(p) => q \in A) => p \in A
    BY <1>1
  <2> HIDE DEF A
  <2> QED  BY <2>1, <2>2, PartsInduction
<1> QED  BY <1>2

------------------------------------------------------------------------------
(* What is under way when lists of parts are put together.                 *)
Joint(a, b) ==
  IF a # << >> /\ b # << >> /\ a[Len(a)].part = "head"
     /\ b[1] = [part |-> "rest", of |-> a[Len(a)].of]
  THEN << a[Len(a)].of >> ELSE << >>

LEMMA Joints == ASSUME NEW a \in Seq(Part), NEW b \in Seq(Part) PROVE Joint(a, b) \in Seq(Message)
<1>1. a # << >> => a[Len(a)] \in Part
  OBVIOUS
<1>2. a # << >> => a[Len(a)].of \in Message
  BY <1>1 DEF Part
<1> QED  BY <1>2 DEF Joint

LEMMA NothingIntact == << >> \in Seq(Part) /\ Intact[<< >>] = << >>
<1>1. << >> \in Seq(Part)
  OBVIOUS
<1> QED  BY <1>1, Intacts

LEMMA IntactFrom ==
  ASSUME NEW p \in Seq(Part), p # << >>
  PROVE  Intact[p] = (IF Joined(p) THEN << p[1].of >> ELSE << >>) \o Intact[Tail(p)]
BY Intacts

LEMMA Alone == ASSUME NEW x \in Part PROVE <<x>> \in Seq(Part) /\ Intact[<<x>>] = << >>
<1>1. <<x>> \in Seq(Part) /\ <<x>> # << >> /\ Tail(<<x>>) = << >> /\ ~Joined(<<x>>)
  BY DEF Joined
<1> DEFINE p == <<x>>
<1>2. p \in Seq(Part) /\ p # << >> /\ Tail(p) = << >> /\ ~Joined(p)
  BY <1>1
<1> HIDE DEF p
<1>3. Intact[p] = << >> \o Intact[<< >>]
  BY <1>2, IntactFrom
<1>4. Intact[p] = << >>
  BY <1>3, NothingIntact
<1> QED  BY <1>2, <1>4 DEF p

LEMMA Together ==
  \A a \in Seq(Part) : \A b \in Seq(Part) :
    Intact[a \o b] = Intact[a] \o (Joint(a, b) \o Intact[b])
<1> DEFINE Well(a) == \A b \in Seq(Part) :
                        Intact[a \o b] = Intact[a] \o (Joint(a, b) \o Intact[b])
           A == {a \in Seq(Part) : Well(a)}
<1>1. ASSUME NEW a \in Seq(Part), \A q \in Seq(Part) : Len(q) < Len(a) => q \in A
      PROVE  Well(a)
  <2> SUFFICES ASSUME NEW b \in Seq(Part)
               PROVE  Intact[a \o b] = Intact[a] \o (Joint(a, b) \o Intact[b])
    OBVIOUS
  <2>0. Intact[b] \in Seq(Message) /\ Joint(a, b) \in Seq(Message) /\ Intact[a] \in Seq(Message)
    BY Intacts, Joints
  <2>1. CASE a = << >>
    <3>1. a \o b = b /\ Intact[a] = << >> /\ Joint(a, b) = << >>
      BY <2>1, PartsJoin, Intacts DEF Joint
    <3> QED  BY <2>0, <3>1, FramesJoin
  <2>2. CASE a # << >>
    <3> DEFINE t == Tail(a)
               mine == IF Joined(a \o b) THEN << a[1].of >> ELSE << >>
    <3>1. t \in Seq(Part) /\ Len(t) = Len(a) - 1 /\ Len(a) \in Nat /\ Len(a) > 0
          /\ a[1] \in Part
      BY <2>2, Tails
    <3>2. /\ a \o b \in Seq(Part) /\ a \o b # << >> /\ (a \o b)[1] = a[1]
          /\ Tail(a \o b) = t \o b
      BY <2>2, FirstOfTwo
    <3>3. Intact[a \o b] = mine \o Intact[t \o b]
      BY <3>2, Intacts
    <3>4. Well(t)
      <4>1. t \in A
        <5> HIDE DEF A, t
        <5> QED  BY <1>1, <3>1
      <4> HIDE DEF t, Well
      <4> QED  BY <4>1
    <3>5. Intact[t \o b] = Intact[t] \o (Joint(t, b) \o Intact[b])
      BY <3>4
    <3>6. Intact[t] \in Seq(Message) /\ mine \in Seq(Message)
      <4>1. a[1].of \in Message
        BY <3>1 DEF Part
      <4> HIDE DEF t
      <4> QED  BY <3>1, <4>1, Intacts
    <3>7. CASE Len(a) = 1
      <4>1. t = << >> /\ Joint(t, b) = << >> /\ Intact[t] = << >>
        <5>1. t = << >>
          <6> HIDE DEF t
          <6> QED  BY <3>1, <3>7
        <5> QED  BY <5>1, NothingIntact DEF Joint
      <4>2. ~Joined(a) /\ Intact[a] = << >>
        <5>1. ~Joined(a)
          BY <3>7 DEF Joined
        <5>2. Intact[a] = << >> \o Intact[t]
          BY <2>2, <5>1, IntactFrom
        <5> QED  BY <4>1, <5>1, <5>2
      <4>3. mine = Joint(a, b)
        <5>1. Len(a \o b) = 1 + Len(b) /\ Len(b) \in Nat
              /\ (b # << >> => (a \o b)[2] = b[1])
          <6>1. Len(a \o b) = Len(a) + Len(b) /\ Len(b) \in Nat
            OBVIOUS
          <6>2. \A i \in 1..Len(b) : (a \o b)[Len(a) + i] = b[i]
            OBVIOUS
          <6>3. b # << >> => 1 \in 1..Len(b)
            OBVIOUS
          <6>4. b # << >> => (a \o b)[1 + 1] = b[1]
            BY <3>7, <6>2, <6>3
          <6>5. 1 + 1 = 2
            OBVIOUS
          <6> QED  BY <3>7, <6>1, <6>4, <6>5
        <5> QED  BY <2>2, <3>2, <3>7, <5>1 DEF Joint, Joined
      <4>4. Intact[t \o b] = Intact[b]
        BY <4>1, PartsJoin
      <4> HIDE DEF mine, t
      <4>5. Intact[a \o b] = Joint(a, b) \o Intact[b]
        BY <3>3, <4>3, <4>4
      <4>6. Joint(a, b) \o Intact[b] \in Seq(Message)
        BY <2>0, FramesJoin
      <4> QED  BY <4>2, <4>5, <4>6, FramesJoin
    <3>8. CASE Len(a) > 1
      <4>1. Joined(a \o b) = Joined(a)
        BY <2>2, <3>8, FirstOfTwo
      <4>2. Intact[a] = mine \o Intact[t]
        BY <2>2, <4>1, IntactFrom
      <4>3. Joint(t, b) = Joint(a, b)
        <5>1. t # << >> /\ Len(t) \in 1..Len(t) /\ t[Len(t)] = a[Len(a)]
          <6>1. \A i \in 1..Len(t) : t[i] = a[i + 1]
            BY <2>2, Tails
          <6>2. Len(t) \in 1..Len(t) /\ Len(t) + 1 = Len(a)
            <7> HIDE DEF t
            <7> QED  BY <3>1, <3>8
          <6>3. t # << >>
            <7> HIDE DEF t
            <7> QED  BY <6>2
          <6> QED  BY <6>1, <6>2, <6>3
        <5> QED  BY <2>2, <5>1 DEF Joint
      <4> HIDE DEF mine, t
      <4> DEFINE j == Joint(a, b)
                 c == Intact[b]
                 d == Intact[t]
      <4>4. mine \in Seq(Message) /\ d \in Seq(Message) /\ j \o c \in Seq(Message)
        BY <2>0, <3>6, FramesJoin
      <4> HIDE DEF j, c, d
      <4>5. (mine \o d) \o (j \o c) = mine \o (d \o (j \o c))
        BY <4>4, RegroupFrames, Zenon
      <4> QED  BY <3>3, <3>5, <4>2, <4>3, <4>5 DEF j, c, d
    <3>9. Len(a) = 1 \/ Len(a) > 1
      BY <3>1
    <3> QED  BY <3>7, <3>8, <3>9
  <2> QED  BY <2>1, <2>2
<1>2. A = Seq(Part)
  <2>1. A \in SUBSET Seq(Part)
    OBVIOUS
  <2>2. \A p \in Seq(Part) : (\A q \in Seq(Part) : Len(q) < Len(p) => q \in A) => p \in A
    BY <1>1
  <2> HIDE DEF A
  <2> QED  BY <2>1, <2>2, PartsInduction
<1> QED  BY <1>2

(* A frame written at the end is the last of the frames. *)
LEMMA Written ==
  ASSUME NEW p \in Seq(Part), NEW m \in Message
  PROVE  Pack(m) \in Seq(Part) /\ Intact[p \o Pack(m)] = Append(Intact[p], m)
<1> DEFINE k == Pack(m)
<1>1. k \in Seq(Part) /\ Joined(k) /\ k[1].of = m /\ k[1].part = "head" /\ Len(k) = 2
      /\ k = k \o << >>
  BY DEF Pack, Part, Joined
<1>2. Intact[k] = << m >>
  <2>1. SubSeq(k, 3, Len(k)) \in Seq(Part) /\ Len(SubSeq(k, 3, Len(k))) = 0
    BY <1>1, Thirds
  <2>2. SubSeq(k, 3, Len(k)) = << >>
    BY <2>1
  <2>3. << >> \in Seq(Part) /\ << >> \o << >> = << >>
    OBVIOUS
  <2>4. Intact[k] = << k[1].of >> \o Intact[<< >>]
    <3> HIDE DEF k
    <3>1. Intact[k \o << >>] = << k[1].of >> \o Intact[SubSeq(k, 3, Len(k)) \o << >>]
      BY <1>1, <2>3, Taken
    <3>2. k \o << >> = k /\ SubSeq(k, 3, Len(k)) \o << >> = << >>
      BY <1>1, <2>2, <2>3
    <3> QED  BY <3>1, <3>2
  <2>5. Intact[<< >>] = << >>
    BY <2>3, Intacts
  <2> QED  BY <1>1, <2>4, <2>5
<1>3. Joint(p, k) = << >>
  <2> HIDE DEF k
  <2> QED  BY <1>1 DEF Joint
<1>4. Intact[p \o k] = Intact[p] \o (<< >> \o << m >>)
  <2> HIDE DEF k
  <2> QED  BY <1>1, <1>2, <1>3, Together
<1>5. Intact[p] \in Seq(Message)
  BY Intacts
<1> QED  BY <1>1, <1>4, <1>5

(* Taking out the frame in the middle. *)
LEMMA DropMiddle ==
  ASSUME NEW u \in Seq(Message), NEW v \in Seq(Message), NEW m \in Message
  PROVE  LET s == u \o (<< m >> \o v) IN
         Len(u) + 1 \in 1..Len(s) /\ RemoveAt(s, Len(u) + 1) = u \o v
<1> DEFINE s == u \o (<< m >> \o v)
           k == Len(u) + 1
<1>1. /\ s \in Seq(Message) /\ Len(s) = Len(u) + 1 + Len(v) /\ Len(u) \in Nat /\ Len(v) \in Nat
      /\ \A i \in 1..Len(u) : s[i] = u[i]
      /\ \A i \in 1..Len(v) : s[k + i] = v[i]
  OBVIOUS
<1> HIDE DEF s
<1>2. SubSeq(s, 1, k - 1) = u
  BY <1>1
<1>3. SubSeq(s, k + 1, Len(s)) = v
  BY <1>1
<1>4. RemoveAt(s, k) = u \o v
  BY <1>2, <1>3 DEF RemoveAt
<1> QED  BY <1>1, <1>4 DEF s

(* A fault of the cable, as Channel has it. *)
OneLess(new, old) == new = old \/ \E k \in 1..Len(old) : new = RemoveAt(old, k)

LEMMA Damaged ==
  ASSUME NEW a \in Seq(Part), NEW c \in Seq(Part), NEW x \in Part
  PROVE  OneLess(Intact[a] \o Intact[c], Intact[a \o (<<x>> \o c)])
<1> DEFINE old == Intact[a \o (<<x>> \o c)]
           u == Intact[a]
           v == Intact[c]
           j == Joint(a, <<x>> \o c)
           k == Joint(<<x>>, c)
<1>1. <<x>> \in Seq(Part) /\ <<x>> \o c \in Seq(Part) /\ (<<x>> \o c)[1] = x
      /\ <<x>> \o c # << >> /\ Intact[<<x>>] = << >>
  <2>1. <<x>> \in Seq(Part) /\ Intact[<<x>>] = << >> /\ <<x>> # << >>
    BY Alone
  <2>2. <<x>> \o c \in Seq(Part) /\ (<<x>> \o c)[1] = x /\ <<x>> \o c # << >>
    BY <2>1, FirstOfTwo
  <2> QED  BY <2>1, <2>2
<1>2. u \in Seq(Message) /\ v \in Seq(Message) /\ j \in Seq(Message) /\ k \in Seq(Message)
  BY <1>1, Intacts, Joints
<1>3. Intact[<<x>> \o c] = k \o v
  <2>1. Intact[<<x>> \o c] = Intact[<<x>>] \o (k \o v)
    BY <1>1, Together
  <2>2. k \o v \in Seq(Message)
    BY <1>2, FramesJoin
  <2> HIDE DEF k, v
  <2> QED  BY <1>1, <2>1, <2>2, FramesJoin
<1>4. old = u \o (j \o (k \o v))
  BY <1>1, <1>3, Together
<1>5. j = << >> \/ k = << >>
  BY <1>1 DEF Joint
<1>6. (j = << >> \/ \E m \in Message : j = << m >>) /\ (k = << >> \/ \E m \in Message : k = << m >>)
  <2>1. a # << >> => a[Len(a)].of \in Message
    <3>1. a # << >> => a[Len(a)] \in Part
      OBVIOUS
    <3> QED  BY <3>1 DEF Part
  <2>2. x.of \in Message
    BY DEF Part
  <2> QED  BY <2>1, <2>2 DEF Joint
<1> HIDE DEF u, v, j, k, old
<1>7. old = u \o v \/ \E m \in Message : old = u \o (<< m >> \o v)
  <2>1. CASE j = << >>
    <3>1. old = u \o (k \o v)
      BY <1>2, <1>4, <2>1, FramesJoin
    <3>2. << >> \o v = v
      BY <1>2, FramesJoin
    <3> QED  BY <1>6, <3>1, <3>2
  <2>2. CASE k = << >>
    <3>1. k \o v = v
      BY <1>2, <2>2, FramesJoin
    <3>2. << >> \o v = v
      BY <1>2, FramesJoin
    <3> QED  BY <1>4, <1>6, <3>1, <3>2
  <2> QED  BY <1>5, <2>1, <2>2
<1>8. OneLess(u \o v, old)
  <2>1. ASSUME NEW m \in Message, old = u \o (<< m >> \o v) PROVE OneLess(u \o v, old)
    <3>1. Len(u) + 1 \in 1..Len(old) /\ RemoveAt(old, Len(u) + 1) = u \o v
      BY <1>2, <2>1, DropMiddle
    <3> QED  BY <3>1 DEF OneLess
  <2>2. CASE old = u \o v
    BY <2>2 DEF OneLess
  <2> QED  BY <1>7, <2>1, <2>2
<1> QED  BY <1>8 DEF u, v, old

------------------------------------------------------------------------------
(* What a fold over the frames, or over what was published, can come to.   *)
LEMMA Largest ==
  ASSUME NEW n \in Nat, NEW q \in SUBSET (1..n), q # {}
  PROVE  Max(q) \in q /\ \A y \in q : y <= Max(q)
<1> DEFINE B == {n - x : x \in q}
<1>1. B \in SUBSET Nat /\ B # {}
  <2>1. \A x \in q : n - x \in Nat
    OBVIOUS
  <2> QED  BY <2>1
<1>2. PICK m \in B : \A k \in B : m <= k
  <2> HIDE DEF B
  <2> QED  BY <1>1, LeastOf
<1>3. PICK x \in q : m = n - x
  BY <1>2
<1>4. \A y \in q : x >= y
  <2> SUFFICES ASSUME NEW y \in q PROVE x >= y
    OBVIOUS
  <2>1. n - y \in B
    OBVIOUS
  <2>2. m <= n - y
    BY <1>2, <2>1
  <2> QED  BY <1>3, <2>2
<1>5. Max(q) \in q /\ \A y \in q : Max(q) >= y
  BY <1>4 DEF Max
<1> QED  BY <1>5

UpTo(n) == SUBSET (1..n)
Height(n) == [q \in UpTo(n) |-> IF q = {} THEN 0 ELSE Max(q)]

LEMMA Lower ==
  ASSUME NEW n \in Nat
  PROVE  /\ Height(n) \in [UpTo(n) -> Nat]
         /\ \A q \in UpTo(n) : q # {} => /\ Max(q) \in 1..n /\ q \ {Max(q)} \in UpTo(n)
                                        /\ Height(n)[q \ {Max(q)}] < Height(n)[q]
<1>1. ASSUME NEW q \in UpTo(n), q # {}
      PROVE  /\ Max(q) \in q /\ \A y \in q : y <= Max(q)
  BY <1>1, Largest DEF UpTo
<1>2. Height(n) \in [UpTo(n) -> Nat]
  <2>1. \A q \in UpTo(n) : q # {} => Max(q) \in Nat
    <3> SUFFICES ASSUME NEW q \in UpTo(n), q # {} PROVE Max(q) \in Nat
      OBVIOUS
    <3>1. Max(q) \in q
      BY <1>1
    <3>2. \A y \in q : y \in Nat
      BY DEF UpTo
    <3> QED  BY <3>1, <3>2
  <2> QED  BY <2>1 DEF Height
<1>3. ASSUME NEW q \in UpTo(n), q # {}
      PROVE  /\ Max(q) \in 1..n /\ q \ {Max(q)} \in UpTo(n)
             /\ Height(n)[q \ {Max(q)}] < Height(n)[q]
  <2> DEFINE m == Max(q)
             r == q \ {m}
  <2>1. m \in q /\ m \in 1..n /\ r \in UpTo(n) /\ \A y \in q : y <= m
    BY <1>1, <1>3 DEF UpTo
  <2> HIDE DEF m
  <2>2. Height(n)[q] = m /\ Height(n)[r] = IF r = {} THEN 0 ELSE Max(r)
    BY <1>3, <2>1 DEF Height, m
  <2>3. r # {} => Max(r) \in r
    BY <1>1, <2>1
  <2>4. Height(n)[r] < Height(n)[q]
    <3>1. r # {} => Max(r) \in q /\ Max(r) # m
      BY <2>3
    <3>2. \A y \in q : y \in Nat
      BY DEF UpTo
    <3>3. r # {} => Max(r) < m
      <4> SUFFICES ASSUME r # {} PROVE Max(r) < m
        OBVIOUS
      <4> DEFINE k == Max(r)
      <4>1. k \in q /\ k # m
        BY <3>1
      <4> HIDE DEF r, k
      <4>2. k \in Nat /\ m \in Nat /\ k <= m
        BY <2>1, <3>2, <4>1
      <4>3. k < m
        BY <4>1, <4>2
      <4> QED  BY <4>3 DEF k
    <3> HIDE DEF r
    <3> QED  BY <2>1, <2>2, <3>3
  <2> QED  BY <2>1, <2>4 DEF m
<1> QED  BY <1>2, <1>3

Folding(S, E, base, seq, h) == base \in S /\ seq \in Seq(E) /\ h \in [S \X E -> S]

Folds(f, S, base, seq, h) ==
  /\ f \in [UpTo(Len(seq)) -> S]
  /\ \A q \in UpTo(Len(seq)) :
       f[q] = IF q = {} THEN base ELSE h[<<f[q \ {Max(q)}], seq[Max(q)]>>]

LEMMA FoldExists ==
  ASSUME NEW S, NEW E, NEW base, NEW seq, NEW h, Folding(S, E, base, seq, h)
  PROVE  \E f : Folds(f, S, base, seq, h)
<1> DEFINE n == Len(seq)
           D == UpTo(n)
           next == [q \in D |-> IF q = {} THEN q ELSE q \ {Max(q)}]
           none == {q \in D : q = {}}
           b == [q \in D |-> base]
           g == [x \in D \X S |-> IF x[1] = {} THEN base ELSE h[<<x[2], seq[Max(x[1])]>>]]
<1>0. n \in Nat /\ (\A i \in 1..n : seq[i] \in E) /\ base \in S /\ h \in [S \X E -> S]
  BY DEF Folding
<1> HIDE DEF n
<1>1. next \in [D -> D] /\ none \in SUBSET D /\ b \in [D -> S]
  <2>1. \A q \in D : q # {} => q \ {Max(q)} \in D
    BY <1>0, Lower
  <2> QED  BY <1>0, <2>1
<1>2. g \in [D \X S -> S]
  <2> SUFFICES ASSUME NEW q \in D, NEW v \in S, q # {} PROVE h[<<v, seq[Max(q)]>>] \in S
    BY <1>0
  <2>1. seq[Max(q)] \in E
    BY <1>0, Lower
  <2> QED  BY <1>0, <2>1
<1>3. \A q \in D \ none : Height(n)[next[q]] < Height(n)[q]
  BY <1>0, Lower
<1>4. Height(n) \in [D -> Nat]
  BY <1>0, Lower
<1>5. PICK f \in [D -> S] : \A q \in D : f[q] = IF q \in none THEN b[q] ELSE g[<<q, f[next[q]]>>]
  <2> HIDE DEF D, next, none, b, g
  <2>1. Measured(D, S, Height(n), next, none, b, g)
    BY <1>1, <1>2, <1>3, <1>4 DEF Measured
  <2> QED  BY <2>1, Recursion
<1>6. ASSUME NEW q \in D
      PROVE  f[q] = IF q = {} THEN base ELSE h[<<f[q \ {Max(q)}], seq[Max(q)]>>]
  <2>1. CASE q = {}
    <3>1. q \in none /\ b[q] = base
      BY <2>1
    <3> HIDE DEF none, b, g, next
    <3> QED  BY <1>5, <2>1, <3>1
  <2>2. CASE q # {}
    <3>1. q \notin none /\ next[q] = q \ {Max(q)} /\ next[q] \in D
      BY <1>1, <2>2
    <3>2. f[next[q]] \in S
      BY <3>1
    <3>3. g[<<q, f[next[q]]>>] = h[<<f[next[q]], seq[Max(q)]>>]
      <4> HIDE DEF next
      <4> QED  BY <2>2, <3>2
    <3> HIDE DEF none, b, g, next
    <3> QED  BY <1>5, <2>2, <3>1, <3>3
  <2> QED  BY <2>1, <2>2
<1>7. Folds(f, S, base, seq, h)
  BY <1>6 DEF Folds, n
<1> QED  BY <1>7

LEMMA MaxOf == ASSUME NEW n \in Nat, NEW i \in 1..n PROVE Max(1..i) = i
<1>1. 1..i \in SUBSET (1..n) /\ i \in 1..i
  OBVIOUS
<1>2. Max(1..i) \in 1..i /\ \A y \in 1..i : y <= Max(1..i)
  BY <1>1, Largest
<1> QED  BY <1>1, <1>2

(* A set that holds stage 0 and follows each stage holds them all. *)
LEMMA StageByStage ==
  ASSUME NEW n \in Nat, NEW A \in SUBSET (0..n), 0 \in A,
         \A i \in 1..n : i - 1 \in A => i \in A
  PROVE  A = 0..n
<1> DEFINE D == 0..n
           size == [i \in D |-> i]
<1>1. size \in [D -> Nat] /\ A \in SUBSET D
  OBVIOUS
<1>2. ASSUME NEW i \in D, \A j \in D : size[j] < size[i] => j \in A
      PROVE  i \in A
  BY <1>2
<1>3. A = D
  <2> HIDE DEF size, D
  <2>1. Inductive(D, size, A)
    BY <1>1, <1>2 DEF Inductive
  <2> QED  BY <2>1, SizeInduction
<1> QED  BY <1>3

(* The fold of Take, stage by stage. *)
Taking(f, base, seq, S) ==
  /\ f \in [0..Len(seq) -> S] /\ f[0] = base
  /\ \A i \in 1..Len(seq) : f[i] = Take(f[i - 1], seq[i])
  /\ FoldLeft(Take, base, seq) = f[Len(seq)]

LEMMA TakingExist ==
  ASSUME NEW S, NEW base \in S, NEW seq \in Seq(Message),
         \A b \in S : \A m \in Message : Take(b, m) \in S
  PROVE  \E f : Taking(f, base, seq, S)
<1> DEFINE n == Len(seq)
           D == UpTo(n)
           Body(f, q) == IF q = {} THEN base ELSE Take(f[q \ {Max(q)}], seq[Max(q)])
           iter == CHOOSE f : f = [q \in D |-> Body(f, q)]
           h == [x \in S \X Message |-> Take(x[1], x[2])]
<1>0. n \in Nat /\ \A i \in 1..n : seq[i] \in Message
  OBVIOUS
<1>1. h \in [S \X Message -> S]
  OBVIOUS
<1>2. PICK f \in [D -> S] :
        \A q \in D : f[q] = IF q = {} THEN base ELSE h[<<f[q \ {Max(q)}], seq[Max(q)]>>]
  <2>1. Folding(S, Message, base, seq, h)
    BY <1>1 DEF Folding
  <2> HIDE DEF h
  <2>2. PICK f : Folds(f, S, base, seq, h)
    BY <2>1, FoldExists
  <2> QED  BY <2>2 DEF Folds
<1> HIDE DEF n
<1>3. f = [q \in D |-> Body(f, q)]
  <2>1. ASSUME NEW q \in D PROVE f[q] = Body(f, q)
    <3>1. CASE q = {}
      BY <1>2, <3>1
    <3>2. CASE q # {}
      <4>1. f[q \ {Max(q)}] \in S /\ seq[Max(q)] \in Message
        BY <1>0, <3>2, Lower
      <4>2. h[<<f[q \ {Max(q)}], seq[Max(q)]>>] = Take(f[q \ {Max(q)}], seq[Max(q)])
        BY <4>1
      <4> HIDE DEF h
      <4> QED  BY <1>2, <3>2, <4>2
    <3> QED  BY <3>1, <3>2
  <2> HIDE DEF Body
  <2> QED  BY <2>1
<1>4. iter = [q \in D |-> Body(iter, q)]
  <2> HIDE DEF Body
  <2> QED  BY <1>3
<1>5. FoldLeft(Take, base, seq) = iter[1..n]
  <2>1. FoldLeft(Take, base, seq)
          = (CHOOSE g : g = [q \in SUBSET DOMAIN seq |->
               IF q = {} THEN base ELSE Take(g[q \ {Max(q)}], seq[Max(q)])])[DOMAIN seq]
    BY DEF FoldLeft, MapThenFoldSet
  <2>2. DOMAIN seq = 1..n
    BY DEF n
  <2> QED  BY <2>1, <2>2 DEF UpTo
<1> HIDE DEF iter
<1>6. \A q \in D : iter[q] = Body(iter, q)
  <2> HIDE DEF Body
  <2> QED  BY <1>4
<1> DEFINE A == {q \in D : iter[q] \in S}
<1>7. ASSUME NEW q \in D, \A r \in D : Height(n)[r] < Height(n)[q] => r \in A
      PROVE  q \in A
  <2>1. CASE q = {}
    BY <1>6, <2>1
  <2>2. CASE q # {}
    <3>1. q \ {Max(q)} \in A /\ seq[Max(q)] \in Message
      <4> HIDE DEF A
      <4> QED  BY <1>0, <1>7, <2>2, Lower
    <3>2. Take(iter[q \ {Max(q)}], seq[Max(q)]) \in S
      BY <3>1
    <3> QED  BY <1>6, <2>2, <3>2
  <2> QED  BY <2>1, <2>2
<1>8. A = D
  <2>1. A \in SUBSET D /\ Height(n) \in [D -> Nat]
    BY <1>0, Lower
  <2> HIDE DEF A, D
  <2>2. Inductive(D, Height(n), A)
    BY <1>7, <2>1 DEF Inductive
  <2> QED  BY <2>2, SizeInduction
<1> DEFINE stage == [i \in 0..n |-> iter[1..i]]
<1>9. \A i \in 0..n : 1..i \in D
  BY <1>0 DEF UpTo
<1>10. stage \in [0..n -> S] /\ stage[0] = base /\ stage[n] = iter[1..n]
  <2>1. 1..0 = {} /\ 0 \in 0..n /\ n \in 0..n
    BY <1>0
  <2>2. \A i \in 0..n : iter[1..i] \in S
    BY <1>8, <1>9
  <2> HIDE DEF A, D
  <2>3. iter[1..0] = base
    BY <1>6, <1>9, <2>1
  <2> QED  BY <2>1, <2>2, <2>3
<1>11. ASSUME NEW i \in 1..n PROVE stage[i] = Take(stage[i - 1], seq[i])
  <2>0. i - 1 \in 0..n /\ i \in 0..n /\ 1 \in 1..i
    BY <1>0
  <2>1. 1..i \in D /\ 1..i # {} /\ i - 1 \in 0..n /\ i \in 0..n
    <3> HIDE DEF D
    <3> QED  BY <1>9, <2>0
  <2>2. Max(1..i) = i
    BY <1>0, MaxOf
  <2>3. (1..i) \ {i} = 1..(i - 1)
    BY <1>0
  <2>4. iter[1..i] = Body(iter, 1..i)
    BY <1>6, <2>1
  <2>5. stage[i] = iter[1..i] /\ stage[i - 1] = iter[1..(i - 1)]
    BY <2>1
  <2> HIDE DEF D, A, stage
  <2> QED  BY <2>1, <2>2, <2>3, <2>4, <2>5
<1>12. Taking(stage, base, seq, S)
  <2> HIDE DEF stage
  <2> QED  BY <1>5, <1>10, <1>11 DEF Taking, n
<1> QED  BY <1>12

(* The fold of HubHears, stage by stage. *)
Hearing(f, base, seq, S) ==
  /\ f \in [0..Len(seq) -> S] /\ f[0] = base
  /\ \A i \in 1..Len(seq) : f[i] = HubHears(f[i - 1], seq[i])
  /\ FoldLeft(HubHears, base, seq) = f[Len(seq)]

LEMMA HearingExist ==
  ASSUME NEW S, NEW base \in S, NEW E, NEW seq \in Seq(E),
         \A b \in S : \A m \in E : HubHears(b, m) \in S
  PROVE  \E f : Hearing(f, base, seq, S)
<1> DEFINE n == Len(seq)
           D == UpTo(n)
           Body(f, q) == IF q = {} THEN base ELSE HubHears(f[q \ {Max(q)}], seq[Max(q)])
           iter == CHOOSE f : f = [q \in D |-> Body(f, q)]
           h == [x \in S \X E |-> HubHears(x[1], x[2])]
<1>0. n \in Nat /\ \A i \in 1..n : seq[i] \in E
  OBVIOUS
<1>1. h \in [S \X E -> S]
  OBVIOUS
<1>2. PICK f \in [D -> S] :
        \A q \in D : f[q] = IF q = {} THEN base ELSE h[<<f[q \ {Max(q)}], seq[Max(q)]>>]
  <2>1. Folding(S, E, base, seq, h)
    BY <1>1 DEF Folding
  <2> HIDE DEF h
  <2>2. PICK f : Folds(f, S, base, seq, h)
    BY <2>1, FoldExists
  <2> QED  BY <2>2 DEF Folds
<1> HIDE DEF n
<1>3. f = [q \in D |-> Body(f, q)]
  <2>1. ASSUME NEW q \in D PROVE f[q] = Body(f, q)
    <3>1. CASE q = {}
      BY <1>2, <3>1
    <3>2. CASE q # {}
      <4>1. f[q \ {Max(q)}] \in S /\ seq[Max(q)] \in E
        BY <1>0, <3>2, Lower
      <4>2. h[<<f[q \ {Max(q)}], seq[Max(q)]>>] = HubHears(f[q \ {Max(q)}], seq[Max(q)])
        BY <4>1
      <4> HIDE DEF h
      <4> QED  BY <1>2, <3>2, <4>2
    <3> QED  BY <3>1, <3>2
  <2> HIDE DEF Body
  <2> QED  BY <2>1
<1>4. iter = [q \in D |-> Body(iter, q)]
  <2> HIDE DEF Body
  <2> QED  BY <1>3
<1>5. FoldLeft(HubHears, base, seq) = iter[1..n]
  <2>1. FoldLeft(HubHears, base, seq)
          = (CHOOSE g : g = [q \in SUBSET DOMAIN seq |->
               IF q = {} THEN base ELSE HubHears(g[q \ {Max(q)}], seq[Max(q)])])[DOMAIN seq]
    BY DEF FoldLeft, MapThenFoldSet
  <2>2. DOMAIN seq = 1..n
    BY DEF n
  <2> QED  BY <2>1, <2>2 DEF UpTo
<1> HIDE DEF iter
<1>6. \A q \in D : iter[q] = Body(iter, q)
  <2> HIDE DEF Body
  <2> QED  BY <1>4
<1> DEFINE A == {q \in D : iter[q] \in S}
<1>7. ASSUME NEW q \in D, \A r \in D : Height(n)[r] < Height(n)[q] => r \in A
      PROVE  q \in A
  <2>1. CASE q = {}
    BY <1>6, <2>1
  <2>2. CASE q # {}
    <3>1. q \ {Max(q)} \in A /\ seq[Max(q)] \in E
      <4> HIDE DEF A
      <4> QED  BY <1>0, <1>7, <2>2, Lower
    <3>2. HubHears(iter[q \ {Max(q)}], seq[Max(q)]) \in S
      BY <3>1
    <3> QED  BY <1>6, <2>2, <3>2
  <2> QED  BY <2>1, <2>2
<1>8. A = D
  <2>1. A \in SUBSET D /\ Height(n) \in [D -> Nat]
    BY <1>0, Lower
  <2> HIDE DEF A, D
  <2>2. Inductive(D, Height(n), A)
    BY <1>7, <2>1 DEF Inductive
  <2> QED  BY <2>2, SizeInduction
<1> DEFINE stage == [i \in 0..n |-> iter[1..i]]
<1>9. \A i \in 0..n : 1..i \in D
  BY <1>0 DEF UpTo
<1>10. stage \in [0..n -> S] /\ stage[0] = base /\ stage[n] = iter[1..n]
  <2>1. 1..0 = {} /\ 0 \in 0..n /\ n \in 0..n
    BY <1>0
  <2>2. \A i \in 0..n : iter[1..i] \in S
    BY <1>8, <1>9
  <2> HIDE DEF A, D
  <2>3. iter[1..0] = base
    BY <1>6, <1>9, <2>1
  <2> QED  BY <2>1, <2>2, <2>3
<1>11. ASSUME NEW i \in 1..n PROVE stage[i] = HubHears(stage[i - 1], seq[i])
  <2>0. i - 1 \in 0..n /\ i \in 0..n /\ 1 \in 1..i
    BY <1>0
  <2>1. 1..i \in D /\ 1..i # {} /\ i - 1 \in 0..n /\ i \in 0..n
    <3> HIDE DEF D
    <3> QED  BY <1>9, <2>0
  <2>2. Max(1..i) = i
    BY <1>0, MaxOf
  <2>3. (1..i) \ {i} = 1..(i - 1)
    BY <1>0
  <2>4. iter[1..i] = Body(iter, 1..i)
    BY <1>6, <2>1
  <2>5. stage[i] = iter[1..i] /\ stage[i - 1] = iter[1..(i - 1)]
    BY <2>1
  <2> HIDE DEF D, A, stage
  <2> QED  BY <2>1, <2>2, <2>3, <2>4, <2>5
<1>12. Hearing(stage, base, seq, S)
  <2> HIDE DEF stage
  <2> QED  BY <1>5, <1>10, <1>11 DEF Hearing, n
<1> QED  BY <1>12

(* Whatever each frame leaves true is true after all of them. *)
LEMMA TakeEach ==
  ASSUME NEW S, NEW base \in S, NEW seq \in Seq(Message),
         \A b \in S : \A m \in Message : Take(b, m) \in S,
         NEW F \in [0..Len(seq) -> SUBSET S], base \in F[0],
         \A i \in 1..Len(seq) : \A b \in F[i - 1] : Take(b, seq[i]) \in F[i]
  PROVE  FoldLeft(Take, base, seq) \in F[Len(seq)]
<1> DEFINE n == Len(seq)
<1>0. n \in Nat
  OBVIOUS
<1>1. PICK f : Taking(f, base, seq, S)
  BY TakingExist
<1> DEFINE A == {i \in 0..n : f[i] \in F[i]}
<1>2. A = 0..n
  <2>1. 0 \in A
    BY <1>0, <1>1 DEF Taking
  <2>2. \A i \in 1..n : i - 1 \in A => i \in A
    BY <1>0, <1>1 DEF Taking
  <2>3. A \in SUBSET (0..n)
    OBVIOUS
  <2> HIDE DEF A, n
  <2> QED  BY <1>0, <2>1, <2>2, <2>3, StageByStage
<1>3. n \in A
  BY <1>0, <1>2
<1> QED  BY <1>1, <1>3 DEF Taking

LEMMA TakeAll ==
  ASSUME NEW S, NEW base \in S, NEW seq \in Seq(Message),
         \A b \in S : \A m \in Message : Take(b, m) \in S
  PROVE  FoldLeft(Take, base, seq) \in S
<1>1. PICK f : Taking(f, base, seq, S)
  BY TakingExist
<1> QED  BY <1>1 DEF Taking

(* What the hub makes of what was published. *)
LEMMA HearAll ==
  ASSUME NEW S, NEW base \in S, NEW E \in SUBSET State, NEW seq \in Seq(E),
         \A h \in S : \A s \in E : HubHears(h, s) \in S
  PROVE  FoldLeft(HubHears, base, seq) \in S
<1>1. PICK f : Hearing(f, base, seq, S)
  BY HearingExist
<1> QED  BY <1>1 DEF Hearing

HubCarried == Conns \cup {None}

LEMMA HearsIn == ASSUME NEW h \in HubCarried, NEW s \in State PROVE HubHears(h, s) \in HubCarried
BY DEF HubHears, State, HubCarried

LEMMA HearNothing == ASSUME NEW h \in HubCarried PROVE FoldLeft(HubHears, h, << >>) = h
<1>1. << >> \in Seq(State) /\ Len(<< >>) = 0
  OBVIOUS
<1>2. PICK f : Hearing(f, h, << >>, HubCarried)
  BY <1>1, HearsIn, HearingExist
<1> QED  BY <1>1, <1>2 DEF Hearing

LEMMA HearOneMore ==
  ASSUME NEW h \in HubCarried, NEW seq \in Seq(State), NEW s \in State
  PROVE  FoldLeft(HubHears, h, Append(seq, s)) = HubHears(FoldLeft(HubHears, h, seq), s)
<1> DEFINE n == Len(seq)
           longer == Append(seq, s)
<1>1. n \in Nat /\ longer \in Seq(State) /\ Len(longer) = n + 1 /\ longer[n + 1] = s
      /\ \A i \in 1..n : longer[i] = seq[i]
  OBVIOUS
<1>2. PICK f : Hearing(f, h, seq, HubCarried)
  BY HearsIn, HearingExist
<1> HIDE DEF longer
<1>3. PICK g : Hearing(g, h, longer, HubCarried)
  BY <1>1, HearsIn, HearingExist
<1> DEFINE A == {i \in 0..n : f[i] = g[i]}
<1>4. A = 0..n
  <2>1. 0 \in A
    BY <1>1, <1>2, <1>3 DEF Hearing
  <2>2. \A i \in 1..n : i - 1 \in A => i \in A
    <3> SUFFICES ASSUME NEW i \in 1..n, i - 1 \in A PROVE f[i] = g[i]
      OBVIOUS
    <3>1. f[i] = HubHears(f[i - 1], seq[i]) /\ f[i - 1] = g[i - 1]
      BY <1>2 DEF Hearing
    <3>2. i \in 1..(n + 1) /\ longer[i] = seq[i]
      BY <1>1
    <3>3. g[i] = HubHears(g[i - 1], longer[i])
      BY <1>1, <1>3, <3>2 DEF Hearing
    <3> QED  BY <3>1, <3>2, <3>3
  <2>3. A \in SUBSET (0..n)
    OBVIOUS
  <2> HIDE DEF A, n
  <2> QED  BY <1>1, <2>1, <2>2, <2>3, StageByStage
<1>5. f[n] = g[n]
  BY <1>1, <1>4
<1>6. g[n + 1] = HubHears(g[n], s)
  <2>1. n + 1 \in 1..(n + 1) /\ (n + 1) - 1 = n
    BY <1>1
  <2> QED  BY <1>1, <1>3, <2>1 DEF Hearing
<1>7. FoldLeft(HubHears, h, seq) = f[n]
  BY <1>2 DEF Hearing
<1>8. FoldLeft(HubHears, h, longer) = g[n + 1]
  BY <1>1, <1>3 DEF Hearing
<1> HIDE DEF n
<1> QED  BY <1>5, <1>6, <1>7, <1>8 DEF longer

------------------------------------------------------------------------------
(* Carried's operators keep its type, and leave the cable's end alone.     *)
Keeps(c, b) ==
  /\ c \in Carried
  /\ c.alive = b.alive /\ c.port = b.port /\ c.pending = b.pending /\ c.taken = b.taken

LEMMA PublishKeeps ==
  ASSUME NEW b \in Carried, NEW s \in State
  PROVE  Keeps(Publish(b, s), b)
<1>1. CASE b.client = None
  BY <1>1 DEF Publish, Keeps
<1>2. CASE b.client # None /\ b.client.up
  <2>1. Publish(b, s) = [b EXCEPT !.said = Append(@, s)]
    BY <1>2 DEF Publish
  <2>2. b.said \in Seq(State)
    BY DEF Carried
  <2>3. Append(b.said, s) \in Seq(State)
    BY <2>2
  <2> QED  BY <2>1, <2>3 DEF Keeps, Carried
<1>3. CASE b.client # None /\ ~b.client.up
  <2>1. Publish(b, s) = [b EXCEPT !.client.queue = Append(@, s)]
    BY <1>3 DEF Publish
  <2>2. b.client \in Client
    BY <1>3 DEF Carried
  <2>3. Append(b.client.queue, s) \in Seq(State)
    BY <2>2 DEF Client
  <2>4. [b.client EXCEPT !.queue = Append(b.client.queue, s)] \in Client
    BY <2>2, <2>3 DEF Client
  <2> QED  BY <2>1, <2>4 DEF Keeps, Carried
<1> QED  BY <1>1, <1>2, <1>3

LEMMA ConnectKeeps ==
  ASSUME NEW b \in Carried, NEW s \in State
  PROVE  Keeps(Connect(b, s), b)
<1>1. [will |-> s.conn, up |-> FALSE, queue |-> << >>] \in Client
  BY DEF Client, State
<1> QED  BY <1>1 DEF Connect, Keeps, Carried

LEMMA ReachKeeps == ASSUME NEW b \in Carried PROVE Keeps(ReachTheBroker(b), b)
<1>1. CASE b.waiting = None \/ b.client # None \/ ~broker
  BY <1>1 DEF ReachTheBroker, Keeps
<1>2. CASE ~(b.waiting = None \/ b.client # None \/ ~broker)
  <2>1. b.waiting \in State
    BY <1>2 DEF Carried
  <2>2. Keeps(Connect(b, b.waiting), b)
    BY <2>1, ConnectKeeps
  <2>3. ReachTheBroker(b) = [Connect(b, b.waiting) EXCEPT !.waiting = None]
    BY <1>2 DEF ReachTheBroker
  <2> QED  BY <2>2, <2>3 DEF Keeps, Carried
<1> QED  BY <1>1, <1>2

LEMMA LetGoKeeps ==
  ASSUME NEW b \in Carried
  PROVE  /\ Keeps(LetGo(b), [b EXCEPT !.port = FALSE])
         /\ LetGo(b).client = None
<1> DEFINE told == IF b.client # None /\ b.state # None
                   THEN Publish(b, GoodbyeFor(b.state)) ELSE b
<1>1. Keeps(told, b)
  <2>1. CASE b.client # None /\ b.state # None
    <3>1. b.state \in State
      BY <2>1 DEF Carried
    <3>2. GoodbyeFor(b.state) \in State
      BY <3>1 DEF GoodbyeFor, State
    <3> QED  BY <2>1, <3>2, PublishKeeps
  <2>2. CASE ~(b.client # None /\ b.state # None)
    BY <2>2 DEF Keeps
  <2> QED  BY <2>1, <2>2
<1>2. LetGo(b) = [told EXCEPT !.port = FALSE, !.state = None, !.payload = None,
                              !.waiting = None, !.client = None]
  BY DEF LetGo
<1> HIDE DEF told
<1>3. LetGo(b) \in Carried /\ LetGo(b).client = None /\ LetGo(b).port = FALSE
      /\ LetGo(b).alive = told.alive /\ LetGo(b).pending = told.pending
      /\ LetGo(b).taken = told.taken
  BY <1>1, <1>2 DEF Keeps, Carried
<1> QED  BY <1>1, <1>3 DEF Keeps, Carried

LEMMA TakeKeeps ==
  ASSUME NEW b \in Carried, NEW m \in Message
  PROVE  Keeps(Take(b, m), b)
<1> DEFINE s == m.said
<1>1. CASE m.said.kind # "state"
  BY <1>1 DEF Take, Keeps
<1>2. CASE m.said.kind = "state"
  <2>1. s \in State
    BY <1>2 DEF Message, Said, State
  <2> DEFINE new == b.state = None \/ b.state.conn # s.conn
             kept == [b EXCEPT !.state = s, !.payload = s]
             asked == IF new /\ s.online THEN ReachTheBroker([kept EXCEPT !.waiting = s]) ELSE kept
  <2>2. Keeps(kept, b)
    BY <2>1 DEF Keeps, Carried
  <2>3. Keeps([kept EXCEPT !.waiting = s], b)
    <3> HIDE DEF s
    <3> QED  BY <2>1 DEF Keeps, Carried
  <2> HIDE DEF kept, s
  <2>4. Keeps(asked, b)
    <3> DEFINE w == [kept EXCEPT !.waiting = s]
    <3>1. Keeps(w, b)
      BY <2>3
    <3> HIDE DEF w
    <3>2. Keeps(ReachTheBroker(w), b)
      BY <3>1, ReachKeeps DEF Keeps
    <3> QED  BY <2>2, <3>2 DEF w
  <2>5. Take(b, m) = Publish(asked, s)
    BY <1>2 DEF Take, AStateArrived, kept, s
  <2> HIDE DEF asked
  <2>6. Keeps(Publish(asked, s), asked)
    BY <2>1, <2>4, PublishKeeps DEF Keeps
  <2> QED  BY <2>4, <2>5, <2>6 DEF Keeps
<1> QED  BY <1>1, <1>2

LEMMA TakenKeeps ==
  ASSUME NEW b \in Carried, NEW seq \in Seq(Message)
  PROVE  Keeps(FoldLeft(Take, b, seq), b)
<1> DEFINE S == {c \in Carried : Keeps(c, b)}
<1>1. b \in S
  BY DEF Keeps
<1>2. \A c \in S : \A m \in Message : Take(c, m) \in S
  BY TakeKeeps DEF Keeps
<1> HIDE DEF S
<1>3. FoldLeft(Take, b, seq) \in S
  BY <1>1, <1>2, TakeAll
<1> QED  BY <1>3 DEF S

LEMMA BecomesKeeps ==
  ASSUME TypeOK, NEW b \in Carried, Becomes(b)
  PROVE  /\ Keeps(bridge', b) /\ bridge'.said = << >> /\ bridge'.client = b.client
         /\ hub' \in Conns \cup {None} /\ orphan' \in BOOLEAN
<1>1. bridge' = [b EXCEPT !.said = << >>]
  BY DEF Becomes
<1>2. << >> \in Seq(State)
  OBVIOUS
<1>3. Keeps(bridge', b) /\ bridge'.said = << >> /\ bridge'.client = b.client
  BY <1>1, <1>2 DEF Keeps, Carried
<1>4. hub' \in HubCarried
  <2>1. hub \in HubCarried /\ b.said \in Seq(State) /\ hub' = FoldLeft(HubHears, hub, b.said)
    BY DEF TypeOK, HubCarried, Carried, Becomes
  <2>2. \A h \in HubCarried : \A s \in State : HubHears(h, s) \in HubCarried
    BY HearsIn
  <2>3. FoldLeft(HubHears, hub, b.said) \in HubCarried
    BY <2>1, <2>2, HearAll
  <2> QED  BY <2>1, <2>3
<1>5. orphan' \in BOOLEAN
  BY DEF Becomes, Orphaned
<1> QED  BY <1>3, <1>4, <1>5 DEF HubCarried

------------------------------------------------------------------------------
(* What lies between the board's pen and the Reader's hands: what the      *)
(* Reader keeps, then what is on the cable.                                *)
Line == bridge.pending \o up

(* The two parts of a frame are neighbours, and no two frames are alike.   *)
Apart(p) ==
  \A i, j \in 1..Len(p) :
    i < j /\ p[i].of = p[j].of => j = i + 1 /\ p[i].part # "rest" /\ p[j].part = "rest"

(* A part of the conversation that is on is no older than what was written *)
(* since, and what was lost of it, account for.                            *)
Aged(p, b, lost) ==
  b.here =>
    \A k \in 1..Len(p) : p[k].of.said.conn = b.conn =>
      \E a \in 1..(Len(p) - k + 1 + lost) :
        p[k].of.counter + a \in {b.counter, b.counter + CounterMod}

(* new is old with parts taken out, or bent, in place.                     *)
Thinned(new, old, g, lost) ==
  /\ g \in [1..Len(new) -> 1..Len(old)]
  /\ \A i, j \in 1..Len(new) : i < j => g[i] < g[j]
  /\ \A i \in 1..Len(new) : /\ new[i].of = old[g[i]].of
                            /\ (new[i].part = "rest") = (old[g[i]].part = "rest")
                            /\ Len(old) - g[i] <= Len(new) - i + lost

LEMMA ThinnedApart ==
  ASSUME NEW new \in Seq(Part), NEW old \in Seq(Part), NEW g, NEW lost \in Nat,
         Thinned(new, old, g, lost), Apart(old)
  PROVE  Apart(new)
<1> SUFFICES ASSUME NEW i \in 1..Len(new), NEW j \in 1..Len(new), i < j, new[i].of = new[j].of
             PROVE  j = i + 1 /\ new[i].part # "rest" /\ new[j].part = "rest"
  BY DEF Apart
<1>1. g[i] \in 1..Len(old) /\ g[j] \in 1..Len(old) /\ g[i] < g[j]
      /\ old[g[i]].of = old[g[j]].of
  BY DEF Thinned
<1>2. g[j] = g[i] + 1 /\ old[g[i]].part # "rest" /\ old[g[j]].part = "rest"
  BY <1>1 DEF Apart
<1>3. j = i + 1
  <2> SUFFICES ASSUME j # i + 1 PROVE FALSE
    OBVIOUS
  <2>1. i + 1 \in 1..Len(new) /\ i < i + 1 /\ i + 1 < j
    OBVIOUS
  <2>2. g[i] < g[i + 1] /\ g[i + 1] < g[j] /\ g[i + 1] \in 1..Len(old)
    BY <2>1 DEF Thinned
  <2> QED  BY <1>1, <1>2, <2>2
<1>4. new[i].part # "rest" /\ new[j].part = "rest"
  BY <1>2 DEF Thinned
<1> QED  BY <1>3, <1>4

LEMMA ThinnedAged ==
  ASSUME NEW new \in Seq(Part), NEW old \in Seq(Part), NEW g, NEW less \in Nat,
         Thinned(new, old, g, less), NEW b, NEW lost \in Nat, NEW more \in Nat,
         more >= lost + less, Aged(old, b, lost)
  PROVE  Aged(new, b, more)
<1> SUFFICES ASSUME b.here, NEW k \in 1..Len(new), new[k].of.said.conn = b.conn
             PROVE  \E a \in 1..(Len(new) - k + 1 + more) :
                      new[k].of.counter + a \in {b.counter, b.counter + CounterMod}
  BY DEF Aged
<1>1. g[k] \in 1..Len(old) /\ new[k].of = old[g[k]].of
      /\ Len(old) - g[k] <= Len(new) - k + less
  BY DEF Thinned
<1>2. PICK a \in 1..(Len(old) - g[k] + 1 + lost) :
        old[g[k]].of.counter + a \in {b.counter, b.counter + CounterMod}
  BY <1>1 DEF Aged
<1>3. a \in 1..(Len(new) - k + 1 + more)
  BY <1>1, <1>2
<1> QED  BY <1>1, <1>2, <1>3

(* What is kept of the Line when its front is handed over.                 *)
LEMMA KeptThinned ==
  ASSUME NEW q \in Seq(Part), NEW z \in Seq(Part)
  PROVE  \E g : Thinned(z, q \o z, g, 0)
<1> DEFINE g == [i \in 1..Len(z) |-> Len(q) + i]
           old == q \o z
<1>1. Len(old) = Len(q) + Len(z) /\ Len(q) \in Nat /\ Len(z) \in Nat
      /\ \A i \in 1..Len(z) : old[Len(q) + i] = z[i]
  OBVIOUS
<1> HIDE DEF old
<1>2. Thinned(z, old, g, 0)
  BY <1>1 DEF Thinned
<1> QED  BY <1>2 DEF old

LEMMA Indices ==
  ASSUME NEW a \in Seq(Part), NEW b \in Seq(Part)
  PROVE  /\ a \o b \in Seq(Part) /\ Len(a \o b) = Len(a) + Len(b)
         /\ Len(a) \in Nat /\ Len(b) \in Nat
         /\ \A i \in 1..Len(a) : (a \o b)[i] = a[i]
         /\ \A i \in 1..Len(b) : (a \o b)[Len(a) + i] = b[i]
OBVIOUS

(* A part lost from the cable: the Line before and after it.               *)
Loses(p, u, k) ==
  LET x == u[k]
      a == p \o SubSeq(u, 1, k - 1)
      c == SubSeq(u, k + 1, Len(u))
  IN  /\ x \in Part /\ a \in Seq(Part) /\ c \in Seq(Part)
      /\ p \o u = a \o (<<x>> \o c)
      /\ RemoveAt(u, k) \in Seq(Part) /\ Len(RemoveAt(u, k)) = Len(u) - 1
      /\ p \o RemoveAt(u, k) = a \o c
      /\ \A y \in Part : /\ [u EXCEPT ![k] = y] \in Seq(Part)
                         /\ Len([u EXCEPT ![k] = y]) = Len(u)
                         /\ p \o [u EXCEPT ![k] = y] = a \o (<<y>> \o c)

LEMMA PartLost ==
  ASSUME NEW p \in Seq(Part), NEW u \in Seq(Part), NEW k \in 1..Len(u)
  PROVE  Loses(p, u, k)
<1> DEFINE x == u[k]
           l == SubSeq(u, 1, k - 1)
           c == SubSeq(u, k + 1, Len(u))
<1>1. /\ Len(u) \in Nat /\ l \in Seq(Part) /\ Len(l) = k - 1 /\ \A i \in 1..(k - 1) : l[i] = u[i]
      /\ c \in Seq(Part) /\ Len(c) = Len(u) - k
      /\ \A i \in 1..(Len(u) - k) : c[i] = u[k + i]
      /\ x \in Part
  OBVIOUS
<1>2. RemoveAt(u, k) = l \o c
  BY DEF RemoveAt
<1> HIDE DEF l, c
<1>3. l \o c \in Seq(Part) /\ Len(l \o c) = Len(u) - 1
  BY <1>1
<1>4. ASSUME NEW y \in Part
      PROVE  LET v == [u EXCEPT ![k] = y] IN
             v \in Seq(Part) /\ Len(v) = Len(u) /\ v = l \o (<<y>> \o c)
  <2> DEFINE v == [u EXCEPT ![k] = y]
             w == <<y>> \o c
  <2>1. v \in Seq(Part) /\ Len(v) = Len(u) /\ (\A i \in 1..Len(u) : v[i] = IF i = k THEN y ELSE u[i])
    OBVIOUS
  <2>2. w \in Seq(Part) /\ Len(w) = Len(u) - k + 1 /\ w[1] = y
        /\ \A i \in 1..(Len(u) - k) : w[i + 1] = c[i]
    <3> DEFINE h == <<y>>
    <3>1. h \in Seq(Part) /\ Len(h) = 1 /\ h[1] = y
      OBVIOUS
    <3> HIDE DEF h
    <3>2. h \o c \in Seq(Part) /\ Len(h \o c) = 1 + Len(c) /\ (h \o c)[1] = y
          /\ \A i \in 1..Len(c) : (h \o c)[1 + i] = c[i]
      <4>1. /\ h \o c \in Seq(Part) /\ Len(h \o c) = Len(h) + Len(c)
            /\ \A i \in 1..Len(h) : (h \o c)[i] = h[i]
            /\ \A i \in 1..Len(c) : (h \o c)[Len(h) + i] = c[i]
        BY <1>1, <3>1, Indices
      <4>2. 1 \in 1..Len(h)
        BY <3>1
      <4>3. (h \o c)[1] = y
        BY <3>1, <4>1, <4>2
      <4>4. \A i \in 1..Len(c) : (h \o c)[1 + i] = c[i]
        BY <3>1, <4>1
      <4> HIDE DEF h
      <4> QED  BY <3>1, <4>1, <4>3, <4>4
    <3> QED  BY <1>1, <3>2 DEF h
  <2> HIDE DEF v, w
  <2>3. l \o w \in Seq(Part) /\ Len(l \o w) = Len(u)
        /\ (\A i \in 1..(k - 1) : (l \o w)[i] = u[i])
        /\ (\A i \in 1..(Len(u) - k + 1) : (l \o w)[k - 1 + i] = w[i])
    <3>1. /\ l \o w \in Seq(Part) /\ Len(l \o w) = Len(l) + Len(w)
          /\ \A i \in 1..Len(l) : (l \o w)[i] = l[i]
          /\ \A i \in 1..Len(w) : (l \o w)[Len(l) + i] = w[i]
      BY <1>1, <2>2, Indices
    <3>2. Len(l) = k - 1 /\ Len(w) = Len(u) - k + 1 /\ k - 1 \in Nat
      BY <1>1, <2>2
    <3>3. Len(l) + Len(w) = Len(u)
      BY <1>1, <3>2
    <3>4. \A i \in 1..(k - 1) : (l \o w)[i] = u[i]
      BY <1>1, <3>1, <3>2
    <3>5. \A i \in 1..(Len(u) - k + 1) : (l \o w)[k - 1 + i] = w[i]
      BY <3>1, <3>2
    <3> QED  BY <3>1, <3>3, <3>4, <3>5
  <2> DEFINE m == l \o w
  <2>4. m \in Seq(Part) /\ Len(m) = Len(u) /\ \A i \in 1..(k - 1) : m[i] = u[i]
    BY <2>3
  <2>5. \A i \in 1..(Len(u) - k + 1) : m[k - 1 + i] = w[i]
    BY <2>3
  <2>6. k \in 1..Len(u) /\ k \in Nat /\ Len(u) \in Nat
    BY <1>1
  <2> HIDE DEF m
  <2>7. ASSUME NEW i \in 1..Len(u) PROVE m[i] = v[i]
    <3>1. CASE i < k
      <4>1. i \in 1..(k - 1) /\ i # k
        BY <2>6, <3>1
      <4>2. m[i] = u[i]
        BY <2>4, <4>1
      <4> QED  BY <2>1, <4>1, <4>2
    <3>2. CASE i = k
      <4>1. 1 \in 1..(Len(u) - k + 1) /\ k - 1 + 1 = k
        BY <2>6
      <4>2. m[k] = w[1]
        BY <2>5, <4>1
      <4> QED  BY <2>1, <2>2, <2>6, <3>2, <4>2
    <3>3. CASE i > k
      <4> DEFINE j == i - k
      <4>1. j \in 1..(Len(u) - k) /\ j + 1 \in 1..(Len(u) - k + 1) /\ k - 1 + (j + 1) = i
            /\ k + j = i /\ i # k
        BY <2>6, <3>3
      <4> HIDE DEF j
      <4>2. m[i] = w[j + 1]
        BY <2>5, <4>1
      <4>3. w[j + 1] = c[j] /\ c[j] = u[i]
        BY <1>1, <2>2, <4>1
      <4> QED  BY <2>1, <4>1, <4>2, <4>3
    <3>4. i < k \/ i = k \/ i > k
      BY <2>6
    <3> QED  BY <3>1, <3>2, <3>3, <3>4
  <2>8. m = v
    BY <2>1, <2>4, <2>7
  <2>9. v = l \o w
    BY <2>8 DEF m
  <2> QED  BY <2>1, <2>9 DEF v, w
<1>5. u = l \o (<<x>> \o c)
  <2>1. [u EXCEPT ![k] = x] = u
    OBVIOUS
  <2> QED  BY <1>1, <1>4, <2>1
<1>6. p \o l \in Seq(Part)
  BY <1>1, PartsJoin
<1>7. ASSUME NEW y \in Part PROVE p \o (l \o (<<y>> \o c)) = (p \o l) \o (<<y>> \o c)
  <2>1. <<y>> \in Seq(Part)
    OBVIOUS
  <2>2. <<y>> \o c \in Seq(Part)
    BY <1>1, <2>1, PartsJoin
  <2> QED  BY <1>1, <2>2, Regroup, Zenon
<1>8. p \o (l \o c) = (p \o l) \o c
  BY <1>1, Regroup, Zenon
<1>9. /\ x \in Part /\ p \o l \in Seq(Part) /\ c \in Seq(Part)
      /\ p \o u = (p \o l) \o (<<x>> \o c)
      /\ RemoveAt(u, k) \in Seq(Part) /\ Len(RemoveAt(u, k)) = Len(u) - 1
      /\ p \o RemoveAt(u, k) = (p \o l) \o c
  <2> HIDE DEF x
  <2> QED  BY <1>1, <1>2, <1>3, <1>5, <1>6, <1>7, <1>8
<1>10. \A y \in Part : /\ [u EXCEPT ![k] = y] \in Seq(Part)
                       /\ Len([u EXCEPT ![k] = y]) = Len(u)
                       /\ p \o [u EXCEPT ![k] = y] = (p \o l) \o (<<y>> \o c)
  BY <1>4, <1>7
<1> QED  BY <1>9, <1>10 DEF Loses, l, c

LEMMA Around ==
  ASSUME NEW a \in Seq(Part), NEW x \in Part, NEW c \in Seq(Part)
  PROVE  LET s == a \o (<<x>> \o c) IN
         /\ s \in Seq(Part) /\ Len(s) = Len(a) + 1 + Len(c)
         /\ \A i \in 1..Len(a) : s[i] = a[i]
         /\ s[Len(a) + 1] = x
         /\ \A i \in 1..Len(c) : s[Len(a) + 1 + i] = c[i]
<1> DEFINE h == <<x>>
           t == h \o c
           s == a \o t
<1>1. h \in Seq(Part) /\ Len(h) = 1 /\ h[1] = x /\ 1 \in 1..Len(h)
  OBVIOUS
<1> HIDE DEF h
<1>2. /\ t \in Seq(Part) /\ Len(t) = Len(h) + Len(c) /\ Len(c) \in Nat
      /\ \A i \in 1..Len(h) : t[i] = h[i]
      /\ \A i \in 1..Len(c) : t[Len(h) + i] = c[i]
  BY <1>1, Indices
<1> HIDE DEF t
<1>3. /\ s \in Seq(Part) /\ Len(s) = Len(a) + Len(t) /\ Len(a) \in Nat
      /\ \A i \in 1..Len(a) : s[i] = a[i]
      /\ \A i \in 1..Len(t) : s[Len(a) + i] = t[i]
  BY <1>2, Indices
<1> HIDE DEF s
<1>4. s[Len(a) + 1] = x
  BY <1>1, <1>2, <1>3
<1>5. ASSUME NEW i \in 1..Len(c) PROVE s[Len(a) + 1 + i] = c[i]
  <2>1. 1 + i \in 1..Len(t) /\ Len(a) + (1 + i) = Len(a) + 1 + i /\ t[1 + i] = c[i]
    BY <1>1, <1>2, <1>3
  <2> QED  BY <1>3, <2>1
<1>6. Len(s) = Len(a) + 1 + Len(c)
  BY <1>1, <1>2, <1>3
<1> QED  BY <1>3, <1>4, <1>5, <1>6 DEF s, t, h

LEMMA LostThinned ==
  ASSUME NEW a \in Seq(Part), NEW x \in Part, NEW c \in Seq(Part)
  PROVE  \E g : Thinned(a \o c, a \o (<<x>> \o c), g, 1)
<1> DEFINE new == a \o c
           old == a \o (<<x>> \o c)
           g == [i \in 1..Len(new) |-> IF i <= Len(a) THEN i ELSE i + 1]
<1>1. /\ Len(new) = Len(a) + Len(c) /\ Len(a) \in Nat /\ Len(c) \in Nat
      /\ \A i \in 1..Len(a) : new[i] = a[i]
      /\ \A i \in 1..Len(c) : new[Len(a) + i] = c[i]
  BY Indices
<1>2. /\ Len(old) = Len(a) + 1 + Len(c)
      /\ \A i \in 1..Len(a) : old[i] = a[i]
      /\ \A i \in 1..Len(c) : old[Len(a) + 1 + i] = c[i]
  <2> HIDE DEF old
  <2>1. old = a \o (<<x>> \o c)
    BY DEF old
  <2> QED  BY <2>1, Around
<1> HIDE DEF new, old
<1>3. ASSUME NEW i \in 1..Len(new)
      PROVE  g[i] \in 1..Len(old) /\ new[i] = old[g[i]] /\ Len(old) - g[i] <= Len(new) - i + 1
  <2>1. CASE i <= Len(a)
    BY <1>1, <1>2, <2>1
  <2>2. CASE i > Len(a)
    <3> DEFINE j == i - Len(a)
    <3>1. j \in 1..Len(c) /\ Len(a) + j = i /\ Len(a) + 1 + j = i + 1 /\ g[i] = i + 1
      BY <1>1, <2>2
    <3> HIDE DEF j, g
    <3>2. new[i] = c[j] /\ old[i + 1] = c[j]
      BY <1>1, <1>2, <3>1
    <3> QED  BY <1>1, <1>2, <3>1, <3>2
  <2> QED  BY <1>1, <2>1, <2>2
<1>4. \A i, j \in 1..Len(new) : i < j => g[i] < g[j]
  BY <1>1
<1>5. g \in [1..Len(new) -> 1..Len(old)]
  BY <1>3
<1> HIDE DEF g
<1>6. Thinned(new, old, g, 1)
  BY <1>3, <1>4, <1>5 DEF Thinned
<1> QED  BY <1>6 DEF new, old

LEMMA BentThinned ==
  ASSUME NEW a \in Seq(Part), NEW x \in Part, NEW y \in Part, NEW c \in Seq(Part),
         y.of = x.of, y.part # "rest", x.part # "rest"
  PROVE  \E g : Thinned(a \o (<<y>> \o c), a \o (<<x>> \o c), g, 0)
<1> DEFINE new == a \o (<<y>> \o c)
           old == a \o (<<x>> \o c)
           g == [i \in 1..Len(new) |-> i]
<1>0. Len(a) \in Nat /\ Len(c) \in Nat
  OBVIOUS
<1>1. /\ Len(new) = Len(a) + 1 + Len(c)
      /\ \A i \in 1..Len(a) : new[i] = a[i]
      /\ new[Len(a) + 1] = y
      /\ \A i \in 1..Len(c) : new[Len(a) + 1 + i] = c[i]
  <2> HIDE DEF new
  <2>1. new = a \o (<<y>> \o c)
    BY DEF new
  <2> QED  BY <2>1, Around
<1>2. /\ Len(old) = Len(a) + 1 + Len(c)
      /\ \A i \in 1..Len(a) : old[i] = a[i]
      /\ old[Len(a) + 1] = x
      /\ \A i \in 1..Len(c) : old[Len(a) + 1 + i] = c[i]
  <2> HIDE DEF old
  <2>1. old = a \o (<<x>> \o c)
    BY DEF old
  <2> QED  BY <2>1, Around
<1> HIDE DEF new, old
<1>3. ASSUME NEW i \in 1..Len(new)
      PROVE  /\ g[i] \in 1..Len(old) /\ new[i].of = old[g[i]].of
             /\ (new[i].part = "rest") = (old[g[i]].part = "rest")
             /\ Len(old) - g[i] <= Len(new) - i + 0
  <2>1. CASE i <= Len(a)
    BY <1>0, <1>1, <1>2, <2>1
  <2>2. CASE i = Len(a) + 1
    BY <1>0, <1>1, <1>2, <2>2
  <2>3. CASE i > Len(a) + 1
    <3> DEFINE j == i - Len(a) - 1
    <3>1. j \in 1..Len(c) /\ Len(a) + 1 + j = i /\ g[i] = i
      BY <1>0, <1>1, <2>3
    <3> HIDE DEF j, g
    <3>2. new[i] = c[j] /\ old[i] = c[j]
      BY <1>1, <1>2, <3>1
    <3> QED  BY <1>0, <1>1, <1>2, <3>1, <3>2
  <2>4. i <= Len(a) \/ i = Len(a) + 1 \/ i > Len(a) + 1
    BY <1>0
  <2> QED  BY <2>1, <2>2, <2>3, <2>4
<1>4. \A i, j \in 1..Len(new) : i < j => g[i] < g[j]
  OBVIOUS
<1>5. g \in [1..Len(new) -> 1..Len(old)]
  BY <1>3
<1> HIDE DEF g
<1>6. Thinned(new, old, g, 0)
  BY <1>3, <1>4, <1>5 DEF Thinned
<1> QED  BY <1>6 DEF new, old

(* What a lost part costs: a frame, if it was of one.                      *)
LEMMA LostCosts ==
  ASSUME NEW a \in Seq(Part), NEW x \in Part, NEW c \in Seq(Part), Apart(a \o (<<x>> \o c))
  PROVE  OneLess(Intact[a \o c], Intact[a \o (<<x>> \o c)])
<1>1. Joint(a, c) = << >>
  <2> SUFFICES ASSUME a # << >>, c # << >>, a[Len(a)].part = "head",
                      c[1] = [part |-> "rest", of |-> a[Len(a)].of]
               PROVE  FALSE
    BY DEF Joint
  <2> DEFINE old == a \o (<<x>> \o c)
             i == Len(a)
             j == Len(a) + 1 + 1
  <2>1. Len(a) \in Nat /\ Len(c) \in Nat /\ i \in 1..Len(a) /\ 1 \in 1..Len(c)
    OBVIOUS
  <2>2. /\ Len(old) = Len(a) + 1 + Len(c)
        /\ \A k \in 1..Len(a) : old[k] = a[k]
        /\ \A k \in 1..Len(c) : old[Len(a) + 1 + k] = c[k]
    BY Around
  <2> HIDE DEF old
  <2>3. i \in 1..Len(old) /\ j \in 1..Len(old) /\ i < j /\ j # i + 1
    BY <2>1, <2>2
  <2>4. old[i] = a[Len(a)] /\ old[j] = c[1]
    BY <2>1, <2>2
  <2>5. old[i].of = old[j].of
    BY <2>4
  <2>6. Apart(old)
    BY DEF old
  <2> HIDE DEF i, j
  <2> QED  BY <2>3, <2>5, <2>6 DEF Apart
<1>2. Intact[a] \in Seq(Message) /\ Intact[c] \in Seq(Message)
  BY Intacts
<1>3. Intact[a \o c] = Intact[a] \o (Joint(a, c) \o Intact[c])
  BY Together
<1>4. Intact[a \o c] = Intact[a] \o Intact[c]
  BY <1>1, <1>2, <1>3, FramesJoin
<1> QED  BY <1>4, Damaged

LEMMA BentCosts ==
  ASSUME NEW a \in Seq(Part), NEW x \in Part, NEW y \in Part, NEW c \in Seq(Part),
         y.part = "bent"
  PROVE  OneLess(Intact[a \o (<<y>> \o c)], Intact[a \o (<<x>> \o c)])
<1> DEFINE h == <<y>>
           t == h \o c
<1>1. h \in Seq(Part) /\ h # << >> /\ Len(h) = 1 /\ h[1] = y /\ Intact[h] = << >>
  BY Alone
<1> HIDE DEF h
<1>2. t \in Seq(Part) /\ t # << >> /\ t[1] = y
  BY <1>1, FirstOfTwo
<1>3. Joint(a, t) = << >> /\ Joint(h, c) = << >>
  BY <1>1, <1>2 DEF Joint
<1>4. Intact[a] \in Seq(Message) /\ Intact[c] \in Seq(Message)
  BY Intacts
<1>5. Intact[t] = << >> \o (<< >> \o Intact[c])
  BY <1>1, <1>3, Together
<1> HIDE DEF t
<1>6. Intact[t] = Intact[c]
  BY <1>4, <1>5, FramesJoin
<1>7. Intact[a \o t] = Intact[a] \o (<< >> \o Intact[t])
  BY <1>2, <1>3, Together
<1>8. Intact[a \o t] = Intact[a] \o Intact[c]
  BY <1>4, <1>6, <1>7, FramesJoin
<1> QED  BY <1>8, Damaged DEF t, h

(* A frame written with the board's counter is like none of those it may   *)
(* still meet on the way, if the counter is wide enough.                   *)
LEMMA NotYet ==
  ASSUME NEW p \in Seq(Part), NEW b, b.here, NEW lost \in Nat, Aged(p, b, lost),
         b.counter \in 0..(CounterMod - 1), Len(p) + lost < CounterMod,
         NEW m \in Message, m.said.conn = b.conn, m.counter = b.counter
  PROVE  \A k \in 1..Len(p) : p[k].of # m
<1> SUFFICES ASSUME NEW k \in 1..Len(p), p[k].of = m PROVE FALSE
  OBVIOUS
<1>1. PICK a \in 1..(Len(p) - k + 1 + lost) : m.counter + a \in {b.counter, b.counter + CounterMod}
  BY DEF Aged
<1>2. CounterMod \in Nat /\ Len(p) \in Nat /\ b.counter \in Nat
  BY BridgeConstants
<1> QED  BY <1>1, <1>2

LEMMA Packed ==
  ASSUME NEW p \in Seq(Part), NEW m \in Message
  PROVE  LET q == p \o Pack(m) IN
         /\ q \in Seq(Part) /\ Len(q) = Len(p) + 2 /\ Len(p) \in Nat
         /\ \A i \in 1..Len(p) : q[i] = p[i]
         /\ q[Len(p) + 1] = [part |-> "head", of |-> m]
         /\ q[Len(p) + 2] = [part |-> "rest", of |-> m]
<1> DEFINE k == Pack(m)
           q == p \o k
<1>1. k \in Seq(Part) /\ Len(k) = 2 /\ k[1] = [part |-> "head", of |-> m]
      /\ k[2] = [part |-> "rest", of |-> m]
  BY DEF Pack, Part
<1> HIDE DEF k
<1>2. /\ q \in Seq(Part) /\ Len(q) = Len(p) + Len(k) /\ Len(p) \in Nat
      /\ \A i \in 1..Len(p) : q[i] = p[i]
      /\ \A i \in 1..Len(k) : q[Len(p) + i] = k[i]
  BY <1>1, Indices
<1> HIDE DEF q
<1>3. 1 \in 1..Len(k) /\ 2 \in 1..Len(k)
  BY <1>1
<1> QED  BY <1>1, <1>2, <1>3 DEF q, k

LEMMA WrittenApart ==
  ASSUME NEW p \in Seq(Part), NEW m \in Message, Apart(p), \A k \in 1..Len(p) : p[k].of # m
  PROVE  Apart(p \o Pack(m))
<1> DEFINE q == p \o Pack(m)
<1>1. /\ Len(q) = Len(p) + 2 /\ Len(p) \in Nat
      /\ \A i \in 1..Len(p) : q[i] = p[i]
      /\ q[Len(p) + 1] = [part |-> "head", of |-> m]
      /\ q[Len(p) + 2] = [part |-> "rest", of |-> m]
  BY Packed
<1> HIDE DEF q
<1> SUFFICES ASSUME NEW i \in 1..Len(q), NEW j \in 1..Len(q), i < j, q[i].of = q[j].of
             PROVE  j = i + 1 /\ q[i].part # "rest" /\ q[j].part = "rest"
  BY DEF Apart, q
<1>2. CASE j <= Len(p)
  <2>1. i \in 1..Len(p) /\ j \in 1..Len(p) /\ p[i].of = p[j].of /\ q[i] = p[i] /\ q[j] = p[j]
    BY <1>1, <1>2
  <2> QED  BY <2>1 DEF Apart
<1>3. CASE j > Len(p)
  <2>1. q[j].of = m
    <3>1. j = Len(p) + 1 \/ j = Len(p) + 2
      BY <1>1, <1>3
    <3> QED  BY <1>1, <3>1
  <2>2. i > Len(p)
    <3> SUFFICES ASSUME i <= Len(p) PROVE FALSE
      BY <1>1
    <3>1. i \in 1..Len(p) /\ q[i] = p[i]
      BY <1>1
    <3> QED  BY <2>1, <3>1
  <2>3. i = Len(p) + 1 /\ j = Len(p) + 2
    BY <1>1, <1>3, <2>2
  <2> QED  BY <1>1, <2>3
<1> QED  BY <1>1, <1>2, <1>3

LEMMA SmallMod == ASSUME NEW n \in Nat, NEW m \in Nat, n < m PROVE n % m = n
OBVIOUS

Following(n) == (n + 1) % CounterMod

LEMMA FollowingIs ==
  ASSUME NEW n \in 0..(CounterMod - 1)
  PROVE  Following(n) = IF n + 1 = CounterMod THEN 0 ELSE n + 1
<1>0. CounterMod \in Nat /\ CounterMod > 0 /\ n \in Nat /\ n < CounterMod
  BY BridgeConstants
<1>1. CASE n + 1 = CounterMod
  <2>1. CounterMod % CounterMod = 0
    BY <1>0
  <2> QED  BY <1>1, <2>1 DEF Following
<1>2. CASE n + 1 # CounterMod
  <2>1. n + 1 \in Nat /\ n + 1 < CounterMod
    BY <1>0, <1>2
  <2>2. (n + 1) % CounterMod = n + 1
    BY <1>0, <2>1, SmallMod
  <2> QED  BY <1>2, <2>2 DEF Following
<1> QED  BY <1>1, <1>2

LEMMA WrittenAged ==
  ASSUME NEW p \in Seq(Part), NEW b, b.here, NEW lost \in Nat, Aged(p, b, lost),
         b.counter \in 0..(CounterMod - 1), Len(p) + lost < CounterMod,
         NEW m \in Message, m.counter = b.counter,
         NEW c, c.conn = b.conn, c.counter = Following(b.counter)
  PROVE  Aged(p \o Pack(m), c, lost)
<1> DEFINE q == p \o Pack(m)
<1>1. /\ Len(q) = Len(p) + 2 /\ Len(p) \in Nat
      /\ \A i \in 1..Len(p) : q[i] = p[i]
      /\ q[Len(p) + 1] = [part |-> "head", of |-> m]
      /\ q[Len(p) + 2] = [part |-> "rest", of |-> m]
  BY Packed
<1>0. CounterMod \in Nat /\ CounterMod > 0 /\ b.counter \in Nat /\ b.counter < CounterMod
  BY BridgeConstants
<1>2. c.counter = IF b.counter + 1 = CounterMod THEN 0 ELSE b.counter + 1
  BY <1>0, FollowingIs
<1> HIDE DEF q
<1> SUFFICES ASSUME NEW k \in 1..Len(q), q[k].of.said.conn = c.conn
             PROVE  \E a \in 1..(Len(q) - k + 1 + lost) :
                      q[k].of.counter + a \in {c.counter, c.counter + CounterMod}
  BY DEF Aged, q
<1>3. CASE k <= Len(p)
  <2>1. k \in 1..Len(p) /\ q[k] = p[k] /\ p[k].of.counter \in 0..(CounterMod - 1)
    <3>1. k \in 1..Len(p) /\ q[k] = p[k]
      BY <1>1, <1>3
    <3>2. p[k] \in Part
      BY <3>1
    <3>3. p[k].of \in Message
      BY <3>2 DEF Part
    <3> QED  BY <3>1, <3>3 DEF Message
  <2>2. PICK a \in 1..(Len(p) - k + 1 + lost) :
          p[k].of.counter + a \in {b.counter, b.counter + CounterMod}
    BY <2>1 DEF Aged
  <2> DEFINE x == p[k].of.counter
  <2>3. /\ x \in Nat /\ x < CounterMod /\ a \in Nat /\ a <= Len(p) + lost
        /\ a + 1 \in 1..(Len(q) - k + 1 + lost)
    <3>1. x \in 0..(CounterMod - 1) /\ Len(p) \in Nat /\ Len(q) = Len(p) + 2
      BY <1>1, <2>1
    <3> HIDE DEF x
    <3>2. x \in Nat /\ x < CounterMod
      BY <1>0, <3>1
    <3>3. a \in Nat /\ a <= Len(p) + lost /\ a + 1 \in 1..(Len(q) - k + 1 + lost)
      BY <2>1, <3>1
    <3> QED  BY <3>2, <3>3
  <2>4. x + a = b.counter \/ x + a = b.counter + CounterMod
    BY <2>2
  <2> HIDE DEF x
  <2>5. x + (a + 1) = c.counter \/ x + (a + 1) = c.counter + CounterMod
    <3>1. CASE b.counter + 1 = CounterMod
      <4>1. c.counter = 0
        BY <1>2, <3>1
      <4>2. x + a # b.counter + CounterMod
        <5> DEFINE n == b.counter
        <5>1. n \in Nat /\ x \in Nat /\ a \in Nat /\ x < CounterMod /\ a <= n /\ CounterMod \in Nat
          <6>1. Len(p) + lost <= b.counter
            BY <1>0, <1>1, <3>1
          <6> QED  BY <1>0, <1>1, <2>3, <6>1
        <5> HIDE DEF n
        <5>2. x + a < n + CounterMod
          BY <5>1
        <5> QED  BY <5>1, <5>2 DEF n
      <4>3. x + (a + 1) = b.counter + 1
        BY <1>0, <2>3, <2>4, <4>2
      <4> QED  BY <1>0, <3>1, <4>1, <4>3
    <3>2. CASE b.counter + 1 # CounterMod
      <4>1. c.counter = b.counter + 1
        BY <1>2, <3>2
      <4> DEFINE n == b.counter
      <4>3. n \in Nat /\ (x + a = n \/ x + a = n + CounterMod)
        BY <1>0, <2>4
      <4> HIDE DEF n
      <4>4. x + (a + 1) = n + 1 \/ x + (a + 1) = (n + 1) + CounterMod
        BY <1>0, <2>3, <4>3
      <4>2. x + (a + 1) = b.counter + 1 \/ x + (a + 1) = (b.counter + 1) + CounterMod
        BY <4>4 DEF n
      <4> QED  BY <4>1, <4>2, Zenon
    <3> QED  BY <3>1, <3>2
  <2> QED  BY <2>1, <2>3, <2>5 DEF x
<1>4. CASE k > Len(p)
  <2>1. q[k].of = m
    <3>1. k = Len(p) + 1 \/ k = Len(p) + 2
      BY <1>1, <1>4
    <3> QED  BY <1>1, <3>1
  <2>2. 1 \in 1..(Len(q) - k + 1 + lost)
    BY <1>1
  <2>3. m.counter + 1 = c.counter \/ m.counter + 1 = c.counter + CounterMod
    BY <1>0, <1>2
  <2> QED  BY <2>1, <2>2, <2>3
<1> QED  BY <1>1, <1>3, <1>4

------------------------------------------------------------------------------
(* The inductive invariant of the cable.                                   *)

(* Without a bridge that runs, a port it has open and a cable that is in,  *)
(* nothing is on the way and the board is in no conversation.              *)
Silent ==
  ~(bridge.alive /\ bridge.port /\ plugged) => up = << >> /\ down = << >> /\ ~board.here

NoPort == ~bridge.alive => ~bridge.port

Short == Len(bridge.pending) <= Stretch

(* The counter does not come round while what it numbered may still be     *)
(* on the way.                                                             *)
WideCounter == CounterMod > MaxUp + Stretch + MaxMishaps

CableInv ==
  /\ TypeOK /\ Silent /\ NoPort /\ Short
  /\ WideCounter => Apart(Line) /\ Aged(Line, board, mishaps)

CableStep == [Cable!Next]_(Cable!vars)

LEMMA LineType ==
  ASSUME TypeOK
  PROVE  /\ bridge.pending \in Seq(Part) /\ up \in Seq(Part) /\ Line \in Seq(Part)
         /\ Parts \in Seq(Part) /\ UnderWay \in Seq(Message)
         /\ mishaps \in Nat
<1>1. bridge.pending \in Seq(Part) /\ up \in Seq(Part) /\ mishaps \in Nat
  BY DEF TypeOK, Carried
<1>2. Line \in Seq(Part)
  BY <1>1, PartsJoin DEF Line
<1>3. Parts \in Seq(Part)
  BY <1>2, NothingIntact DEF Parts, Line
<1>4. UnderWay \in Seq(Message)
  BY <1>3, Intacts DEF UnderWay
<1> QED  BY <1>1, <1>2, <1>3, <1>4

LEMMA NoNews ==
  ASSUME UnderWay' = UnderWay, bridge'.taken = bridge.taken,
         mishaps' = mishaps \/ mishaps' = mishaps + 1
  PROVE  CableStep
BY DEF CableStep, Cable!Next, Cable!Fault, Cable!vars

LEMMA AllLost ==
  ASSUME UnderWay' = << >>, bridge'.taken = bridge.taken, mishaps' = mishaps + 1
  PROVE  CableStep
BY DEF CableStep, Cable!Next, Cable!Fault

LEMMA OneLost ==
  ASSUME OneLess(UnderWay', UnderWay), bridge'.taken = bridge.taken, mishaps' = mishaps + 1
  PROVE  CableStep
<1>1. CASE UnderWay' = UnderWay
  BY <1>1, NoNews
<1>2. CASE \E k \in 1..Len(UnderWay) : UnderWay' = RemoveAt(UnderWay, k)
  <2>1. PICK k \in 1..Len(UnderWay) : UnderWay' = RemoveAt(UnderWay, k)
    BY <1>2
  <2>2. RemoveAt(UnderWay, k) = Cable!RemoveAt(UnderWay, k)
    BY DEF RemoveAt, Cable!RemoveAt
  <2>3. Cable!Fault
    BY <2>1, <2>2 DEF Cable!Fault
  <2> QED  BY <2>3 DEF CableStep, Cable!Next
<1> QED  BY <1>1, <1>2 DEF OneLess

LEMMA SameLine ==
  ASSUME CableInv, TypeOK', Silent', NoPort',
         up' = up, bridge'.pending = bridge.pending, bridge'.taken = bridge.taken,
         (bridge'.port /\ plugged') = (bridge.port /\ plugged),
         WideCounter => Aged(Line, board', mishaps'),
         mishaps' = mishaps \/ mishaps' = mishaps + 1
  PROVE  CableInv' /\ (WideCounter => CableStep)
<1>1. Line' = Line /\ Short' /\ (WideCounter => Apart(Line)')
  <2>1. Line' = Line
    BY DEF Line
  <2>2. WideCounter => Apart(Line')
    BY <2>1 DEF CableInv
  <2> QED  BY <2>1, <2>2 DEF CableInv, Short, Apart
<1>2. WideCounter => Aged(Line, board, mishaps)'
  BY <1>1 DEF Aged
<1>3. Parts' = Parts
  <2>1. CASE bridge.port /\ plugged
    <3>1. bridge'.port /\ plugged'
      BY <2>1
    <3> QED  BY <2>1, <3>1 DEF Parts
  <2>2. CASE ~(bridge.port /\ plugged)
    <3>1. ~(bridge'.port /\ plugged')
      BY <2>2
    <3> QED  BY <2>2, <3>1 DEF Parts
  <2> QED  BY <2>1, <2>2
<1>4. UnderWay' = UnderWay
  BY <1>3 DEF UnderWay
<1> QED  BY <1>1, <1>2, <1>4, NoNews DEF CableInv

LEMMA FrontThinned ==
  ASSUME NEW p \in Seq(Part), NEW t \in Seq(Part)
  PROVE  \E g : Thinned(p, p \o t, g, Len(t))
<1> DEFINE g == [i \in 1..Len(p) |-> i]
           old == p \o t
<1>1. Len(old) = Len(p) + Len(t) /\ Len(p) \in Nat /\ Len(t) \in Nat
      /\ \A i \in 1..Len(p) : old[i] = p[i]
  OBVIOUS
<1> HIDE DEF old
<1>2. Thinned(p, old, g, Len(t))
  BY <1>1 DEF Thinned
<1> QED  BY <1>2 DEF old

LEMMA EmptyLine ==
  ASSUME CableInv, TypeOK', Silent', NoPort', ~board'.here, up' = << >>,
         bridge'.pending = << >> \/ (bridge'.pending = bridge.pending /\ ~(bridge'.port /\ plugged')),
         bridge'.taken = bridge.taken,
         mishaps' = mishaps + 1 \/ (mishaps' = mishaps /\ ~(bridge.port /\ plugged))
  PROVE  CableInv' /\ (WideCounter => CableStep)
<1>0. bridge.pending \in Seq(Part) /\ up \in Seq(Part) /\ << >> \in Seq(Part)
  BY LineType, NothingIntact DEF CableInv
<1>1. Line' = bridge'.pending
  <2>1. bridge'.pending \in Seq(Part)
    BY <1>0
  <2> QED  BY <2>1, PartsJoin DEF Line
<1>2. Short' /\ (WideCounter => Apart(Line)')
  <2>1. CASE bridge'.pending = << >>
    <3>1. Len(<< >>) = 0 /\ Apart(<< >>)
      BY DEF Apart
    <3>2. Apart(Line')
      BY <1>1, <2>1, <3>1
    <3> QED  BY <2>1, <3>1, <3>2, BridgeConstants DEF Short, Apart
  <2>2. CASE bridge'.pending = bridge.pending
    <3>1. PICK g : Thinned(bridge.pending, bridge.pending \o up, g, Len(up))
      BY <1>0, FrontThinned
    <3>2. WideCounter => Apart(bridge.pending)
      <4> SUFFICES ASSUME WideCounter PROVE Apart(bridge.pending)
        OBVIOUS
      <4>1. Apart(bridge.pending \o up) /\ bridge.pending \o up \in Seq(Part) /\ Len(up) \in Nat
        BY <1>0, PartsJoin DEF CableInv, Line
      <4> QED  BY <1>0, <3>1, <4>1, ThinnedApart
    <3>3. WideCounter => Apart(Line')
      BY <1>1, <2>2, <3>2
    <3> QED  BY <2>2, <3>3 DEF Short, Apart, CableInv
  <2> QED  BY <2>1, <2>2
<1>3. Aged(Line, board, mishaps)'
  BY DEF Aged
<1>4. Parts' = << >>
  <2>1. CASE ~(bridge'.port /\ plugged')
    BY <2>1 DEF Parts
  <2>2. CASE bridge'.pending = << >>
    BY <1>1, <2>2 DEF Parts, Line
  <2> QED  BY <2>1, <2>2
<1>5. UnderWay' = << >>
  BY <1>4, NothingIntact DEF UnderWay
<1>6. CableStep
  <2>1. CASE mishaps' = mishaps + 1
    BY <1>5, <2>1, AllLost
  <2>2. CASE mishaps' = mishaps /\ ~(bridge.port /\ plugged)
    <3>1. UnderWay = << >>
      BY <2>2, NothingIntact DEF UnderWay, Parts
    <3> QED  BY <1>5, <2>2, <3>1, NoNews
  <2> QED  BY <2>1, <2>2
<1> QED  BY <1>2, <1>3, <1>6 DEF CableInv

------------------------------------------------------------------------------
(* Step by step.                                                           *)
LEMMA Empties ==
  /\ << >> \in Seq(Part) /\ << >> \in Seq(Message) /\ << >> \in Seq(State)
  /\ << >> \in Seq({"hello", "stop", "configure"}) /\ << >> \in Seq({"stop", "configure"})
  /\ Len(<< >>) = 0
OBVIOUS

Boards == [here : BOOLEAN, conn : Conns, announced : BOOLEAN, owes : BOOLEAN,
           stopping : BOOLEAN, counter : 0..(CounterMod - 1)]

LEMMA QuietBoard ==
  ASSUME NEW b \in Boards
  PROVE  CableWentQuiet(b) \in Boards /\ ~CableWentQuiet(b).here
BY DEF Boards, CableWentQuiet

(* What a step in which the cable goes quiet leaves of the types.          *)
LEMMA QuietTypes ==
  ASSUME TypeOK, mishaps < MaxMishaps, mishaps' = mishaps + 1,
         up' = << >>, down' = << >>, board' = CableWentQuiet(board), broker' \in BOOLEAN,
         plugged' \in BOOLEAN, hub' \in Conns \cup {None}, orphan' \in BOOLEAN,
         bridge' \in Carried, bridge'.said = << >>
  PROVE  TypeOK' /\ ~board'.here
<1>1. board' \in Boards /\ ~board'.here
  BY QuietBoard DEF TypeOK, Boards
<1>2. mishaps' \in 0..MaxMishaps
  BY BridgeConstants DEF TypeOK
<1>3. up' \in Seq(Part) /\ Len(up') <= MaxUp /\ down' \in Seq({"hello", "stop", "configure"})
  BY Empties, BridgeConstants
<1> QED  BY <1>1, <1>2, <1>3 DEF TypeOK, Boards

LEMMA NewTyped ==
  /\ NewCarried \in Carried
  /\ NewCarried.alive /\ ~NewCarried.port /\ NewCarried.pending = << >> /\ NewCarried.said = << >>
BY Empties DEF NewCarried, Carried

LEMMA OpenThePortCable ==
  ASSUME CableInv, OpenThePort
  PROVE  CableInv' /\ (WideCounter => CableStep)
<1>1. TypeOK /\ bridge \in Carried
  BY DEF CableInv, TypeOK
<1>2. /\ bridge' = [bridge EXCEPT !.port = TRUE, !.pending = << >>]
      /\ bridge.alive /\ ~bridge.port /\ plugged
      /\ UNCHANGED <<board, plugged, up, down, broker, hub, orphan, mishaps>>
  BY DEF OpenThePort, Running
<1>3. up = << >> /\ down = << >> /\ ~board.here
  BY <1>2 DEF CableInv, Silent
<1>4. /\ bridge' \in Carried /\ bridge'.port /\ bridge'.pending = << >> /\ bridge'.alive
      /\ bridge'.taken = bridge.taken /\ bridge'.said = << >>
  BY <1>1, <1>2, NothingIntact DEF Carried, TypeOK
<1>5. TypeOK'
  BY <1>1, <1>2, <1>4 DEF TypeOK
<1>6. Silent' /\ NoPort'
  BY <1>2, <1>3, <1>4 DEF Silent, NoPort
<1> QED  BY <1>2, <1>3, <1>4, <1>5, <1>6, EmptyLine

LEMMA StartedCable ==
  ASSUME CableInv, Started
  PROVE  CableInv' /\ (WideCounter => CableStep)
<1>1. TypeOK /\ bridge \in Carried
  BY DEF CableInv, TypeOK
<1>2. /\ bridge' = [NewCarried EXCEPT !.taken = bridge.taken] /\ ~bridge.alive
      /\ UNCHANGED <<board, plugged, up, down, broker, hub, orphan, mishaps>>
  BY DEF Started, Running
<1>3. up = << >> /\ down = << >> /\ ~board.here /\ ~bridge.port
  BY <1>2 DEF CableInv, Silent, NoPort
<1>4. /\ bridge' \in Carried /\ ~bridge'.port /\ bridge'.pending = << >> /\ bridge'.alive
      /\ bridge'.taken = bridge.taken /\ bridge'.said = << >>
  BY <1>1, <1>2, NewTyped DEF Carried
<1>5. TypeOK'
  BY <1>1, <1>2, <1>4 DEF TypeOK
<1>6. Silent' /\ NoPort'
  BY <1>2, <1>3, <1>4 DEF Silent, NoPort
<1> QED  BY <1>2, <1>3, <1>4, <1>5, <1>6, EmptyLine

LEMMA KilledCable ==
  ASSUME CableInv, Killed
  PROVE  CableInv' /\ (WideCounter => CableStep)
<1>1. TypeOK /\ bridge \in Carried
  BY DEF CableInv, TypeOK
<1>2. /\ bridge' = [NewCarried EXCEPT !.alive = FALSE, !.taken = bridge.taken] /\ bridge.alive
      /\ mishaps < MaxMishaps /\ mishaps' = mishaps + 1
      /\ up' = << >> /\ down' = << >> /\ board' = CableWentQuiet(board)
      /\ UNCHANGED <<plugged, broker>>
  BY DEF Killed, Running, Mishap
<1>3. /\ bridge' \in Carried /\ ~bridge'.port /\ bridge'.pending = << >> /\ ~bridge'.alive
      /\ bridge'.taken = bridge.taken /\ bridge'.said = << >>
  BY <1>1, <1>2, NewTyped DEF Carried
<1>4. hub' \in Conns \cup {None} /\ orphan' \in BOOLEAN
  <2>1. orphan' \in BOOLEAN
    BY DEF Killed, Orphaned
  <2>2. hub' = IF bridge.client # None /\ bridge.client.up THEN HubHears(hub, Will) ELSE hub
    BY DEF Killed
  <2>3. hub \in Conns \cup {None}
    BY <1>1 DEF TypeOK
  <2>4. HubHears(hub, Will) \in Conns \cup {None}
    BY <2>3 DEF HubHears, Will
  <2> QED  BY <2>1, <2>2, <2>3, <2>4
<1>5. TypeOK' /\ ~board'.here
  BY <1>1, <1>2, <1>3, <1>4, QuietTypes DEF TypeOK
<1>6. Silent' /\ NoPort'
  BY <1>2, <1>3, <1>5 DEF Silent, NoPort
<1> QED  BY <1>2, <1>3, <1>5, <1>6, EmptyLine

LEMMA StopCable ==
  ASSUME CableInv, Stop
  PROVE  CableInv' /\ (WideCounter => CableStep)
<1>1. TypeOK /\ bridge \in Carried
  BY DEF CableInv, TypeOK
<1> DEFINE b == [LetGo(bridge) EXCEPT !.alive = FALSE, !.pending = << >>, !.commands = << >>]
<1>2. /\ Becomes(b) /\ bridge.alive
      /\ mishaps < MaxMishaps /\ mishaps' = mishaps + 1
      /\ up' = << >> /\ down' = << >> /\ board' = CableWentQuiet(board)
      /\ UNCHANGED <<plugged, broker>>
  BY DEF Stop, Running, Mishap
<1>3. b \in Carried /\ ~b.alive /\ ~b.port /\ b.pending = << >> /\ b.taken = bridge.taken
  <2>1. Keeps(LetGo(bridge), [bridge EXCEPT !.port = FALSE])
    BY <1>1, LetGoKeeps
  <2> HIDE DEF b
  <2>2. LetGo(bridge) \in Carried /\ ~LetGo(bridge).port /\ LetGo(bridge).taken = bridge.taken
    BY <1>1, <2>1 DEF Keeps, Carried
  <2> QED  BY <2>2, Empties DEF Carried, b
<1> HIDE DEF b
<1>4. /\ bridge' \in Carried /\ ~bridge'.port /\ bridge'.pending = << >> /\ ~bridge'.alive
      /\ bridge'.taken = bridge.taken /\ bridge'.said = << >>
      /\ hub' \in Conns \cup {None} /\ orphan' \in BOOLEAN
  BY <1>1, <1>2, <1>3, BecomesKeeps DEF Keeps
<1>5. TypeOK' /\ ~board'.here
  BY <1>1, <1>2, <1>4, QuietTypes DEF TypeOK
<1>6. Silent' /\ NoPort'
  BY <1>2, <1>4, <1>5 DEF Silent, NoPort
<1> QED  BY <1>2, <1>4, <1>5, <1>6, EmptyLine

LEMMA UnplugCable ==
  ASSUME CableInv, Unplug
  PROVE  CableInv' /\ (WideCounter => CableStep)
<1>1. TypeOK /\ bridge \in Carried
  BY DEF CableInv, TypeOK
<1>2. /\ mishaps < MaxMishaps /\ mishaps' = mishaps + 1
      /\ plugged' = FALSE /\ up' = << >> /\ down' = << >> /\ board' = CableWentQuiet(board)
      /\ UNCHANGED <<bridge, broker, hub, orphan>>
  BY DEF Unplug, Mishap
<1>3. TypeOK' /\ ~board'.here
  BY <1>1, <1>2, QuietTypes DEF TypeOK
<1>4. Silent' /\ NoPort'
  BY <1>2, <1>3 DEF Silent, NoPort, CableInv
<1> QED  BY <1>2, <1>3, <1>4, EmptyLine

LEMMA AgedOn ==
  ASSUME CableInv, mishaps' = mishaps \/ mishaps' = mishaps + 1,
         NEW b, ~b.here \/ (b.here = board.here /\ b.conn = board.conn /\ b.counter = board.counter)
  PROVE  WideCounter => Aged(Line, b, mishaps')
<1> SUFFICES ASSUME WideCounter, b.here, NEW k \in 1..Len(Line), Line[k].of.said.conn = b.conn
             PROVE  \E a \in 1..(Len(Line) - k + 1 + mishaps') :
                      Line[k].of.counter + a \in {b.counter, b.counter + CounterMod}
  BY DEF Aged
<1>1. mishaps \in Nat /\ Line \in Seq(Part)
  BY LineType DEF CableInv
<1>2. PICK a \in 1..(Len(Line) - k + 1 + mishaps) :
        Line[k].of.counter + a \in {board.counter, board.counter + CounterMod}
  BY DEF CableInv, Aged
<1>3. a \in 1..(Len(Line) - k + 1 + mishaps')
  <2> DEFINE n == Len(Line)
  <2>1. n \in Nat /\ k \in 1..n
    BY <1>1
  <2> HIDE DEF n
  <2> QED  BY <1>1, <1>2, <2>1 DEF n
<1> QED  BY <1>2, <1>3

(* Steps of the bridge that leave the cable's end as it is, or close a     *)
(* port that is dead.                                                      *)
LEMMA BridgeTurns ==
  ASSUME CableInv, TypeOK',
         bridge'.alive = bridge.alive,
         bridge'.pending = bridge.pending, bridge'.taken = bridge.taken,
         bridge'.port = bridge.port \/ (~bridge'.port /\ ~plugged),
         UNCHANGED <<board, plugged, up>>,
         down' = down \/ (bridge.alive /\ bridge.port /\ plugged),
         mishaps' = mishaps \/ mishaps' = mishaps + 1
  PROVE  CableInv' /\ (WideCounter => CableStep)
<1>1. Silent' /\ NoPort'
  <2>1. NoPort'
    BY DEF CableInv, NoPort
  <2>2. CASE bridge.alive /\ bridge.port /\ plugged
    <3>1. bridge'.alive /\ bridge'.port /\ plugged'
      BY <2>2
    <3> QED  BY <2>1, <3>1 DEF Silent
  <2>3. CASE ~(bridge.alive /\ bridge.port /\ plugged)
    <3>1. up = << >> /\ down = << >> /\ ~board.here
      BY <2>3 DEF CableInv, Silent
    <3>2. up' = << >> /\ down' = << >> /\ ~board'.here
      BY <2>3, <3>1
    <3> QED  BY <2>1, <3>2 DEF Silent
  <2> QED  BY <2>1, <2>2, <2>3
<1>2. WideCounter => Aged(Line, board', mishaps')
  BY AgedOn
<1>3. (bridge'.port /\ plugged') = (bridge.port /\ plugged)
  OBVIOUS
<1> QED  BY <1>1, <1>2, <1>3, SameLine

LEMMA MishapTyped ==
  ASSUME TypeOK, Mishap \/ UNCHANGED mishaps
  PROVE  mishaps' \in 0..MaxMishaps /\ (mishaps' = mishaps \/ mishaps' = mishaps + 1)
BY BridgeConstants DEF TypeOK, Mishap

LEMMA PlugInCable ==
  ASSUME CableInv, PlugIn
  PROVE  CableInv' /\ (WideCounter => CableStep)
<1>1. /\ ~plugged /\ ~bridge.port /\ plugged' = TRUE
      /\ UNCHANGED <<board, up, down, bridge, broker, hub, orphan, mishaps>>
  BY DEF PlugIn
<1>2. TypeOK'
  BY <1>1 DEF CableInv, TypeOK
<1>3. Silent' /\ NoPort'
  BY <1>1 DEF CableInv, Silent, NoPort
<1>4. WideCounter => Aged(Line, board', mishaps')
  BY <1>1, AgedOn
<1> QED  BY <1>1, <1>2, <1>3, <1>4, SameLine

LEMMA BrokerBackCable ==
  ASSUME CableInv, BrokerBack
  PROVE  CableInv' /\ (WideCounter => CableStep)
<1>1. /\ broker' = TRUE
      /\ UNCHANGED <<board, plugged, up, down, bridge, hub, orphan, mishaps>>
  BY DEF BrokerBack
<1>2. TypeOK'
  BY <1>1 DEF CableInv, TypeOK
<1> QED  BY <1>1, <1>2, BridgeTurns

LEMMA ACommandArrivedCable ==
  ASSUME CableInv, ACommandArrived
  PROVE  CableInv' /\ (WideCounter => CableStep)
<1>1. PICK c \in {"stop", "configure"} : bridge' = [bridge EXCEPT !.commands = Append(@, c)]
  BY DEF ACommandArrived
<1>2. Mishap /\ UNCHANGED <<board, plugged, up, down, broker, hub, orphan>>
  BY DEF ACommandArrived
<1>3. TypeOK /\ bridge \in Carried /\ bridge.commands \in Seq({"stop", "configure"})
  BY DEF CableInv, TypeOK, Carried
<1>4. Append(bridge.commands, c) \in Seq({"stop", "configure"})
  BY <1>3
<1>5. /\ bridge' \in Carried /\ bridge'.alive = bridge.alive /\ bridge'.port = bridge.port
      /\ bridge'.pending = bridge.pending /\ bridge'.taken = bridge.taken
      /\ bridge'.said = bridge.said
  BY <1>1, <1>3, <1>4 DEF Carried
<1>6. TypeOK' /\ (mishaps' = mishaps \/ mishaps' = mishaps + 1)
  BY <1>2, <1>3, <1>5, MishapTyped DEF TypeOK
<1> QED  BY <1>2, <1>5, <1>6, BridgeTurns

LEMMA BrokerDropsCable ==
  ASSUME CableInv, NEW still \in BOOLEAN, BrokerDrops(still)
  PROVE  CableInv' /\ (WideCounter => CableStep)
<1>1. Mishap /\ broker' = still /\ UNCHANGED <<board, plugged, up, down>> /\ Orphaned
  BY DEF BrokerDrops
<1>2. TypeOK /\ bridge \in Carried /\ hub \in Conns \cup {None}
  BY DEF CableInv, TypeOK
<1>3. /\ bridge' \in Carried /\ bridge'.alive = bridge.alive /\ bridge'.port = bridge.port
      /\ bridge'.pending = bridge.pending /\ bridge'.taken = bridge.taken
      /\ bridge'.said = bridge.said /\ hub' \in Conns \cup {None}
  <2>1. CASE bridge.client # None /\ bridge.client.up
    <3>1. bridge' = [bridge EXCEPT !.client.up = FALSE] /\ hub' = HubHears(hub, Will)
      BY <2>1 DEF BrokerDrops
    <3>2. bridge.client \in Client
      BY <1>2, <2>1 DEF Carried
    <3>3. [bridge.client EXCEPT !.up = FALSE] \in Client
      BY <3>2 DEF Client
    <3>4. hub' \in Conns \cup {None}
      BY <1>2, <3>1 DEF HubHears, Will
    <3> QED  BY <1>2, <3>1, <3>3, <3>4 DEF Carried
  <2>2. CASE ~(bridge.client # None /\ bridge.client.up)
    <3>1. UNCHANGED <<bridge, hub>>
      BY <2>2 DEF BrokerDrops
    <3> QED  BY <1>2, <3>1
  <2> QED  BY <2>1, <2>2
<1>4. orphan' \in BOOLEAN
  BY <1>1 DEF Orphaned
<1>5. TypeOK' /\ (mishaps' = mishaps \/ mishaps' = mishaps + 1)
  BY <1>1, <1>2, <1>3, <1>4, MishapTyped DEF TypeOK
<1> QED  BY <1>1, <1>3, <1>5, BridgeTurns

LEMMA ConnectedTyped ==
  ASSUME TypeOK, bridge.client # None,
         NEW b, b = [bridge EXCEPT !.client.up = TRUE, !.client.queue = << >>,
                       !.said = (IF bridge.payload = None THEN << >> ELSE << bridge.payload >>)
                                \o bridge.client.queue]
  PROVE  Keeps(b, bridge)
<1>1. bridge \in Carried /\ bridge.client \in Client
  BY DEF TypeOK, Carried
<1>2. bridge.client.queue \in Seq(State)
  BY <1>1 DEF Client
<1> DEFINE first == IF bridge.payload = None THEN << >> ELSE << bridge.payload >>
<1>3. first \in Seq(State)
  BY <1>1, Empties DEF Carried
<1>4. first \o bridge.client.queue \in Seq(State)
  BY <1>2, <1>3
<1>5. [[bridge.client EXCEPT !.up = TRUE] EXCEPT !.queue = << >>] \in Client
  BY <1>1, Empties DEF Client
<1> HIDE DEF first
<1> QED  BY <1>1, <1>4, <1>5 DEF Carried, Keeps, first

LEMMA ConnectedCable ==
  ASSUME CableInv, Connected
  PROVE  CableInv' /\ (WideCounter => CableStep)
<1> DEFINE b == [bridge EXCEPT !.client.up = TRUE, !.client.queue = << >>,
                  !.said = (IF bridge.payload = None THEN << >> ELSE << bridge.payload >>)
                           \o bridge.client.queue]
<1>1. TypeOK /\ bridge.client # None /\ Becomes(b)
      /\ UNCHANGED <<board, plugged, up, down, broker, mishaps>>
  BY DEF CableInv, Connected
<1>2. Keeps(b, bridge)
  BY <1>1, ConnectedTyped
<1> HIDE DEF b
<1>3. /\ Keeps(bridge', b) /\ bridge'.said = << >>
      /\ hub' \in Conns \cup {None} /\ orphan' \in BOOLEAN
  BY <1>1, <1>2, BecomesKeeps DEF Keeps
<1>4. TypeOK'
  BY <1>1, <1>3 DEF TypeOK, Keeps
<1> QED  BY <1>1, <1>2, <1>3, <1>4, BridgeTurns DEF Keeps

LEMMA PortGoneCable ==
  ASSUME CableInv, PortGone
  PROVE  CableInv' /\ (WideCounter => CableStep)
<1>1. TypeOK /\ bridge \in Carried /\ ~plugged /\ Becomes(LetGo(bridge))
      /\ UNCHANGED <<board, plugged, up, down, broker, mishaps>>
  BY DEF CableInv, TypeOK, PortGone
<1>2. Keeps(LetGo(bridge), [bridge EXCEPT !.port = FALSE])
  BY <1>1, LetGoKeeps
<1>3. /\ Keeps(bridge', LetGo(bridge)) /\ bridge'.said = << >>
      /\ hub' \in Conns \cup {None} /\ orphan' \in BOOLEAN
  BY <1>1, <1>2, BecomesKeeps DEF Keeps
<1>4. /\ bridge' \in Carried /\ ~bridge'.port /\ bridge'.alive = bridge.alive
      /\ bridge'.pending = bridge.pending /\ bridge'.taken = bridge.taken
  BY <1>1, <1>2, <1>3 DEF Keeps, Carried
<1>5. TypeOK'
  BY <1>1, <1>3, <1>4 DEF TypeOK
<1> QED  BY <1>1, <1>4, <1>5, BridgeTurns

LEMMA KeepItGoingCable ==
  ASSUME CableInv, NEW quiet \in BOOLEAN, KeepItGoing(quiet)
  PROVE  CableInv' /\ (WideCounter => CableStep)
<1> DEFINE reached == ReachTheBroker(bridge)
           asked == IF quiet THEN [reached EXCEPT !.state = None, !.payload = None] ELSE reached
           hello == bridge.port /\ asked.state = None
           b == IF hello /\ ~plugged THEN LetGo(asked) ELSE asked
<1>1. /\ bridge.alive /\ Becomes(b)
      /\ down' = IF hello /\ plugged THEN Append(down, "hello") ELSE down
      /\ Mishap \/ UNCHANGED mishaps
      /\ UNCHANGED <<board, plugged, up, broker>>
  BY DEF KeepItGoing, Running
<1>2. TypeOK /\ bridge \in Carried
  BY DEF CableInv, TypeOK
<1>3. Keeps(reached, bridge)
  BY <1>2, ReachKeeps
<1> HIDE DEF reached
<1>4. Keeps(asked, bridge)
  BY <1>3 DEF Keeps, Carried
<1> HIDE DEF asked
<1>5. /\ b \in Carried /\ b.alive = bridge.alive /\ b.pending = bridge.pending
      /\ b.taken = bridge.taken /\ (b.port = bridge.port \/ (~b.port /\ ~plugged))
  <2>1. CASE hello /\ ~plugged
    <3>1. Keeps(LetGo(asked), [asked EXCEPT !.port = FALSE])
      BY <1>4, LetGoKeeps DEF Keeps
    <3>2. b = LetGo(asked)
      BY <2>1
    <3> HIDE DEF b, hello
    <3> QED  BY <1>4, <2>1, <3>1, <3>2 DEF Keeps, Carried
  <2>2. CASE ~(hello /\ ~plugged)
    BY <1>4, <2>2 DEF Keeps
  <2> QED  BY <2>1, <2>2
<1>6. down' = down \/ (bridge.alive /\ bridge.port /\ plugged)
  BY <1>1
<1>7. down' \in Seq({"hello", "stop", "configure"})
  BY <1>1, <1>2 DEF TypeOK
<1> HIDE DEF b, hello
<1>8. /\ Keeps(bridge', b) /\ bridge'.said = << >>
      /\ hub' \in Conns \cup {None} /\ orphan' \in BOOLEAN
  BY <1>1, <1>2, <1>5, BecomesKeeps
<1>9. TypeOK' /\ (mishaps' = mishaps \/ mishaps' = mishaps + 1)
  BY <1>1, <1>2, <1>7, <1>8, MishapTyped DEF TypeOK, Keeps
<1> QED  BY <1>1, <1>5, <1>6, <1>8, <1>9, BridgeTurns DEF Keeps

LEMMA HandOverCommandsCable ==
  ASSUME CableInv, HandOverCommands
  PROVE  CableInv' /\ (WideCounter => CableStep)
<1>1. /\ bridge.alive /\ bridge.commands # << >>
      /\ UNCHANGED <<board, plugged, up, broker, mishaps>>
  BY DEF HandOverCommands, Running
<1>2. TypeOK /\ bridge \in Carried /\ bridge.commands \in Seq({"stop", "configure"})
  BY DEF CableInv, TypeOK, Carried
<1> DEFINE c == [bridge EXCEPT !.commands = Tail(@)]
<1>3. Keeps(c, bridge) /\ c.said = bridge.said
  <2>1. Tail(bridge.commands) \in Seq({"stop", "configure"})
    BY <1>1, <1>2
  <2> QED  BY <1>2, <2>1 DEF Keeps, Carried
<1> HIDE DEF c
<1>4. CASE bridge.port /\ ~plugged
  <2>1. Becomes(LetGo(c)) /\ UNCHANGED down
    BY <1>4 DEF HandOverCommands, c
  <2>2. Keeps(LetGo(c), [c EXCEPT !.port = FALSE])
    BY <1>3, LetGoKeeps DEF Keeps
  <2>3. /\ Keeps(bridge', LetGo(c)) /\ bridge'.said = << >>
        /\ hub' \in Conns \cup {None} /\ orphan' \in BOOLEAN
    BY <1>2, <2>1, <2>2, BecomesKeeps DEF Keeps
  <2>4. /\ bridge' \in Carried /\ ~bridge'.port /\ bridge'.alive = bridge.alive
        /\ bridge'.pending = bridge.pending /\ bridge'.taken = bridge.taken
    BY <1>2, <1>3, <2>2, <2>3 DEF Keeps, Carried
  <2>5. TypeOK'
    BY <1>1, <1>2, <2>1, <2>3, <2>4 DEF TypeOK
  <2> QED  BY <1>1, <1>4, <2>1, <2>4, <2>5, BridgeTurns
<1>5. CASE ~(bridge.port /\ ~plugged)
  <2>1. /\ bridge' = c /\ UNCHANGED <<hub, orphan>>
        /\ down' = IF bridge.port THEN Append(down, Head(bridge.commands)) ELSE down
    BY <1>5 DEF HandOverCommands, c
  <2>2. Head(bridge.commands) \in {"stop", "configure"}
    BY <1>1, <1>2
  <2>3. down' \in Seq({"hello", "stop", "configure"})
    BY <1>2, <2>1, <2>2 DEF TypeOK
  <2>4. TypeOK'
    BY <1>1, <1>2, <1>3, <2>1, <2>3 DEF TypeOK, Keeps
  <2>5. down' = down \/ (bridge.alive /\ bridge.port /\ plugged)
    BY <1>1, <1>5, <2>1
  <2>6. /\ bridge'.alive = bridge.alive /\ bridge'.port = bridge.port
        /\ bridge'.pending = bridge.pending /\ bridge'.taken = bridge.taken
    BY <1>3, <2>1 DEF Keeps
  <2> QED  BY <1>1, <2>4, <2>5, <2>6, BridgeTurns
<1> QED  BY <1>4, <1>5

(* Steps of the board and the cable: the bridge does not move.             *)
LEMMA LoseHelloCable ==
  ASSUME CableInv, LoseHello
  PROVE  CableInv' /\ (WideCounter => CableStep)
<1>1. /\ down # << >> /\ down' = Tail(down) /\ Mishap
      /\ UNCHANGED <<board, plugged, up, bridge, broker, hub, orphan>>
  BY DEF LoseHello
<1>2. TypeOK
  BY DEF CableInv
<1>3. down' \in Seq({"hello", "stop", "configure"})
  BY <1>1, <1>2 DEF TypeOK
<1>4. TypeOK' /\ (mishaps' = mishaps \/ mishaps' = mishaps + 1)
  BY <1>1, <1>2, <1>3, MishapTyped DEF TypeOK
<1>5. bridge.alive /\ bridge.port /\ plugged
  BY <1>1 DEF CableInv, Silent
<1> QED  BY <1>1, <1>4, <1>5, BridgeTurns

LEMMA BoardResetsCable ==
  ASSUME CableInv, BoardResets
  PROVE  CableInv' /\ (WideCounter => CableStep)
<1>1. /\ board' = [CableWentQuiet(board) EXCEPT !.counter = 0] /\ down' = << >> /\ Mishap
      /\ UNCHANGED <<plugged, up, bridge, broker, hub, orphan>>
  BY DEF BoardResets
<1>2. TypeOK /\ board \in Boards
  BY DEF CableInv, TypeOK, Boards
<1>3. board' \in Boards /\ ~board'.here
  <2>1. CableWentQuiet(board) \in Boards /\ ~CableWentQuiet(board).here
    BY <1>2, QuietBoard
  <2>2. 0 \in 0..(CounterMod - 1)
    BY BridgeConstants
  <2> QED  BY <1>1, <2>1, <2>2 DEF Boards
<1>4. TypeOK' /\ (mishaps' = mishaps \/ mishaps' = mishaps + 1)
  BY <1>1, <1>2, <1>3, Empties, MishapTyped DEF TypeOK, Boards
<1>5. Silent' /\ NoPort'
  BY <1>1, <1>3 DEF CableInv, Silent, NoPort
<1>6. Aged(Line, board', mishaps')
  BY <1>3 DEF Aged
<1> QED  BY <1>1, <1>4, <1>5, <1>6, SameLine

LEMMA FreshLine ==
  ASSUME TypeOK, NEW c \in Conns, Fresh(c), NEW k \in 1..Len(Line)
  PROVE  Line[k].of.said.conn # c
<1> DEFINE p == bridge.pending
           s == up \o p
<1>1. p \in Seq(Part) /\ up \in Seq(Part)
  BY LineType
<1>2. \A i \in 1..Len(s) : s[i].of.said.conn # c
  BY DEF Fresh
<1> HIDE DEF p
<1>3. /\ Len(s) = Len(up) + Len(p) /\ Len(up) \in Nat /\ Len(p) \in Nat
      /\ \A i \in 1..Len(up) : s[i] = up[i]
      /\ \A i \in 1..Len(p) : s[Len(up) + i] = p[i]
  BY <1>1, Indices
<1> HIDE DEF s
<1>4. /\ Len(p \o up) = Len(up) + Len(p)
      /\ \A i \in 1..Len(p) : (p \o up)[i] = p[i]
      /\ \A i \in 1..Len(up) : (p \o up)[Len(p) + i] = up[i]
  BY <1>1, Indices
<1>5. \A i \in 1..Len(p) : p[i].of.said.conn # c
  BY <1>2, <1>3
<1>6. \A i \in 1..Len(up) : up[i].of.said.conn # c
  BY <1>2, <1>3
<1>7. Line = p \o up
  BY DEF Line, p
<1>8. CASE k <= Len(p)
  BY <1>3, <1>4, <1>5, <1>7, <1>8
<1>9. CASE k > Len(p)
  <2> DEFINE j == k - Len(p)
  <2>1. j \in 1..Len(up) /\ Len(p) + j = k
    BY <1>3, <1>4, <1>7, <1>9
  <2> HIDE DEF j
  <2>2. Line[k] = up[j]
    BY <1>4, <1>7, <2>1
  <2> QED  BY <1>6, <2>1, <2>2
<1> QED  BY <1>3, <1>8, <1>9

LEMMA BoardHearsCable ==
  ASSUME CableInv, BoardHears
  PROVE  CableInv' /\ (WideCounter => CableStep)
<1>1. /\ plugged /\ down # << >> /\ down' = Tail(down)
      /\ UNCHANGED <<plugged, up, bridge, broker, hub, orphan, mishaps>>
  BY DEF BoardHears
<1>2. TypeOK /\ board \in Boards
  BY DEF CableInv, TypeOK, Boards
<1>3. down' \in Seq({"hello", "stop", "configure"})
  BY <1>1, <1>2 DEF TypeOK
<1>4. bridge.alive /\ bridge.port /\ plugged
  BY <1>1 DEF CableInv, Silent
<1>5. board' \in Boards /\ (WideCounter => Aged(Line, board', mishaps'))
  <2>1. CASE Head(down) = "hello"
    <3>1. PICK c \in Conns : Fresh(c) /\ board' = [CableWentQuiet(board) EXCEPT !.here = TRUE, !.conn = c]
      <4>1. \E c \in Conns : Fresh(c)
        BY <2>1 DEF BoardHears
      <4> DEFINE d == CHOOSE c \in Conns : Fresh(c)
      <4>2. d \in Conns /\ Fresh(d)
        BY <4>1
      <4>3. board' = [CableWentQuiet(board) EXCEPT !.here = TRUE, !.conn = d]
        BY <2>1 DEF BoardHears
      <4> HIDE DEF d
      <4> QED  BY <4>2, <4>3
    <3>2. CableWentQuiet(board) \in Boards
      BY <1>2, QuietBoard
    <3>3. board' \in Boards /\ board'.conn = c
      <4> DEFINE q == CableWentQuiet(board)
      <4> HIDE DEF q
      <4>1. q \in Boards /\ board' = [q EXCEPT !.here = TRUE, !.conn = c]
        BY <3>1, <3>2 DEF q
      <4> QED  BY <4>1 DEF Boards
    <3> QED  BY <1>2, <3>1, <3>3, FreshLine DEF Aged
  <2>2. CASE Head(down) # "hello"
    <3>1. board' = [board EXCEPT !.stopping = @ \/ (board.here /\ Head(down) = "stop"),
                                 !.owes = @ \/ (board.here /\ Head(down) = "configure")]
      BY <2>2 DEF BoardHears
    <3>2. board' \in Boards /\ board'.here = board.here /\ board'.conn = board.conn
          /\ board'.counter = board.counter
      BY <1>2, <3>1 DEF Boards
    <3> QED  BY <1>1, <3>2, AgedOn
  <2> QED  BY <2>1, <2>2
<1>6. TypeOK'
  BY <1>1, <1>2, <1>3, <1>5 DEF TypeOK, Boards
<1>7. Silent' /\ NoPort'
  BY <1>1, <1>4 DEF Silent, NoPort
<1> QED  BY <1>1, <1>5, <1>6, <1>7, SameLine

LEMMA Unboxed ==
  ASSUME TypeOK, bridge.port, plugged
  PROVE  Parts = Line /\ UnderWay = Intact[Line]
BY DEF Parts, Line, UnderWay

LEMMA LoseByteCable ==
  ASSUME CableInv, NEW k \in 1..Len(up), LoseByte(k)
  PROVE  CableInv' /\ (WideCounter => CableStep)
<1>1. Mishap /\ UNCHANGED <<board, plugged, down, bridge, broker, hub, orphan>>
  BY DEF LoseByte
<1>2. TypeOK /\ bridge.pending \in Seq(Part) /\ up \in Seq(Part) /\ Line \in Seq(Part)
      /\ mishaps \in Nat /\ Len(up) \in Nat
  BY LineType DEF CableInv
<1>3. bridge.alive /\ bridge.port /\ plugged
  <2>1. up # << >>
    BY <1>2
  <2> QED  BY <2>1 DEF CableInv, Silent
<1> DEFINE p == bridge.pending
           x == up[k]
           y == [x EXCEPT !.part = "bent"]
           a == p \o SubSeq(up, 1, k - 1)
           c == SubSeq(up, k + 1, Len(up))
<1>4. /\ x \in Part /\ a \in Seq(Part) /\ c \in Seq(Part)
      /\ Line = a \o (<<x>> \o c)
      /\ RemoveAt(up, k) \in Seq(Part) /\ Len(RemoveAt(up, k)) = Len(up) - 1
      /\ p \o RemoveAt(up, k) = a \o c
      /\ \A z \in Part : /\ [up EXCEPT ![k] = z] \in Seq(Part)
                         /\ Len([up EXCEPT ![k] = z]) = Len(up)
                         /\ p \o [up EXCEPT ![k] = z] = a \o (<<z>> \o c)
  <2>1. Loses(p, up, k)
    BY <1>2, PartLost
  <2> QED  BY <2>1 DEF Loses, Line
<1> HIDE DEF p, x, a, c
<1>5. /\ up' \in Seq(Part) /\ Len(up') <= Len(up) /\ p \o up' \in Seq(Part)
      /\ WideCounter => OneLess(Intact[p \o up'], Intact[Line])
      /\ \E g : Thinned(p \o up', Line, g, 1)
  <2>1. CASE up' = RemoveAt(up, k)
    <3>1. a \o c \in Seq(Part) /\ p \o up' = a \o c
      BY <1>4, <2>1, PartsJoin
    <3>2. WideCounter => OneLess(Intact[a \o c], Intact[a \o (<<x>> \o c)])
      BY <1>4, LostCosts DEF CableInv
    <3>3. \E g : Thinned(a \o c, a \o (<<x>> \o c), g, 1)
      BY <1>4, LostThinned
    <3>4. /\ WideCounter => OneLess(Intact[p \o up'], Intact[Line])
          /\ \E g : Thinned(p \o up', Line, g, 1)
      BY <1>4, <3>1, <3>2, <3>3, Zenon
    <3>5. Len(up') <= Len(up) /\ up' \in Seq(Part) /\ p \o up' \in Seq(Part)
      <4>1. up' \in Seq(Part) /\ Len(up') = Len(up) - 1 /\ Len(up) \in Nat
        BY <1>2, <1>4, <2>1, Zenon
      <4>2. Len(up') <= Len(up)
        BY <4>1
      <4> QED  BY <3>1, <4>1, <4>2
    <3> QED  BY <3>4, <3>5
  <2>2. CASE up[k].part = "head" /\ up' = [up EXCEPT ![k].part = "bent"]
    <3>1. y \in Part /\ y.part = "bent" /\ y.of = x.of /\ x.part = "head"
      BY <1>4, <2>2 DEF Part, x
    <3>2. up' = [up EXCEPT ![k] = y]
      BY <2>2 DEF x
    <3> HIDE DEF y
    <3>3. p \o up' = a \o (<<y>> \o c) /\ up' \in Seq(Part) /\ Len(up') = Len(up)
      BY <1>4, <3>1, <3>2
    <3>4. OneLess(Intact[a \o (<<y>> \o c)], Intact[a \o (<<x>> \o c)])
      BY <1>4, <3>1, BentCosts
    <3>5. PICK g : Thinned(a \o (<<y>> \o c), a \o (<<x>> \o c), g, 0)
      BY <1>4, <3>1, BentThinned
    <3>6. Thinned(p \o up', Line, g, 0)
      BY <1>4, <3>3, <3>5
    <3>7. p \o up' \in Seq(Part)
      <4>1. p \in Seq(Part)
        BY <1>2 DEF p
      <4> QED  BY <3>3, <4>1, PartsJoin
    <3>8. Thinned(p \o up', Line, g, 1)
      <4> DEFINE n == p \o up'
      <4>1. n \in Seq(Part) /\ Thinned(n, Line, g, 0)
        BY <3>6, <3>7
      <4> HIDE DEF n
      <4>2. \A i \in 1..Len(n) : Len(Line) - g[i] <= Len(n) - i + 1
        <5> SUFFICES ASSUME NEW i \in 1..Len(n) PROVE Len(Line) - g[i] <= Len(n) - i + 1
          OBVIOUS
        <5>1. g[i] \in 1..Len(Line) /\ Len(Line) - g[i] <= Len(n) - i + 0
              /\ Len(n) \in Nat /\ Len(Line) \in Nat
          BY <1>2, <4>1 DEF Thinned
        <5> QED  BY <5>1
      <4>3. Thinned(n, Line, g, 1)
        BY <4>1, <4>2 DEF Thinned
      <4> QED  BY <4>3 DEF n
    <3>9. OneLess(Intact[p \o up'], Intact[Line])
      BY <1>4, <3>3, <3>4, Zenon
    <3>10. Len(up') <= Len(up)
      BY <1>2, <3>3
    <3> QED  BY <3>3, <3>7, <3>8, <3>9, <3>10
  <2> QED  BY <2>1, <2>2 DEF LoseByte
<1>6. Line' = p \o up'
  BY <1>1 DEF Line, p
<1>7. PICK g : Thinned(Line', Line, g, 1)
  BY <1>5, <1>6
<1>8. WideCounter => Apart(Line') /\ Aged(Line', board, mishaps')
  <2> SUFFICES ASSUME WideCounter PROVE Apart(Line') /\ Aged(Line', board, mishaps')
    OBVIOUS
  <2>1. Line' \in Seq(Part) /\ mishaps' \in Nat /\ mishaps' >= mishaps + 1
    BY <1>1, <1>2, <1>5, <1>6 DEF Mishap
  <2>2. Apart(Line')
    BY <1>2, <1>7, <2>1, ThinnedApart DEF CableInv
  <2>3. Aged(Line', board, mishaps')
    BY <1>2, <1>7, <2>1, ThinnedAged DEF CableInv
  <2> QED  BY <2>2, <2>3
<1>9. WideCounter => Apart(Line)' /\ Aged(Line, board, mishaps)'
  BY <1>1, <1>8 DEF Apart, Aged
<1>10. TypeOK' /\ mishaps' = mishaps + 1
  <2>1. mishaps' \in 0..MaxMishaps /\ mishaps' = mishaps + 1
    BY <1>1, <1>2, MishapTyped DEF Mishap
  <2>2. up' \in Seq(Part) /\ Len(up') <= MaxUp
    BY <1>2, <1>5, BridgeConstants DEF TypeOK
  <2> QED  BY <1>1, <1>2, <2>1, <2>2 DEF TypeOK
<1>11. WideCounter => CableStep
  <2> SUFFICES ASSUME WideCounter PROVE CableStep
    OBVIOUS
  <2>1. UnderWay = Intact[Line]
    BY <1>2, <1>3, Unboxed
  <2>2. UnderWay' = Intact[Line']
    BY <1>1, <1>3 DEF UnderWay, Parts, Line
  <2>3. OneLess(UnderWay', UnderWay)
    BY <1>5, <1>6, <2>1, <2>2
  <2> QED  BY <1>1, <1>10, <2>3, OneLost
<1>12. Silent' /\ NoPort' /\ Short'
  BY <1>1, <1>3 DEF CableInv, Silent, NoPort, Short
<1> QED  BY <1>9, <1>10, <1>11, <1>12 DEF CableInv

(* What the Reader makes of the part that has come in.                     *)
LEMMA ReadingKeeps ==
  ASSUME CableInv, ReadWhatArrived
  PROVE  LET fed == Feed[Append(bridge.pending, Head(up))] IN
         /\ bridge.alive /\ bridge.port /\ plugged /\ up # << >>
         /\ Append(bridge.pending, Head(up)) \in Seq(Part) /\ fed \in Fed
         /\ Line = Append(bridge.pending, Head(up)) \o Tail(up)
         /\ up' = Tail(up) /\ up' \in Seq(Part) /\ Len(up') <= MaxUp
         /\ UNCHANGED <<board, plugged, down, broker, mishaps>>
         /\ bridge' \in Carried /\ bridge'.alive /\ bridge'.port /\ bridge'.said = << >>
         /\ bridge'.pending = fed.pending
         /\ bridge'.taken = IF fed.frames = << >> THEN bridge.taken ELSE fed.frames
         /\ TypeOK'
<1> DEFINE q == Append(bridge.pending, Head(up))
           fed == Feed[q]
           b == [bridge EXCEPT !.pending = fed.pending,
                               !.taken = IF fed.frames = << >> THEN @ ELSE fed.frames]
<1>1. /\ bridge.alive /\ bridge.port /\ plugged /\ up # << >> /\ up' = Tail(up)
      /\ UNCHANGED <<board, plugged, down, broker, mishaps>>
      /\ Becomes(FoldLeft(Take, b, fed.frames))
  BY DEF ReadWhatArrived, Running, Read
<1>2. TypeOK /\ bridge \in Carried /\ bridge.pending \in Seq(Part) /\ up \in Seq(Part)
  BY LineType DEF CableInv, TypeOK
<1>3. Head(up) \in Part /\ Tail(up) \in Seq(Part) /\ up = <<Head(up)>> \o Tail(up)
      /\ Len(Tail(up)) <= MaxUp
  <2>1. Head(up) \in Part /\ Tail(up) \in Seq(Part) /\ Len(Tail(up)) = Len(up) - 1
        /\ Len(up) \in Nat /\ up[1] = Head(up)
    BY <1>1, <1>2
  <2>2. up = <<up[1]>> \o Tail(up)
    BY <1>1, <1>2, Tails
  <2> QED  BY <1>2, <2>1, <2>2, BridgeConstants DEF TypeOK
<1>4. q \in Seq(Part) /\ fed \in Fed
  <2>1. q \in Seq(Part)
    BY <1>2, <1>3
  <2> QED  BY <2>1, Feeding
<1>5. Line = q \o Tail(up)
  <2> DEFINE h == <<Head(up)>>
             t == Tail(up)
  <2>1. h \in Seq(Part) /\ q = bridge.pending \o h
    BY <1>2, <1>3
  <2>2. t \in Seq(Part) /\ up = h \o t
    BY <1>3
  <2> HIDE DEF h, t
  <2>3. (bridge.pending \o h) \o t = bridge.pending \o (h \o t)
    BY <1>2, <2>1, <2>2, Regroup, Zenon
  <2> QED  BY <2>1, <2>2, <2>3 DEF Line, t
<1> HIDE DEF q, fed
<1>6. b \in Carried /\ b.alive = bridge.alive /\ b.port = bridge.port /\ b.pending = fed.pending
      /\ b.taken = IF fed.frames = << >> THEN bridge.taken ELSE fed.frames
  <2>1. fed.pending \in Seq(Part) /\ fed.frames \in Seq(Message)
    BY <1>4 DEF Fed
  <2> QED  BY <1>2, <2>1 DEF Carried
<1> HIDE DEF b
<1>7. Keeps(FoldLeft(Take, b, fed.frames), b)
  BY <1>4, <1>6, TakenKeeps DEF Fed
<1>8. /\ Keeps(bridge', FoldLeft(Take, b, fed.frames)) /\ bridge'.said = << >>
      /\ hub' \in Conns \cup {None} /\ orphan' \in BOOLEAN
  BY <1>1, <1>2, <1>7, BecomesKeeps DEF Keeps
<1>9. TypeOK'
  BY <1>1, <1>2, <1>3, <1>8 DEF TypeOK, Keeps
<1>10. /\ bridge' \in Carried /\ bridge'.alive /\ bridge'.port /\ bridge'.said = << >>
       /\ bridge'.pending = fed.pending
       /\ bridge'.taken = IF fed.frames = << >> THEN bridge.taken ELSE fed.frames
  BY <1>1, <1>6, <1>7, <1>8 DEF Keeps
<1> QED  BY <1>1, <1>3, <1>4, <1>5, <1>9, <1>10 DEF q, fed

LEMMA Halves ==
  ASSUME NEW a \in Seq(Message), NEW b \in Seq(Message), a # << >>
  PROVE  /\ Len(a) \in 1..Len(a \o b)
         /\ SubSeq(a \o b, 1, Len(a)) = a
         /\ SubSeq(a \o b, Len(a) + 1, Len(a \o b)) = b
<1> DEFINE s == a \o b
<1>1. s \in Seq(Message) /\ Len(s) = Len(a) + Len(b) /\ Len(a) \in Nat /\ Len(b) \in Nat
      /\ Len(a) > 0
      /\ (\A i \in 1..Len(a) : s[i] = a[i]) /\ (\A i \in 1..Len(b) : s[Len(a) + i] = b[i])
  OBVIOUS
<1> HIDE DEF s
<1>2. SubSeq(s, 1, Len(a)) = a
  BY <1>1
<1>3. SubSeq(s, Len(a) + 1, Len(s)) = b
  <2> DEFINE n == Len(a)
             t == SubSeq(s, n + 1, Len(s))
  <2>1. n \in Nat /\ n + 1 \in Nat /\ Len(s) \in Nat /\ Len(s) - n = Len(b)
    BY <1>1
  <2> HIDE DEF n
  <2>2. t \in Seq(Message) /\ Len(t) = Len(b)
    <3>1. \A i \in (n + 1)..Len(s) : s[i] \in Message
      BY <1>1, <2>1
    <3>2. t \in Seq(Message)
      BY <2>1, <3>1
    <3>3. Len(t) = Len(s) - n
      BY <1>1, <2>1
    <3> HIDE DEF t
    <3> QED  BY <2>1, <3>2, <3>3
  <2>3. \A i \in 1..Len(b) : t[i] = b[i]
    <3>1. \A i \in 1..Len(b) : t[i] = s[n + i]
      BY <1>1, <2>1
    <3>2. \A i \in 1..Len(b) : s[n + i] = b[i]
      BY <1>1 DEF n
    <3> HIDE DEF t
    <3> QED  BY <3>1, <3>2
  <2> HIDE DEF t
  <2>4. t = b
    BY <1>1, <2>2, <2>3
  <2> QED  BY <2>4 DEF t, n
<1> QED  BY <1>1, <1>2, <1>3 DEF s

LEMMA ReadWhatArrivedCable ==
  ASSUME CableInv, ReadWhatArrived
  PROVE  CableInv' /\ (WideCounter => CableStep)
<1> DEFINE q == Append(bridge.pending, Head(up))
           fed == Feed[q]
           t == Tail(up)
<1>1. /\ bridge.alive /\ bridge.port /\ plugged
      /\ q \in Seq(Part) /\ fed \in Fed /\ Line = q \o t /\ up' = t /\ t \in Seq(Part)
      /\ UNCHANGED <<board, plugged, down, broker, mishaps>>
      /\ bridge'.alive /\ bridge'.port /\ bridge'.pending = fed.pending
      /\ bridge'.taken = IF fed.frames = << >> THEN bridge.taken ELSE fed.frames
      /\ TypeOK'
  BY ReadingKeeps
<1> HIDE DEF q, t
<1>2. FeedsWell(q)
  BY <1>1, Feeds
<1>3. Line' = fed.pending \o t /\ fed.pending \in Seq(Part) /\ fed.frames \in Seq(Message)
  BY <1>1 DEF Line, Fed
<1>4. UnderWay = Intact[Line] /\ UnderWay' = Intact[Line']
  BY <1>1, <1>3, Unboxed DEF CableInv, UnderWay, Parts, Line
<1>5. UnderWay = fed.frames \o UnderWay'
  BY <1>1, <1>2, <1>3, <1>4 DEF FeedsWell
<1>6. UnderWay' \in Seq(Message)
  BY <1>3, <1>4, PartsJoin, Intacts, <1>1
<1>7. CableStep
  <2>1. CASE fed.frames = << >>
    <3>1. UnderWay' = UnderWay
      BY <1>5, <1>6, <2>1, FramesJoin
    <3> QED  BY <1>1, <2>1, <3>1, NoNews
  <2>2. CASE fed.frames # << >>
    <3> DEFINE k == Len(fed.frames)
    <3> HIDE DEF fed
    <3>1. k \in 1..Len(UnderWay) /\ SubSeq(UnderWay, 1, k) = fed.frames
          /\ SubSeq(UnderWay, k + 1, Len(UnderWay)) = UnderWay'
      <4> DEFINE r == UnderWay'
      <4>1. r \in Seq(Message) /\ UnderWay = fed.frames \o r
        BY <1>5, <1>6
      <4> HIDE DEF r
      <4>2. k \in 1..Len(fed.frames \o r) /\ SubSeq(fed.frames \o r, 1, k) = fed.frames
            /\ SubSeq(fed.frames \o r, k + 1, Len(fed.frames \o r)) = r
        BY <1>3, <2>2, <4>1, Halves
      <4> QED  BY <4>1, <4>2 DEF r
    <3>2. Cable!Get(k)
      <4>1. bridge'.taken = fed.frames /\ mishaps' = mishaps
        BY <1>1, <2>2
      <4> HIDE DEF k
      <4> QED  BY <3>1, <4>1 DEF Cable!Get
    <3> QED  BY <3>1, <3>2 DEF CableStep, Cable!Next
  <2> QED  BY <2>1, <2>2
<1>8. Short' /\ Silent' /\ NoPort'
  BY <1>1, <1>2 DEF FeedsWell, Short, Silent, NoPort
<1>9. WideCounter => Apart(Line') /\ Aged(Line', board, mishaps)
  <2> SUFFICES ASSUME WideCounter PROVE Apart(Line') /\ Aged(Line', board, mishaps)
    OBVIOUS
  <2>1. PICK u \in Seq(Part) : q = u \o fed.pending
    BY <1>2 DEF FeedsWell
  <2> DEFINE z == fed.pending
             n == z \o t
  <2>2. z \in Seq(Part) /\ q = u \o z /\ Line' = n
    BY <1>3, <2>1
  <2> HIDE DEF z
  <2>3. n \in Seq(Part)
    BY <1>1, <2>2, PartsJoin
  <2>4. Line = u \o n
    <3>1. (u \o z) \o t = u \o (z \o t)
      BY <1>1, <2>1, <2>2, Regroup, Zenon
    <3> QED  BY <1>1, <2>2, <3>1
  <2> HIDE DEF n
  <2>5. PICK g : Thinned(n, Line, g, 0)
    BY <2>1, <2>3, <2>4, KeptThinned
  <2>6. Line \in Seq(Part) /\ mishaps \in Nat /\ Apart(Line) /\ Aged(Line, board, mishaps)
    BY LineType DEF CableInv
  <2>7. Apart(n) /\ Aged(n, board, mishaps)
    <3>1. mishaps >= mishaps + 0 /\ 0 \in Nat
      BY <2>6
    <3> QED  BY <2>3, <2>5, <2>6, <3>1, ThinnedApart, ThinnedAged
  <2> QED  BY <2>2, <2>7
<1>10. WideCounter => Apart(Line)' /\ Aged(Line, board, mishaps)'
  BY <1>1, <1>9 DEF Apart, Aged
<1> QED  BY <1>1, <1>7, <1>8, <1>10 DEF CableInv

LEMMA WriteCable ==
  ASSUME CableInv, plugged, board.here,
         NEW kind \in {"state", "health"}, NEW online \in BOOLEAN, kind = "health" => online,
         Write(kind, online),
         board' \in Boards, board'.conn = board.conn, board'.counter = Following(board.counter),
         UNCHANGED <<plugged, down, bridge, broker, hub, orphan, mishaps>>
  PROVE  CableInv' /\ (WideCounter => CableStep)
<1> DEFINE m == [said |-> [kind |-> kind, conn |-> board.conn, online |-> online],
                 counter |-> board.counter]
<1>1. Len(up) + 2 <= MaxUp /\ up' = up \o Pack(m)
  BY DEF Write
<1>2. /\ TypeOK /\ bridge.pending \in Seq(Part) /\ up \in Seq(Part) /\ Line \in Seq(Part)
      /\ mishaps \in Nat /\ mishaps <= MaxMishaps /\ Len(up) \in Nat /\ MaxMishaps \in Nat
      /\ board \in Boards /\ board.counter \in 0..(CounterMod - 1) /\ board.conn \in Conns
  BY LineType, BridgeConstants DEF CableInv, TypeOK, Boards
<1>3. bridge.alive /\ bridge.port /\ plugged
  BY DEF CableInv, Silent
<1>4. m \in Message /\ m.said.conn = board.conn /\ m.counter = board.counter
  <2>1. [kind |-> kind, conn |-> board.conn, online |-> online] \in Said
    BY <1>2 DEF Said, State
  <2> QED  BY <1>2, <2>1 DEF Message
<1> HIDE DEF m
<1>5. /\ Pack(m) \in Seq(Part) /\ up' \in Seq(Part) /\ Len(up') <= MaxUp
      /\ Line' = Line \o Pack(m) /\ Line' \in Seq(Part)
  <2>1. Pack(m) \in Seq(Part)
    BY <1>2, <1>4, Written
  <2>2. up \o Pack(m) \in Seq(Part) /\ Len(up \o Pack(m)) = Len(up) + 2
    BY <1>2, <1>4, Packed
  <2>3. (bridge.pending \o up) \o Pack(m) = bridge.pending \o (up \o Pack(m))
    BY <1>2, <2>1, Regroup, Zenon
  <2>4. Line' = Line \o Pack(m)
    BY <1>1, <2>3 DEF Line
  <2>5. Line \o Pack(m) \in Seq(Part)
    BY <1>2, <2>1, PartsJoin
  <2> QED  BY <1>1, <2>1, <2>2, <2>4, <2>5
<1>6. WideCounter => Len(Line) + mishaps < CounterMod
  <2>1. Len(Line) = Len(bridge.pending) + Len(up) /\ Len(bridge.pending) \in Nat
    BY <1>2, Indices DEF Line
  <2>2. Len(bridge.pending) <= Stretch
    BY DEF CableInv, Short
  <2> QED  BY <1>1, <1>2, <2>1, <2>2, BridgeConstants DEF WideCounter
<1>7. WideCounter => \A k \in 1..Len(Line) : Line[k].of # m
  BY <1>2, <1>4, <1>6, NotYet DEF CableInv
<1>8. WideCounter => Apart(Line \o Pack(m))
  BY <1>2, <1>4, <1>7, WrittenApart DEF CableInv
<1>9. WideCounter => Aged(Line \o Pack(m), board', mishaps)
  BY <1>2, <1>4, <1>6, WrittenAged DEF CableInv
<1>10. WideCounter => Apart(Line)' /\ Aged(Line, board, mishaps)'
  BY <1>5, <1>8, <1>9 DEF Apart, Aged
<1>11. TypeOK'
  BY <1>2, <1>5 DEF TypeOK, Boards
<1>12. CableStep
  <2>1. UnderWay = Intact[Line]
    BY <1>2, <1>3, Unboxed
  <2>2. UnderWay' = Intact[Line']
    BY <1>3 DEF UnderWay, Parts, Line
  <2>3. UnderWay' = Append(UnderWay, m)
    BY <1>2, <1>4, <1>5, <2>1, <2>2, Written
  <2>4. Cable!Put(m)
    BY <2>3 DEF Cable!Put
  <2> QED  BY <1>4, <2>4 DEF CableStep, Cable!Next
<1>13. Silent' /\ NoPort' /\ Short'
  BY <1>3 DEF CableInv, Silent, NoPort, Short
<1> QED  BY <1>10, <1>11, <1>12, <1>13 DEF CableInv

LEMMA BoardSpeaksCable ==
  ASSUME CableInv, BoardSpeaks
  PROVE  CableInv' /\ (WideCounter => CableStep)
<1> DEFINE said == [board EXCEPT !.announced = TRUE, !.owes = board.owes /\ ~board.announced,
                                 !.counter = (@ + 1) % CounterMod]
           still == board.announced /\ ~board.owes
<1>1. plugged /\ board.here /\ UNCHANGED <<plugged, down, bridge, broker, hub, orphan, mishaps>>
  BY DEF BoardSpeaks
<1>2. board \in Boards
  BY DEF CableInv, TypeOK, Boards
<1>3. said \in Boards /\ said.conn = board.conn /\ said.counter = Following(board.counter)
  <2>1. Following(board.counter) \in 0..(CounterMod - 1)
    <3>1. board.counter \in 0..(CounterMod - 1)
      BY <1>2 DEF Boards
    <3>2. Following(board.counter) = IF board.counter + 1 = CounterMod THEN 0 ELSE board.counter + 1
      BY <3>1, FollowingIs
    <3> QED  BY <3>1, <3>2, BridgeConstants
  <2>2. said = [board EXCEPT !.announced = TRUE, !.owes = board.owes /\ ~board.announced,
                             !.counter = Following(board.counter)]
    BY DEF Following
  <2> HIDE DEF said
  <2> QED  BY <1>2, <2>1, <2>2 DEF Boards
<1>4. CableWentQuiet(said) \in Boards /\ CableWentQuiet(said).conn = said.conn
      /\ CableWentQuiet(said).counter = said.counter
  <2> HIDE DEF said
  <2> QED  BY <1>3 DEF Boards, CableWentQuiet
<1>5. CASE Write("state", TRUE) /\ board' = said
  <2> HIDE DEF said
  <2> QED  BY <1>1, <1>3, <1>5, WriteCable
<1>6. CASE Write("state", FALSE) /\ board' = CableWentQuiet(said)
  <2> HIDE DEF said
  <2> QED  BY <1>1, <1>3, <1>4, <1>6, WriteCable
<1>7. CASE Write("health", TRUE) /\ board' = said
  <2> HIDE DEF said
  <2> QED  BY <1>1, <1>3, <1>7, WriteCable
<1> QED  BY <1>5, <1>6, <1>7 DEF BoardSpeaks

LEMMA CableNext ==
  ASSUME CableInv, [Next]_vars
  PROVE  CableInv' /\ (WideCounter => CableStep)
<1>1. CASE Loop
  <2>1. CASE \E quiet \in BOOLEAN : KeepItGoing(quiet)
    BY <2>1, KeepItGoingCable
  <2> QED  BY <1>1, <2>1, OpenThePortCable, ReadWhatArrivedCable, PortGoneCable,
              HandOverCommandsCable DEF Loop
<1>2. CASE Board
  BY <1>2, BoardHearsCable, BoardSpeaksCable DEF Board
<1>3. CASE Faults
  <2>1. CASE \E still \in BOOLEAN : BrokerDrops(still)
    BY <2>1, BrokerDropsCable
  <2>2. CASE \E k \in 1..Len(up) : LoseByte(k)
    BY <2>2, LoseByteCable
  <2> QED  BY <1>3, <2>1, <2>2, StopCable, KilledCable, ACommandArrivedCable,
              BoardResetsCable, UnplugCable, LoseHelloCable DEF Faults
<1>4. CASE Connected \/ BrokerBack \/ Started \/ PlugIn
  BY <1>4, ConnectedCable, BrokerBackCable, StartedCable, PlugInCable
<1>5. CASE UNCHANGED vars
  <2>1. UNCHANGED <<board, plugged, up, down, bridge, broker, hub, orphan, mishaps>>
    BY <1>5 DEF vars
  <2>2. TypeOK'
    BY <2>1 DEF TypeOK, CableInv
  <2> QED  BY <2>1, <2>2, BridgeTurns
<1> QED  BY <1>1, <1>2, <1>3, <1>4, <1>5 DEF Next

LEMMA CableBegins == Init => CableInv /\ Cable!Init
<1> SUFFICES ASSUME Init PROVE CableInv /\ Cable!Init
  OBVIOUS
<1>1. bridge = NewCarried /\ up = << >> /\ down = << >> /\ ~board.here /\ mishaps = 0
      /\ plugged = TRUE /\ hub = None /\ orphan = FALSE /\ broker \in BOOLEAN
  BY DEF Init
<1>2. bridge.pending = << >> /\ bridge.said = << >> /\ bridge.taken = << >> /\ ~bridge.port
      /\ bridge.alive /\ bridge \in Carried
  BY <1>1, NewTyped DEF NewCarried
<1>3. board \in Boards
  BY BridgeConstants DEF Init, Boards, Conns
<1>4. TypeOK
  <2>1. up \in Seq(Part) /\ Len(up) <= MaxUp /\ down \in Seq({"hello", "stop", "configure"})
    BY <1>1, Empties, BridgeConstants
  <2>2. mishaps \in 0..MaxMishaps
    BY <1>1, BridgeConstants
  <2> QED  BY <1>1, <1>2, <1>3, <2>1, <2>2 DEF TypeOK, Boards
<1>5. Line = << >> /\ Len(Line) = 0
  BY <1>1, <1>2, Empties, PartsJoin DEF Line
<1>6. Apart(Line) /\ Aged(Line, board, mishaps)
  BY <1>1, <1>5 DEF Apart, Aged
<1>7. Silent /\ NoPort /\ Short
  BY <1>1, <1>2, Empties, BridgeConstants DEF Silent, NoPort, Short
<1>8. UnderWay = << >>
  BY <1>2, NothingIntact DEF UnderWay, Parts
<1> QED  BY <1>1, <1>2, <1>4, <1>6, <1>7, <1>8 DEF CableInv, Cable!Init

(* The bridge's state is always well-formed; without a bridge that runs, a *)
(* port it has open and a cable that is in, nothing is on the way; the     *)
(* Reader never waits for more than a stretch (link.py); and, with a wide  *)
(* enough counter, no two frames on the way are alike, nor one that the    *)
(* board writes next like any of them.                                     *)
THEOREM CableTyped == Spec => []CableInv
<1>1. Init => CableInv
  BY CableBegins
<1>2. CableInv /\ [Next]_vars => CableInv'
  BY CableNext
<1> QED  BY <1>1, <1>2, PTL DEF Spec

(* What the Reader takes is what the board wrote, in its order, each       *)
(* frame once, less what was lost; a damaged part never becomes a frame    *)
(* nobody wrote (Reader.feed of link.py, the link_ functions of link.cpp), *)
(* as long as the frame counter does not come round on the way.            *)
THEOREM CableCarries == ASSUME WideCounter PROVE Spec => CableIsAChannel
<1>1. Init => Cable!Init
  BY CableBegins
<1>2. CableInv /\ [Next]_vars => [Cable!Next]_(Cable!vars)
  BY CableNext DEF CableStep
<1> QED  BY <1>1, <1>2, CableTyped, PTL DEF Spec, CableIsAChannel, Cable!Spec

------------------------------------------------------------------------------
(* What the hub knows: a session it has is of the connection the bridge's  *)
(* client was opened for, unless the bridge has lost sight of it.  That    *)
(* nothing old can be heard again after something newer rests on the order *)
(* in which the board says things: its connections one after the other,    *)
(* the farewell of each last.                                              *)

(* How late a state, or a report, comes: r ranks the connections.          *)
Key(r, s) == 2 * r[s.conn] + (IF s.online THEN 0 ELSE 1)

Ranking(r) ==
  /\ r \in [Conns -> Nat]
  /\ \A c, d \in Conns : r[c] = r[d] => c = d

(* The client has kept, for when it is connected, what another connection  *)
(* than its own has said.                                                  *)
Strays(b) ==
  b.client # None /\ \E i \in 1..Len(b.client.queue) : b.client.queue[i].conn # b.client.will

(* s comes no earlier than anything the bridge has in mind.                *)
Behind(b, r, s) ==
  /\ b.state # None => Key(r, b.state) <= Key(r, s)
  /\ b.client # None => 2 * r[b.client.will] <= Key(r, s)
  /\ Strays(b) => r[b.client.will] < r[s.conn]
  /\ b.client = None /\ b.waiting # None => Key(r, b.waiting) <= Key(r, s)

(* What the bridge has in mind agrees with itself.                         *)
Inside(b, r) ==
  /\ b.client # None /\ b.state # None => /\ 2 * r[b.client.will] <= Key(r, b.state)
                                          /\ Strays(b) => r[b.client.will] < r[b.state.conn]
  /\ b.client = None => b.state = b.payload
  /\ b.client = None /\ b.waiting # None /\ b.payload # None /\ b.payload.online
       => b.payload.conn = b.waiting.conn
  /\ b.client # None /\ b.state # None /\ b.payload # None /\ b.payload.online
     /\ b.state.conn = b.client.will => b.payload.conn = b.client.will

(* With o, the session is lost sight of; without, it is the client's.      *)
Held(b, h, o) ==
  o \/ (h # None => /\ b.client # None /\ b.client.up /\ b.state # None
                    /\ b.state.conn = b.client.will => h = b.client.will)

LEMMA KeyIs ==
  ASSUME NEW r, Ranking(r), NEW s \in Said
  PROVE  /\ s.conn \in Conns /\ r[s.conn] \in Nat /\ Key(r, s) \in Nat
         /\ Key(r, s) = 2 * r[s.conn] \/ Key(r, s) = 2 * r[s.conn] + 1
         /\ s.online => Key(r, s) = 2 * r[s.conn]
         /\ ~s.online => Key(r, s) = 2 * r[s.conn] + 1
<1>1. s.conn \in Conns
  BY DEF Said, State
<1>2. r[s.conn] \in Nat
  BY <1>1 DEF Ranking
<1> QED  BY <1>1, <1>2 DEF Key

LEMMA StatesSaid == State \subseteq Said /\ \A m \in Message : m.said \in Said
BY DEF Said, Message

LEMMA Queued ==
  ASSUME NEW w, NEW u, NEW q, NEW l
  PROVE  [[will |-> w, up |-> u, queue |-> q] EXCEPT !.queue = l]
           = [will |-> w, up |-> u, queue |-> l]
OBVIOUS

(* What Carried has in mind once a state has arrived.                      *)
LEMMA Arrival ==
  ASSUME NEW b \in Carried, NEW s \in State
  PROVE  LET c == AStateArrived(b, s)
             new == b.state = None \/ b.state.conn # s.conn
         IN  /\ c \in Carried /\ c.state = s /\ c.payload = s
             /\ \/ /\ b.client = None /\ c.client = None /\ c.said = b.said
                   /\ c.waiting = s \/ (c.waiting = b.waiting /\ ~(new /\ s.online))
                \/ /\ b.client = None /\ c.said = b.said
                   /\ c.client = [will |-> s.conn, up |-> FALSE, queue |-> << s >>]
                \/ /\ b.client # None /\ b.client.up /\ c.client = b.client
                   /\ c.said = Append(b.said, s)
                \/ /\ b.client # None /\ ~b.client.up /\ c.said = b.said
                   /\ c.client = [b.client EXCEPT !.queue = Append(@, s)]
<1> DEFINE new == b.state = None \/ b.state.conn # s.conn
           kept == [b EXCEPT !.state = s, !.payload = s]
           w == [kept EXCEPT !.waiting = s]
           asked == IF new /\ s.online THEN ReachTheBroker(w) ELSE kept
           c == AStateArrived(b, s)
<1>1. c = Publish(asked, s)
  BY DEF AStateArrived
<1>2. /\ kept \in Carried /\ kept.state = s /\ kept.payload = s /\ kept.client = b.client
      /\ kept.said = b.said /\ kept.waiting = b.waiting
  BY DEF Carried
<1>3. /\ w \in Carried /\ w.state = s /\ w.payload = s /\ w.client = b.client
      /\ w.said = b.said /\ w.waiting = s
  BY DEF Carried
<1> HIDE DEF kept, w, c, new
<1>4. /\ asked \in Carried /\ asked.state = s /\ asked.payload = s /\ asked.said = b.said
      /\ \/ /\ asked.client = b.client
            /\ asked.waiting = s \/ (asked.waiting = b.waiting /\ ~(new /\ s.online))
         \/ /\ b.client = None
            /\ asked.client = [will |-> s.conn, up |-> FALSE, queue |-> << >>]
  <2>1. CASE ~(new /\ s.online)
    BY <1>2, <2>1
  <2>2. CASE (new /\ s.online) /\ (w.waiting = None \/ w.client # None \/ ~broker)
    <3>1. asked = w
      BY <2>2 DEF ReachTheBroker
    <3> QED  BY <1>3, <3>1
  <2>3. CASE (new /\ s.online) /\ ~(w.waiting = None \/ w.client # None \/ ~broker)
    <3>1. asked = [Connect(w, s) EXCEPT !.waiting = None]
      BY <1>3, <2>3 DEF ReachTheBroker
    <3> DEFINE cl == [will |-> s.conn, up |-> FALSE, queue |-> << >>]
               d == [w EXCEPT !.client = cl, !.state = s]
    <3>2. Connect(w, s) = d
      BY DEF Connect
    <3>3. cl \in Client
      BY Empties DEF Client, State
    <3> HIDE DEF cl
    <3>4. d \in Carried /\ d.client = cl /\ d.state = s /\ d.payload = s /\ d.said = b.said
      BY <1>3, <3>3 DEF Carried
    <3> HIDE DEF d
    <3>5. /\ asked \in Carried /\ asked.client = cl /\ asked.state = s /\ asked.payload = s
          /\ asked.said = b.said
      BY <3>1, <3>2, <3>4 DEF Carried
    <3> HIDE DEF asked
    <3> QED  BY <1>3, <2>3, <3>5 DEF cl
  <2> QED  BY <2>1, <2>2, <2>3
<1> HIDE DEF asked
<1>5. c \in Carried
  BY <1>1, <1>4, PublishKeeps DEF Keeps
<1>6. CASE asked.client = None
  <2>1. c = asked
    BY <1>1, <1>6 DEF Publish
  <2>2. \/ asked.client = b.client
           /\ (asked.waiting = s \/ (asked.waiting = b.waiting /\ ~(new /\ s.online)))
        \/ asked.client = [will |-> s.conn, up |-> FALSE, queue |-> << >>]
    BY <1>4
  <2>3. CASE asked.client = b.client
             /\ (asked.waiting = s \/ (asked.waiting = b.waiting /\ ~(new /\ s.online)))
    BY <1>4, <1>5, <1>6, <2>1, <2>3 DEF c, new
  <2>4. CASE asked.client = [will |-> s.conn, up |-> FALSE, queue |-> << >>]
    <3>1. asked.client \in Client
      BY <2>4, Empties DEF Client, State
    <3> QED  BY <1>6, <3>1, NoneIsNothing
  <2> QED  BY <2>2, <2>3, <2>4
<1>7. CASE asked.client # None /\ asked.client.up
  <2>1. c = [asked EXCEPT !.said = Append(@, s)]
    BY <1>1, <1>7 DEF Publish
  <2>2. /\ c.state = s /\ c.payload = s /\ c.client = asked.client /\ c.said = Append(b.said, s)
    BY <1>4, <2>1 DEF Carried
  <2>3. asked.client = b.client
    BY <1>4, <1>7
  <2> QED  BY <1>5, <1>7, <2>2, <2>3 DEF c
<1>8. CASE asked.client # None /\ ~asked.client.up
  <2>1. c = [asked EXCEPT !.client.queue = Append(@, s)]
    BY <1>1, <1>8 DEF Publish
  <2>2. /\ c.state = s /\ c.payload = s /\ c.said = b.said
        /\ c.client = [asked.client EXCEPT !.queue = Append(@, s)]
    BY <1>4, <2>1 DEF Carried
  <2>3. CASE asked.client = b.client
    BY <1>5, <1>8, <2>2, <2>3 DEF c
  <2>4. CASE b.client = None /\ asked.client = [will |-> s.conn, up |-> FALSE, queue |-> << >>]
    <3>1. Append(<< >>, s) = << s >>
      OBVIOUS
    <3>2. c.client = [will |-> s.conn, up |-> FALSE, queue |-> << s >>]
      <4> DEFINE cl == [will |-> s.conn, up |-> FALSE, queue |-> << >>]
                 longer == << s >>
      <4>1. cl.queue = << >>
        OBVIOUS
      <4>2. [cl EXCEPT !.queue = longer] = [will |-> s.conn, up |-> FALSE, queue |-> longer]
        BY Queued, Zenon
      <4>3. asked.client = cl /\ c.client = [asked.client EXCEPT !.queue = Append(@, s)]
        BY <2>2, <2>4
      <4>4. c.client = [cl EXCEPT !.queue = Append(cl.queue, s)]
        BY <4>3
      <4> HIDE DEF cl
      <4>5. Append(cl.queue, s) = longer
        BY <3>1, <4>1
      <4> QED  BY <4>2, <4>4, <4>5
    <3> QED  BY <1>5, <2>2, <2>4, <3>2 DEF c
  <2> QED  BY <1>4, <2>3, <2>4
<1> QED  BY <1>6, <1>7, <1>8

(* Told of what b has published, the hub that had a session h has this.    *)
Told(h, b) == FoldLeft(HubHears, h, b.said)

LEMMA ToldTyped ==
  ASSUME NEW h \in HubCarried, NEW b \in Carried
  PROVE  Told(h, b) \in HubCarried
<1>1. b.said \in Seq(State)
  BY DEF Carried
<1>2. \A g \in HubCarried : \A s \in State : HubHears(g, s) \in HubCarried
  BY HearsIn
<1> QED  BY <1>1, <1>2, HearAll DEF Told

LEMMA MindTyped ==
  ASSUME NEW b \in Carried, NEW r, Ranking(r)
  PROVE  /\ b.state # None => b.state \in Said /\ Key(r, b.state) \in Nat
         /\ b.waiting # None => b.waiting \in Said /\ Key(r, b.waiting) \in Nat
         /\ b.client # None => b.client \in Client /\ b.client.will \in Conns
                               /\ r[b.client.will] \in Nat
<1>1. /\ b.state # None => b.state \in Said
      /\ b.waiting # None => b.waiting \in Said
      /\ b.client # None => b.client \in Client
  BY StatesSaid DEF Carried
<1>2. b.client # None => b.client.will \in Conns /\ r[b.client.will] \in Nat
  BY <1>1 DEF Client, Ranking
<1> QED  BY <1>1, <1>2, KeyIs

(* What comes later still is behind it all as well.                        *)
LEMMA BehindStill ==
  ASSUME NEW b \in Carried, NEW r, Ranking(r), NEW s \in Said, NEW x \in Said,
         Behind(b, r, s), Key(r, s) <= Key(r, x)
  PROVE  Behind(b, r, x)
<1>1. Key(r, s) \in Nat /\ Key(r, x) \in Nat /\ r[s.conn] \in Nat /\ r[x.conn] \in Nat
      /\ (Key(r, s) = 2 * r[s.conn] \/ Key(r, s) = 2 * r[s.conn] + 1)
      /\ (Key(r, x) = 2 * r[x.conn] \/ Key(r, x) = 2 * r[x.conn] + 1)
  BY KeyIs
<1>2. r[s.conn] <= r[x.conn]
  BY <1>1
<1>3. b.state # None => Key(r, b.state) <= Key(r, x)
  BY <1>1, MindTyped DEF Behind
<1>4. b.client # None => 2 * r[b.client.will] <= Key(r, x)
  BY <1>1, MindTyped DEF Behind
<1>5. Strays(b) => r[b.client.will] < r[x.conn]
  BY <1>1, <1>2, MindTyped DEF Behind, Strays
<1>6. b.client = None /\ b.waiting # None => Key(r, b.waiting) <= Key(r, x)
  BY <1>1, MindTyped DEF Behind
<1> QED  BY <1>3, <1>4, <1>5, <1>6 DEF Behind

(* A state that arrives in its turn leaves everything in its place.        *)
LEMMA Arrived ==
  ASSUME NEW r, Ranking(r), NEW b \in Carried, NEW s \in State, NEW h \in HubCarried, NEW o,
         Inside(b, r), Behind(b, r, s), Held(b, Told(h, b), o)
  PROVE  LET c == AStateArrived(b, s)
         IN  c \in Carried /\ Inside(c, r) /\ Behind(c, r, s) /\ Held(c, Told(h, c), o)
<1> DEFINE c == AStateArrived(b, s)
           new == b.state = None \/ b.state.conn # s.conn
<1>1. /\ c \in Carried /\ c.state = s /\ c.payload = s
      /\ \/ /\ b.client = None /\ c.client = None /\ c.said = b.said
            /\ c.waiting = s \/ (c.waiting = b.waiting /\ ~(new /\ s.online))
         \/ /\ b.client = None /\ c.said = b.said
            /\ c.client = [will |-> s.conn, up |-> FALSE, queue |-> << s >>]
         \/ /\ b.client # None /\ b.client.up /\ c.client = b.client
            /\ c.said = Append(b.said, s)
         \/ /\ b.client # None /\ ~b.client.up /\ c.said = b.said
            /\ c.client = [b.client EXCEPT !.queue = Append(@, s)]
  BY Arrival
<1> HIDE DEF c
<1>2. s \in Said /\ s.conn \in Conns /\ r[s.conn] \in Nat /\ Key(r, s) \in Nat
      /\ (Key(r, s) = 2 * r[s.conn] \/ Key(r, s) = 2 * r[s.conn] + 1)
      /\ (s.online => Key(r, s) = 2 * r[s.conn])
      /\ (~s.online => Key(r, s) = 2 * r[s.conn] + 1)
  BY StatesSaid, KeyIs
<1>3. /\ b.state # None => b.state \in Said /\ Key(r, b.state) \in Nat
      /\ b.waiting # None => b.waiting \in Said /\ Key(r, b.waiting) \in Nat
      /\ b.client # None => b.client \in Client /\ b.client.will \in Conns
                            /\ r[b.client.will] \in Nat
  BY MindTyped
<1>4. Told(h, b) \in HubCarried
  BY ToldTyped
<1>5. c.said = b.said => Told(h, c) = Told(h, b)
  BY DEF Told
<1>6. CASE /\ b.client = None /\ c.client = None /\ c.said = b.said
           /\ c.waiting = s \/ (c.waiting = b.waiting /\ ~(new /\ s.online))
  <2>1. ~Strays(c)
    BY <1>6 DEF Strays
  <2>2. c.waiting # None => Key(r, c.waiting) <= Key(r, s)
    BY <1>2, <1>6 DEF Behind
  <2>3. Behind(c, r, s)
    BY <1>1, <1>2, <1>6, <2>1, <2>2 DEF Behind
  <2>4. c.waiting # None /\ s.online => s.conn = c.waiting.conn
    <3> SUFFICES ASSUME c.waiting # s, c.waiting # None, s.online PROVE s.conn = c.waiting.conn
      OBVIOUS
    <3>1. b.state # None /\ b.state.conn = s.conn /\ b.waiting = c.waiting
      BY <1>6
    <3>2. b.payload = b.state
      BY <1>6 DEF Inside
    <3>3. b.state.online
      <4>1. Key(r, b.state) <= Key(r, s)
        BY <3>1 DEF Behind
      <4>2. ~b.state.online => Key(r, b.state) = 2 * r[b.state.conn] + 1
        BY <1>3, <3>1, KeyIs
      <4> QED  BY <1>2, <3>1, <4>1, <4>2
    <3> QED  BY <1>6, <3>1, <3>2, <3>3 DEF Inside
  <2>5. Inside(c, r)
    BY <1>1, <1>6, <2>4 DEF Inside
  <2>6. Held(c, Told(h, c), o)
    BY <1>5, <1>6 DEF Held
  <2> QED  BY <1>1, <2>3, <2>5, <2>6 DEF c
<1>7. CASE /\ b.client = None /\ c.said = b.said
           /\ c.client = [will |-> s.conn, up |-> FALSE, queue |-> << s >>]
  <2>1. c.client.will = s.conn /\ c.client.queue = << s >> /\ ~c.client.up
    BY <1>7
  <2>2. ~Strays(c)
    <3>1. Len(<< s >>) = 1 /\ << s >>[1] = s
      OBVIOUS
    <3> QED  BY <2>1, <3>1 DEF Strays
  <2>3. c.client # None
    <3>1. << s >> \in Seq(State)
      OBVIOUS
    <3>2. c.client \in Client
      BY <1>2, <1>7, <3>1 DEF Client
    <3> QED  BY <3>2, NoneIsNothing
  <2>4. Behind(c, r, s)
    BY <1>1, <1>2, <2>1, <2>2, <2>3 DEF Behind
  <2>5. Inside(c, r)
    BY <1>1, <1>2, <2>1, <2>2, <2>3 DEF Inside
  <2>6. Held(c, Told(h, c), o)
    BY <1>5, <1>7 DEF Held
  <2> QED  BY <1>1, <2>4, <2>5, <2>6 DEF c
<1>8. CASE /\ b.client # None /\ b.client.up /\ c.client = b.client
           /\ c.said = Append(b.said, s)
  <2>1. Strays(c) = Strays(b)
    BY <1>8 DEF Strays
  <2>2. Behind(c, r, s)
    BY <1>1, <1>2, <1>8, <2>1 DEF Behind
  <2>3. Inside(c, r)
    BY <1>1, <1>8, <2>1 DEF Inside, Behind
  <2>4. Told(h, c) = HubHears(Told(h, b), s)
    <3>1. b.said \in Seq(State)
      BY DEF Carried
    <3> QED  BY <1>8, <3>1, HearOneMore DEF Told
  <2>5. Held(c, Told(h, c), o)
    <3> SUFFICES ASSUME ~o, Told(h, c) # None, s.conn = b.client.will
                 PROVE  Told(h, c) = b.client.will
      BY <1>1, <1>8, NoneIsNothing DEF Held
    <3>1. CASE s.online
      BY <2>4, <3>1 DEF HubHears
    <3>2. CASE ~s.online
      <4>1. Told(h, c) = Told(h, b)
        BY <2>4, <3>2 DEF HubHears
      <4>2. b.state # None
        BY <4>1 DEF Held
      <4>3. b.state.conn = b.client.will
        <5>1. 2 * r[b.client.will] <= Key(r, b.state)
          BY <1>8, <4>2 DEF Inside
        <5>2. Key(r, b.state) <= Key(r, s)
          BY <4>2 DEF Behind
        <5>3. b.state.conn \in Conns /\ r[b.state.conn] \in Nat
              /\ (Key(r, b.state) = 2 * r[b.state.conn] \/ Key(r, b.state) = 2 * r[b.state.conn] + 1)
          BY <1>3, <4>2, KeyIs
        <5>4. r[b.state.conn] = r[s.conn]
          BY <1>2, <5>1, <5>2, <5>3
        <5> QED  BY <1>2, <5>3, <5>4 DEF Ranking
      <4> QED  BY <4>1, <4>2, <4>3 DEF Held
    <3> QED  BY <3>1, <3>2
  <2> QED  BY <1>1, <2>2, <2>3, <2>5 DEF c
<1>9. CASE /\ b.client # None /\ ~b.client.up /\ c.said = b.said
           /\ c.client = [b.client EXCEPT !.queue = Append(@, s)]
  <2>1. /\ c.client.will = b.client.will /\ c.client.queue = Append(b.client.queue, s)
        /\ c.client # None /\ b.client.queue \in Seq(State)
    <3>1. b.client \in Client /\ b.client.queue \in Seq(State)
      BY <1>3, <1>9 DEF Client
    <3>2. Append(b.client.queue, s) \in Seq(State)
      BY <3>1
    <3>3. c.client \in Client /\ c.client.will = b.client.will
          /\ c.client.queue = Append(b.client.queue, s)
      BY <1>9, <3>1, <3>2 DEF Client
    <3> QED  BY <3>1, <3>3, NoneIsNothing
  <2>2. Strays(c) => Strays(b) \/ s.conn # b.client.will
    <3> SUFFICES ASSUME NEW i \in 1..Len(c.client.queue),
                        c.client.queue[i].conn # c.client.will, s.conn = b.client.will
                 PROVE  Strays(b)
      BY DEF Strays
    <3>1. i \in 1..Len(b.client.queue) \/ c.client.queue[i] = s
      BY <2>1
    <3>2. i \in 1..Len(b.client.queue) => c.client.queue[i] = b.client.queue[i]
      BY <2>1
    <3> QED  BY <1>9, <2>1, <3>1, <3>2 DEF Strays
  <2>3. 2 * r[b.client.will] <= Key(r, s)
    BY <1>9 DEF Behind
  <2>4. Strays(c) => r[b.client.will] < r[s.conn]
    <3>1. CASE Strays(b)
      BY <3>1 DEF Behind
    <3>2. CASE s.conn # b.client.will
      <4>1. r[s.conn] # r[b.client.will]
        BY <1>2, <1>3, <1>9, <3>2 DEF Ranking
      <4> QED  BY <1>2, <1>3, <1>9, <2>3, <4>1
    <3> QED  BY <2>2, <3>1, <3>2
  <2>5. Behind(c, r, s)
    BY <1>1, <1>2, <2>1, <2>3, <2>4 DEF Behind
  <2>6. Inside(c, r)
    BY <1>1, <2>1, <2>3, <2>4 DEF Inside
  <2>7. Held(c, Told(h, c), o)
    BY <1>5, <1>9 DEF Held
  <2> QED  BY <1>1, <2>5, <2>6, <2>7 DEF c
<1> QED  BY <1>1, <1>6, <1>7, <1>8, <1>9

(* The parts come in the order in which the board said what they are of.   *)
Rising(r, p) ==
  \A i, j \in 1..Len(p) : i < j => Key(r, p[i].of.said) <= Key(r, p[j].of.said)

(* The frames handed over are of those parts, in that order, and before    *)
(* whatever is kept.                                                       *)
InOrder(r, p, f) ==
  /\ \A i \in 1..Len(f) : \E k \in 1..Len(p) : f[i] = p[k].of
  /\ \A i, j \in 1..Len(f) : i < j => Key(r, f[i].said) <= Key(r, f[j].said)

Before(r, f, q) ==
  \A i \in 1..Len(f) : \A k \in 1..Len(q) : Key(r, f[i].said) <= Key(r, q[k].of.said)

FedInOrder(r, p) ==
  Rising(r, p) => InOrder(r, p, Feed[p].frames) /\ Before(r, Feed[p].frames, Feed[p].pending)

LEMMA RisingLater ==
  ASSUME NEW r, NEW p \in Seq(Part), NEW q \in Seq(Part), NEW d \in Nat, Rising(r, p),
         Len(p) = d + Len(q), \A k \in 1..Len(q) : q[k] = p[k + d]
  PROVE  Rising(r, q)
<1> SUFFICES ASSUME NEW i \in 1..Len(q), NEW j \in 1..Len(q), i < j
             PROVE  Key(r, q[i].of.said) <= Key(r, q[j].of.said)
  BY DEF Rising
<1>1. i + d \in 1..Len(p) /\ j + d \in 1..Len(p) /\ i + d < j + d
  OBVIOUS
<1>2. q[i] = p[i + d] /\ q[j] = p[j + d]
  OBVIOUS
<1> QED  BY <1>1, <1>2 DEF Rising

LEMMA FramesRise == ASSUME NEW r, Ranking(r), NEW p \in Seq(Part) PROVE FedInOrder(r, p)
<1> DEFINE A == {q \in Seq(Part) : FedInOrder(r, q)}
<1>1. ASSUME NEW q \in Seq(Part), \A u \in Seq(Part) : Len(u) < Len(q) => u \in A
      PROVE  FedInOrder(r, q)
  <2> SUFFICES ASSUME Rising(r, q)
               PROVE  InOrder(r, q, Feed[q].frames) /\ Before(r, Feed[q].frames, Feed[q].pending)
    BY DEF FedInOrder
  <2>0. Feed[q] \in Fed /\ Feed[q] = FeedBody(Feed, q) /\ Len(q) \in Nat
        /\ Claims(q[1]) \in Nat
    BY Feeding, BridgeConstants DEF Claims
  <2>1. CASE q = << >> \/ (q # << >> /\ q[1].part # "rest" /\ Len(q) <= Claims(q[1]))
    <3>1. Feed[q].frames = << >>
      BY <2>0, <2>1 DEF FeedBody
    <3> QED  BY <3>1, Empties DEF InOrder, Before
  <2>2. CASE q # << >> /\ (q[1].part = "rest" \/ (Len(q) > Claims(q[1]) /\ ~Joined(q)))
    <3> DEFINE t == Tail(q)
    <3>1. t \in Seq(Part) /\ Len(q) = 1 + Len(t) /\ (\A k \in 1..Len(t) : t[k] = q[k + 1])
      BY <2>2
    <3>2. Feed[q] = Feed[t]
      BY <2>0, <2>2 DEF FeedBody
    <3> HIDE DEF t
    <3>3. Rising(r, t)
      BY <3>1, RisingLater
    <3>4. InOrder(r, t, Feed[t].frames) /\ Before(r, Feed[t].frames, Feed[t].pending)
      <4>1. Len(t) < Len(q)
        BY <3>1
      <4> QED  BY <1>1, <3>1, <3>3, <4>1 DEF FedInOrder
    <3>5. \A k \in 1..Len(t) : k + 1 \in 1..Len(q) /\ t[k] = q[k + 1]
      BY <3>1
    <3>6. \A i \in 1..Len(Feed[t].frames) : \E k \in 1..Len(q) : Feed[t].frames[i] = q[k].of
      <4> TAKE i \in 1..Len(Feed[t].frames)
      <4>1. PICK k \in 1..Len(t) : Feed[t].frames[i] = t[k].of
        BY <3>4 DEF InOrder
      <4>2. k + 1 \in 1..Len(q) /\ t[k] = q[k + 1]
        BY <3>5
      <4> QED  BY <4>1, <4>2
    <3> QED  BY <3>2, <3>4, <3>6 DEF InOrder
  <2>3. CASE q # << >> /\ q[1].part # "rest" /\ Len(q) > Claims(q[1]) /\ Joined(q)
    <3> DEFINE t == SubSeq(q, 3, Len(q))
               f == Feed[t].frames
               g == << q[1].of >>
    <3>1. t \in Seq(Part) /\ Len(q) = 2 + Len(t) /\ (\A k \in 1..Len(t) : t[k] = q[k + 2])
          /\ q[1] \in Part /\ q[1].of \in Message
      <4>1. t \in Seq(Part) /\ Len(t) = Len(q) - 2 /\ q[1] \in Part /\ q[1].of \in Message
            /\ Tail(q) # << >> /\ Tail(Tail(q)) = t
        BY <2>3, Thirds
      <4> HIDE DEF t
      <4>2. Tail(q) \in Seq(Part) /\ Len(Tail(q)) = Len(q) - 1
            /\ \A i \in 1..Len(Tail(q)) : Tail(q)[i] = q[i + 1]
        BY <2>3, Tails
      <4>3. \A i \in 1..Len(t) : t[i] = Tail(q)[i + 1]
        BY <4>1, <4>2, Tails
      <4>4. ASSUME NEW k \in 1..Len(t) PROVE t[k] = q[k + 2]
        <5>1. k + 1 \in 1..Len(Tail(q)) /\ (k + 1) + 1 = k + 2
          BY <2>0, <4>1, <4>2
        <5> QED  BY <4>2, <4>3, <5>1
      <4> QED  BY <2>0, <4>1, <4>4
    <3>2. Feed[q] = [Feed[t] EXCEPT !.frames = g \o @]
      BY <2>0, <2>3 DEF FeedBody
    <3>3. Feed[t] \in Fed /\ Feed[t].frames \in Seq(Message) /\ Feed[t].pending \in Seq(Part)
      BY <3>1, Feeding DEF Fed
    <3> HIDE DEF t
    <3>4. Feed[q].frames = g \o f /\ Feed[q].pending = Feed[t].pending
      BY <3>2, <3>3 DEF Fed
    <3>5. Rising(r, t)
      BY <3>1, RisingLater
    <3>6. InOrder(r, t, f) /\ Before(r, f, Feed[t].pending)
      <4>1. Len(t) < Len(q)
        BY <3>1
      <4> QED  BY <1>1, <3>1, <3>5, <4>1 DEF FedInOrder
    <3>7. \A k \in 1..Len(t) : k + 2 \in 1..Len(q) /\ t[k] = q[k + 2]
      BY <3>1
    <3>8. \A k \in 1..Len(t) : Key(r, q[1].of.said) <= Key(r, t[k].of.said)
      <4> SUFFICES ASSUME NEW k \in 1..Len(t) PROVE Key(r, q[1].of.said) <= Key(r, t[k].of.said)
        OBVIOUS
      <4>1. 1 \in 1..Len(q) /\ k + 2 \in 1..Len(q) /\ 1 < k + 2
        BY <3>1
      <4> QED  BY <3>7, <4>1 DEF Rising
    <3>9. f \in Seq(Message) /\ Len(f) \in Nat /\ Len(g \o f) = 1 + Len(f) /\ (g \o f)[1] = q[1].of
          /\ \A i \in 1..Len(f) : (g \o f)[i + 1] = f[i]
      BY <3>1, <3>3
    <3> DEFINE l == g \o f
    <3> HIDE DEF f, g, l
    <3>10. ASSUME NEW i \in 1..Len(l)
           PROVE  l[i] = q[1].of \/ \E k \in 1..Len(f) : i = k + 1 /\ l[i] = f[k]
      <4>1. i = 1 \/ (i - 1 \in 1..Len(f) /\ i = (i - 1) + 1)
        BY <3>9 DEF l
      <4> QED  BY <3>9, <4>1 DEF l
    <3>11. \A k \in 1..Len(f) : Key(r, q[1].of.said) <= Key(r, f[k].said)
      BY <3>6, <3>8 DEF InOrder
    <3>12. InOrder(r, q, l)
      <4>1. \A i \in 1..Len(l) : \E k \in 1..Len(q) : l[i] = q[k].of
        <5> SUFFICES ASSUME NEW i \in 1..Len(l) PROVE \E k \in 1..Len(q) : l[i] = q[k].of
          OBVIOUS
        <5>1. 1 \in 1..Len(q)
          BY <3>1
        <5>2. \A k \in 1..Len(f) : \E n \in 1..Len(q) : f[k] = q[n].of
          BY <3>6, <3>7 DEF InOrder
        <5> QED  BY <3>10, <5>1, <5>2
      <4>2. ASSUME NEW i \in 1..Len(l), NEW j \in 1..Len(l), i < j
            PROVE  Key(r, l[i].said) <= Key(r, l[j].said)
        <5>0. Len(l) = 1 + Len(f) /\ Len(f) \in Nat
          BY <3>9 DEF l
        <5>1. i \in Nat /\ j \in Nat /\ j # 1 /\ i >= 1 /\ i <= 1 + Len(f) /\ j <= 1 + Len(f)
          BY <4>2, <5>0
        <5>2. j - 1 \in 1..Len(f) /\ l[j] = f[j - 1]
          <6>1. j - 1 \in 1..Len(f) /\ j = (j - 1) + 1
            BY <5>0, <5>1
          <6> QED  BY <3>9, <6>1 DEF l
        <5>3. CASE i = 1
          BY <3>9, <3>11, <5>2, <5>3 DEF l
        <5>4. CASE i # 1
          <6>1. i - 1 \in 1..Len(f) /\ l[i] = f[i - 1] /\ i - 1 < j - 1
            <7>1. i - 1 \in 1..Len(f) /\ i = (i - 1) + 1 /\ i - 1 < j - 1
              BY <4>2, <5>0, <5>1, <5>4
            <7> QED  BY <3>9, <7>1 DEF l
          <6> QED  BY <3>6, <5>2, <6>1 DEF InOrder
        <5> QED  BY <5>3, <5>4
      <4> QED  BY <4>1, <4>2 DEF InOrder
    <3>13. Before(r, l, Feed[t].pending)
      <4>1. PICK u \in Seq(Part) : t = u \o Feed[t].pending
        BY <3>1, Feeds DEF FeedsWell
      <4> DEFINE z == Feed[t].pending
      <4>2. z \in Seq(Part) /\ t = u \o z
        BY <3>3, <4>1
      <4> HIDE DEF z
      <4>3. \A k \in 1..Len(z) : Len(u) + k \in 1..Len(t) /\ t[Len(u) + k] = z[k]
        BY <4>2, Indices
      <4>4. \A k \in 1..Len(z) : Key(r, q[1].of.said) <= Key(r, z[k].of.said)
        BY <3>8, <4>3
      <4>5. Before(r, f, z)
        BY <3>6 DEF z
      <4> QED  BY <3>10, <4>4, <4>5 DEF Before, z
    <3> QED  BY <3>4, <3>12, <3>13 DEF l
  <2> QED  BY <2>0, <2>1, <2>2, <2>3
<1>2. A = Seq(Part)
  <2>1. A \in SUBSET Seq(Part)
    OBVIOUS
  <2>2. \A q \in Seq(Part) : (\A u \in Seq(Part) : Len(u) < Len(q) => u \in A) => q \in A
    BY <1>1
  <2> HIDE DEF A
  <2> QED  BY <2>1, <2>2, PartsInduction
<1> QED  BY <1>2

(* Frames that come in their turn leave everything in its place, and what  *)
(* comes after them behind it.                                             *)
LEMMA AllArrived ==
  ASSUME NEW r, Ranking(r), NEW b \in Carried, NEW f \in Seq(Message), NEW h \in HubCarried, NEW o,
         Inside(b, r), Held(b, Told(h, b), o),
         \A i \in 1..Len(f) : Behind(b, r, f[i].said),
         \A i, j \in 1..Len(f) : i < j => Key(r, f[i].said) <= Key(r, f[j].said),
         NEW Rest \in SUBSET Said,
         \A x \in Rest : Behind(b, r, x) /\ \A i \in 1..Len(f) : Key(r, f[i].said) <= Key(r, x)
  PROVE  LET c == FoldLeft(Take, b, f)
         IN  Inside(c, r) /\ Held(c, Told(h, c), o) /\ \A x \in Rest : Behind(c, r, x)
<1> DEFINE n == Len(f)
           Good(i) == {c \in Carried : /\ Inside(c, r) /\ Held(c, Told(h, c), o)
                                       /\ \A j \in (i + 1)..n : Behind(c, r, f[j].said)
                                       /\ \A x \in Rest : Behind(c, r, x)}
           G == [i \in 0..n |-> Good(i)]
<1>1. n \in Nat /\ \A i \in 1..n : f[i] \in Message /\ f[i].said \in Said
  BY StatesSaid
<1>2. G \in [0..n -> SUBSET Carried]
  OBVIOUS
<1>3. b \in Good(0)
  BY <1>1
<1>4. ASSUME NEW i \in 1..n, NEW c \in Good(i - 1)
      PROVE  Take(c, f[i]) \in Good(i)
  <2> DEFINE d == Take(c, f[i])
             s == f[i].said
  <2>1. c \in Carried /\ Inside(c, r) /\ Held(c, Told(h, c), o) /\ Behind(c, r, s)
        /\ (\A x \in Rest : Behind(c, r, x))
        /\ \A j \in (i + 1)..n : Behind(c, r, f[j].said)
    BY <1>1
  <2>2. d \in Carried
    BY <1>1, <2>1, TakeKeeps DEF Keeps
  <2>3. CASE s.kind # "state"
    <3>1. d = c
      BY <2>3 DEF Take
    <3> HIDE DEF d
    <3> QED  BY <2>1, <3>1 DEF d
  <2>4. CASE s.kind = "state"
    <3>1. s \in State
      BY <1>1, <2>4 DEF Said, State
    <3>2. d = AStateArrived(c, s)
      BY <2>4 DEF Take
    <3> HIDE DEF d, s, Good
    <3>3. Inside(d, r) /\ Behind(d, r, s) /\ Held(d, Told(h, d), o)
      BY <2>1, <3>1, <3>2, Arrived
    <3>4. \A j \in (i + 1)..n : Behind(d, r, f[j].said)
      <4> SUFFICES ASSUME NEW j \in (i + 1)..n PROVE Behind(d, r, f[j].said)
        OBVIOUS
      <4>1. j \in 1..n /\ i < j
        BY <1>1
      <4>2. Key(r, s) <= Key(r, f[j].said) /\ f[j].said \in Said
        BY <1>1, <4>1 DEF s
      <4> QED  BY <2>2, <3>1, <3>3, <4>2, StatesSaid, BehindStill
    <3>5. \A x \in Rest : Behind(d, r, x)
      <4> SUFFICES ASSUME NEW x \in Rest PROVE Behind(d, r, x)
        OBVIOUS
      <4>1. Key(r, s) <= Key(r, x)
        BY <1>1 DEF s
      <4> QED  BY <2>2, <3>1, <3>3, <4>1, StatesSaid, BehindStill
    <3> QED  BY <2>2, <3>3, <3>4, <3>5 DEF d, Good
  <2> QED  BY <2>3, <2>4
<1> HIDE DEF Good
<1>5. \A i \in 1..n : \A c \in G[i - 1] : Take(c, f[i]) \in G[i]
  <2> SUFFICES ASSUME NEW i \in 1..n, NEW c \in G[i - 1] PROVE Take(c, f[i]) \in G[i]
    OBVIOUS
  <2>1. i - 1 \in 0..n /\ i \in 0..n
    BY <1>1
  <2> QED  BY <1>4, <2>1
<1>6. b \in G[0]
  BY <1>1, <1>3
<1>7. G[n] = Good(n)
  BY <1>1
<1>8. \A c \in Carried : \A m \in Message : Take(c, m) \in Carried
  BY TakeKeeps DEF Keeps
<1> HIDE DEF G
<1>9. FoldLeft(Take, b, f) \in G[Len(f)]
  BY <1>2, <1>5, <1>6, <1>8, TakeEach
<1> QED  BY <1>7, <1>9 DEF Good

(* What the bridge may still come to hear: what is on the way, and the     *)
(* next announcement of a board that is there.                             *)
Mark(bd) == [kind |-> "state", conn |-> bd.conn, online |-> TRUE]

Future(p, bd) ==
  {p[i].of.said : i \in 1..Len(p)} \cup (IF bd.here THEN {Mark(bd)} ELSE {})

(* The whole of it, under a ranking that has given no rank above top.      *)
Minds(r, top, b, p, bd) ==
  /\ Ranking(r) /\ top \in Nat /\ \A c \in Conns : r[c] <= top
  /\ Rising(r, p)
  /\ bd.here => \A i \in 1..Len(p) : Key(r, p[i].of.said) <= 2 * r[bd.conn]
  /\ Inside(b, r)
  /\ \A x \in Future(p, bd) : Behind(b, r, x)

(* With d the bridge has no more in mind than with b.                      *)
Lighter(d, b) ==
  \A r : Ranking(r) /\ Inside(b, r) =>
           Inside(d, r) /\ \A x \in Said : Behind(b, r, x) => Behind(d, r, x)

SameMind(d, b) ==
  d.state = b.state /\ d.payload = b.payload /\ d.waiting = b.waiting /\ d.client = b.client

Blank(b) == b.state = None /\ b.payload = None /\ b.waiting = None /\ b.client = None

LEMMA SameLighter == ASSUME NEW b, NEW d, SameMind(d, b) PROVE Lighter(d, b)
BY DEF SameMind, Lighter, Inside, Behind, Strays

LEMMA BlankLighter == ASSUME NEW b, NEW d, Blank(d) PROVE Lighter(d, b)
BY DEF Blank, Lighter, Inside, Behind, Strays

LEMMA LighterYet == ASSUME NEW b, NEW c, NEW d, Lighter(d, c), Lighter(c, b) PROVE Lighter(d, b)
BY DEF Lighter

LEMMA QuietLighter ==
  ASSUME NEW b \in Carried, NEW d, d.state = None, d.payload = None,
         d.waiting = b.waiting, d.client = b.client
  PROVE  Lighter(d, b)
BY DEF Lighter, Inside, Behind, Strays

(* The library's thread: the connection is made or breaks, and what was    *)
(* kept for it is said or kept still.                                      *)
LEMMA ClientLighter ==
  ASSUME NEW b \in Carried, NEW d, d.state = b.state, d.payload = b.payload,
         d.waiting = b.waiting, b.client # None, d.client # None, d.client.will = b.client.will,
         d.client.queue = b.client.queue \/ d.client.queue = << >>
  PROVE  Lighter(d, b)
<1>1. Strays(d) => Strays(b)
  <2>1. Len(<< >>) = 0
    OBVIOUS
  <2> QED  BY <2>1 DEF Strays
<1> QED  BY <1>1 DEF Lighter, Inside, Behind

LEMMA ReachLighter ==
  ASSUME NEW b \in Carried
  PROVE  /\ Lighter(ReachTheBroker(b), b)
         /\ \/ SameMind(ReachTheBroker(b), b)
            \/ b.client = None
         /\ ReachTheBroker(b).said = b.said
<1> DEFINE d == ReachTheBroker(b)
           w == b.waiting
<1>1. CASE b.waiting = None \/ b.client # None \/ ~broker
  <2>1. d = b
    BY <1>1 DEF ReachTheBroker
  <2> QED  BY <2>1, SameLighter DEF SameMind
<1>2. CASE ~(b.waiting = None \/ b.client # None \/ ~broker)
  <2> DEFINE cl == [will |-> w.conn, up |-> FALSE, queue |-> << >>]
             e == [b EXCEPT !.client = cl, !.state = w]
  <2>1. d = [e EXCEPT !.waiting = None]
    BY <1>2 DEF ReachTheBroker, Connect
  <2>2. w \in State /\ cl \in Client /\ cl.will = w.conn /\ cl.queue = << >>
    BY <1>2, Empties DEF Carried, Client, State
  <2> HIDE DEF cl
  <2>3. e \in Carried /\ e.client = cl /\ e.state = w /\ e.payload = b.payload
        /\ e.said = b.said
    <3> HIDE DEF w
    <3> QED  BY <2>2 DEF Carried
  <2> HIDE DEF e
  <2>4. d.client = cl /\ d.state = w /\ d.payload = b.payload /\ d.waiting = None
        /\ d.said = b.said
    BY <2>1, <2>3 DEF Carried
  <2> HIDE DEF d
  <2>5. d.client # None /\ ~Strays(d)
    BY <2>2, <2>4, Empties, NoneIsNothing DEF Strays
  <2>6. ASSUME NEW r, Ranking(r), Inside(b, r)
        PROVE  Inside(d, r) /\ \A x \in Said : Behind(b, r, x) => Behind(d, r, x)
    <3>1. r[w.conn] \in Nat /\ Key(r, w) \in Nat /\ 2 * r[w.conn] <= Key(r, w)
      <4>1. w \in Said
        BY <2>2, StatesSaid
      <4>2. r[w.conn] \in Nat /\ Key(r, w) \in Nat
            /\ (Key(r, w) = 2 * r[w.conn] \/ Key(r, w) = 2 * r[w.conn] + 1)
        BY <2>6, <4>1, KeyIs
      <4> QED  BY <4>2
    <3>2. Inside(d, r)
      BY <1>2, <2>2, <2>4, <2>5, <2>6, <3>1 DEF Inside
    <3>3. ASSUME NEW x \in Said, Behind(b, r, x) PROVE Behind(d, r, x)
      <4>1. Key(r, w) <= Key(r, x)
        BY <1>2, <3>3 DEF Behind
      <4>2. Key(r, x) \in Nat
        BY <2>6, KeyIs
      <4>3. 2 * r[w.conn] <= Key(r, x)
        BY <3>1, <4>1, <4>2
      <4> QED  BY <2>2, <2>4, <2>5, <4>1, <4>3 DEF Behind
    <3> QED  BY <3>2, <3>3
  <2>7. Lighter(d, b)
    BY <2>6 DEF Lighter
  <2> QED  BY <1>2, <2>4, <2>7 DEF d
<1> QED  BY <1>1, <1>2

(* What is on the way loses parts, or heads their shape.                   *)
Fewer(n, p) ==
  \E g \in [1..Len(n) -> 1..Len(p)] :
    /\ \A i, j \in 1..Len(n) : i < j => g[i] < g[j]
    /\ \A i \in 1..Len(n) : n[i].of = p[g[i]].of

LEMMA ThinnedFewer == ASSUME NEW n, NEW p, NEW g, NEW lost, Thinned(n, p, g, lost) PROVE Fewer(n, p)
BY DEF Thinned, Fewer

LEMMA SameFewer == ASSUME NEW p \in Seq(Part) PROVE Fewer(p, p)
<1>1. [i \in 1..Len(p) |-> i] \in [1..Len(p) -> 1..Len(p)]
  OBVIOUS
<1> QED  BY <1>1 DEF Fewer

LEMMA NoneFewer == ASSUME NEW p \in Seq(Part) PROVE Fewer(<< >>, p)
<1>1. PICK g : Thinned(<< >>, p \o << >>, g, 0)
  <2>1. \E g : Thinned(<< >>, p \o << >>, g, 0)
    BY Empties, KeptThinned
  <2> QED  BY <2>1
<1>2. p \o << >> = p
  BY PartsJoin
<1> QED  BY <1>1, <1>2, ThinnedFewer

LEMMA FewerMinds ==
  ASSUME NEW r, NEW top, NEW b, NEW d, NEW p \in Seq(Part), NEW n \in Seq(Part),
         NEW bd \in Boards, NEW e \in Boards,
         Minds(r, top, b, p, bd), Lighter(d, b), Fewer(n, p),
         e.here => bd.here /\ e.conn = bd.conn
  PROVE  Minds(r, top, d, n, e)
<1>1. Ranking(r) /\ Inside(b, r)
  BY DEF Minds
<1>2. Inside(d, r) /\ \A x \in Said : Behind(b, r, x) => Behind(d, r, x)
  BY <1>1 DEF Lighter
<1>3. PICK g \in [1..Len(n) -> 1..Len(p)] :
         /\ \A i, j \in 1..Len(n) : i < j => g[i] < g[j]
         /\ \A i \in 1..Len(n) : n[i].of = p[g[i]].of
  BY DEF Fewer
<1>4. Rising(r, n)
  BY <1>3 DEF Minds, Rising
<1>5. e.here => \A i \in 1..Len(n) : Key(r, n[i].of.said) <= 2 * r[e.conn]
  BY <1>3 DEF Minds
<1>6. Future(n, e) \subseteq Future(p, bd)
  BY <1>3 DEF Future, Mark
<1>7. Future(p, bd) \subseteq Said
  <2>1. \A i \in 1..Len(p) : p[i].of.said \in Said
    <3> SUFFICES ASSUME NEW i \in 1..Len(p) PROVE p[i].of.said \in Said
      OBVIOUS
    <3>1. p[i] \in Part
      OBVIOUS
    <3>2. p[i].of \in Message
      BY <3>1 DEF Part
    <3> QED  BY <3>2, StatesSaid
  <2>2. Mark(bd) \in Said
    BY DEF Mark, Boards, Said, State
  <2> QED  BY <2>1, <2>2 DEF Future
<1>8. \A x \in Future(n, e) : Behind(d, r, x)
  BY <1>2, <1>6, <1>7 DEF Minds
<1> QED  BY <1>2, <1>4, <1>5, <1>8 DEF Minds

------------------------------------------------------------------------------
(* The session the hub has, if it is not lost sight of, is the one the     *)
(* bridge's client was opened for, and the bridge knows it.                *)
Sees(b, h, o) ==
  o \/ (h # None => /\ b.client # None /\ b.client.up /\ b.state # None
                    /\ b.state.conn = b.client.will /\ h = b.client.will)

(* What has to be so for the hub to be told rightly of b.                  *)
Kept(b, h, o) ==
  o \/ (h # None => /\ b.client # None /\ b.client.up
                    /\ Names(b.state, b.client.will) => h = b.client.will)

NoClient == ~bridge.alive => bridge.client = None

KnownInv ==
  /\ CableInv /\ NoClient /\ Sees(bridge, hub, orphan)
  /\ \E r, top : Minds(r, top, bridge, Line, board)

LEMMA Onward ==
  ASSUME KnownInv, CableInv', Lighter(bridge', bridge), Fewer(Line', Line),
         board'.here => board.here /\ board'.conn = board.conn,
         bridge'.alive \/ bridge'.client = None,
         Sees(bridge', hub', orphan')
  PROVE  KnownInv'
<1>1. PICK r, top : Minds(r, top, bridge, Line, board)
  BY DEF KnownInv
<1>2. Line \in Seq(Part) /\ board \in Boards
  BY LineType DEF KnownInv, CableInv, TypeOK, Boards
<1>3. Line' \in Seq(Part) /\ board' \in Boards
  <2>1. TypeOK'
    BY DEF CableInv
  <2>2. bridge'.pending \in Seq(Part) /\ up' \in Seq(Part)
    BY <2>1 DEF TypeOK, Carried
  <2>3. Line' \in Seq(Part)
    BY <2>2, PartsJoin DEF Line
  <2> QED  BY <2>1, <2>3 DEF TypeOK, Boards
<1>4. Minds(r, top, bridge', Line', board')
  BY <1>1, <1>2, <1>3, FewerMinds
<1>5. \E s, t : Minds(s, t, bridge, Line, board)'
  <2>1. Minds(r, top, bridge, Line, board)' <=> Minds(r, top, bridge', Line', board')
    BY DEF Minds, Rising, Inside, Behind, Future, Mark, Strays
  <2> QED  BY <1>4, <2>1
<1>6. NoClient' /\ Sees(bridge, hub, orphan)'
  BY DEF NoClient, Sees
<1> QED  BY <1>5, <1>6 DEF KnownInv

LEMMA SaidNothing == ASSUME NEW h \in HubCarried, NEW b, b.said = << >> PROVE Told(h, b) = h
BY HearNothing DEF Told

(* Letting go says goodbye to the session there is.                        *)
LEMMA Goodbye ==
  ASSUME NEW b \in Carried, b.said = << >>, NEW h \in HubCarried, NEW o, Sees(b, h, o)
  PROVE  Blank(LetGo(b)) /\ (o \/ Told(h, LetGo(b)) = None)
<1> DEFINE told == IF b.client # None /\ b.state # None
                   THEN Publish(b, GoodbyeFor(b.state)) ELSE b
           g == GoodbyeFor(b.state)
<1>1. told \in Carried
  <2>1. CASE b.client # None /\ b.state # None
    <3>1. GoodbyeFor(b.state) \in State
      BY <2>1 DEF GoodbyeFor, State, Carried
    <3> QED  BY <2>1, <3>1, PublishKeeps DEF Keeps
  <2> QED  BY <2>1
<1>2. LetGo(b) = [told EXCEPT !.port = FALSE, !.state = None, !.payload = None,
                              !.waiting = None, !.client = None]
  BY DEF LetGo
<1> HIDE DEF told
<1>3. Blank(LetGo(b)) /\ LetGo(b).said = told.said
  BY <1>1, <1>2 DEF Blank, Carried
<1>4. Told(h, LetGo(b)) = Told(h, told)
  BY <1>3 DEF Told
<1>5. o \/ Told(h, told) = None
  <2>1. CASE b.client # None /\ b.state # None /\ b.client.up
    <3>1. told = [b EXCEPT !.said = Append(@, g)]
      BY <2>1 DEF told, Publish
    <3>2. told.said = Append(<< >>, g)
      BY <3>1 DEF Carried
    <3>3. g \in State /\ g.conn = b.state.conn /\ ~g.online
      BY <2>1 DEF GoodbyeFor, State, Carried
    <3> HIDE DEF g
    <3>4. Told(h, told) = HubHears(h, g)
      BY <3>2, <3>3, Empties, HearOneMore, HearNothing DEF Told
    <3>5. HubHears(h, g) = IF h = b.state.conn THEN None ELSE h
      BY <3>3 DEF HubHears
    <3> QED  BY <3>4, <3>5 DEF Sees
  <2>2. CASE ~(b.client # None /\ b.state # None /\ b.client.up)
    <3>1. told.said = << >>
      <4>1. CASE b.client # None /\ b.state # None
        <5>1. told = [b EXCEPT !.client.queue = Append(@, g)]
          BY <2>2, <4>1 DEF told, Publish
        <5> QED  BY <5>1 DEF Carried
      <4>2. CASE ~(b.client # None /\ b.state # None)
        BY <4>2 DEF told
      <4> QED  BY <4>1, <4>2
    <3>2. Told(h, told) = h
      BY <3>1, SaidNothing
    <3> QED  BY <2>2, <3>2 DEF Sees
  <2> QED  BY <2>1, <2>2
<1> QED  BY <1>3, <1>4, <1>5

LEMMA BecomesSeen ==
  ASSUME NEW b \in Carried, Becomes(b), Kept(b, Told(hub, b), orphan), orphan \in BOOLEAN
  PROVE  Sees(bridge', hub', orphan') /\ SameMind(bridge', b)
<1>1. SameMind(bridge', b) /\ hub' = Told(hub, b)
  BY DEF Becomes, Told, SameMind, Carried
<1>2. orphan' = (hub' # None /\ (orphan \/ (bridge'.client # None
                                            /\ ~Names(bridge'.state, bridge'.client.will))))
  BY DEF Becomes, Orphaned
<1>3. Sees(bridge', hub', orphan')
  <2> SUFFICES ASSUME ~orphan', hub' # None
               PROVE  /\ b.client # None /\ b.client.up /\ b.state # None
                      /\ b.state.conn = b.client.will /\ hub' = b.client.will
    BY <1>1 DEF Sees, SameMind
  <2>1. ~orphan /\ (b.client # None => Names(b.state, b.client.will))
    BY <1>1, <1>2 DEF SameMind
  <2> QED  BY <1>1, <2>1 DEF Kept, Names
<1> QED  BY <1>1, <1>3

------------------------------------------------------------------------------
(* Steps of the bridge.                                                    *)
LEMMA KnownTypes ==
  ASSUME KnownInv
  PROVE  /\ TypeOK /\ bridge \in Carried /\ bridge.said = << >> /\ hub \in HubCarried
         /\ orphan \in BOOLEAN /\ board \in Boards
         /\ bridge.pending \in Seq(Part) /\ up \in Seq(Part) /\ Line \in Seq(Part)
BY LineType DEF KnownInv, CableInv, TypeOK, HubCarried, Boards

LEMMA LineAsWas ==
  ASSUME KnownInv, bridge'.pending = bridge.pending, up' = up
  PROVE  Line' = Line /\ Fewer(Line', Line)
<1>1. Line' = Line
  BY DEF Line
<1> QED  BY <1>1, KnownTypes, SameFewer

LEMMA LineCleared ==
  ASSUME KnownInv, CableInv', bridge'.pending = << >> \/ bridge'.pending = bridge.pending,
         up' = << >>
  PROVE  Fewer(Line', Line)
<1>1. bridge'.pending \in Seq(Part)
  BY KnownTypes, Empties
<1>2. Line' = bridge'.pending
  BY <1>1, PartsJoin DEF Line
<1>3. CASE bridge'.pending = << >>
  BY <1>2, <1>3, KnownTypes, NoneFewer
<1>4. CASE bridge'.pending = bridge.pending
  <2>1. \E g : Thinned(bridge.pending, bridge.pending \o up, g, Len(up))
    BY KnownTypes, FrontThinned
  <2> QED  BY <1>2, <1>4, <2>1, ThinnedFewer DEF Line
<1> QED  BY <1>3, <1>4

(* A turn of the bridge in which it tells the hub what it published.       *)
LEMMA BridgeTells ==
  ASSUME KnownInv, CableInv', NEW b \in Carried, Becomes(b), b.alive \/ b.client = None,
         b.pending = bridge.pending, UNCHANGED <<board, up>>,
         Lighter(b, bridge), Kept(b, Told(hub, b), orphan)
  PROVE  KnownInv'
<1>1. orphan \in BOOLEAN /\ TypeOK
  BY KnownTypes
<1>2. Sees(bridge', hub', orphan') /\ SameMind(bridge', b)
  BY <1>1, BecomesSeen
<1>3. Keeps(bridge', b) /\ bridge'.client = b.client
  BY <1>1, BecomesKeeps
<1>4. Lighter(bridge', bridge)
  BY <1>2, SameLighter, LighterYet
<1>5. Fewer(Line', Line)
  BY <1>3, LineAsWas DEF Keeps
<1> QED  BY <1>2, <1>3, <1>4, <1>5, Onward DEF Keeps

(* A turn in which it tells the hub nothing.                               *)
LEMMA BridgeSilent ==
  ASSUME KnownInv, CableInv', SameMind(bridge', bridge), bridge'.alive = bridge.alive,
         board'.here => board.here /\ board'.conn = board.conn,
         Fewer(Line', Line), UNCHANGED <<hub, orphan>>
  PROVE  KnownInv'
<1>1. Lighter(bridge', bridge)
  BY SameLighter
<1>2. Sees(bridge', hub', orphan')
  BY DEF KnownInv, Sees, SameMind
<1>3. bridge'.alive \/ bridge'.client = None
  BY DEF KnownInv, NoClient, SameMind
<1> QED  BY <1>1, <1>2, <1>3, Onward

LEMMA OpenThePortKnown == ASSUME KnownInv, CableInv', OpenThePort PROVE KnownInv'
<1>1. /\ bridge' = [bridge EXCEPT !.port = TRUE, !.pending = << >>]
      /\ bridge.alive /\ ~bridge.port
      /\ UNCHANGED <<board, plugged, up, down, broker, hub, orphan, mishaps>>
  BY DEF OpenThePort, Running
<1>2. SameMind(bridge', bridge) /\ bridge'.pending = << >> /\ bridge'.alive = bridge.alive
  BY <1>1, KnownTypes DEF Carried, SameMind
<1>3. up' = << >>
  BY <1>1 DEF KnownInv, CableInv, Silent
<1>4. Fewer(Line', Line)
  BY <1>2, <1>3, LineCleared
<1> QED  BY <1>1, <1>2, <1>4, BridgeSilent

LEMMA PortGoneKnown == ASSUME KnownInv, CableInv', PortGone PROVE KnownInv'
<1>1. /\ bridge.alive /\ Becomes(LetGo(bridge))
      /\ UNCHANGED <<board, plugged, up, down, broker, mishaps>>
  BY DEF PortGone, Running
<1>2. Blank(LetGo(bridge)) /\ (orphan \/ Told(hub, LetGo(bridge)) = None)
  BY KnownTypes, Goodbye DEF KnownInv
<1>3. Keeps(LetGo(bridge), [bridge EXCEPT !.port = FALSE])
  BY KnownTypes, LetGoKeeps
<1>4. LetGo(bridge) \in Carried /\ LetGo(bridge).pending = bridge.pending
  BY <1>3, KnownTypes DEF Keeps, Carried
<1>5. Kept(LetGo(bridge), Told(hub, LetGo(bridge)), orphan)
  BY <1>2 DEF Kept
<1>6. Lighter(LetGo(bridge), bridge)
  BY <1>2, BlankLighter
<1>7. LetGo(bridge).client = None
  BY <1>2 DEF Blank
<1> DEFINE b == LetGo(bridge)
<1> HIDE DEF b
<1>8. b \in Carried /\ b.pending = bridge.pending /\ Kept(b, Told(hub, b), orphan)
      /\ Lighter(b, bridge) /\ b.client = None /\ Becomes(b)
  BY <1>1, <1>4, <1>5, <1>6, <1>7 DEF b
<1> QED  BY <1>1, <1>8, BridgeTells

LEMMA HandOverCommandsKnown == ASSUME KnownInv, CableInv', HandOverCommands PROVE KnownInv'
<1> DEFINE c == [bridge EXCEPT !.commands = Tail(@)]
<1>1. /\ bridge.alive /\ bridge.commands # << >>
      /\ UNCHANGED <<board, plugged, up, broker, mishaps>>
  BY DEF HandOverCommands, Running
<1>2. c \in Carried /\ SameMind(c, bridge) /\ c.said = << >> /\ c.pending = bridge.pending
      /\ c.alive = bridge.alive
  <2>1. bridge.commands \in Seq({"stop", "configure"})
    BY KnownTypes DEF Carried
  <2>2. Tail(bridge.commands) \in Seq({"stop", "configure"})
    BY <1>1, <2>1
  <2> QED  BY <2>2, KnownTypes DEF Carried, SameMind
<1> HIDE DEF c
<1>3. CASE bridge.port /\ ~plugged
  <2> DEFINE b == LetGo(c)
  <2>1. Becomes(b)
    BY <1>3 DEF HandOverCommands, c
  <2>2. Sees(c, hub, orphan)
    BY <1>2 DEF KnownInv, Sees, SameMind
  <2>3. Blank(b) /\ (orphan \/ Told(hub, b) = None)
    BY <1>2, <2>2, KnownTypes, Goodbye
  <2>4. Keeps(b, [c EXCEPT !.port = FALSE])
    BY <1>2, LetGoKeeps
  <2> HIDE DEF b
  <2>5. b \in Carried /\ b.pending = bridge.pending
    BY <1>2, <2>4 DEF Keeps, Carried
  <2>6. Kept(b, Told(hub, b), orphan) /\ b.client = None
    BY <2>3 DEF Kept, Blank
  <2>7. Lighter(b, bridge)
    BY <2>3, BlankLighter
  <2> QED  BY <1>1, <2>1, <2>5, <2>6, <2>7, BridgeTells
<1>4. CASE ~(bridge.port /\ ~plugged)
  <2>1. bridge' = c /\ UNCHANGED <<hub, orphan>>
    BY <1>4 DEF HandOverCommands, c
  <2>2. Fewer(Line', Line)
    BY <1>1, <1>2, <2>1, LineAsWas
  <2> QED  BY <1>1, <1>2, <2>1, <2>2, BridgeSilent
<1> QED  BY <1>3, <1>4

LEMMA KeepItGoingKnown ==
  ASSUME KnownInv, CableInv', NEW quiet \in BOOLEAN, KeepItGoing(quiet)
  PROVE  KnownInv'
<1> DEFINE reached == ReachTheBroker(bridge)
           asked == IF quiet THEN [reached EXCEPT !.state = None, !.payload = None] ELSE reached
           hello == bridge.port /\ asked.state = None
           b == IF hello /\ ~plugged THEN LetGo(asked) ELSE asked
<1>1. /\ bridge.alive /\ Becomes(b) /\ (quiet => plugged)
      /\ UNCHANGED <<board, plugged, up, broker>>
  BY DEF KeepItGoing, Running
<1>2. /\ Keeps(reached, bridge) /\ Lighter(reached, bridge) /\ reached.said = << >>
      /\ SameMind(reached, bridge) \/ bridge.client = None
  BY KnownTypes, ReachKeeps, ReachLighter
<1>3. Sees(reached, hub, orphan)
  BY <1>2 DEF KnownInv, Sees, SameMind
<1> HIDE DEF reached
<1>4. asked \in Carried /\ asked.pending = bridge.pending /\ asked.alive = bridge.alive
      /\ asked.said = << >>
  BY <1>2 DEF Keeps, Carried
<1>5. Lighter(asked, bridge)
  <2>1. CASE quiet
    <3> DEFINE q == [reached EXCEPT !.state = None, !.payload = None]
    <3>1. q.state = None /\ q.payload = None /\ q.waiting = reached.waiting
          /\ q.client = reached.client
      BY <1>2 DEF Keeps, Carried
    <3>2. asked = q /\ reached \in Carried
      BY <1>2, <2>1 DEF Keeps
    <3> HIDE DEF q, asked
    <3>3. Lighter(q, reached)
      BY <3>1, <3>2, QuietLighter
    <3> QED  BY <1>2, <3>2, <3>3, LighterYet
  <2>2. CASE ~quiet
    BY <1>2, <2>2
  <2> QED  BY <2>1, <2>2
<1>6. Kept(asked, hub, orphan)
  <2>1. CASE quiet
    <3>1. asked.client = reached.client /\ asked.state = None
      BY <1>2, <2>1 DEF Keeps, Carried
    <3> HIDE DEF asked
    <3> QED  BY <1>3, <3>1 DEF Kept, Sees, Names
  <2>2. CASE ~quiet
    BY <1>3, <2>2 DEF Kept, Sees, Names
  <2> QED  BY <2>1, <2>2
<1>7. ~quiet => Sees(asked, hub, orphan)
  BY <1>3
<1> HIDE DEF asked
<1>8. CASE hello /\ ~plugged
  <2>1. b = LetGo(asked)
    BY <1>8
  <2>2. Sees(asked, hub, orphan)
    BY <1>1, <1>7, <1>8
  <2>3. Blank(b) /\ (orphan \/ Told(hub, b) = None)
    BY <1>4, <2>1, <2>2, KnownTypes, Goodbye
  <2>4. Keeps(b, [asked EXCEPT !.port = FALSE])
    BY <1>4, <2>1, LetGoKeeps
  <2> HIDE DEF b
  <2>5. b \in Carried /\ b.pending = bridge.pending
    BY <1>4, <2>4 DEF Keeps, Carried
  <2>6. Kept(b, Told(hub, b), orphan) /\ b.client = None
    BY <2>3 DEF Kept, Blank
  <2>7. Lighter(b, bridge)
    BY <2>3, BlankLighter
  <2> QED  BY <1>1, <2>5, <2>6, <2>7, BridgeTells
<1>9. CASE ~(hello /\ ~plugged)
  <2>1. b = asked
    BY <1>9
  <2>2. Told(hub, asked) = hub
    BY <1>4, KnownTypes, SaidNothing
  <2> QED  BY <1>1, <1>4, <1>5, <1>6, <2>1, <2>2, BridgeTells
<1> QED  BY <1>8, <1>9

LEMMA QuietHere == ASSUME NEW b PROVE ~CableWentQuiet(b).here \/ b \notin Boards
BY QuietBoard

LEMMA StopKnown == ASSUME KnownInv, CableInv', Stop PROVE KnownInv'
<1> DEFINE g == LetGo(bridge)
           b == [g EXCEPT !.alive = FALSE, !.pending = << >>, !.commands = << >>]
<1>1. /\ Becomes(b) /\ up' = << >> /\ board' = CableWentQuiet(board)
  BY DEF Stop
<1>2. Blank(g) /\ (orphan \/ Told(hub, g) = None) /\ g \in Carried
  BY KnownTypes, Goodbye, LetGoKeeps DEF KnownInv, Keeps
<1> HIDE DEF g
<1>3. b \in Carried /\ SameMind(b, g) /\ b.said = g.said /\ b.pending = << >>
  BY <1>2, Empties DEF Carried, SameMind
<1> HIDE DEF b
<1>4. Blank(b) /\ Told(hub, b) = Told(hub, g)
  BY <1>2, <1>3 DEF Blank, SameMind, Told
<1>5. Kept(b, Told(hub, b), orphan)
  BY <1>2, <1>4 DEF Kept
<1>6. Sees(bridge', hub', orphan') /\ SameMind(bridge', b)
  BY <1>1, <1>3, <1>5, KnownTypes, BecomesSeen
<1>7. Blank(bridge')
  BY <1>4, <1>6 DEF Blank, SameMind
<1>8. bridge'.pending = << >>
  BY <1>1, <1>3, KnownTypes, BecomesKeeps DEF Keeps
<1>9. Fewer(Line', Line)
  BY <1>1, <1>8, LineCleared
<1>10. ~board'.here
  BY <1>1, KnownTypes, QuietHere
<1> QED  BY <1>6, <1>7, <1>9, <1>10, BlankLighter, Onward DEF Blank

(* The will does what a goodbye does. *)
LEMMA WillSays ==
  ASSUME KnownInv, NEW h,
         h = IF bridge.client # None /\ bridge.client.up THEN HubHears(hub, Will) ELSE hub
  PROVE  orphan \/ h = None
<1>1. CASE bridge.client # None /\ bridge.client.up
  <2>1. HubHears(hub, Will) = IF hub = bridge.client.will THEN None ELSE hub
    BY DEF HubHears, Will
  <2> QED  BY <1>1, <2>1 DEF KnownInv, Sees
<1>2. CASE ~(bridge.client # None /\ bridge.client.up)
  BY <1>2 DEF KnownInv, Sees
<1> QED  BY <1>1, <1>2

LEMMA WillSeen ==
  ASSUME KnownInv, Orphaned, orphan \/ hub' = None
  PROVE  Sees(bridge', hub', orphan')
BY DEF Orphaned, Sees

LEMMA KilledKnown == ASSUME KnownInv, CableInv', Killed PROVE KnownInv'
<1>1. /\ bridge' = [NewCarried EXCEPT !.alive = FALSE, !.taken = bridge.taken]
      /\ hub' = IF bridge.client # None /\ bridge.client.up THEN HubHears(hub, Will) ELSE hub
      /\ Orphaned /\ up' = << >> /\ board' = CableWentQuiet(board)
  BY DEF Killed
<1>2. Blank(bridge') /\ bridge'.pending = << >>
  BY <1>1 DEF NewCarried, Blank
<1>3. Sees(bridge', hub', orphan')
  BY <1>1, WillSays, WillSeen
<1>4. Fewer(Line', Line)
  BY <1>1, <1>2, LineCleared
<1>5. ~board'.here
  BY <1>1, KnownTypes, QuietHere
<1> QED  BY <1>2, <1>3, <1>4, <1>5, BlankLighter, Onward DEF Blank

LEMMA StartedKnown == ASSUME KnownInv, CableInv', Started PROVE KnownInv'
<1>1. /\ bridge' = [NewCarried EXCEPT !.taken = bridge.taken] /\ ~bridge.alive
      /\ UNCHANGED <<board, plugged, up, down, broker, hub, orphan, mishaps>>
  BY DEF Started, Running
<1>2. Blank(bridge') /\ bridge'.pending = << >> /\ bridge'.alive
  BY <1>1 DEF NewCarried, Blank
<1>3. Sees(bridge', hub', orphan')
  BY <1>1 DEF KnownInv, NoClient, Sees
<1>4. up' = << >>
  BY <1>1 DEF KnownInv, CableInv, Silent
<1>5. Fewer(Line', Line)
  BY <1>2, <1>4, LineCleared
<1> QED  BY <1>1, <1>2, <1>3, <1>5, BlankLighter, Onward

LEMMA BrokerDropsKnown ==
  ASSUME KnownInv, CableInv', NEW still \in BOOLEAN, BrokerDrops(still)
  PROVE  KnownInv'
<1>1. /\ Orphaned /\ UNCHANGED <<board, plugged, up, down>>
      /\ IF bridge.client # None /\ bridge.client.up
         THEN bridge' = [bridge EXCEPT !.client.up = FALSE] /\ hub' = HubHears(hub, Will)
         ELSE UNCHANGED <<bridge, hub>>
  BY DEF BrokerDrops
<1>2. hub' = IF bridge.client # None /\ bridge.client.up THEN HubHears(hub, Will) ELSE hub
  BY <1>1
<1>3. Sees(bridge', hub', orphan')
  BY <1>1, <1>2, WillSays, WillSeen
<1>4. Lighter(bridge', bridge) /\ bridge'.alive = bridge.alive /\ bridge'.pending = bridge.pending
      /\ (bridge.client = None => bridge'.client = None)
  <2>1. CASE bridge.client # None /\ bridge.client.up
    <3> DEFINE cl == [bridge.client EXCEPT !.up = FALSE]
    <3>1. cl \in Client /\ cl.will = bridge.client.will /\ cl.queue = bridge.client.queue
      BY <2>1, KnownTypes DEF Carried, Client
    <3>2. bridge' = [bridge EXCEPT !.client = cl]
      BY <1>1, <2>1
    <3> HIDE DEF cl
    <3>3. bridge'.client = cl /\ bridge'.state = bridge.state /\ bridge'.payload = bridge.payload
          /\ bridge'.waiting = bridge.waiting /\ bridge'.alive = bridge.alive
          /\ bridge'.pending = bridge.pending
      BY <3>2, KnownTypes DEF Carried
    <3>4. Lighter(bridge', bridge)
      BY <2>1, <3>1, <3>3, KnownTypes, ClientLighter, NoneIsNothing
    <3> QED  BY <2>1, <3>3, <3>4
  <2>2. CASE ~(bridge.client # None /\ bridge.client.up)
    <3>1. bridge' = bridge
      BY <1>1, <2>2
    <3> QED  BY <3>1, SameLighter DEF SameMind
  <2> QED  BY <2>1, <2>2
<1>5. Fewer(Line', Line)
  BY <1>1, <1>4, LineAsWas
<1> QED  BY <1>1, <1>3, <1>4, <1>5, Onward DEF KnownInv, NoClient

(* Once it is connected the bridge says what it last was told, then what   *)
(* was kept: nothing but of the client's own connection, or the session is *)
(* lost sight of.                                                          *)
LEMMA ConnectedKnown == ASSUME KnownInv, CableInv', Connected PROVE KnownInv'
<1> DEFINE first == IF bridge.payload = None THEN << >> ELSE << bridge.payload >>
           b == [bridge EXCEPT !.client.up = TRUE, !.client.queue = << >>,
                   !.said = first \o bridge.client.queue]
           w == bridge.client.will
           E == {s \in State : s.online => s.conn = w}
<1>1. /\ bridge.alive /\ bridge.client # None /\ ~bridge.client.up /\ Becomes(b)
      /\ UNCHANGED <<board, plugged, up, down, broker, mishaps>>
  BY DEF Connected, Running
<1>2. Keeps(b, bridge)
  BY <1>1, KnownTypes, ConnectedTyped
<1>3. bridge.client \in Client /\ bridge.client.queue \in Seq(State) /\ w \in Conns
  BY <1>1, KnownTypes DEF Carried, Client
<1>4. /\ b.client.will = w /\ b.client.queue = << >> /\ b.client.up /\ b.client # None
      /\ b.state = bridge.state /\ b.payload = bridge.payload /\ b.waiting = bridge.waiting
      /\ b.said = first \o bridge.client.queue
  <2> DEFINE cl == [[bridge.client EXCEPT !.up = TRUE] EXCEPT !.queue = << >>]
  <2>1. cl \in Client /\ cl.will = w /\ cl.queue = << >> /\ cl.up
    BY <1>3, Empties DEF Client
  <2> DEFINE q == first \o bridge.client.queue
  <2>2. b = [bridge EXCEPT !.client = cl, !.said = q]
    BY KnownTypes DEF Carried
  <2> HIDE DEF cl, b, q
  <2>3. b.client = cl /\ b.state = bridge.state /\ b.payload = bridge.payload
        /\ b.waiting = bridge.waiting /\ b.said = q
    BY <2>2, KnownTypes DEF Carried
  <2> QED  BY <2>1, <2>3, NoneIsNothing DEF q
<1> HIDE DEF b
<1>5. Lighter(b, bridge)
  BY <1>1, <1>4, KnownTypes, ClientLighter
<1>6. orphan \/ hub = None
  BY <1>1 DEF KnownInv, Sees
<1>7. Kept(b, Told(hub, b), orphan)
  <2> SUFFICES ASSUME hub = None, bridge.state # None, bridge.state.conn = w
               PROVE  Told(hub, b) \in {None, w}
    BY <1>4, <1>6 DEF Kept, Names
  <2>1. PICK r, top : Minds(r, top, bridge, Line, board)
    BY DEF KnownInv
  <2>2. ~Strays(bridge)
    <3>1. Ranking(r) /\ Inside(bridge, r)
      BY <2>1 DEF Minds
    <3>2. r[w] \in Nat
      BY <1>3, <3>1 DEF Ranking
    <3> QED  BY <1>1, <3>1, <3>2 DEF Inside
  <2>3. bridge.payload # None => bridge.payload \in E
    <3>1. Inside(bridge, r)
      BY <2>1 DEF Minds
    <3>2. bridge.payload # None => bridge.payload \in State
      BY KnownTypes DEF Carried
    <3> QED  BY <1>1, <3>1, <3>2 DEF Inside
  <2>4. \A i \in 1..Len(bridge.client.queue) : bridge.client.queue[i] \in E
    BY <1>1, <1>3, <2>2 DEF Strays
  <2>5. first \in Seq(E)
    <3>1. << >> \in Seq(E)
      OBVIOUS
    <3>2. bridge.payload # None => << bridge.payload >> \in Seq(E)
      BY <2>3
    <3> QED  BY <3>1, <3>2
  <2>6. bridge.client.queue \in Seq(E)
    <3> DEFINE q == bridge.client.queue
    <3>1. q \in Seq(State) /\ \A i \in 1..Len(q) : q[i] \in E
      BY <1>3, <2>4
    <3> HIDE DEF q, E
    <3>2. q \in Seq(E)
      BY <3>1
    <3> QED  BY <3>2 DEF q
  <2>7. b.said \in Seq(E)
    <3> HIDE DEF first, E
    <3> QED  BY <1>4, <2>5, <2>6
  <2>8. \A h \in {None, w} : \A s \in E : HubHears(h, s) \in {None, w}
    BY DEF HubHears
  <2>9. E \in SUBSET State
    OBVIOUS
  <2> HIDE DEF E, w
  <2>10. FoldLeft(HubHears, hub, b.said) \in {None, w}
    BY <2>7, <2>8, <2>9, HearAll
  <2> QED  BY <2>10 DEF Told, w
<1>8. b \in Carried /\ b.alive /\ b.pending = bridge.pending
  BY <1>1, <1>2 DEF Keeps
<1>9. Becomes(b) /\ UNCHANGED <<board, up>>
  BY <1>1
<1> QED  BY <1>5, <1>7, <1>8, <1>9, BridgeTells

LEMMA ACommandArrivedKnown == ASSUME KnownInv, CableInv', ACommandArrived PROVE KnownInv'
<1>1. UNCHANGED <<board, plugged, up, down, broker, hub, orphan>>
      /\ \E c \in {"stop", "configure"} : bridge' = [bridge EXCEPT !.commands = Append(@, c)]
  BY DEF ACommandArrived
<1>2. SameMind(bridge', bridge) /\ bridge'.alive = bridge.alive
      /\ bridge'.pending = bridge.pending
  BY <1>1, KnownTypes DEF Carried, SameMind
<1>3. Fewer(Line', Line)
  BY <1>1, <1>2, LineAsWas
<1> QED  BY <1>1, <1>2, <1>3, BridgeSilent

------------------------------------------------------------------------------
(* Steps of the cable and the board: the bridge does not move.             *)
LEMMA AsideKnown ==
  ASSUME KnownInv, CableInv', PlugIn \/ BrokerBack \/ LoseHello \/ BoardResets \/ Unplug
  PROVE  KnownInv'
<1>1. /\ UNCHANGED <<bridge, hub, orphan>>
      /\ up' = up \/ up' = << >>
      /\ \/ board' = board
         \/ board' = CableWentQuiet(board)
         \/ board' = [CableWentQuiet(board) EXCEPT !.counter = 0]
  BY DEF PlugIn, BrokerBack, LoseHello, BoardResets, Unplug
<1>2. Fewer(Line', Line)
  BY <1>1, LineAsWas, LineCleared
<1>3. board'.here => board.here /\ board'.conn = board.conn
  <2>1. CableWentQuiet(board) \in Boards /\ ~CableWentQuiet(board).here
    BY KnownTypes, QuietBoard
  <2>2. ~[CableWentQuiet(board) EXCEPT !.counter = 0].here
    BY <2>1 DEF Boards
  <2> QED  BY <1>1, <2>1, <2>2
<1> QED  BY <1>1, <1>2, <1>3, BridgeSilent DEF SameMind

LEMMA LoseByteKnown ==
  ASSUME KnownInv, CableInv', NEW k \in 1..Len(up), LoseByte(k)
  PROVE  KnownInv'
<1> DEFINE p == bridge.pending
           x == up[k]
           y == [x EXCEPT !.part = "bent"]
           a == p \o SubSeq(up, 1, k - 1)
           c == SubSeq(up, k + 1, Len(up))
<1>1. /\ UNCHANGED <<board, plugged, down, bridge, broker, hub, orphan>>
      /\ \/ up' = RemoveAt(up, k)
         \/ x.part = "head" /\ up' = [up EXCEPT ![k] = y]
  BY DEF LoseByte
<1>2. /\ x \in Part /\ a \in Seq(Part) /\ c \in Seq(Part) /\ Line = a \o (<<x>> \o c)
      /\ p \o RemoveAt(up, k) = a \o c
      /\ \A z \in Part : p \o [up EXCEPT ![k] = z] = a \o (<<z>> \o c)
  <2>1. Loses(p, up, k)
    BY KnownTypes, PartLost
  <2> QED  BY <2>1 DEF Loses, Line
<1>3. Line' = p \o up'
  BY <1>1 DEF Line
<1>4. x.part = "head" => y \in Part /\ y.part = "bent" /\ y.of = x.of
  BY <1>2 DEF Part
<1> HIDE DEF p, x, y, a, c
<1>5. Fewer(Line', Line)
  <2>1. CASE up' = RemoveAt(up, k)
    <3>1. Line' = a \o c
      BY <1>2, <1>3, <2>1
    <3>2. \E g : Thinned(a \o c, a \o (<<x>> \o c), g, 1)
      BY <1>2, LostThinned
    <3> QED  BY <1>2, <3>1, <3>2, ThinnedFewer
  <2>2. CASE x.part = "head" /\ up' = [up EXCEPT ![k] = y]
    <3>1. Line' = a \o (<<y>> \o c)
      BY <1>2, <1>3, <1>4, <2>2
    <3>2. \E g : Thinned(a \o (<<y>> \o c), a \o (<<x>> \o c), g, 0)
      BY <1>2, <1>4, <2>2, BentThinned
    <3> QED  BY <1>2, <3>1, <3>2, ThinnedFewer
  <2> QED  BY <1>1, <2>1, <2>2
<1> QED  BY <1>1, <1>5, BridgeSilent DEF SameMind

(* The board takes a connection nothing names: it is ranked above all.     *)
LEMMA NewConversation ==
  ASSUME NEW r, NEW top, NEW b \in Carried, NEW p \in Seq(Part), NEW bd, NEW e \in Boards,
         NEW c \in Conns, Minds(r, top, b, p, bd), e.conn = c,
         ~Names(b.state, c), ~Names(b.waiting, c), b.client # None => b.client.will # c,
         \A k \in 1..Len(p) : p[k].of.said.conn # c
  PROVE  \E s, t : Minds(s, t, b, p, e)
<1> DEFINE s == [r EXCEPT ![c] = top + 1]
           t == top + 1
<1>1. Ranking(r) /\ r \in [Conns -> Nat] /\ top \in Nat /\ \A d \in Conns : r[d] <= top
  BY DEF Minds, Ranking
<1>2. /\ s \in [Conns -> Nat] /\ s[c] = top + 1 /\ \A d \in Conns \ {c} : s[d] = r[d]
  BY <1>1
<1> HIDE DEF s
<1>3. Ranking(s) /\ \A d \in Conns : s[d] <= t
  <2>1. ASSUME NEW d \in Conns, NEW f \in Conns, s[d] = s[f] PROVE d = f
    <3>1. CASE d # c /\ f # c
      BY <1>1, <1>2, <2>1, <3>1 DEF Ranking
    <3>2. CASE d = c \/ f = c
      <4>1. \A g \in Conns \ {c} : s[g] <= top /\ s[g] \in Nat
        BY <1>1, <1>2
      <4> QED  BY <1>1, <1>2, <2>1, <3>2, <4>1
    <3> QED  BY <3>1, <3>2
  <2>2. \A d \in Conns : s[d] <= t
    BY <1>1, <1>2
  <2> QED  BY <1>2, <2>1, <2>2 DEF Ranking
<1>4. \A x \in Said : x.conn # c => Key(s, x) = Key(r, x) /\ Key(r, x) <= 2 * top + 1
  <2> SUFFICES ASSUME NEW x \in Said, x.conn # c
               PROVE  Key(s, x) = Key(r, x) /\ Key(r, x) <= 2 * top + 1
    OBVIOUS
  <2>1. x.conn \in Conns
    BY <1>1, KeyIs
  <2>2. s[x.conn] = r[x.conn] /\ r[x.conn] <= top /\ r[x.conn] \in Nat
    BY <1>1, <1>2, <2>1
  <2> QED  BY <1>1, <2>2 DEF Key
<1>5. ASSUME NEW k \in 1..Len(p)
      PROVE  p[k].of.said \in Said /\ p[k].of.said.conn # c
  <2>1. p[k] \in Part
    OBVIOUS
  <2>2. p[k].of \in Message
    BY <2>1 DEF Part
  <2> QED  BY <2>2, StatesSaid
<1>6. Rising(s, p) /\ \A k \in 1..Len(p) : Key(s, p[k].of.said) <= 2 * s[c]
  <2>1. Rising(s, p)
    BY <1>4, <1>5 DEF Minds, Rising
  <2>2. ASSUME NEW k \in 1..Len(p) PROVE Key(s, p[k].of.said) <= 2 * s[c]
    <3>1. Key(s, p[k].of.said) <= 2 * top + 1 /\ Key(s, p[k].of.said) \in Nat
      BY <1>3, <1>4, <1>5, KeyIs
    <3> QED  BY <1>1, <1>2, <3>1
  <2> QED  BY <2>1, <2>2
<1>7. /\ b.state # None => /\ b.state \in Said /\ b.state.conn # c /\ b.state.conn \in Conns
                           /\ s[b.state.conn] = r[b.state.conn]
      /\ b.waiting # None => b.waiting \in Said /\ b.waiting.conn # c
      /\ b.client # None => /\ b.client.will \in Conns /\ b.client.will # c
                            /\ s[b.client.will] = r[b.client.will]
  <2>1. b.state # None => b.state \in Said /\ b.state.conn # c
    BY <1>1, MindTyped DEF Names
  <2>2. b.state # None => b.state.conn \in Conns
    BY <1>1, <2>1, KeyIs
  <2> QED  BY <1>1, <1>2, <2>1, <2>2, MindTyped DEF Names
<1>8. Inside(b, s)
  <2>1. Inside(b, r)
    BY DEF Minds
  <2> QED  BY <1>4, <1>7, <2>1 DEF Inside, Strays
<1>9. ASSUME NEW x \in Future(p, e) PROVE Behind(b, s, x)
  <2>1. CASE \E k \in 1..Len(p) : x = p[k].of.said
    <3>1. x \in Said /\ x.conn # c
      BY <1>5, <2>1
    <3>2. Behind(b, r, x)
      BY <2>1 DEF Minds, Future
    <3>3. s[x.conn] = r[x.conn] /\ Key(s, x) = Key(r, x)
      <4>1. x.conn \in Conns
        BY <1>1, <3>1, KeyIs
      <4> QED  BY <1>2, <1>4, <3>1, <4>1
    <3> QED  BY <1>4, <1>7, <3>2, <3>3 DEF Behind, Strays
  <2>2. CASE x = Mark(e)
    <3>1. x.conn = c /\ Key(s, x) = 2 * (top + 1)
      BY <1>2, <2>2 DEF Mark, Key
    <3>2. /\ b.state # None => Key(s, b.state) <= 2 * top + 1 /\ Key(s, b.state) \in Nat
          /\ b.waiting # None => Key(s, b.waiting) <= 2 * top + 1 /\ Key(s, b.waiting) \in Nat
          /\ b.client # None => s[b.client.will] <= top /\ s[b.client.will] \in Nat
      <4>1. b.client # None => s[b.client.will] <= top /\ s[b.client.will] \in Nat
        BY <1>1, <1>7
      <4> QED  BY <1>3, <1>4, <1>7, <4>1, KeyIs
    <3>3. b.state # None => Key(s, b.state) <= Key(s, x)
      BY <1>1, <3>1, <3>2
    <3>4. b.waiting # None => Key(s, b.waiting) <= Key(s, x)
      BY <1>1, <3>1, <3>2
    <3>5. b.client # None => 2 * s[b.client.will] <= Key(s, x) /\ s[b.client.will] < s[x.conn]
      BY <1>1, <1>2, <3>1, <3>2
    <3> QED  BY <3>3, <3>4, <3>5 DEF Behind, Strays
  <2> QED  BY <2>1, <2>2 DEF Future
<1>10. Minds(s, t, b, p, e)
  BY <1>1, <1>3, <1>6, <1>8, <1>9 DEF Minds
<1> QED  BY <1>10

LEMMA BoardHearsKnown == ASSUME KnownInv, CableInv', BoardHears PROVE KnownInv'
<1>1. UNCHANGED <<plugged, up, bridge, broker, hub, orphan, mishaps>>
  BY DEF BoardHears
<1>2. CASE Head(down) = "hello"
  <2> DEFINE c == CHOOSE d \in Conns : Fresh(d)
  <2>1. c \in Conns /\ Fresh(c)
    BY <1>2 DEF BoardHears
  <2>2. board' = [CableWentQuiet(board) EXCEPT !.here = TRUE, !.conn = c]
    BY <1>2 DEF BoardHears
  <2> HIDE DEF c
  <2>3. board' \in Boards /\ board'.conn = c
    <3>1. CableWentQuiet(board) \in Boards
      BY KnownTypes, QuietBoard
    <3> DEFINE q == CableWentQuiet(board)
    <3> HIDE DEF q
    <3>2. q \in Boards /\ board' = [q EXCEPT !.here = TRUE, !.conn = c]
      BY <2>2, <3>1 DEF q
    <3> QED  BY <2>1, <3>2 DEF Boards
  <2>4. PICK r, top : Minds(r, top, bridge, Line, board)
    BY DEF KnownInv
  <2>5. /\ ~Names(bridge.state, c) /\ ~Names(bridge.waiting, c)
        /\ bridge.client # None => bridge.client.will # c
    BY <2>1 DEF Fresh
  <2>6. \A k \in 1..Len(Line) : Line[k].of.said.conn # c
    BY <2>1, KnownTypes, FreshLine
  <2>7. \E s, t : Minds(s, t, bridge, Line, board')
    <3> DEFINE l == Line
               e == board'
    <3>1. bridge \in Carried /\ l \in Seq(Part) /\ Minds(r, top, bridge, l, board)
          /\ e \in Boards /\ e.conn = c /\ \A k \in 1..Len(l) : l[k].of.said.conn # c
      BY <2>3, <2>4, <2>6, KnownTypes
    <3> HIDE DEF l, e
    <3>2. \E s, t : Minds(s, t, bridge, l, e)
      BY <2>1, <2>5, <3>1, NewConversation
    <3> QED  BY <3>2 DEF l, e
  <2>8. bridge' = bridge /\ Line' = Line
    BY <1>1 DEF Line
  <2>9. \E s, t : Minds(s, t, bridge, Line, board)'
    <3>1. PICK s, t : Minds(s, t, bridge, Line, board')
      BY <2>7
    <3>2. Minds(s, t, bridge, Line, board)' <=> Minds(s, t, bridge', Line', board')
      BY DEF Minds, Rising, Inside, Behind, Future, Mark, Strays
    <3> QED  BY <2>8, <3>1, <3>2
  <2>10. NoClient' /\ Sees(bridge, hub, orphan)'
    BY <1>1 DEF KnownInv, NoClient, Sees
  <2> QED  BY <2>9, <2>10 DEF KnownInv
<1>3. CASE Head(down) # "hello"
  <2>1. board' = [board EXCEPT !.stopping = @ \/ (board.here /\ Head(down) = "stop"),
                               !.owes = @ \/ (board.here /\ Head(down) = "configure")]
    BY <1>3 DEF BoardHears
  <2>2. board'.here = board.here /\ board'.conn = board.conn
    BY <2>1, KnownTypes DEF Boards
  <2>3. Fewer(Line', Line)
    BY <1>1, LineAsWas
  <2> QED  BY <1>1, <2>2, <2>3, BridgeSilent DEF SameMind
<1> QED  BY <1>2, <1>3

(* What the board says of its connection comes after all it has said.      *)
LEMMA SaidLast ==
  ASSUME NEW r, NEW top, NEW b \in Carried, NEW p \in Seq(Part), NEW bd \in Boards, NEW e,
         Minds(r, top, b, p, bd), bd.here,
         NEW m \in Message, m.said.conn = bd.conn, e.conn = bd.conn, e.here => m.said.online
  PROVE  Minds(r, top, b, p \o Pack(m), e)
<1> DEFINE q == p \o Pack(m)
           n == Len(p)
<1>1. /\ q \in Seq(Part) /\ Len(q) = n + 2 /\ n \in Nat
      /\ \A i \in 1..n : q[i] = p[i]
      /\ q[n + 1] = [part |-> "head", of |-> m] /\ q[n + 2] = [part |-> "rest", of |-> m]
  BY Packed
<1>2. \A i \in 1..Len(q) : (i \in 1..n /\ q[i] = p[i]) \/ (i > n /\ q[i].of = m)
  <2> SUFFICES ASSUME NEW i \in 1..Len(q), i \notin 1..n PROVE i > n /\ q[i].of = m
    BY <1>1
  <2>1. i = n + 1 \/ i = n + 2
    BY <1>1
  <2> QED  BY <1>1, <2>1
<1> HIDE DEF q
<1>3. /\ m.said \in Said /\ Mark(bd) \in Said /\ Ranking(r)
      /\ bd.conn \in Conns /\ r[bd.conn] \in Nat
      /\ Key(r, Mark(bd)) = 2 * r[bd.conn] /\ Key(r, m.said) \in Nat
      /\ 2 * r[bd.conn] <= Key(r, m.said)
      /\ m.said.online => Key(r, m.said) = 2 * r[bd.conn]
  <2>1. Ranking(r) /\ bd.conn \in Conns /\ m.said \in Said
    BY StatesSaid DEF Minds, Boards
  <2>2. Mark(bd) \in Said /\ Mark(bd).conn = bd.conn /\ Mark(bd).online
    BY <2>1 DEF Mark, Said, State
  <2>3. /\ r[bd.conn] \in Nat /\ Key(r, m.said) \in Nat
        /\ (Key(r, m.said) = 2 * r[bd.conn] \/ Key(r, m.said) = 2 * r[bd.conn] + 1)
        /\ (m.said.online => Key(r, m.said) = 2 * r[bd.conn])
    BY <2>1, KeyIs
  <2>4. Key(r, Mark(bd)) = 2 * r[bd.conn]
    BY <2>1, <2>2, KeyIs
  <2> QED  BY <2>1, <2>2, <2>3, <2>4
<1>4. \A i \in 1..n : p[i].of.said \in Said
  <2> SUFFICES ASSUME NEW i \in 1..n PROVE p[i].of.said \in Said
    OBVIOUS
  <2>1. p[i] \in Part
    OBVIOUS
  <2>2. p[i].of \in Message
    BY <2>1 DEF Part
  <2> QED  BY <2>2, StatesSaid
<1>5. \A i \in 1..n : Key(r, p[i].of.said) <= 2 * r[bd.conn] /\ Key(r, p[i].of.said) \in Nat
  BY <1>3, <1>4, KeyIs DEF Minds
<1>6. Rising(r, q)
  <2> SUFFICES ASSUME NEW i \in 1..Len(q), NEW j \in 1..Len(q), i < j
               PROVE  Key(r, q[i].of.said) <= Key(r, q[j].of.said)
    BY DEF Rising
  <2>1. CASE i \in 1..n /\ j \in 1..n /\ q[i] = p[i] /\ q[j] = p[j]
    BY <2>1 DEF Minds, Rising
  <2>2. CASE i \in 1..n /\ q[i] = p[i] /\ q[j].of = m
    <3>1. Key(r, p[i].of.said) <= 2 * r[bd.conn] /\ Key(r, p[i].of.said) \in Nat
      BY <1>5, <2>2
    <3>2. Key(r, p[i].of.said) <= Key(r, m.said)
      BY <1>3, <3>1
    <3> QED  BY <2>2, <3>2
  <2>3. CASE q[i].of = m /\ q[j].of = m
    BY <1>3, <2>3
  <2>4. ~(i > n /\ j \in 1..n)
    BY <1>1
  <2> QED  BY <1>2, <2>1, <2>2, <2>3, <2>4
<1>7. e.here => \A i \in 1..Len(q) : Key(r, q[i].of.said) <= 2 * r[e.conn]
  <2> SUFFICES ASSUME e.here, NEW i \in 1..Len(q) PROVE Key(r, q[i].of.said) <= 2 * r[bd.conn]
    OBVIOUS
  <2>1. CASE q[i].of = m
    BY <1>3, <2>1
  <2> QED  BY <1>2, <1>5, <2>1
<1>8. Behind(b, r, Mark(bd))
  BY DEF Minds, Future
<1>9. Behind(b, r, m.said)
  BY <1>3, <1>8, BehindStill
<1>10. \A x \in Future(q, e) : Behind(b, r, x)
  <2> SUFFICES ASSUME NEW x \in Future(q, e) PROVE Behind(b, r, x)
    OBVIOUS
  <2>1. CASE \E i \in 1..Len(q) : x = q[i].of.said
    <3>1. PICK i \in 1..Len(q) : x = q[i].of.said
      BY <2>1
    <3>2. CASE i \in 1..n /\ q[i] = p[i]
      BY <3>1, <3>2 DEF Minds, Future
    <3> QED  BY <1>2, <1>9, <3>1, <3>2
  <2>2. CASE x = Mark(e)
    <3>1. Mark(e) = Mark(bd)
      BY DEF Mark
    <3> QED  BY <1>8, <2>2, <3>1
  <2> QED  BY <2>1, <2>2 DEF Future
<1> QED  BY <1>6, <1>7, <1>10 DEF Minds, q

LEMMA BoardSpeaksKnown == ASSUME KnownInv, CableInv', BoardSpeaks PROVE KnownInv'
<1> DEFINE said == [board EXCEPT !.announced = TRUE, !.owes = board.owes /\ ~board.announced,
                                 !.counter = (@ + 1) % CounterMod]
           m(kind, online) == [said |-> [kind |-> kind, conn |-> board.conn, online |-> online],
                               counter |-> board.counter]
<1>1. /\ board.here /\ UNCHANGED <<plugged, down, bridge, broker, hub, orphan, mishaps>>
      /\ \/ Write("state", TRUE) /\ board' = said
         \/ Write("state", FALSE) /\ board' = CableWentQuiet(said)
         \/ Write("health", TRUE) /\ board' = said
  BY DEF BoardSpeaks
<1>2. PICK kind, online :
        /\ kind \in {"state", "health"} /\ online \in BOOLEAN /\ (kind = "health" => online)
        /\ up' = up \o Pack(m(kind, online))
        /\ board'.conn = board.conn /\ (board'.here => online)
  <2>1. said.conn = board.conn
    BY KnownTypes DEF Boards
  <2>2. CableWentQuiet(said).conn = said.conn /\ ~CableWentQuiet(said).here
    <3>1. said \in [{"here", "conn", "announced", "owes", "stopping", "counter"} ->
                    UNION {BOOLEAN, Conns, {board.owes /\ ~board.announced},
                           {(board.counter + 1) % CounterMod}, 0..(CounterMod - 1)}]
      BY KnownTypes DEF Boards
    <3> QED  BY <3>1 DEF CableWentQuiet
  <2> HIDE DEF said
  <2>3. CASE Write("state", TRUE) /\ board' = said
    BY <2>1, <2>3 DEF Write
  <2>4. CASE Write("state", FALSE) /\ board' = CableWentQuiet(said)
    <3>1. up' = up \o Pack(m("state", FALSE)) /\ board'.conn = board.conn /\ ~board'.here
      BY <2>1, <2>2, <2>4 DEF Write
    <3>2. "state" \in {"state", "health"} /\ FALSE \in BOOLEAN /\ ("state" = "health" => FALSE)
      OBVIOUS
    <3> HIDE DEF m
    <3> QED  BY <3>1, <3>2, Zenon
  <2>5. CASE Write("health", TRUE) /\ board' = said
    BY <2>1, <2>5 DEF Write
  <2> QED  BY <1>1, <2>3, <2>4, <2>5
<1> DEFINE l == m(kind, online)
<1>3. l \in Message /\ l.said.conn = board.conn /\ l.said.online = online
  <2>1. board.conn \in Conns /\ board.counter \in 0..(CounterMod - 1)
    BY KnownTypes DEF Boards
  <2>2. [kind |-> kind, conn |-> board.conn, online |-> online] \in Said
    BY <1>2, <2>1 DEF Said, State
  <2> QED  BY <2>1, <2>2 DEF Message
<1>4. up' = up \o Pack(l)
  BY <1>2
<1> HIDE DEF l, m, said
<1>5. Line' = Line \o Pack(l)
  <2>1. Pack(l) \in Seq(Part)
    BY <1>3, KnownTypes, Written
  <2>2. (bridge.pending \o up) \o Pack(l) = bridge.pending \o (up \o Pack(l))
    BY <2>1, KnownTypes, Regroup, Zenon
  <2> QED  BY <1>1, <1>4, <2>2 DEF Line
<1>6. PICK r, top : Minds(r, top, bridge, Line, board)
  BY DEF KnownInv
<1>7. Minds(r, top, bridge, Line \o Pack(l), board')
  BY <1>1, <1>2, <1>3, <1>6, KnownTypes, SaidLast
<1>8. Minds(r, top, bridge, Line, board)'
  <2>1. Minds(r, top, bridge, Line, board)' <=> Minds(r, top, bridge', Line', board')
    BY DEF Minds, Rising, Inside, Behind, Future, Mark, Strays
  <2>2. bridge' = bridge
    BY <1>1
  <2> QED  BY <1>5, <1>7, <2>1, <2>2
<1>9. NoClient' /\ Sees(bridge, hub, orphan)'
  BY <1>1 DEF KnownInv, NoClient, Sees
<1> QED  BY <1>8, <1>9 DEF KnownInv

------------------------------------------------------------------------------
(* The part that has come in, with what the Reader hands over for it.      *)
LEMMA ReadWhatArrivedKnown == ASSUME KnownInv, CableInv', ReadWhatArrived PROVE KnownInv'
<1> DEFINE q == Append(bridge.pending, Head(up))
           fed == Feed[q]
           t == Tail(up)
           b == [bridge EXCEPT !.pending = fed.pending,
                               !.taken = IF fed.frames = << >> THEN @ ELSE fed.frames]
           c == FoldLeft(Take, b, fed.frames)
           n == fed.pending \o t
           Rest == Future(n, board)
<1>1. /\ bridge.alive /\ q \in Seq(Part) /\ fed \in Fed /\ Line = q \o t /\ up' = t
      /\ t \in Seq(Part) /\ board' = board /\ bridge'.alive /\ bridge'.pending = fed.pending
  BY ReadingKeeps DEF KnownInv
<1>2. Becomes(c)
  BY DEF ReadWhatArrived, Read
<1> HIDE DEF q, t
<1>3. fed.frames \in Seq(Message) /\ fed.pending \in Seq(Part)
  BY <1>1 DEF Fed
<1>4. b \in Carried /\ SameMind(b, bridge) /\ b.said = << >>
  <2>1. bridge.taken \in Seq(Message)
    BY KnownTypes DEF Carried
  <2> HIDE DEF fed
  <2> QED  BY <1>3, <2>1, KnownTypes DEF Carried, SameMind
<1>5. PICK r, top : Minds(r, top, bridge, Line, board)
  BY DEF KnownInv
<1>6. Ranking(r) /\ Inside(b, r) /\ Rising(r, Line)
      /\ \A x \in Future(Line, board) : Behind(b, r, x)
  BY <1>4, <1>5 DEF Minds, SameMind, Inside, Behind, Strays
<1>7. Held(b, Told(hub, b), orphan)
  <2>1. Told(hub, b) = hub
    BY <1>4, KnownTypes, SaidNothing
  <2> QED  BY <1>4, <2>1 DEF KnownInv, Sees, Held, SameMind
<1>8. PICK u \in Seq(Part) : q = u \o fed.pending
  BY <1>1, Feeds DEF FeedsWell
<1> HIDE DEF b, fed
<1>9. n \in Seq(Part) /\ Line = u \o n
  <2>1. (u \o fed.pending) \o t = u \o (fed.pending \o t)
    BY <1>1, <1>3, <1>8, Regroup, Zenon
  <2>2. n \in Seq(Part)
    BY <1>1, <1>3, PartsJoin
  <2> QED  BY <1>1, <1>8, <2>1, <2>2
<1>10. /\ \A k \in 1..Len(q) : k \in 1..Len(Line) /\ Line[k] = q[k]
       /\ \A k \in 1..Len(t) : Len(q) + k \in 1..Len(Line) /\ Line[Len(q) + k] = t[k]
       /\ Len(q) \in Nat
  BY <1>1, Indices
<1>11. Rising(r, q)
  BY <1>6, <1>10 DEF Rising
<1>12. InOrder(r, q, fed.frames) /\ Before(r, fed.frames, fed.pending)
  BY <1>1, <1>6, <1>11, FramesRise DEF FedInOrder, fed
<1>13. \A i \in 1..Len(fed.frames) : \E k \in 1..Len(q) : fed.frames[i].said = Line[k].of.said
  BY <1>10, <1>12 DEF InOrder
<1>14. \A i \in 1..Len(fed.frames) : Behind(b, r, fed.frames[i].said)
  BY <1>6, <1>10, <1>13 DEF Future
<1>15. \A k \in 1..Len(n) : \/ \E j \in 1..Len(fed.pending) : n[k] = fed.pending[j]
                            \/ \E j \in 1..Len(t) : n[k] = t[j]
  <2> SUFFICES ASSUME NEW k \in 1..Len(n)
               PROVE  \/ \E j \in 1..Len(fed.pending) : n[k] = fed.pending[j]
                      \/ \E j \in 1..Len(t) : n[k] = t[j]
    OBVIOUS
  <2> DEFINE z == fed.pending
  <2>1. /\ Len(n) = Len(z) + Len(t) /\ Len(z) \in Nat /\ Len(t) \in Nat
        /\ \A i \in 1..Len(z) : n[i] = z[i]
        /\ \A i \in 1..Len(t) : n[Len(z) + i] = t[i]
    BY <1>1, <1>3, Indices
  <2> HIDE DEF n, z
  <2>2. CASE k <= Len(z)
    <3>1. k \in 1..Len(z)
      BY <2>1, <2>2
    <3> QED  BY <2>1, <3>1 DEF z
  <2>3. CASE k > Len(z)
    <3>1. k - Len(z) \in 1..Len(t) /\ Len(z) + (k - Len(z)) = k
      BY <2>1, <2>3
    <3>2. n[k] = t[k - Len(z)]
      BY <2>1, <3>1
    <3> QED  BY <3>1, <3>2
  <2> QED  BY <2>1, <2>2, <2>3
<1>16. ASSUME NEW i \in 1..Len(fed.frames), NEW k \in 1..Len(n)
       PROVE  Key(r, fed.frames[i].said) <= Key(r, n[k].of.said)
  <2>1. CASE \E j \in 1..Len(fed.pending) : n[k] = fed.pending[j]
    BY <1>12, <2>1 DEF Before
  <2>2. CASE \E j \in 1..Len(t) : n[k] = t[j]
    <3>1. PICK j \in 1..Len(t) : n[k] = t[j]
      BY <2>2
    <3>2. PICK a \in 1..Len(q) : fed.frames[i].said = Line[a].of.said
      BY <1>13
    <3>3. a \in 1..Len(Line) /\ Len(q) + j \in 1..Len(Line) /\ Line[Len(q) + j] = t[j]
          /\ a < Len(q) + j
      BY <1>10
    <3> HIDE DEF n
    <3> QED  BY <1>6, <3>1, <3>2, <3>3 DEF Rising
  <2> QED  BY <1>15, <2>1, <2>2
<1>17. Fewer(n, Line)
  <2>1. \E g : Thinned(n, u \o n, g, 0)
    BY <1>9, KeptThinned
  <2> QED  BY <1>9, <2>1, ThinnedFewer
<1>18. Future(Line, board) \subseteq Said
  <2>1. \A i \in 1..Len(Line) : Line[i].of.said \in Said
    <3> SUFFICES ASSUME NEW i \in 1..Len(Line) PROVE Line[i].of.said \in Said
      OBVIOUS
    <3>1. Line[i] \in Part
      BY KnownTypes
    <3>2. Line[i].of \in Message
      BY <3>1 DEF Part
    <3> QED  BY <3>2, StatesSaid
  <2>2. Mark(board) \in Said
    BY KnownTypes DEF Mark, Boards, Said, State
  <2> QED  BY <2>1, <2>2 DEF Future
<1> HIDE DEF n
<1>19. Rest \subseteq Future(Line, board)
  BY <1>17 DEF Fewer, Future
<1>20. \A x \in Rest : Behind(b, r, x) /\ \A i \in 1..Len(fed.frames) : Key(r, fed.frames[i].said) <= Key(r, x)
  <2> SUFFICES ASSUME NEW x \in Rest, NEW i \in 1..Len(fed.frames)
               PROVE  Key(r, fed.frames[i].said) <= Key(r, x)
    BY <1>6, <1>19
  <2>1. CASE \E k \in 1..Len(n) : x = n[k].of.said
    BY <1>16, <2>1
  <2>2. CASE board.here /\ x = Mark(board)
    <3>1. PICK a \in 1..Len(q) : fed.frames[i].said = Line[a].of.said
      BY <1>13
    <3>2. Key(r, Line[a].of.said) <= 2 * r[board.conn]
      BY <1>5, <1>10, <2>2 DEF Minds
    <3>3. Key(r, Mark(board)) = 2 * r[board.conn]
      <4>1. Mark(board) \in Said /\ Mark(board).conn = board.conn /\ Mark(board).online
        BY KnownTypes DEF Mark, Boards, Said, State
      <4> QED  BY <1>6, <4>1, KeyIs
    <3>4. r[board.conn] \in Nat
      BY <1>6, KnownTypes DEF Ranking, Boards
    <3> QED  BY <2>2, <3>1, <3>2, <3>3, <3>4
  <2> QED  BY <2>1, <2>2 DEF Future
<1>21. Inside(c, r) /\ Held(c, Told(hub, c), orphan) /\ \A x \in Rest : Behind(c, r, x)
  <2>1. \A i, j \in 1..Len(fed.frames) : i < j => Key(r, fed.frames[i].said) <= Key(r, fed.frames[j].said)
    BY <1>12 DEF InOrder
  <2>2. Rest \in SUBSET Said
    BY <1>18, <1>19
  <2> HIDE DEF Rest
  <2> QED  BY <1>3, <1>4, <1>6, <1>7, <1>14, <1>20, <2>1, <2>2, KnownTypes, AllArrived
<1>22. c \in Carried
  BY <1>3, <1>4, TakenKeeps DEF Keeps
<1> HIDE DEF c
<1>23. Sees(bridge', hub', orphan') /\ SameMind(bridge', c)
  <2>1. Kept(c, Told(hub, c), orphan)
    BY <1>21 DEF Held, Kept, Names
  <2> QED  BY <1>2, <1>22, <2>1, KnownTypes, BecomesSeen
<1>24. Minds(r, top, c, n, board)
  <2>1. Rising(r, n) /\ (board.here => \A i \in 1..Len(n) : Key(r, n[i].of.said) <= 2 * r[board.conn])
    <3>1. Lighter(bridge, bridge)
      BY DEF Lighter
    <3>2. Minds(r, top, bridge, n, board)
      BY <1>5, <1>9, <1>17, <3>1, KnownTypes, FewerMinds
    <3> QED  BY <3>2 DEF Minds
  <2> QED  BY <1>5, <1>21, <2>1 DEF Minds
<1>25. Minds(r, top, bridge, Line, board)'
  <2>1. Minds(r, top, bridge, Line, board)' <=> Minds(r, top, bridge', Line', board')
    BY DEF Minds, Rising, Inside, Behind, Future, Mark, Strays
  <2>2. Line' = n
    BY <1>1 DEF Line, n
  <2>3. Minds(r, top, bridge', n, board)
    BY <1>23, <1>24 DEF SameMind, Minds, Inside, Behind, Strays
  <2> QED  BY <1>1, <2>1, <2>2, <2>3
<1>26. NoClient' /\ Sees(bridge, hub, orphan)'
  BY <1>1, <1>23 DEF NoClient, Sees
<1> QED  BY <1>25, <1>26 DEF KnownInv

LEMMA KnownNext == ASSUME KnownInv, [Next]_vars PROVE KnownInv'
<1>0. CableInv'
  BY CableNext DEF KnownInv
<1>1. CASE Loop
  <2>1. CASE \E quiet \in BOOLEAN : KeepItGoing(quiet)
    BY <1>0, <2>1, KeepItGoingKnown
  <2> QED  BY <1>0, <1>1, <2>1, OpenThePortKnown, ReadWhatArrivedKnown, PortGoneKnown,
              HandOverCommandsKnown DEF Loop
<1>2. CASE Board
  BY <1>0, <1>2, BoardHearsKnown, BoardSpeaksKnown DEF Board
<1>3. CASE Faults
  <2>1. CASE \E still \in BOOLEAN : BrokerDrops(still)
    BY <1>0, <2>1, BrokerDropsKnown
  <2>2. CASE \E k \in 1..Len(up) : LoseByte(k)
    BY <1>0, <2>2, LoseByteKnown
  <2> QED  BY <1>0, <1>3, <2>1, <2>2, StopKnown, KilledKnown, ACommandArrivedKnown,
              AsideKnown DEF Faults
<1>4. CASE Connected \/ BrokerBack \/ Started \/ PlugIn
  BY <1>0, <1>4, ConnectedKnown, StartedKnown, AsideKnown
<1>5. CASE UNCHANGED vars
  <2>1. UNCHANGED <<board, plugged, up, down, bridge, broker, hub, orphan, mishaps>>
    BY <1>5 DEF vars
  <2>2. Fewer(Line', Line)
    BY <2>1, LineAsWas
  <2> QED  BY <1>0, <2>1, <2>2, BridgeSilent DEF SameMind
<1> QED  BY <1>1, <1>2, <1>3, <1>4, <1>5 DEF Next

LEMMA KnownBegins == Init => KnownInv
<1> SUFFICES ASSUME Init PROVE KnownInv
  OBVIOUS
<1>1. CableInv
  BY CableBegins
<1>2. bridge = NewCarried /\ up = << >> /\ ~board.here /\ hub = None /\ orphan = FALSE
  BY DEF Init
<1>3. Blank(bridge) /\ bridge.alive /\ bridge.pending = << >>
  BY <1>2 DEF Blank, NewCarried
<1>4. Line = << >>
  BY <1>2, <1>3, Empties, PartsJoin DEF Line
<1> DEFINE r == [c \in Conns |-> c]
<1>5. Ranking(r) /\ MaxConn \in Nat /\ \A c \in Conns : r[c] <= MaxConn
  BY BridgeConstants DEF Ranking, Conns
<1>6. Inside(bridge, r) /\ Rising(r, Line) /\ Future(Line, board) = {}
  BY <1>2, <1>3, <1>4, Empties DEF Inside, Blank, Rising, Future, Strays
<1> HIDE DEF r
<1>7. Minds(r, MaxConn, bridge, Line, board)
  BY <1>2, <1>5, <1>6 DEF Minds
<1>8. NoClient /\ Sees(bridge, hub, orphan)
  BY <1>2, <1>3 DEF NoClient, Sees
<1> QED  BY <1>1, <1>7, <1>8 DEF KnownInv

(* Whichever way a bridge ends it leaves no session behind on the hub,     *)
(* except one it had lost sight of; however many connections, mishaps and  *)
(* parts on the cable there are, and whatever the counter's width.         *)
THEOREM NothingLeftBehind == Spec => []UnpluggedIsOffline
<1>1. Init => KnownInv
  BY KnownBegins
<1>2. KnownInv /\ [Next]_vars => KnownInv'
  BY KnownNext
<1>3. KnownInv => UnpluggedIsOffline
  BY KnownTypes DEF KnownInv, Sees, UnpluggedIsOffline
<1> QED  BY <1>1, <1>2, <1>3, PTL DEF Spec

=============================================================================
