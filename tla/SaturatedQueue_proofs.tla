------------------------ MODULE SaturatedQueue_proofs ------------------------
(* Theorems about the coordinator behind its mailbox, and about the array   *)
(* heap that the mailbox is, for boxes of any length.                       *)
EXTENDS SaturatedQueue, FiniteSetTheorems, WellFoundedInduction, TLAPS

----------------------------------------------------------------------------
(* Loops.  SiftUp and SiftDown call themselves in the end only, and so there *)
(* is a function that does what their bodies say.  What holds of it is shown *)
(* by a least counterexample.                                                *)

\* Any set of numbers has a least.
LEMMA LeastNatural ==
    ASSUME NEW T, T \subseteq Nat, T # {}
    PROVE  \E n \in T : \A k \in T : n <= k
<1>1. \E x \in T : \A y \in T : ~(<<y, x>> \in OpToRel(<, Nat))
  BY NatLessThanWellFounded, WFMin
<1>2. PICK n \in T : \A y \in T : ~(<<y, n>> \in OpToRel(<, Nat))
  BY <1>1
<1>3. ASSUME NEW k \in T PROVE n <= k
  <2>1. n \in Nat /\ k \in Nat /\ <<k, n>> \in Nat \X Nat
    OBVIOUS
  <2>2. ~(k < n)
    <3> SUFFICES ASSUME k < n PROVE FALSE
      OBVIOUS
    <3>1. <<k, n>> \in OpToRel(<, Nat)
      BY <2>1 DEF OpToRel
    <3> QED BY <1>2, <3>1
  <2> QED BY <2>1, <2>2
<1> QED BY <1>3

\* A loop over pairs, of what changes and what is returned in the end; it ends
\* where a turn changes nothing.
IsLoop(I, B, turn) == turn \in [I \X B -> I \X B]

\* A function that is unfolded as a call at the end of its own body is.
LoopIsDefined(I, B, turn) ==
    \E W : \E f \in [I -> [B -> W]] : \A i \in I, b \in B :
        f[i][b] = IF turn[<<i, b>>] = <<i, b>> THEN b
                  ELSE f[turn[<<i, b>>][1]][turn[<<i, b>>][2]]

\* The least relation that a turn leads back along has one value for an argument
\* whose loop ends, and the same values before and after a turn.
LEMMA TailRecursion ==
    ASSUME NEW I, NEW B, NEW h, IsLoop(I, B, h) PROVE LoopIsDefined(I, B, h)
<1> USE DEF IsLoop
<1> DEFINE D == I \X B
           Closed(R) == /\ \A x \in D : h[x] = x => <<x, x[2]>> \in R
                        /\ \A x \in D, v \in B : <<h[x], v>> \in R => <<x, v>> \in R
           G == {p \in D \X B : \A R \in SUBSET (D \X B) : Closed(R) => p \in R}
           Reached(x) == {v \in B : <<x, v>> \in G}
<1>1. G \in SUBSET (D \X B) /\ Closed(G)
  OBVIOUS
<1>2. ASSUME NEW R \in SUBSET (D \X B), Closed(R) PROVE G \subseteq R
  BY <1>2
<1> HIDE DEF G
<1>3. ASSUME NEW x \in D, h[x] = x PROVE Reached(x) = {x[2]}
  <2>1. ASSUME NEW w \in B, w # x[2] PROVE <<x, w>> \notin G
    <3> DEFINE R == G \ {<<x, w>>}
    <3>1. Closed(R)
      BY <1>1, <1>3, <2>1
    <3> QED BY <1>1, <1>2, <3>1
  <2> QED BY <1>1, <1>3, <2>1
<1>4. ASSUME NEW x \in D, h[x] # x PROVE Reached(x) = Reached(h[x])
  <2>1. ASSUME NEW w \in B, <<x, w>> \in G PROVE <<h[x], w>> \in G
    <3> SUFFICES ASSUME <<h[x], w>> \notin G PROVE FALSE
      OBVIOUS
    <3> DEFINE R == G \ {<<x, w>>}
    <3>1. Closed(R)
      BY <1>1, <1>4, <2>1
    <3> QED BY <1>1, <1>2, <2>1, <3>1
  <2> QED BY <1>1, <2>1
<1> HIDE DEF Reached
<1> DEFINE F(x) == CHOOSE v : v \in Reached(x)
           f == [i \in I |-> [b \in B |-> F(<<i, b>>)]]
           Turned(i, b) == IF h[<<i, b>>] = <<i, b>> THEN b
                           ELSE f[h[<<i, b>>][1]][h[<<i, b>>][2]]
<1>5. ASSUME NEW i \in I, NEW b \in B PROVE F(<<i, b>>) = Turned(i, b)
  <2>1. PICK k \in I, c \in B : h[<<i, b>>] = <<k, c>>
    OBVIOUS
  <2>2. CASE h[<<i, b>>] = <<i, b>>
    <3>1. Reached(<<i, b>>) = {b}
      BY <1>3, <2>2
    <3> QED BY <2>2, <3>1
  <2>3. CASE h[<<i, b>>] # <<i, b>>
    <3>1. Reached(<<i, b>>) = Reached(<<k, c>>)
      BY <1>4, <2>1, <2>3
    <3>2. F(<<i, b>>) = F(<<k, c>>)
      BY <3>1
    <3>3. f[k][c] = F(<<k, c>>)
      OBVIOUS
    <3> HIDE DEF F, f
    <3> QED BY <2>1, <2>3, <3>2, <3>3
  <2> QED BY <2>2, <2>3
<1> HIDE DEF F
<1>6. f \in [I -> [B -> {F(x) : x \in D}]]
  OBVIOUS
<1>7. \A i \in I, b \in B : f[i][b] = Turned(i, b)
  BY <1>5
<1> HIDE DEF f
<1> QED BY <1>6, <1>7 DEF LoopIsDefined

----------------------------------------------------------------------------
(* The heap's operators, unfolded *)

Boxes == Seq(Kinds)

LEMMA ParentIsAbove ==
    ASSUME NEW i \in Nat, i >= 2
    PROVE  Mailbox!Parent(i) \in Nat /\ 1 <= Mailbox!Parent(i) /\ Mailbox!Parent(i) < i
BY DEF Mailbox!Parent

LEMMA ChildIsBelow ==
    ASSUME NEW box \in Boxes, NEW i \in Nat, i >= 1, 2 * i <= Len(box)
    PROVE  /\ Mailbox!BetterChild(box, i) \in {2 * i, 2 * i + 1}
           /\ Mailbox!BetterChild(box, i) \in Nat
           /\ i < Mailbox!BetterChild(box, i) /\ Mailbox!BetterChild(box, i) <= Len(box)
BY DEF Mailbox!BetterChild, Boxes

LEMMA SwapInBox ==
    ASSUME NEW box \in Boxes, NEW i \in 1..Len(box), NEW k \in 1..Len(box)
    PROVE  /\ Mailbox!Swap(box, i, k) \in Boxes
           /\ Len(Mailbox!Swap(box, i, k)) = Len(box)
           /\ \A m \in 1..Len(box) :
                Mailbox!Swap(box, i, k)[m] = IF m = k THEN box[i] ELSE IF m = i THEN box[k] ELSE box[m]
BY DEF Mailbox!Swap, Boxes

\* One turn of the loop in SiftUp.
Rise(i, box) ==
    IF i \notin 2..Len(box) \/ ~Mailbox!Better(box[i], box[Mailbox!Parent(i)])
      THEN <<i, box>>
      ELSE <<Mailbox!Parent(i), Mailbox!Swap(box, i, Mailbox!Parent(i))>>

\* One turn of the loop in SiftDown.
Sink(i, box) ==
    IF 2 * i > Len(box) \/ ~Mailbox!Better(box[Mailbox!BetterChild(box, i)], box[i])
      THEN <<i, box>>
      ELSE <<Mailbox!BetterChild(box, i), Mailbox!Swap(box, i, Mailbox!BetterChild(box, i))>>

LEMMA SiftUpUnfolds ==
    Mailbox!SiftUp = [i \in Mailbox!Positions |-> [box \in Boxes |->
        IF i \notin 2..Len(box) \/ ~Mailbox!Better(box[i], box[Mailbox!Parent(i)])
          THEN box
          ELSE Mailbox!SiftUp[Mailbox!Parent(i)][Mailbox!Swap(box, i, Mailbox!Parent(i))]]]
<1> DEFINE I == Mailbox!Positions
           h == [p \in I \X Boxes |-> Rise(p[1], p[2])]
<1>1. ASSUME NEW i \in I, NEW box \in Boxes PROVE Rise(i, box) \in I \X Boxes
  <2>1. CASE i \in 2..Len(box)
    <3>1. i \in 1..Len(box) /\ Mailbox!Parent(i) \in 1..Len(box) /\ Mailbox!Parent(i) \in I
      <4>1. Len(box) \in Nat /\ i \in Nat /\ 2 <= i /\ i <= Len(box)
        BY <2>1 DEF Boxes
      <4>2. Mailbox!Parent(i) \in Nat /\ 1 <= Mailbox!Parent(i) /\ Mailbox!Parent(i) < i
        BY <4>1, ParentIsAbove
      <4> QED BY <4>1, <4>2 DEF Mailbox!Positions
    <3>2. Mailbox!Swap(box, i, Mailbox!Parent(i)) \in Boxes
      BY <3>1, SwapInBox
    <3> QED BY <3>1, <3>2 DEF Rise
  <2>2. CASE i \notin 2..Len(box)
    BY <2>2 DEF Rise
  <2> QED BY <2>1, <2>2
<1>2. IsLoop(I, Boxes, h)
  BY <1>1 DEF IsLoop
<1>3. \A i \in I, box \in Boxes : h[<<i, box>>] = Rise(i, box)
  OBVIOUS
<1> HIDE DEF I, h
<1>4. LoopIsDefined(I, Boxes, h)
  BY <1>2, TailRecursion
<1>5. PICK W : \E f \in [I -> [Boxes -> W]] : \A i \in I, box \in Boxes :
          f[i][box] = IF h[<<i, box>>] = <<i, box>> THEN box
                      ELSE f[h[<<i, box>>][1]][h[<<i, box>>][2]]
  BY <1>4 DEF LoopIsDefined
<1>6. PICK f \in [I -> [Boxes -> W]] : \A i \in I, box \in Boxes :
          f[i][box] = IF h[<<i, box>>] = <<i, box>> THEN box
                      ELSE f[h[<<i, box>>][1]][h[<<i, box>>][2]]
  BY <1>5
<1> DEFINE Body(F, i, box) ==
        IF i \notin 2..Len(box) \/ ~Mailbox!Better(box[i], box[Mailbox!Parent(i)])
          THEN box
          ELSE F[Mailbox!Parent(i)][Mailbox!Swap(box, i, Mailbox!Parent(i))]
<1>7. ASSUME NEW i \in I, NEW box \in Boxes PROVE f[i][box] = Body(f, i, box)
  <2>1. CASE i \notin 2..Len(box) \/ ~Mailbox!Better(box[i], box[Mailbox!Parent(i)])
    BY <1>3, <1>6, <2>1 DEF Rise
  <2>2. CASE ~(i \notin 2..Len(box) \/ ~Mailbox!Better(box[i], box[Mailbox!Parent(i)]))
    <3>1. Mailbox!Parent(i) # i
      BY <2>2, ParentIsAbove DEF I, Mailbox!Positions
    <3>2. h[<<i, box>>] = <<Mailbox!Parent(i), Mailbox!Swap(box, i, Mailbox!Parent(i))>>
      BY <1>3, <2>2 DEF Rise
    <3> QED BY <1>6, <2>2, <3>1, <3>2
  <2> QED BY <2>1, <2>2
<1> HIDE DEF Body
<1>8. ASSUME NEW i \in I PROVE f[i] = [box \in Boxes |-> Body(f, i, box)]
  <2> DEFINE r == [box \in Boxes |-> Body(f, i, box)]
  <2>1. r \in [Boxes -> W] /\ f[i] \in [Boxes -> W] /\ \A box \in Boxes : f[i][box] = r[box]
    BY <1>7
  <2> HIDE DEF r
  <2>2. f[i] = r
    BY <2>1
  <2> QED BY <2>2 DEF r
<1>9. f = [i \in I |-> [box \in Boxes |-> Body(f, i, box)]]
  <2> DEFINE r == [i \in I |-> [box \in Boxes |-> Body(f, i, box)]]
  <2>1. r \in [I -> [Boxes -> W]] /\ \A i \in I : f[i] = r[i]
    BY <1>8
  <2> HIDE DEF r
  <2>2. f = r
    BY <2>1
  <2> QED BY <2>2 DEF r
<1>10. \E F : F = [i \in I |-> [box \in Boxes |-> Body(F, i, box)]]
  BY <1>9
<1> QED BY <1>10 DEF Mailbox!SiftUp, Body, I, Boxes

LEMMA SiftDownUnfolds ==
    Mailbox!SiftDown = [i \in Mailbox!Positions |-> [box \in Boxes |->
        IF 2 * i > Len(box) \/ ~Mailbox!Better(box[Mailbox!BetterChild(box, i)], box[i])
          THEN box
          ELSE Mailbox!SiftDown[Mailbox!BetterChild(box, i)][Mailbox!Swap(box, i, Mailbox!BetterChild(box, i))]]]
<1> DEFINE I == Mailbox!Positions
           h == [p \in I \X Boxes |-> Sink(p[1], p[2])]
<1>1. ASSUME NEW i \in I, NEW box \in Boxes PROVE Sink(i, box) \in I \X Boxes
  <2> DEFINE k == Mailbox!BetterChild(box, i)
  <2>1. CASE 2 * i <= Len(box)
    <3>1. i \in Nat /\ 1 <= i /\ k \in Nat /\ i < k /\ k <= Len(box) /\ Len(box) \in Nat
      BY <2>1, ChildIsBelow DEF Mailbox!Positions, Boxes
    <3>2. Mailbox!Swap(box, i, k) \in Boxes
      BY <3>1, SwapInBox
    <3> QED BY <3>1, <3>2 DEF Sink, Mailbox!Positions
  <2>2. CASE 2 * i > Len(box)
    BY <2>2 DEF Sink
  <2> QED BY <2>1, <2>2 DEF Mailbox!Positions, Boxes
<1>2. IsLoop(I, Boxes, h)
  BY <1>1 DEF IsLoop
<1>3. \A i \in I, box \in Boxes : h[<<i, box>>] = Sink(i, box)
  OBVIOUS
<1> HIDE DEF I, h
<1>4. LoopIsDefined(I, Boxes, h)
  BY <1>2, TailRecursion
<1>5. PICK W : \E f \in [I -> [Boxes -> W]] : \A i \in I, box \in Boxes :
          f[i][box] = IF h[<<i, box>>] = <<i, box>> THEN box
                      ELSE f[h[<<i, box>>][1]][h[<<i, box>>][2]]
  BY <1>4 DEF LoopIsDefined
<1>6. PICK f \in [I -> [Boxes -> W]] : \A i \in I, box \in Boxes :
          f[i][box] = IF h[<<i, box>>] = <<i, box>> THEN box
                      ELSE f[h[<<i, box>>][1]][h[<<i, box>>][2]]
  BY <1>5
<1> DEFINE Body(F, i, box) ==
        IF 2 * i > Len(box) \/ ~Mailbox!Better(box[Mailbox!BetterChild(box, i)], box[i])
          THEN box
          ELSE F[Mailbox!BetterChild(box, i)][Mailbox!Swap(box, i, Mailbox!BetterChild(box, i))]
<1>7. ASSUME NEW i \in I, NEW box \in Boxes PROVE f[i][box] = Body(f, i, box)
  <2>1. CASE 2 * i > Len(box) \/ ~Mailbox!Better(box[Mailbox!BetterChild(box, i)], box[i])
    BY <1>3, <1>6, <2>1 DEF Sink
  <2>2. CASE ~(2 * i > Len(box) \/ ~Mailbox!Better(box[Mailbox!BetterChild(box, i)], box[i]))
    <3>1. Mailbox!BetterChild(box, i) # i
      BY <2>2, ChildIsBelow DEF I, Mailbox!Positions, Boxes
    <3>2. h[<<i, box>>] = <<Mailbox!BetterChild(box, i), Mailbox!Swap(box, i, Mailbox!BetterChild(box, i))>>
      BY <1>3, <2>2 DEF Sink
    <3>3. f[i][box] = f[Mailbox!BetterChild(box, i)][Mailbox!Swap(box, i, Mailbox!BetterChild(box, i))]
      <4> DEFINE k == Mailbox!BetterChild(box, i)
                 c == Mailbox!Swap(box, i, k)
      <4>1. h[<<i, box>>] = <<k, c>> /\ k # i
        BY <3>1, <3>2
      <4> HIDE DEF k, c
      <4>2. h[<<i, box>>] # <<i, box>>
        BY <4>1
      <4>3. h[<<i, box>>][1] = k /\ h[<<i, box>>][2] = c
        BY <4>1
      <4>4. f[i][box] = f[h[<<i, box>>][1]][h[<<i, box>>][2]]
        BY <1>6, <4>2
      <4> QED BY <4>3, <4>4 DEF k, c
    <3> QED BY <2>2, <3>3
  <2> QED BY <2>1, <2>2
<1> HIDE DEF Body
<1>8. ASSUME NEW i \in I PROVE f[i] = [box \in Boxes |-> Body(f, i, box)]
  <2> DEFINE r == [box \in Boxes |-> Body(f, i, box)]
  <2>1. r \in [Boxes -> W] /\ f[i] \in [Boxes -> W] /\ \A box \in Boxes : f[i][box] = r[box]
    BY <1>7
  <2> HIDE DEF r
  <2>2. f[i] = r
    BY <2>1
  <2> QED BY <2>2 DEF r
<1>9. f = [i \in I |-> [box \in Boxes |-> Body(f, i, box)]]
  <2> DEFINE r == [i \in I |-> [box \in Boxes |-> Body(f, i, box)]]
  <2>1. r \in [I -> [Boxes -> W]] /\ \A i \in I : f[i] = r[i]
    BY <1>8
  <2> HIDE DEF r
  <2>2. f = r
    BY <2>1
  <2> QED BY <2>2 DEF r
<1>10. \E F : F = [i \in I |-> [box \in Boxes |-> Body(F, i, box)]]
  BY <1>9
<1> QED BY <1>10 DEF Mailbox!SiftDown, Body, I, Boxes

\* A turn at a time.
LEMMA SiftUpTurns ==
    ASSUME NEW i \in Nat, i >= 1, NEW box \in Boxes
    PROVE  Mailbox!SiftUp[i][box] =
               IF i \notin 2..Len(box) \/ ~Mailbox!Better(box[i], box[Mailbox!Parent(i)])
                 THEN box
                 ELSE Mailbox!SiftUp[Mailbox!Parent(i)][Mailbox!Swap(box, i, Mailbox!Parent(i))]
<1>1. i \in Mailbox!Positions
  BY DEF Mailbox!Positions
<1>2. Mailbox!SiftUp[i] = [b \in Boxes |->
               IF i \notin 2..Len(b) \/ ~Mailbox!Better(b[i], b[Mailbox!Parent(i)])
                 THEN b
                 ELSE Mailbox!SiftUp[Mailbox!Parent(i)][Mailbox!Swap(b, i, Mailbox!Parent(i))]]
  BY <1>1, SiftUpUnfolds, Zenon
<1> QED BY <1>2, Zenon

LEMMA SiftDownTurns ==
    ASSUME NEW i \in Nat, i >= 1, NEW box \in Boxes
    PROVE  Mailbox!SiftDown[i][box] =
               IF 2 * i > Len(box) \/ ~Mailbox!Better(box[Mailbox!BetterChild(box, i)], box[i])
                 THEN box
                 ELSE Mailbox!SiftDown[Mailbox!BetterChild(box, i)]
                                      [Mailbox!Swap(box, i, Mailbox!BetterChild(box, i))]
<1>1. i \in Mailbox!Positions
  BY DEF Mailbox!Positions
<1>2. Mailbox!SiftDown[i] = [b \in Boxes |->
               IF 2 * i > Len(b) \/ ~Mailbox!Better(b[Mailbox!BetterChild(b, i)], b[i])
                 THEN b
                 ELSE Mailbox!SiftDown[Mailbox!BetterChild(b, i)]
                                      [Mailbox!Swap(b, i, Mailbox!BetterChild(b, i))]]
  BY <1>1, SiftDownUnfolds, Zenon
<1> QED BY <1>2, Zenon

----------------------------------------------------------------------------
(* No message is lost or repeated *)

Count(box, kinds) == Cardinality({i \in DOMAIN box : box[i] \in kinds})

SameMessages(box, c) ==
    /\ c \in Boxes /\ Len(c) = Len(box)
    /\ \A kinds \in SUBSET Kinds : Count(c, kinds) = Count(box, kinds)

LEMMA CountIsNatural ==
    ASSUME NEW box \in Boxes, NEW kinds
    PROVE  /\ IsFiniteSet({i \in DOMAIN box : box[i] \in kinds})
           /\ Count(box, kinds) \in Nat
<1>1. Len(box) \in Nat /\ DOMAIN box = 1..Len(box)
  BY DEF Boxes
<1>2. IsFiniteSet(DOMAIN box)
  BY <1>1, FS_Interval
<1>3. IsFiniteSet({i \in DOMAIN box : box[i] \in kinds})
  BY <1>2, FS_Subset
<1> QED BY <1>3, FS_CardinalityType DEF Count

LEMMA SwapKeepsMessages ==
    ASSUME NEW box \in Boxes, NEW i \in 1..Len(box), NEW k \in 1..Len(box)
    PROVE  SameMessages(box, Mailbox!Swap(box, i, k))
<1> DEFINE c == Mailbox!Swap(box, i, k)
<1>1. /\ c \in Boxes /\ Len(c) = Len(box)
      /\ \A m \in 1..Len(box) :
             c[m] = IF m = k THEN box[i] ELSE IF m = i THEN box[k] ELSE box[m]
  BY SwapInBox
<1> HIDE DEF c
<1>2. DOMAIN c = 1..Len(box) /\ DOMAIN box = 1..Len(box)
  BY <1>1 DEF Boxes
<1>3. ASSUME NEW kinds \in SUBSET Kinds PROVE Count(c, kinds) = Count(box, kinds)
  <2> DEFINE S == {m \in DOMAIN box : box[m] \in kinds}
             T == {m \in DOMAIN c : c[m] \in kinds}
             swap == [m \in S |-> IF m = i THEN k ELSE IF m = k THEN i ELSE m]
  <2>1. \A m \in S : swap[m] \in T
    BY <1>1, <1>2
  <2>2. \A m \in T : \E n \in S : swap[n] = m
    <3> TAKE m \in T
    <3>1. (IF m = i THEN k ELSE IF m = k THEN i ELSE m) \in S
      BY <1>1, <1>2
    <3> QED BY <3>1
  <2>3. \A m, n \in S : swap[m] = swap[n] => m = n
    OBVIOUS
  <2>4. swap \in Bijection(S, T)
    <3>1. swap \in [S -> T]
      BY <2>1
    <3> HIDE DEF swap, S, T
    <3>2. swap \in Injection(S, T)
      BY <2>3, <3>1 DEF Injection, IsInjective
    <3>3. swap \in Surjection(S, T)
      BY <2>2, <3>1 DEF Surjection
    <3> QED BY <3>2, <3>3 DEF Bijection
  <2>5. ExistsBijection(S, T)
    BY <2>4 DEF ExistsBijection
  <2>6. IsFiniteSet(S)
    BY CountIsNatural
  <2> HIDE DEF S, T
  <2>7. Cardinality(T) = Cardinality(S)
    BY <2>5, <2>6, FS_Bijection
  <2> QED BY <2>7 DEF Count, S, T
<1>4. SameMessages(box, c)
  BY <1>1, <1>3 DEF SameMessages
<1> QED BY <1>4 DEF c

LEMMA SiftUpKeepsMessages ==
    ASSUME NEW i \in Nat, i >= 1, NEW box \in Boxes
    PROVE  SameMessages(box, Mailbox!SiftUp[i][box])
<1> DEFINE Wrong == {n \in Nat : n >= 1 /\ \E b \in Boxes : ~SameMessages(b, Mailbox!SiftUp[n][b])}
<1>1. ASSUME Wrong # {} PROVE FALSE
  <2>1. PICK n \in Wrong : \A m \in Wrong : n <= m
    BY <1>1, LeastNatural
  <2>2. PICK b \in Boxes : ~SameMessages(b, Mailbox!SiftUp[n][b])
    OBVIOUS
  <2> DEFINE p == Mailbox!Parent(n)
             c == Mailbox!Swap(b, n, p)
  <2>3. SameMessages(b, b)
    BY DEF SameMessages
  <2>4. n \in 2..Len(b) /\ Mailbox!SiftUp[n][b] = Mailbox!SiftUp[p][c]
    BY <2>2, <2>3, SiftUpTurns
  <2>5. Len(b) \in Nat
    BY DEF Boxes
  <2>6. p \in Nat /\ 1 <= p /\ p < n
    BY <2>4, <2>5, ParentIsAbove
  <2>7. SameMessages(b, c)
    BY <2>4, <2>5, <2>6, SwapKeepsMessages
  <2> HIDE DEF p, c
  <2>8. SameMessages(c, Mailbox!SiftUp[p][c])
    <3>1. p \notin Wrong
      BY <2>1, <2>6
    <3> QED BY <2>6, <2>7, <3>1 DEF SameMessages
  <2> QED BY <2>2, <2>4, <2>7, <2>8 DEF SameMessages
<1> QED BY <1>1

LEMMA SiftDownKeepsMessages ==
    ASSUME NEW i \in Nat, i >= 1, NEW box \in Boxes
    PROVE  SameMessages(box, Mailbox!SiftDown[i][box])
<1> DEFINE Right(n, b) == SameMessages(b, Mailbox!SiftDown[n][b])
           Wrong == {d \in Nat : \E n \in Nat : \E b \in Boxes :
                        n >= 1 /\ n + d = Len(b) /\ ~Right(n, b)}
<1>1. ASSUME NEW b \in Boxes PROVE SameMessages(b, b) /\ Len(b) \in Nat
  BY DEF SameMessages, Boxes
<1>2. ASSUME NEW n \in Nat, n >= 1, NEW b \in Boxes, ~Right(n, b)
      PROVE  2 * n <= Len(b)
  BY <1>1, <1>2, SiftDownTurns
<1>3. ASSUME Wrong # {} PROVE FALSE
  <2>1. PICK d \in Wrong : \A m \in Wrong : d <= m
    BY <1>3, LeastNatural
  <2>2. PICK n \in Nat : \E b \in Boxes : n >= 1 /\ n + d = Len(b) /\ ~Right(n, b)
    OBVIOUS
  <2>3. PICK b \in Boxes : n >= 1 /\ n + d = Len(b) /\ ~Right(n, b)
    BY <2>2
  <2> DEFINE k == Mailbox!BetterChild(b, n)
             c == Mailbox!Swap(b, n, k)
  <2>4. Mailbox!SiftDown[n][b] = Mailbox!SiftDown[k][c]
    BY <1>1, <2>3, SiftDownTurns
  <2>5. k \in Nat /\ n < k /\ k <= Len(b)
    BY <1>2, <2>3, ChildIsBelow
  <2>6. SameMessages(b, c)
    BY <1>1, <2>3, <2>5, SwapKeepsMessages
  <2> HIDE DEF k, c
  <2>7. Right(k, c)
    <3>1. Len(c) - k \in Nat /\ k + (Len(c) - k) = Len(c) /\ Len(c) - k < d /\ c \in Boxes
      BY <1>1, <2>3, <2>5, <2>6 DEF SameMessages
    <3>2. Len(c) - k \notin Wrong
      BY <2>1, <3>1
    <3> QED BY <2>3, <2>5, <3>1, <3>2
  <2> QED BY <2>3, <2>4, <2>6, <2>7 DEF SameMessages
<1>4. ASSUME ~Right(i, box) PROVE FALSE
  <2>1. 2 * i <= Len(box) /\ Len(box) \in Nat
    BY <1>1, <1>2, <1>4
  <2>2. Len(box) - i \in Nat /\ i + (Len(box) - i) = Len(box)
    BY <2>1
  <2>3. Len(box) - i \in Wrong
    BY <1>4, <2>2
  <2> QED BY <1>3, <2>3
<1> QED BY <1>4

----------------------------------------------------------------------------
(* The first message is of the best priority *)

LEMMA BetterIsAnOrder ==
    /\ \A m, k : Mailbox!Better(m, k) => ~Mailbox!Better(k, m)
    /\ \A m, k, l : ~Mailbox!Better(m, k) /\ ~Mailbox!Better(k, l) => ~Mailbox!Better(m, l)
BY DEF Mailbox!Better, Mailbox!PriorityGenerator

InOrder(box, m) == ~Mailbox!Better(box[m], box[Mailbox!Parent(m)])

HeapOrder(box) == \A m \in 2..Len(box) : InOrder(box, m)

\* What is below position i is no better than what is above it.
Bridged(box, i) ==
    i >= 2 => \A m \in 2..Len(box) :
                  Mailbox!Parent(m) = i => ~Mailbox!Better(box[m], box[Mailbox!Parent(i)])

\* All is in order but the message at i, which may be better than its parent.
RisesAt(box, i) ==
    Bridged(box, i) /\ \A m \in 2..Len(box) : m # i => InOrder(box, m)

\* All is in order but the message at i, which its children may be better than.
SinksAt(box, i) ==
    Bridged(box, i) /\ \A m \in 2..Len(box) : Mailbox!Parent(m) # i => InOrder(box, m)

LEMMA RiseKeepsOrder ==
    ASSUME NEW box \in Boxes, NEW i \in 2..Len(box), RisesAt(box, i),
           Mailbox!Better(box[i], box[Mailbox!Parent(i)])
    PROVE  RisesAt(Mailbox!Swap(box, i, Mailbox!Parent(i)), Mailbox!Parent(i))
<1> DEFINE p == Mailbox!Parent(i)
           c == Mailbox!Swap(box, i, p)
           n == Len(box)
<1>1. n \in Nat /\ i \in Nat /\ 2 <= i /\ i <= n /\ p \in Nat /\ 1 <= p /\ p < i
  BY ParentIsAbove DEF Boxes
<1>2. ASSUME NEW m \in 2..n
      PROVE  /\ m \in 1..n
             /\ Mailbox!Parent(m) \in 1..n /\ Mailbox!Parent(m) < m
  BY <1>1, ParentIsAbove
<1>3. /\ Len(c) = n
      /\ \A m \in 1..n : c[m] = IF m = p THEN box[i] ELSE IF m = i THEN box[p] ELSE box[m]
  <2>1. i \in 1..Len(box) /\ p \in 1..Len(box)
    BY <1>1
  <2> HIDE DEF p
  <2> QED BY <2>1, SwapInBox
<1>4. Mailbox!Better(box[i], box[p]) /\ ~Mailbox!Better(box[p], box[i])
  BY BetterIsAnOrder
<1>5. \A m \in 2..n : Mailbox!Parent(m) = i => ~Mailbox!Better(box[m], box[p])
  BY <1>1 DEF RisesAt, Bridged
<1>6. \A m \in 2..n : m # i => ~Mailbox!Better(box[m], box[Mailbox!Parent(m)])
  BY DEF RisesAt, InOrder
<1>7. Mailbox!Parent(i) = p /\ i \in 1..n /\ p \in 1..n
  BY <1>1
<1> HIDE DEF p, c, n
<1>8. ASSUME NEW m \in 2..n, m # p
      PROVE  ~Mailbox!Better(c[m], c[Mailbox!Parent(m)])
  <2> DEFINE q == Mailbox!Parent(m)
  <2>1. m \in 1..n /\ q \in 1..n /\ q < m /\ q # m
    BY <1>2
  <2>2. CASE m = i
    BY <1>1, <1>3, <1>4, <1>7, <2>1, <2>2
  <2>3. CASE m # i /\ q = i
    BY <1>1, <1>3, <1>5, <1>8, <2>1, <2>3
  <2>4. CASE m # i /\ q = p
    <3>1. c[m] = box[m] /\ c[q] = box[i] /\ ~Mailbox!Better(box[m], box[p])
      BY <1>3, <1>6, <1>8, <2>1, <2>4
    <3> QED BY <1>4, <3>1, BetterIsAnOrder
  <2>5. CASE m # i /\ q # i /\ q # p
    BY <1>3, <1>6, <1>8, <2>1, <2>5
  <2> QED BY <2>2, <2>3, <2>4, <2>5
<1>9. ASSUME p >= 2, NEW m \in 2..n, Mailbox!Parent(m) = p
      PROVE  ~Mailbox!Better(c[m], c[Mailbox!Parent(p)])
  <2>1. p \in 2..n /\ m \in 1..n
    BY <1>1, <1>2, <1>9
  <2>2. Mailbox!Parent(p) \in 1..n /\ Mailbox!Parent(p) < p
    BY <1>2, <2>1
  <2>3. c[Mailbox!Parent(p)] = box[Mailbox!Parent(p)]
    BY <1>1, <1>3, <2>2
  <2>4. ~Mailbox!Better(box[p], box[Mailbox!Parent(p)])
    BY <1>1, <1>6, <2>1
  <2>5. c[m] \in {box[p], box[m]} /\ (c[m] = box[p] \/ m # i)
    <3>1. m # p
      BY <1>2, <1>9
    <3> QED BY <1>3, <2>1, <3>1
  <2>6. m # i => ~Mailbox!Better(box[m], box[p])
    BY <1>6, <1>9
  <2>7. c[m] = box[p] \/ ~Mailbox!Better(c[m], box[p])
    BY <2>5, <2>6
  <2> QED BY <2>3, <2>4, <2>7, BetterIsAnOrder
<1> QED BY <1>3, <1>8, <1>9 DEF RisesAt, Bridged, InOrder, p, c

LEMMA SiftUpOrders ==
    ASSUME NEW box \in Boxes, NEW i \in 1..Len(box), RisesAt(box, i)
    PROVE  HeapOrder(Mailbox!SiftUp[i][box])
<1> DEFINE Wrong == {n \in Nat : n >= 1 /\ \E b \in Boxes : /\ n <= Len(b) /\ RisesAt(b, n)
                                                           /\ ~HeapOrder(Mailbox!SiftUp[n][b])}
<1>1. ASSUME Wrong # {} PROVE FALSE
  <2>1. PICK n \in Wrong : \A m \in Wrong : n <= m
    BY <1>1, LeastNatural
  <2>2. PICK b \in Boxes : n <= Len(b) /\ RisesAt(b, n) /\ ~HeapOrder(Mailbox!SiftUp[n][b])
    OBVIOUS
  <2> DEFINE p == Mailbox!Parent(n)
             c == Mailbox!Swap(b, n, p)
  <2>3. Len(b) \in Nat /\ n \in Nat /\ n >= 1
    BY DEF Boxes
  <2>4. n \in 2..Len(b) /\ Mailbox!Better(b[n], b[p]) /\ Mailbox!SiftUp[n][b] = Mailbox!SiftUp[p][c]
    <3>1. CASE ~(n \notin 2..Len(b) \/ ~Mailbox!Better(b[n], b[p]))
      BY <2>3, <3>1, SiftUpTurns
    <3>2. CASE n \notin 2..Len(b) \/ ~Mailbox!Better(b[n], b[p])
      <4>1. Mailbox!SiftUp[n][b] = b
        BY <2>3, <3>2, SiftUpTurns
      <4>2. HeapOrder(b)
        BY <2>2, <3>2 DEF HeapOrder, RisesAt, InOrder
      <4> QED BY <2>2, <4>1, <4>2
    <3> QED BY <3>1, <3>2
  <2>5. p \in Nat /\ 1 <= p /\ p < n
    BY <2>3, <2>4, ParentIsAbove
  <2>6. c \in Boxes /\ Len(c) = Len(b)
    BY <2>3, <2>4, <2>5, SwapInBox
  <2>7. RisesAt(c, p)
    BY <2>2, <2>4, RiseKeepsOrder
  <2> HIDE DEF p, c
  <2>8. p \in Wrong
    BY <2>2, <2>3, <2>4, <2>5, <2>6, <2>7
  <2> QED BY <2>1, <2>3, <2>5, <2>8
<1> QED BY <1>1 DEF Boxes

\* No child is better than the one that SiftDown chooses.
LEMMA BestChild ==
    ASSUME NEW box \in Boxes, NEW i \in Nat, i >= 1, NEW m \in 2..Len(box),
           Mailbox!Parent(m) = i
    PROVE  ~Mailbox!Better(box[m], box[Mailbox!BetterChild(box, i)])
<1>1. Len(box) \in Nat /\ m \in {2 * i, 2 * i + 1}
  BY DEF Boxes, Mailbox!Parent
<1>2. ~Mailbox!Better(box[2 * i], box[2 * i]) /\ ~Mailbox!Better(box[2 * i + 1], box[2 * i + 1])
  BY BetterIsAnOrder
<1>3. Mailbox!Better(box[2 * i + 1], box[2 * i]) => ~Mailbox!Better(box[2 * i], box[2 * i + 1])
  BY BetterIsAnOrder
<1> QED BY <1>1, <1>2, <1>3 DEF Mailbox!BetterChild

LEMMA SinkKeepsOrder ==
    ASSUME NEW box \in Boxes, NEW i \in Nat, i >= 1, 2 * i <= Len(box), SinksAt(box, i),
           Mailbox!Better(box[Mailbox!BetterChild(box, i)], box[i])
    PROVE  SinksAt(Mailbox!Swap(box, i, Mailbox!BetterChild(box, i)), Mailbox!BetterChild(box, i))
<1> DEFINE k == Mailbox!BetterChild(box, i)
           c == Mailbox!Swap(box, i, k)
           n == Len(box)
<1>1. /\ n \in Nat /\ 1 <= i /\ 2 * i <= n
      /\ k \in Nat /\ k \in {2 * i, 2 * i + 1} /\ i < k /\ k <= n
  BY ChildIsBelow DEF Boxes
<1>2. ASSUME NEW m \in 2..n
      PROVE  /\ m \in 1..n
             /\ Mailbox!Parent(m) \in 1..n /\ Mailbox!Parent(m) < m
  BY <1>1, ParentIsAbove
<1>3. /\ Len(c) = n
      /\ \A m \in 1..n : c[m] = IF m = k THEN box[i] ELSE IF m = i THEN box[k] ELSE box[m]
  <2>1. i \in 1..Len(box) /\ k \in 1..Len(box)
    BY <1>1
  <2> HIDE DEF k
  <2> QED BY <2>1, SwapInBox
<1>4. Mailbox!Better(box[k], box[i]) /\ ~Mailbox!Better(box[i], box[k])
  BY BetterIsAnOrder
<1>5. i >= 2 => \A m \in 2..n : Mailbox!Parent(m) = i =>
                    ~Mailbox!Better(box[m], box[Mailbox!Parent(i)])
  BY DEF SinksAt, Bridged
<1>6. \A m \in 2..n : Mailbox!Parent(m) # i => ~Mailbox!Better(box[m], box[Mailbox!Parent(m)])
  BY DEF SinksAt, InOrder
<1>7. Mailbox!Parent(k) = i /\ k \in 2..n
  BY <1>1 DEF Mailbox!Parent
<1>8. \A m \in 2..n : Mailbox!Parent(m) = i => ~Mailbox!Better(box[m], box[k])
  BY BestChild
<1> HIDE DEF k, c, n
<1>9. ASSUME NEW m \in 2..n, Mailbox!Parent(m) # k
      PROVE  ~Mailbox!Better(c[m], c[Mailbox!Parent(m)])
  <2> DEFINE q == Mailbox!Parent(m)
  <2>1. m \in 1..n /\ q \in 1..n /\ q < m /\ q # m
    BY <1>2
  <2>2. CASE m = k
    BY <1>1, <1>3, <1>4, <1>7, <2>1, <2>2
  <2>3. CASE m # k /\ q = i
    BY <1>1, <1>3, <1>8, <1>9, <2>1, <2>3
  <2>4. CASE m = i
    <3>1. c[m] = box[k] /\ c[q] = box[q]
      BY <1>1, <1>3, <1>9, <2>1, <2>4
    <3>2. i >= 2
      BY <2>4, <1>1
    <3> QED BY <1>5, <1>7, <2>4, <3>1, <3>2
  <2>5. CASE m # i /\ m # k /\ q # i /\ q # k
    BY <1>3, <1>6, <1>9, <2>1, <2>5
  <2> QED BY <1>9, <2>2, <2>3, <2>4, <2>5
<1>10. ASSUME NEW m \in 2..n, Mailbox!Parent(m) = k
       PROVE  ~Mailbox!Better(c[m], c[Mailbox!Parent(k)])
  <2>1. m # k /\ m # i /\ m \in 1..n /\ k # i
    BY <1>1, <1>2, <1>10
  <2>2. c[m] = box[m] /\ c[i] = box[k]
    BY <1>1, <1>3, <1>7, <2>1
  <2> QED BY <1>6, <1>7, <1>10, <2>1, <2>2
<1> QED BY <1>3, <1>9, <1>10 DEF SinksAt, Bridged, InOrder, k, c

LEMMA SiftDownOrders ==
    ASSUME NEW box \in Boxes, NEW i \in 1..Len(box), SinksAt(box, i)
    PROVE  HeapOrder(Mailbox!SiftDown[i][box])
<1> DEFINE Right(n, b) == SinksAt(b, n) => HeapOrder(Mailbox!SiftDown[n][b])
           Wrong == {d \in Nat : \E n \in Nat : \E b \in Boxes :
                        n >= 1 /\ n + d = Len(b) /\ ~Right(n, b)}
<1>1. Wrong = {}
  <2> SUFFICES ASSUME Wrong # {} PROVE FALSE
    OBVIOUS
  <2>1. PICK d \in Wrong : \A m \in Wrong : d <= m
    BY LeastNatural
  <2>2. PICK n \in Nat : \E b \in Boxes : n >= 1 /\ n + d = Len(b) /\ ~Right(n, b)
    OBVIOUS
  <2>3. PICK b \in Boxes : n >= 1 /\ n + d = Len(b) /\ ~Right(n, b)
    BY <2>2
  <2> DEFINE k == Mailbox!BetterChild(b, n)
             c == Mailbox!Swap(b, n, k)
  <2>4. Len(b) \in Nat
    BY DEF Boxes
  <2>5. /\ 2 * n <= Len(b) /\ Mailbox!Better(b[k], b[n])
        /\ Mailbox!SiftDown[n][b] = Mailbox!SiftDown[k][c]
    <3>1. CASE ~(2 * n > Len(b) \/ ~Mailbox!Better(b[k], b[n]))
      <4>1. Mailbox!SiftDown[n][b] = Mailbox!SiftDown[k][c]
        BY <2>3, <3>1, SiftDownTurns
      <4> HIDE DEF k, c
      <4> QED BY <2>4, <3>1, <4>1
    <3>2. CASE 2 * n > Len(b) \/ ~Mailbox!Better(b[k], b[n])
      <4>1. Mailbox!SiftDown[n][b] = b
        BY <2>3, <3>2, SiftDownTurns
      <4>2. ASSUME NEW m \in 2..Len(b) PROVE InOrder(b, m)
        <5>1. CASE Mailbox!Parent(m) # n
          BY <2>3, <5>1 DEF SinksAt
        <5>2. CASE Mailbox!Parent(m) = n
          <6>1. 2 * n <= m /\ m <= Len(b)
            BY <2>4, <5>2 DEF Mailbox!Parent
          <6>2. ~Mailbox!Better(b[k], b[n])
            BY <2>4, <3>2, <6>1
          <6>3. ~Mailbox!Better(b[m], b[k])
            BY <2>3, <5>2, BestChild
          <6> HIDE DEF k
          <6> QED BY <5>2, <6>2, <6>3, BetterIsAnOrder DEF InOrder
        <5> QED BY <5>1, <5>2
      <4> QED BY <2>3, <4>1, <4>2 DEF HeapOrder
    <3> QED BY <3>1, <3>2
  <2>6. k \in Nat /\ n < k /\ k <= Len(b)
    BY <2>3, <2>5, ChildIsBelow
  <2>7. c \in Boxes /\ Len(c) = Len(b)
    BY <2>3, <2>4, <2>6, SwapInBox
  <2>8. SinksAt(c, k)
    BY <2>3, <2>5, SinkKeepsOrder
  <2> HIDE DEF k, c
  <2>9. Right(k, c)
    <3>1. Len(c) - k \in Nat /\ k + (Len(c) - k) = Len(c) /\ Len(c) - k < d
      BY <2>3, <2>4, <2>6, <2>7
    <3>2. Len(c) - k \notin Wrong
      BY <2>1, <3>1
    <3>3. k >= 1
      BY <2>3, <2>6
    <3>4. ~Right(k, c) => \E m \in Nat : \E e \in Boxes :
              m >= 1 /\ m + (Len(c) - k) = Len(e) /\ ~Right(m, e)
      <4> HIDE DEF Right
      <4> QED BY <2>6, <2>7, <3>1, <3>3
    <3> QED BY <3>1, <3>2, <3>4
  <2> QED BY <2>3, <2>5, <2>8, <2>9
<1>2. i \in Nat /\ i >= 1 /\ Len(box) - i \in Nat /\ i + (Len(box) - i) = Len(box)
  BY DEF Boxes
<1>3. Right(i, box)
  BY <1>1, <1>2
<1> QED BY <1>3

LEMMA FirstIsBest ==
    ASSUME NEW box \in Boxes, HeapOrder(box), NEW i \in 1..Len(box)
    PROVE  ~Mailbox!Better(box[i], box[1])
<1> DEFINE Wrong == {m \in 1..Len(box) : Mailbox!Better(box[m], box[1])}
<1>1. Len(box) \in Nat
  BY DEF Boxes
<1>2. ASSUME Wrong # {} PROVE FALSE
  <2>1. PICK m \in Wrong : \A k \in Wrong : m <= k
    <3>1. Wrong \subseteq Nat
      BY <1>1
    <3> HIDE DEF Wrong
    <3>2. \E m \in Wrong : \A k \in Wrong : m <= k
      BY <1>2, <3>1, LeastNatural
    <3> QED BY <3>2 DEF Wrong
  <2>2. m # 1
    BY BetterIsAnOrder
  <2>3. m \in 2..Len(box) /\ ~Mailbox!Better(box[m], box[Mailbox!Parent(m)])
    BY <1>1, <2>2 DEF HeapOrder, InOrder
  <2>4. Mailbox!Parent(m) \in 1..Len(box) /\ Mailbox!Parent(m) < m
    BY <1>1, <2>3, ParentIsAbove
  <2>5. ~Mailbox!Better(box[Mailbox!Parent(m)], box[1])
    BY <1>1, <2>1, <2>4
  <2> QED BY <2>3, <2>5, BetterIsAnOrder
<1> QED BY <1>2

----------------------------------------------------------------------------
(* Enqueue and Dequeue *)

LEMMA OneMore ==
    ASSUME NEW S, IsFiniteSet(S), NEW x, x \notin S
    PROVE  /\ IsFiniteSet(S \cup {x}) /\ Cardinality(S) \in Nat
           /\ Cardinality(S \cup {x}) = Cardinality(S) + 1
BY FS_AddElement, FS_CardinalityType

\* A message more: the box has it, and stays a heap.
LEMMA Enqueued ==
    ASSUME NEW box \in Boxes, NEW m \in Kinds
    PROVE  /\ Mailbox!Enqueue(box, m) \in Boxes
           /\ \A kinds \in SUBSET Kinds :
                  Count(Mailbox!Enqueue(box, m), kinds)
                      = Count(box, kinds) + (IF m \in kinds THEN 1 ELSE 0)
           /\ HeapOrder(box) => HeapOrder(Mailbox!Enqueue(box, m))
<1> DEFINE n == Len(box) + 1
           b == Append(box, m)
<1>1. /\ n \in Nat /\ n >= 1 /\ b \in Boxes /\ Len(b) = n /\ b[n] = m
      /\ DOMAIN box = 1..(n - 1) /\ DOMAIN b = 1..n
      /\ \A i \in 1..(n - 1) : b[i] = box[i]
  BY DEF Boxes
<1> HIDE DEF n, b
<1>2. SameMessages(b, Mailbox!SiftUp[n][b])
  BY <1>1, SiftUpKeepsMessages
<1>3. ASSUME NEW kinds \in SUBSET Kinds
      PROVE  Count(b, kinds) = Count(box, kinds) + (IF m \in kinds THEN 1 ELSE 0)
  <2> DEFINE S == {i \in DOMAIN box : box[i] \in kinds}
             T == {i \in DOMAIN b : b[i] \in kinds}
  <2>1. IsFiniteSet(S) /\ Cardinality(S) \in Nat
    BY CountIsNatural DEF Count
  <2>2. n \notin S /\ T = IF m \in kinds THEN S \cup {n} ELSE S
    BY <1>1
  <2> HIDE DEF S, T
  <2>3. Cardinality(T) = Cardinality(S) + (IF m \in kinds THEN 1 ELSE 0)
    <3>1. CASE m \in kinds
      BY <2>1, <2>2, <3>1, OneMore
    <3>2. CASE m \notin kinds
      BY <2>1, <2>2, <3>2
    <3> QED BY <3>1, <3>2
  <2> QED BY <2>3 DEF Count, S, T
<1>4. ASSUME HeapOrder(box) PROVE HeapOrder(Mailbox!SiftUp[n][b])
  <2>1. ASSUME NEW i \in 2..n, i # n PROVE InOrder(b, i)
    <3>1. i \in 2..(n - 1) /\ i \in Nat /\ i >= 2
      BY <1>1, <2>1
    <3>2. Mailbox!Parent(i) \in 1..(n - 1)
      BY <1>1, <3>1, ParentIsAbove
    <3>3. ~Mailbox!Better(box[i], box[Mailbox!Parent(i)])
      BY <1>1, <1>4, <3>1 DEF HeapOrder, InOrder, n
    <3>4. b[i] = box[i] /\ b[Mailbox!Parent(i)] = box[Mailbox!Parent(i)]
      BY <1>1, <3>1, <3>2
    <3> QED BY <3>3, <3>4 DEF InOrder
  <2>2. \A i \in 2..n : Mailbox!Parent(i) # n
    BY <1>1, ParentIsAbove
  <2>3. RisesAt(b, n)
    BY <1>1, <2>1, <2>2 DEF RisesAt, Bridged
  <2> QED BY <1>1, <2>3, SiftUpOrders
<1>5. Mailbox!Enqueue(box, m) = Mailbox!SiftUp[n][b]
  BY DEF Mailbox!Enqueue, n, b
<1> QED BY <1>2, <1>3, <1>4, <1>5 DEF SameMessages

\* The last message in place of the first.
LEMMA LastIsFirst ==
    ASSUME NEW box \in Boxes, Len(box) >= 2
    PROVE  LET c == Mailbox!LastToRoot(box)
               n == Len(box) - 1
           IN  /\ n \in Nat /\ n >= 1 /\ c \in Boxes /\ Len(c) = n /\ c[1] = box[n + 1]
               /\ DOMAIN box = 1..(n + 1) /\ DOMAIN c = 1..n
               /\ \A i \in 2..n : c[i] = box[i]
<1> DEFINE n == Len(box) - 1
           s == SubSeq(box, 1, n)
           c == [s EXCEPT ![1] = box[Len(box)]]
<1>1. /\ n \in Nat /\ n >= 1 /\ Len(box) = n + 1 /\ DOMAIN box = 1..(n + 1)
      /\ \A i \in 1..(n + 1) : box[i] \in Kinds
  BY DEF Boxes
<1>2. s \in Boxes /\ Len(s) = n /\ \A i \in 1..n : s[i] = box[i]
  BY <1>1 DEF Boxes
<1> HIDE DEF n, s
<1>3. /\ c \in Boxes /\ Len(c) = n /\ DOMAIN c = 1..n /\ c[1] = box[n + 1]
      /\ \A i \in 2..n : c[i] = box[i]
  BY <1>1, <1>2 DEF Boxes
<1>4. c = Mailbox!LastToRoot(box)
  BY DEF Mailbox!LastToRoot, s, n
<1> QED BY <1>1, <1>3, <1>4 DEF n

\* The first message less, and no other; the box stays a heap.
LEMMA Dequeued ==
    ASSUME NEW box \in Boxes, box # << >>
    PROVE  /\ Mailbox!Dequeue(box) \in Boxes
           /\ \A kinds \in SUBSET Kinds :
                  Count(box, kinds) = Count(Mailbox!Dequeue(box), kinds)
                                          + (IF Mailbox!Front(box) \in kinds THEN 1 ELSE 0)
           /\ HeapOrder(box) => HeapOrder(Mailbox!Dequeue(box))
<1>1. Len(box) \in Nat /\ Len(box) >= 1 /\ DOMAIN box = 1..Len(box)
  BY DEF Boxes
<1>2. CASE Len(box) = 1
  <2>1. Mailbox!Dequeue(box) = << >> /\ DOMAIN box = {1} /\ << >> \in Boxes
    BY <1>1, <1>2 DEF Mailbox!Dequeue, Boxes
  <2>2. HeapOrder(<< >>)
    BY DEF HeapOrder
  <2>3. ASSUME NEW kinds \in SUBSET Kinds
        PROVE  Count(box, kinds) = Count(<< >>, kinds)
                                       + (IF Mailbox!Front(box) \in kinds THEN 1 ELSE 0)
    <3>1. {i \in DOMAIN << >> : << >>[i] \in kinds} = {}
      OBVIOUS
    <3>2. {i \in DOMAIN box : box[i] \in kinds} = IF box[1] \in kinds THEN {1} ELSE {}
      BY <2>1
    <3>3. Count(<< >>, kinds) = 0
      BY <3>1, FS_EmptySet DEF Count
    <3>4. Count(box, kinds) = IF box[1] \in kinds THEN 1 ELSE 0
      BY <3>2, FS_EmptySet, FS_Singleton DEF Count
    <3> QED BY <3>3, <3>4 DEF Mailbox!Front
  <2> QED BY <2>1, <2>2, <2>3
<1>3. CASE Len(box) >= 2
  <2> DEFINE c == Mailbox!LastToRoot(box)
             n == Len(box) - 1
  <2>1. /\ n \in Nat /\ n >= 1 /\ c \in Boxes /\ Len(c) = n /\ c[1] = box[n + 1]
        /\ DOMAIN box = 1..(n + 1) /\ DOMAIN c = 1..n
        /\ \A i \in 2..n : c[i] = box[i]
    BY <1>3, LastIsFirst
  <2>2. Mailbox!Dequeue(box) = Mailbox!SiftDown[1][c]
    BY <1>1, <1>3 DEF Mailbox!Dequeue
  <2>3. Len(box) = n + 1
    BY <1>1
  <2> HIDE DEF c, n
  <2>4. SameMessages(c, Mailbox!SiftDown[1][c])
    BY <2>1, SiftDownKeepsMessages
  <2>5. ASSUME NEW kinds \in SUBSET Kinds
        PROVE  Count(box, kinds) = Count(c, kinds)
                                       + (IF Mailbox!Front(box) \in kinds THEN 1 ELSE 0)
    <3> DEFINE S == {i \in DOMAIN box : box[i] \in kinds}
               T == {i \in DOMAIN c : c[i] \in kinds}
               R == {i \in 2..n : box[i] \in kinds}
               first == IF box[1] \in kinds THEN 1 ELSE 0
               last == IF box[n + 1] \in kinds THEN 1 ELSE 0
    <3>1. IsFiniteSet(R) /\ Cardinality(R) \in Nat
      <4>1. IsFiniteSet(2..n)
        BY <2>1, FS_Interval
      <4>2. IsFiniteSet(R)
        BY <4>1, FS_Subset
      <4> HIDE DEF R
      <4> QED BY <4>2, FS_CardinalityType
    <3>2. T = IF box[n + 1] \in kinds THEN R \cup {1} ELSE R
      BY <2>1
    <3>3. S = (IF box[1] \in kinds THEN R \cup {1} ELSE R)
                  \cup (IF box[n + 1] \in kinds THEN {n + 1} ELSE {})
      BY <2>1
    <3>4. 1 \notin R /\ n + 1 \notin R /\ n + 1 # 1
      BY <2>1
    <3> HIDE DEF R, S, T
    <3>5. Cardinality(T) = Cardinality(R) + last
      <4>1. CASE box[n + 1] \in kinds
        BY <3>1, <3>2, <3>4, <4>1, OneMore
      <4>2. CASE box[n + 1] \notin kinds
        BY <3>1, <3>2, <4>2
      <4> QED BY <4>1, <4>2
    <3>6. Cardinality(S) = Cardinality(R) + first + last
      <4> DEFINE Q == IF box[1] \in kinds THEN R \cup {1} ELSE R
      <4>1. IsFiniteSet(Q) /\ Cardinality(Q) = Cardinality(R) + first /\ n + 1 \notin Q
        BY <3>1, <3>4, FS_AddElement
      <4>2. S = IF box[n + 1] \in kinds THEN Q \cup {n + 1} ELSE Q
        BY <3>3
      <4> HIDE DEF Q, first
      <4>3. CASE box[n + 1] \in kinds
        <5>1. Cardinality(S) = Cardinality(Q) + 1
          BY <4>1, <4>2, <4>3, FS_AddElement
        <5> QED BY <4>1, <4>3, <5>1
      <4>4. CASE box[n + 1] \notin kinds
        BY <3>1, <4>1, <4>2, <4>4 DEF first
      <4> QED BY <4>3, <4>4
    <3> QED BY <3>1, <3>5, <3>6 DEF Count, S, T, Mailbox!Front
  <2>6. ASSUME HeapOrder(box) PROVE HeapOrder(Mailbox!SiftDown[1][c])
    <3>1. ASSUME NEW m \in 2..n, Mailbox!Parent(m) # 1 PROVE InOrder(c, m)
      <4>1. m \in Nat /\ m >= 2 /\ m \in 2..(n + 1)
        BY <2>1
      <4>2. Mailbox!Parent(m) \in 2..n
        BY <2>1, <3>1, <4>1, ParentIsAbove
      <4>3. ~Mailbox!Better(box[m], box[Mailbox!Parent(m)])
        BY <2>3, <2>6, <4>1 DEF HeapOrder, InOrder
      <4>4. c[m] = box[m] /\ c[Mailbox!Parent(m)] = box[Mailbox!Parent(m)]
        BY <2>1, <4>2
      <4> QED BY <4>3, <4>4 DEF InOrder
    <3>2. SinksAt(c, 1)
      BY <2>1, <3>1 DEF SinksAt, Bridged
    <3> QED BY <2>1, <3>2, SiftDownOrders
  <2> QED BY <2>2, <2>4, <2>5, <2>6 DEF SameMessages
<1> QED BY <1>1, <1>2, <1>3

----------------------------------------------------------------------------
(* Types.  The workers that have stopped are those the coordinator has       *)
(* counted and those whose QueueShutDown waits.                              *)

SaturatedTypes == TypeOK /\ stopped = ShutdownCount + Unread({"QueueShutDown"})

LEMMA UnreadIsCount ==
    /\ \A kinds : Unread(kinds) = Count(heap, kinds)
    /\ heap \in Seq(Kinds) => \A kinds \in SUBSET Kinds : Unread(kinds) \in Nat
BY CountIsNatural DEF Unread, Count, Boxes

LEMMA Arrived ==
    ASSUME heap \in Seq(Kinds), NEW kind \in Kinds, Arrive(kind)
    PROVE  /\ heap' \in Seq(Kinds)
           /\ \A kinds \in SUBSET Kinds :
                  Unread(kinds)' = Unread(kinds) + (IF kind \in kinds THEN 1 ELSE 0)
<1>1. heap \in Boxes /\ heap' = Mailbox!Enqueue(heap, kind)
  BY DEF Arrive, Boxes
<1>2. \A kinds : Unread(kinds) = Count(heap, kinds) /\ Unread(kinds)' = Count(heap', kinds)
  BY DEF Unread, Count
<1> QED BY <1>1, <1>2, Enqueued DEF Boxes

LEMMA Received ==
    ASSUME heap \in Seq(Kinds), NEW some, Receives(some)
    PROVE  /\ heap' \in Seq(Kinds)
           /\ \A kinds \in SUBSET Kinds :
                  Unread(kinds) = Unread(kinds)' + (IF Mailbox!Front(heap) \in kinds THEN 1 ELSE 0)
<1>1. heap \in Boxes /\ heap # << >> /\ heap' = Mailbox!Dequeue(heap)
  BY DEF Receives, Boxes
<1>2. \A kinds : Unread(kinds) = Count(heap, kinds) /\ Unread(kinds)' = Count(heap', kinds)
  BY DEF Unread, Count
<1> QED BY <1>1, <1>2, Dequeued DEF Boxes

LEMMA InitTypes == Init => SaturatedTypes
<1> SUFFICES ASSUME Init PROVE SaturatedTypes
  OBVIOUS
<1>1. \A kinds : {i \in DOMAIN heap : heap[i] \in kinds} = {}
  BY DEF Init
<1>2. \A kinds : Unread(kinds) = 0
  BY <1>1, FS_EmptySet DEF Unread
<1>3. /\ heap \in Seq(Kinds) /\ ShutdownCount = 0 /\ stopped = 0 /\ 0 \in 0..0
      /\ 0 \in 0..WorkerCount
  BY SaturationAssumption DEF Init
<1>4. /\ step \in {"idle", "asking", "resweep"} /\ ShuttingDown \in BOOLEAN
      /\ shell \in {"open", "asked", "answered"} /\ atWork = 0 /\ PendingItems = 0
  BY DEF Init
<1> QED BY <1>2, <1>3, <1>4 DEF SaturatedTypes, TypeOK

LEMMA NextTypes == SaturatedTypes /\ [Next]_vars => SaturatedTypes'
<1> SUFFICES ASSUME SaturatedTypes, [Next]_vars PROVE SaturatedTypes'
  OBVIOUS
<1> DEFINE results == Unread({"Result"})
           shutdowns == Unread({"QueueShutDown"})
<1>1. /\ heap \in Seq(Kinds) /\ results \in Nat /\ shutdowns \in Nat
      /\ results' = Unread({"Result"})' /\ shutdowns' = Unread({"QueueShutDown"})'
  BY UnreadIsCount DEF SaturatedTypes, TypeOK, Kinds
<1>2. ASSUME NEW kind \in Kinds, Arrive(kind)
      PROVE  /\ heap' \in Seq(Kinds)
             /\ results' = results + (IF kind = "Result" THEN 1 ELSE 0)
             /\ shutdowns' = shutdowns + (IF kind = "QueueShutDown" THEN 1 ELSE 0)
  BY <1>1, <1>2, Arrived DEF Kinds
<1>3. ASSUME NEW some, Receives(some)
      PROVE  /\ heap' \in Seq(Kinds) /\ Mailbox!Front(heap) \in some
             /\ results' \in Nat /\ shutdowns' \in Nat
             /\ results = results' + (IF Mailbox!Front(heap) = "Result" THEN 1 ELSE 0)
             /\ shutdowns = shutdowns' + (IF Mailbox!Front(heap) = "QueueShutDown" THEN 1 ELSE 0)
  <2>1. heap' \in Seq(Kinds)
    BY <1>1, <1>3, Received
  <2>2. Unread({"Result"})' \in Nat /\ Unread({"QueueShutDown"})' \in Nat
    BY <2>1, CountIsNatural DEF Unread, Count, Boxes
  <2> QED BY <1>1, <1>3, <2>1, <2>2, Received DEF Receives, Kinds
<1>4. /\ step \in {"idle", "asking", "resweep"} /\ ShuttingDown \in BOOLEAN
      /\ ShutdownCount \in Nat /\ stopped \in 0..WorkerCount
      /\ shell \in {"open", "asked", "answered"} /\ atWork \in Nat
      /\ PendingItems = atWork + results /\ stopped = ShutdownCount + shutdowns
      /\ WorkerCount \in Nat
  BY <1>1, SaturationAssumption DEF SaturatedTypes, TypeOK
<1>5. ASSUME /\ heap' \in Seq(Kinds) /\ step' \in {"idle", "asking", "resweep"}
             /\ ShuttingDown' \in BOOLEAN /\ ShutdownCount' \in Nat /\ shutdowns' \in Nat
             /\ stopped' \in 0..WorkerCount /\ shell' \in {"open", "asked", "answered"}
             /\ atWork' \in Nat /\ PendingItems' = atWork' + results'
             /\ stopped' = ShutdownCount' + shutdowns'
      PROVE  SaturatedTypes'
  <2>1. ShutdownCount' \in 0..stopped'
    BY <1>4, <1>5
  <2> QED BY <1>1, <1>5, <2>1 DEF SaturatedTypes, TypeOK
<1> HIDE DEF results, shutdowns
<1>6. CASE Pulse
  BY <1>1, <1>2, <1>4, <1>5, <1>6 DEF Pulse, Kinds
<1>7. CASE ShutDownQueue
  BY <1>1, <1>2, <1>4, <1>5, <1>7 DEF ShutDownQueue, Kinds
<1>8. CASE ReceiveSweep
  <2>1. step' \in {"idle", "asking", "resweep"}
    BY <1>4, <1>8 DEF ReceiveSweep, AfterSaturatedSweep
  <2> QED BY <1>1, <1>3, <1>4, <1>5, <1>8, <2>1 DEF ReceiveSweep, SweepKinds
<1>9. CASE DispatchJobs
  <2>1. results' = results /\ shutdowns' = shutdowns /\ heap' = heap
    BY <1>9 DEF DispatchJobs, results, shutdowns, Unread
  <2> QED BY <1>1, <1>4, <1>5, <1>9, <2>1 DEF DispatchJobs
<1>10. CASE Resweep
  BY <1>1, <1>2, <1>4, <1>5, <1>10 DEF Resweep, Kinds
<1>11. CASE ReceiveResult
  BY <1>1, <1>3, <1>4, <1>5, <1>11 DEF ReceiveResult
<1>12. CASE ReceiveShutDownQueues
  BY <1>1, <1>3, <1>4, <1>5, <1>12 DEF ReceiveShutDownQueues
<1>13. CASE ReceiveQueueShutDown
  <2>1. shell' \in {"open", "asked", "answered"}
    BY <1>4, <1>13 DEF ReceiveQueueShutDown
  <2> QED BY <1>1, <1>3, <1>4, <1>5, <1>13, <2>1 DEF ReceiveQueueShutDown
<1>14. CASE FinishJob
  BY <1>1, <1>2, <1>4, <1>5, <1>14 DEF FinishJob, Kinds
<1>15. CASE StopWorker
  BY <1>1, <1>2, <1>4, <1>5, <1>15 DEF StopWorker, Kinds
<1>16. CASE UNCHANGED vars
  <2>1. results' = results /\ shutdowns' = shutdowns /\ heap' = heap
    BY <1>16 DEF vars, results, shutdowns, Unread
  <2> QED BY <1>1, <1>4, <1>5, <1>16, <2>1 DEF vars
<1> QED BY <1>6, <1>7, <1>8, <1>9, <1>10, <1>11, <1>12, <1>13, <1>14, <1>15, <1>16
        DEF Next, CoordinatorStep

LEMMA SaturatedTypesAreKept == Spec => []SaturatedTypes
BY InitTypes, NextTypes, PTL DEF Spec

\* Types, for any number of workers and any length of the mailbox: PendingItems
\* is the number of jobs at work and of results that wait, since the heap loses
\* and repeats no message, and the coordinator counts no worker twice.
THEOREM TypeCorrect == Spec => []TypeOK
<1>1. SaturatedTypes => TypeOK
  BY DEF SaturatedTypes
<1> QED BY <1>1, SaturatedTypesAreKept, PTL

----------------------------------------------------------------------------
(* The bag.  A heap in order is a bag that gives its best messages first.   *)

BagOf(box) == [k \in {box[i] : i \in DOMAIN box} |-> Count(box, {k})]

\* What a box has of a kind is what its bag has.
LEMMA InBag ==
    ASSUME NEW box \in Boxes
    PROVE  /\ DOMAIN BagOf(box) = {box[i] : i \in DOMAIN box}
           /\ DOMAIN BagOf(box) \subseteq Kinds
           /\ \A k \in Kinds : Count(box, {k}) \in Nat
           /\ \A k \in Kinds : k \in DOMAIN BagOf(box) <=> Count(box, {k}) # 0
           /\ \A k \in DOMAIN BagOf(box) : BagOf(box)[k] = Count(box, {k})
<1>1. DOMAIN BagOf(box) = {box[i] : i \in DOMAIN box} /\ DOMAIN BagOf(box) \subseteq Kinds
  BY DEF BagOf, Boxes
<1>2. \A k \in DOMAIN BagOf(box) : BagOf(box)[k] = Count(box, {k})
  BY DEF BagOf
<1>3. \A k \in Kinds : Count(box, {k}) \in Nat
  BY CountIsNatural
<1>4. ASSUME NEW k \in Kinds PROVE k \in DOMAIN BagOf(box) <=> Count(box, {k}) # 0
  <2> DEFINE S == {i \in DOMAIN box : box[i] \in {k}}
  <2>1. k \in DOMAIN BagOf(box) <=> S # {}
    BY <1>1
  <2>2. IsFiniteSet(S)
    BY CountIsNatural
  <2> HIDE DEF S
  <2>3. Cardinality(S) = 0 <=> S = {}
    BY <2>2, FS_EmptySet
  <2> QED BY <2>1, <2>3 DEF S, Count
<1> QED BY <1>1, <1>2, <1>3, <1>4

\* Two boxes of which one has a message more are bags of which one has.
LEMMA OneMoreInBag ==
    ASSUME NEW box \in Boxes, NEW c \in Boxes, NEW m \in Kinds,
           \A kinds \in SUBSET Kinds :
               Count(c, kinds) = Count(box, kinds) + (IF m \in kinds THEN 1 ELSE 0)
    PROVE  /\ BagOf(c) = Bag!(+)(BagOf(box), Bag!SetToBag({m}))
           /\ BagOf(box) = Bag!(-)(BagOf(c), Bag!SetToBag({m}))
           /\ m \in DOMAIN BagOf(c)
<1> DEFINE B == BagOf(box)
           C == BagOf(c)
           One == Bag!SetToBag({m})
<1>1. \A k \in Kinds : Count(c, {k}) = Count(box, {k}) + (IF k = m THEN 1 ELSE 0)
  OBVIOUS
<1>2. /\ \A k \in Kinds : Count(box, {k}) \in Nat /\ Count(c, {k}) \in Nat
      /\ \A k \in Kinds : (k \in DOMAIN B <=> Count(box, {k}) # 0) 
                              /\ (k \in DOMAIN C <=> Count(c, {k}) # 0)
      /\ \A k \in DOMAIN B : k \in Kinds /\ B[k] = Count(box, {k})
      /\ \A k \in DOMAIN C : k \in Kinds /\ C[k] = Count(c, {k})
  BY InBag
<1>3. DOMAIN One = {m} /\ One[m] = 1
  BY DEF Bag!SetToBag
<1>4. B = [k \in DOMAIN B |-> B[k]] /\ C = [k \in DOMAIN C |-> C[k]]
  BY DEF BagOf
<1> HIDE DEF B, C, One
<1>5. ASSUME NEW k \in Kinds
      PROVE  /\ k \in DOMAIN C <=> k \in DOMAIN B \/ k = m
             /\ k \in DOMAIN B => B[k] \in Nat /\ B[k] > 0
             /\ k \in DOMAIN C =>
                    C[k] = (IF k \in DOMAIN B THEN B[k] ELSE 0) + (IF k = m THEN 1 ELSE 0)
  <2> DEFINE b == Count(box, {k})
             a == Count(c, {k})
  <2>1. /\ b \in Nat /\ a \in Nat /\ a = b + (IF k = m THEN 1 ELSE 0)
        /\ k \in DOMAIN B <=> b # 0
        /\ k \in DOMAIN C <=> a # 0
        /\ k \in DOMAIN B => B[k] = b
        /\ k \in DOMAIN C => C[k] = a
    BY <1>1, <1>2
  <2> HIDE DEF a, b
  <2> QED BY <2>1
<1>6. DOMAIN B \subseteq Kinds /\ DOMAIN C \subseteq Kinds
  BY <1>2
<1>7. DOMAIN C = DOMAIN B \cup {m}
  BY <1>5, <1>6
<1>8. C = Bag!(+)(B, One)
  <2>1. \A k \in DOMAIN C : C[k] = (IF k \in DOMAIN B THEN B[k] ELSE 0)
                                    + (IF k \in DOMAIN One THEN One[k] ELSE 0)
    BY <1>3, <1>5, <1>6
  <2> QED BY <1>3, <1>4, <1>7, <2>1 DEF Bag!(+)
<1>9. B = Bag!(-)(C, One)
  <2> DEFINE Less == [k \in DOMAIN C |-> IF k \in DOMAIN One THEN C[k] - One[k] ELSE C[k]]
  <2>1. \A k \in DOMAIN C : Less[k] = IF k \in DOMAIN B THEN B[k] ELSE 0
    BY <1>3, <1>5, <1>6
  <2>2. DOMAIN Less = DOMAIN C
    OBVIOUS
  <2> HIDE DEF Less
  <2>3. DOMAIN B = {k \in DOMAIN Less : Less[k] > 0}
    <3>1. \A k \in DOMAIN C : Less[k] > 0 <=> k \in DOMAIN B
      BY <1>5, <1>6, <2>1
    <3> QED BY <1>7, <2>2, <3>1
  <2>4. \A k \in DOMAIN B : B[k] = Less[k]
    BY <1>7, <2>1
  <2>5. B = [k \in {e \in DOMAIN Less : Less[e] > 0} |-> Less[k]]
    BY <1>4, <2>3, <2>4
  <2> QED BY <2>5 DEF Bag!(-), Less
<1> QED BY <1>7, <1>8, <1>9 DEF B, C, One

----------------------------------------------------------------------------
(* Refinement *)

\* The bag of the refinement mapping.
Pending == [k \in {heap[i] : i \in DOMAIN heap} |-> Unread({k})]

LEMMA PendingIsBagOfHeap == Pending = BagOf(heap) /\ Pending' = BagOf(heap')
BY DEF Pending, BagOf, Unread, Count

LEMMA ArriveTells ==
    ASSUME heap \in Boxes, NEW kind \in Kinds, Arrive(kind)
    PROVE  Bag!Tell(kind) /\ (HeapOrder(heap) => HeapOrder(heap'))
<1>1. /\ heap' \in Boxes
      /\ \A kinds \in SUBSET Kinds :
             Count(heap', kinds) = Count(heap, kinds) + (IF kind \in kinds THEN 1 ELSE 0)
      /\ HeapOrder(heap) => HeapOrder(heap')
  BY Enqueued DEF Arrive
<1>2. BagOf(heap') = Bag!(+)(BagOf(heap), Bag!SetToBag({kind}))
  BY <1>1, OneMoreInBag
<1>3. Pending' = Bag!(+)(Pending, Bag!SetToBag({kind}))
  BY <1>2, PendingIsBagOfHeap
<1> QED BY <1>1, <1>3 DEF Bag!Tell, Pending

LEMMA ReceivesIsReceive ==
    ASSUME heap \in Boxes, HeapOrder(heap), NEW some, Receives(some)
    PROVE  (\E m \in Kinds : Bag!Receive(m)) /\ HeapOrder(heap')
<1>1. heap # << >> /\ Mailbox!Front(heap) \in Kinds
  BY DEF Receives, Mailbox!Front, Boxes
<1>2. PICK m \in Kinds : m = Mailbox!Front(heap)
  BY <1>1
<1>3. /\ heap # << >> /\ heap' \in Boxes /\ HeapOrder(heap')
      /\ \A kinds \in SUBSET Kinds :
             Count(heap, kinds) = Count(heap', kinds) + (IF m \in kinds THEN 1 ELSE 0)
  BY <1>2, Dequeued DEF Receives
<1>4. 1 \in DOMAIN heap
  BY <1>3 DEF Boxes
<1>5. BagOf(heap') = Bag!(-)(BagOf(heap), Bag!SetToBag({m})) /\ m \in DOMAIN BagOf(heap)
  BY <1>3, <1>4, OneMoreInBag
<1>6. \A k : Bag!Waiting(k) <=> k \in DOMAIN BagOf(heap)
  BY PendingIsBagOfHeap DEF Bag!Waiting, Bag!BagIn, Bag!BagToSet, Pending
<1>7. Pending' = Bag!(-)(Pending, Bag!SetToBag({m}))
  BY <1>5, PendingIsBagOfHeap
<1>8. ASSUME Bag!Waiting("ShutDownQueues") PROVE m = "ShutDownQueues"
  <2>1. PICK i \in DOMAIN heap : heap[i] = "ShutDownQueues"
    <3>1. "ShutDownQueues" \in {heap[i] : i \in DOMAIN heap}
      BY <1>6, <1>8, InBag
    <3> QED BY <3>1
  <2>2. ~Mailbox!Better(heap[i], heap[1])
    BY <2>1, FirstIsBest DEF Boxes
  <2> QED BY <1>2, <2>1, <2>2 DEF Mailbox!Better, Mailbox!PriorityGenerator, Mailbox!Front
<1>9. Bag!Receive(m)
  BY <1>5, <1>6, <1>7, <1>8 DEF Bag!Receive, Pending
<1> QED BY <1>3, <1>4, <1>9

LEMMA InitIsEmptyBag == Init => Bag!Init /\ HeapOrder(heap)
BY DEF Init, HeapOrder, Bag!Init, Bag!EmptyBag, Bag!SetToBag

\* A step tells the mailbox a message, receives one, or leaves it alone.
LEMMA NextIsBagStep ==
    SaturatedTypes /\ HeapOrder(heap) /\ [Next]_vars =>
        HeapOrder(heap)' /\ (Bag!Next \/ UNCHANGED Pending)
<1> SUFFICES ASSUME SaturatedTypes, HeapOrder(heap), [Next]_vars
             PROVE  HeapOrder(heap') /\ (Bag!Next \/ UNCHANGED Pending)
  BY DEF HeapOrder, InOrder
<1>1. heap \in Boxes
  BY DEF SaturatedTypes, TypeOK, Boxes
<1>2. ASSUME NEW kind \in Kinds, Arrive(kind) PROVE HeapOrder(heap') /\ Bag!Next
  BY <1>1, <1>2, ArriveTells DEF Bag!Next
<1>3. ASSUME NEW some, Receives(some) PROVE HeapOrder(heap') /\ Bag!Next
  BY <1>1, <1>3, ReceivesIsReceive DEF Bag!Next
<1>4. ASSUME heap' = heap PROVE HeapOrder(heap') /\ UNCHANGED Pending
  BY <1>4, PendingIsBagOfHeap
<1>5. CASE Pulse
  BY <1>2, <1>5 DEF Pulse, Kinds
<1>6. CASE ShutDownQueue
  BY <1>2, <1>6 DEF ShutDownQueue, Kinds
<1>7. CASE ReceiveSweep
  BY <1>3, <1>7 DEF ReceiveSweep
<1>8. CASE DispatchJobs
  BY <1>4, <1>8 DEF DispatchJobs
<1>9. CASE Resweep
  BY <1>2, <1>9 DEF Resweep, Kinds
<1>10. CASE ReceiveResult
  BY <1>3, <1>10 DEF ReceiveResult
<1>11. CASE ReceiveShutDownQueues
  BY <1>3, <1>11 DEF ReceiveShutDownQueues
<1>12. CASE ReceiveQueueShutDown
  BY <1>3, <1>12 DEF ReceiveQueueShutDown
<1>13. CASE FinishJob
  BY <1>2, <1>13 DEF FinishJob, Kinds
<1>14. CASE StopWorker
  BY <1>2, <1>14 DEF StopWorker, Kinds
<1>15. CASE UNCHANGED vars
  BY <1>4, <1>15 DEF vars
<1> QED BY <1>5, <1>6, <1>7, <1>8, <1>9, <1>10, <1>11, <1>12, <1>13, <1>14, <1>15
        DEF Next, CoordinatorStep

\* Whatever was sent and received before, and however many messages wait, the
\* mailbox's array heap loses and repeats none, and what it hands out next is a
\* ShutDownQueues if one waits.  JobQueueCoordinator takes its mailbox to be
\* this bag.
THEOREM MailboxIsABag == Spec => ImplementsBag
<1>1. SaturatedTypes /\ HeapOrder(heap) /\ [Next]_vars
          => HeapOrder(heap)' /\ [Bag!Next]_[k \in {heap[i] : i \in DOMAIN heap} |-> Unread({k})]
  BY NextIsBagStep DEF Pending
<1> QED BY <1>1, InitIsEmptyBag, SaturatedTypesAreKept, PTL DEF Spec, ImplementsBag, Bag!Spec

=============================================================================
