--------------------- MODULE CoordinatorLifecycle_proofs ---------------------
(* A queue's coordinator, layer actor and workers together lead each job      *)
(* through its life, for every number of workers and jobs.                    *)
EXTENDS JobQueueCoordinator_proofs, CoordinatorLifecycle

----------------------------------------------------------------------------
(* The copies in a worker's mailbox *)

InBox(box) == {box[i] : i \in {k \in 1..Len(box) : box[k] # StopMsg}}

\* No copy is in the mailbox twice.
Distinct(box) ==
    \A i, k \in 1..Len(box) : box[i] = box[k] /\ box[i] # StopMsg => i = k

LEMMA AppendedCopies ==
    ASSUME NEW S, NEW box \in Seq(S), NEW e
    PROVE  /\ InBox(Append(box, e)) = InBox(box) \cup ({e} \ {StopMsg})
           /\ Distinct(box) /\ e \notin InBox(box) => Distinct(Append(box, e))
<1> DEFINE n == Len(box)
           longer == Append(box, e)
<1>1. /\ Len(longer) = n + 1 /\ n \in Nat
      /\ \A i \in 1..n : longer[i] = box[i]
      /\ longer[n + 1] = e
  BY AppendedBox
<1> HIDE DEF longer
<1>2. ASSUME NEW x
      PROVE  x \in InBox(longer) <=> x \in InBox(box) \/ (x = e /\ x # StopMsg)
  <2>1. ASSUME x \in InBox(longer)
        PROVE  x \in InBox(box) \/ (x = e /\ x # StopMsg)
    <3>1. PICK i \in 1..n + 1 : longer[i] = x /\ longer[i] # StopMsg
      BY <1>1, <2>1 DEF InBox
    <3>2. CASE i \in 1..n  BY <1>1, <3>1, <3>2 DEF InBox
    <3>3. CASE i = n + 1  BY <1>1, <3>1, <3>3
    <3> QED BY <1>1, <3>2, <3>3
  <2>2. ASSUME x \in InBox(box) PROVE x \in InBox(longer)
    <3>1. PICK i \in 1..n : box[i] = x /\ box[i] # StopMsg
      BY <2>2 DEF InBox
    <3>2. i \in 1..Len(longer) /\ longer[i] = x /\ longer[i] # StopMsg
      BY <1>1, <3>1
    <3> QED BY <3>2 DEF InBox
  <2>3. ASSUME x = e, x # StopMsg PROVE x \in InBox(longer)
    <3>1. n + 1 \in 1..Len(longer) /\ longer[n + 1] = x
      BY <1>1, <2>3
    <3> QED BY <2>3, <3>1 DEF InBox
  <2> QED BY <2>1, <2>2, <2>3
<1>3. ASSUME Distinct(box), e \notin InBox(box) PROVE Distinct(longer)
  <2> SUFFICES ASSUME NEW i \in 1..n + 1, NEW k \in 1..n + 1,
                      longer[i] = longer[k], longer[i] # StopMsg
               PROVE  i = k
    BY <1>1 DEF Distinct
  <2>1. CASE i \in 1..n /\ k \in 1..n
    BY <1>1, <1>3, <2>1 DEF Distinct
  <2>2. \A l \in 1..n : box[l] # StopMsg => box[l] # e
    BY <1>3 DEF InBox
  <2> QED BY <1>1, <2>1, <2>2
<1> QED BY <1>2, <1>3 DEF longer

LEMMA TakenCopies ==
    ASSUME NEW S, NEW box \in Seq(S), box # << >>
    PROVE  /\ InBox(box) = InBox(Tail(box)) \cup ({Head(box)} \ {StopMsg})
           /\ Distinct(box) => /\ Distinct(Tail(box))
                               /\ Head(box) # StopMsg => Head(box) \notin InBox(Tail(box))
<1> DEFINE n == Len(box)
           rest == Tail(box)
<1>1. /\ n \in Nat \ {0} /\ Len(rest) = n - 1 /\ Head(box) = box[1]
      /\ \A i \in 1..n - 1 : rest[i] = box[i + 1]
  BY TakenBox
<1> HIDE DEF rest
<1>2. ASSUME NEW x
      PROVE  x \in InBox(box) <=> x \in InBox(rest) \/ (x = box[1] /\ x # StopMsg)
  <2>1. ASSUME x \in InBox(box)
        PROVE  x \in InBox(rest) \/ (x = box[1] /\ x # StopMsg)
    <3>1. PICK i \in 1..n : box[i] = x /\ box[i] # StopMsg
      BY <2>1 DEF InBox
    <3>2. CASE i # 1
      <4>1. i - 1 \in 1..Len(rest) /\ rest[i - 1] = x
        BY <1>1, <3>1, <3>2
      <4> QED BY <3>1, <4>1 DEF InBox
    <3> QED BY <3>1, <3>2
  <2>2. ASSUME x \in InBox(rest) PROVE x \in InBox(box)
    <3>1. PICK i \in 1..Len(rest) : rest[i] = x /\ rest[i] # StopMsg
      BY <2>2 DEF InBox
    <3>2. i + 1 \in 1..n /\ box[i + 1] = x /\ x # StopMsg
      BY <1>1, <3>1
    <3> QED BY <3>2 DEF InBox
  <2>3. ASSUME x = box[1], x # StopMsg PROVE x \in InBox(box)
    BY <1>1, <2>3 DEF InBox
  <2> QED BY <2>1, <2>2, <2>3
<1>3. ASSUME Distinct(box)
      PROVE  Distinct(rest) /\ (box[1] # StopMsg => box[1] \notin InBox(rest))
  <2>1. Distinct(rest)
    <3> SUFFICES ASSUME NEW i \in 1..n - 1, NEW k \in 1..n - 1,
                        rest[i] = rest[k], rest[i] # StopMsg
                 PROVE  i = k
      BY <1>1 DEF Distinct
    <3>1. i + 1 \in 1..n /\ k + 1 \in 1..n /\ box[i + 1] = box[k + 1] /\ box[i + 1] # StopMsg
      BY <1>1
    <3>2. i + 1 = k + 1
      BY <1>3, <3>1 DEF Distinct
    <3> QED BY <3>2
  <2>2. ASSUME box[1] # StopMsg, box[1] \in InBox(rest) PROVE FALSE
    <3>1. PICK i \in 1..n - 1 : rest[i] = box[1]
      BY <1>1, <2>2 DEF InBox
    <3>2. i + 1 \in 1..n /\ box[i + 1] = box[1] /\ 1 \in 1..n
      BY <1>1, <3>1
    <3>3. i + 1 = 1
      BY <1>3, <2>2, <3>2 DEF Distinct
    <3> QED BY <3>3
  <2> QED BY <2>1, <2>2
<1> QED BY <1>1, <1>2, <1>3 DEF rest

----------------------------------------------------------------------------
(* One copy of each job *)

Waiting == UNION {InBox(workerBox[w]) : w \in Workers}

Running == {running[w] : w \in Busy}

Reported == {inbox.results[i].copy : i \in 1..Len(inbox.results)}

PlacesOfCopies == Flying = Waiting \cup Running \cup Reported

\* No copy is in flight twice.
CopiesAreDistinct ==
    /\ \A w \in Workers : Distinct(workerBox[w])
    /\ \A v, w \in Workers : v # w => InBox(workerBox[v]) \cap InBox(workerBox[w]) = {}
    /\ \A w \in Workers : InBox(workerBox[w]) \cap Running = {}
    /\ \A w \in Workers : InBox(workerBox[w]) \cap Reported = {}
    /\ \A v, w \in Busy : running[v] = running[w] => v = w
    /\ Running \cap Reported = {}
    /\ \A i, k \in 1..Len(inbox.results) :
           inbox.results[i].copy = inbox.results[k].copy => i = k

\* Nor are two copies of one job, or one to be sent after another.
OneCopy == \A c, d \in batch \cup Flying : c.job = d.job => c = d

LEMMA ResultsTyped ==
    ASSUME TypeOK
    PROVE  /\ inbox.results \in Seq(ResultType) /\ Len(inbox.results) \in Nat
           /\ \A i \in 1..Len(inbox.results) : inbox.results[i].copy \in Copies
<1>1. inbox.results \in Seq(ResultType)
  BY DEF TypeOK, InboxType, ResultType
<1>2. \A i \in 1..Len(inbox.results) : inbox.results[i] \in ResultType
  BY <1>1, ElementOf
<1> QED BY <1>1, <1>2 DEF ResultType

LEMMA FlyingCopies ==
    ASSUME TypeOK
    PROVE  /\ Flying = Waiting \cup Running \cup Reported
           /\ Waiting = {workerBox[p[1]][p[2]] : p \in Queued}
           /\ Flying \subseteq Copies
<1>1. {workerBox[p[1]][p[2]] : p \in Queued} = Waiting
  <2>1. ASSUME NEW x \in Waiting PROVE \E p \in Queued : x = workerBox[p[1]][p[2]]
    <3>1. PICK w \in Workers : x \in InBox(workerBox[w])
      BY DEF Waiting
    <3>2. PICK i \in JobsWaiting(w) : x = workerBox[w][i]
      BY <3>1 DEF InBox, JobsWaiting
    <3>3. <<w, i>> \in Queued
      BY DEF Queued
    <3> QED BY <3>2, <3>3
  <2>2. ASSUME NEW p \in Queued PROVE workerBox[p[1]][p[2]] \in Waiting
    <3>1. PICK w \in Workers : \E i \in JobsWaiting(w) : p = <<w, i>>
      BY DEF Queued
    <3> QED BY <3>1 DEF Waiting, InBox, JobsWaiting
  <2> QED BY <2>1, <2>2
<1>2. \A w \in Workers : InBox(workerBox[w]) \subseteq Copies
  <2> SUFFICES ASSUME NEW w \in Workers PROVE InBox(workerBox[w]) \subseteq Copies
    OBVIOUS
  <2>1. workerBox[w] \in Seq(Copies \cup {StopMsg})
    BY DEF TypeOK
  <2>2. \A i \in 1..Len(workerBox[w]) : workerBox[w][i] \in Copies \cup {StopMsg}
    BY <2>1
  <2> QED BY <2>2 DEF InBox
<1>3. Running \subseteq Copies
  <2>1. running \in [Workers -> Copies \cup {NoCopy}]
    BY DEF TypeOK
  <2> QED BY <2>1 DEF Running, Busy
<1>4. Reported \subseteq Copies
  BY ResultsTyped DEF Reported
<1>5. Waiting \subseteq Copies
  BY <1>2 DEF Waiting
<1>6. Flying = {workerBox[p[1]][p[2]] : p \in Queued} \cup Running \cup Reported
  BY DEF Flying, Running, Reported
<1> QED BY <1>1, <1>3, <1>4, <1>5, <1>6

LEMMA InFlightJobs == TypeOK => InFlight \subseteq Jobs
<1> SUFFICES ASSUME TypeOK PROVE InFlight \subseteq Jobs
  OBVIOUS
<1>1. \A c \in Flying : c.job \in Jobs
  BY FlyingCopies, CopiesAreNoStop
<1> QED BY <1>1 DEF InFlight

LEMMA PlacesNext == TypeOK' => PlacesOfCopies'
<1>1. TypeOK => PlacesOfCopies
  BY FlyingCopies DEF PlacesOfCopies
<1> QED BY <1>1, PTL

\* The copies as the sum of the three places.
LEMMA CopiesAreCounted ==
    ASSUME TypeOK, CopiesAreDistinct
    PROVE  IsFiniteSet(Flying) /\ Cardinality(Flying) = CopyCount
<1>0. /\ Flying = Waiting \cup Running \cup Reported
      /\ Waiting = {workerBox[p[1]][p[2]] : p \in Queued}
  BY FlyingCopies
<1>1. /\ IsFiniteSet(Queued) /\ Cardinality(Queued) \in Nat
      /\ IsFiniteSet(Busy) /\ Cardinality(Busy) \in Nat
      /\ Len(inbox.results) \in Nat
  BY PlacesAreFinite, ResultsTyped
<1>2. IsFiniteSet(Waiting) /\ Cardinality(Waiting) = Cardinality(Queued)
  <2> DEFINE f == [p \in Queued |-> workerBox[p[1]][p[2]]]
  <2>1. f \in [Queued -> Waiting] /\ \A x \in Waiting : \E p \in Queued : f[p] = x
    BY <1>0
  <2>2. ASSUME NEW p \in Queued, NEW q \in Queued, f[p] = f[q] PROVE p = q
    <3>1. PICK v \in Workers : \E i \in JobsWaiting(v) : p = <<v, i>>
      BY DEF Queued
    <3>2. PICK w \in Workers : \E k \in JobsWaiting(w) : q = <<w, k>>
      BY DEF Queued
    <3>a. PICK i \in JobsWaiting(v) : p = <<v, i>>
      BY <3>1
    <3>b. PICK k \in JobsWaiting(w) : q = <<w, k>>
      BY <3>2
    <3>3. workerBox[v][i] = workerBox[w][k]
      BY <2>2, <3>a, <3>b
    <3>4. workerBox[v][i] \in InBox(workerBox[v]) /\ workerBox[w][k] \in InBox(workerBox[w])
      BY DEF InBox, JobsWaiting
    <3>5. v = w
      BY <3>3, <3>4 DEF CopiesAreDistinct
    <3>6. i = k
      BY <3>3, <3>5 DEF CopiesAreDistinct, Distinct, JobsWaiting
    <3> QED BY <3>a, <3>b, <3>5, <3>6
  <2>3. f \in Injection(Queued, Waiting) /\ f \in Surjection(Queued, Waiting)
    BY <2>1, <2>2 DEF Injection, Surjection, IsInjective
  <2> QED BY <1>1, <2>3, FS_Surjection
<1>3. IsFiniteSet(Running) /\ Cardinality(Running) = Cardinality(Busy)
  <2> DEFINE f == [w \in Busy |-> running[w]]
  <2>1. f \in Injection(Busy, Running) /\ f \in Surjection(Busy, Running)
    BY DEF Injection, Surjection, IsInjective, CopiesAreDistinct, Running
  <2> QED BY <1>1, <2>1, FS_Surjection
<1>4. IsFiniteSet(Reported) /\ Cardinality(Reported) = Len(inbox.results)
  <2> DEFINE places == 1..Len(inbox.results)
             f == [i \in places |-> inbox.results[i].copy]
  <2>1. f \in Injection(places, Reported) /\ f \in Surjection(places, Reported)
    BY DEF Injection, Surjection, IsInjective, CopiesAreDistinct, Reported
  <2>2. IsFiniteSet(places) /\ Cardinality(places) = Len(inbox.results)
    <3>1. PICK n \in Nat : n = Len(inbox.results)
      BY <1>1
    <3>2. IsFiniteSet(1..n) /\ Cardinality(1..n) = IF 1 > n THEN 0 ELSE n - 1 + 1
      BY FS_Interval
    <3>3. (IF 1 > n THEN 0 ELSE n - 1 + 1) = n
      OBVIOUS
    <3> QED BY <3>1, <3>2, <3>3
  <2> HIDE DEF f, places
  <2> QED BY <2>1, <2>2, FS_Surjection
<1>5. Waiting \cap Running = {} /\ (Waiting \cup Running) \cap Reported = {}
  BY DEF Waiting, CopiesAreDistinct
<1>6. IsFiniteSet(Waiting \cup Running)
      /\ Cardinality(Waiting \cup Running) = Cardinality(Waiting) + Cardinality(Running)
  <2>1. Cardinality(Waiting \cap Running) = 0
    BY <1>5, FS_EmptySet
  <2>2. Cardinality(Waiting) \in Nat /\ Cardinality(Running) \in Nat
    BY <1>2, <1>3, FS_CardinalityType
  <2>3. /\ IsFiniteSet(Waiting \cup Running)
        /\ Cardinality(Waiting \cup Running)
            = Cardinality(Waiting) + Cardinality(Running) - Cardinality(Waiting \cap Running)
    BY <1>2, <1>3, FS_Union
  <2> QED BY <2>1, <2>2, <2>3
<1>7. /\ IsFiniteSet(Flying)
      /\ Cardinality(Flying) = Cardinality(Waiting \cup Running) + Cardinality(Reported)
  <2>1. /\ Flying = (Waiting \cup Running) \cup Reported
        /\ Cardinality((Waiting \cup Running) \cap Reported) = 0
    BY <1>0, <1>5, FS_EmptySet
  <2>2. /\ Cardinality(Waiting \cup Running) \in Nat
        /\ Cardinality(Reported) \in Nat
    BY <1>4, <1>6, FS_CardinalityType
  <2>3. /\ IsFiniteSet((Waiting \cup Running) \cup Reported)
        /\ Cardinality((Waiting \cup Running) \cup Reported)
            = Cardinality(Waiting \cup Running) + Cardinality(Reported)
                - Cardinality((Waiting \cup Running) \cap Reported)
    BY <1>4, <1>6, FS_Union
  <2> QED BY <2>1, <2>2, <2>3
<1> QED BY <1>2, <1>3, <1>4, <1>6, <1>7 DEF CopyCount

\* The jobs of distinct copies are as many.
LEMMA JobsAreCounted ==
    ASSUME TypeOK, CopiesAreDistinct, OneCopy
    PROVE  NoJobTwice
<1> DEFINE f == [c \in Flying |-> c.job]
<1>1. IsFiniteSet(Flying) /\ Cardinality(Flying) = CopyCount
  BY CopiesAreCounted
<1>2. f \in Injection(Flying, InFlight) /\ f \in Surjection(Flying, InFlight)
  BY DEF Injection, Surjection, IsInjective, OneCopy, InFlight
<1> HIDE DEF f
<1>3. Cardinality(InFlight) = Cardinality(Flying)
  BY <1>1, <1>2, FS_Surjection
<1> QED BY <1>1, <1>3 DEF NoJobTwice

----------------------------------------------------------------------------
(* How a step moves the copies *)

\* One that leaves the mailboxes' copies, the running ones and the results alone.
LEMMA NothingMoves ==
    ASSUME TypeOK, TypeOK', UNCHANGED running, inbox'.results = inbox.results,
           \A w \in Workers : InBox(workerBox'[w]) = InBox(workerBox[w])
    PROVE  Flying' = Flying /\ InFlight' = InFlight
<1>1. Waiting' = Waiting /\ Running' = Running /\ Reported' = Reported
  BY DEF Waiting, Running, Busy, Reported
<1>2. Flying' = Flying
  BY <1>1, FlyingCopies, PlacesNext DEF PlacesOfCopies
<1> QED BY <1>2 DEF InFlight

LEMMA DispatchMoves ==
    ASSUME TypeOK, TypeOK', CopiesAreDistinct, NEW c \in Copies, c \notin Flying,
           DispatchJob(c), UNCHANGED <<running, inbox>>
    PROVE  CopiesAreDistinct' /\ Flying' = Flying \cup {c} /\ InFlight' = InFlight \cup {c.job}
<1>0. PICK n : n = nextWorker
  OBVIOUS
<1>1. c # StopMsg /\ n \in Workers
  BY <1>0, CopiesAreNoStop DEF TypeOK
<1>2. workerBox \in [Workers -> Seq(Copies \cup {StopMsg})]
  BY DEF TypeOK
<1>3. c \notin Waiting \cup Running \cup Reported
  BY FlyingCopies
<1>4. /\ workerBox'[n] = Append(workerBox[n], c)
      /\ \A w \in Workers \ {n} : workerBox'[w] = workerBox[w]
  BY <1>0, <1>1, <1>2 DEF DispatchJob
<1>5. /\ InBox(workerBox'[n]) = InBox(workerBox[n]) \cup {c}
      /\ Distinct(workerBox'[n])
  BY <1>1, <1>2, <1>3, <1>4, AppendedCopies DEF CopiesAreDistinct, Waiting
<1>6. \A w \in Workers : c \notin InBox(workerBox[w])
  BY <1>3 DEF Waiting
<1>7. Running' = Running /\ Reported' = Reported /\ Busy' = Busy
  BY DEF Running, Reported, Busy
<1>8. Waiting' = Waiting \cup {c}
  BY <1>1, <1>4, <1>5 DEF Waiting
<1>9. CopiesAreDistinct'
  <2>1. \A w \in Workers : Distinct(workerBox'[w])
    BY <1>4, <1>5 DEF CopiesAreDistinct
  <2>2. \A v, w \in Workers :
            v # w => InBox(workerBox'[v]) \cap InBox(workerBox'[w]) = {}
    <3>1. ASSUME NEW v \in Workers, NEW w \in Workers, v # w
          PROVE  InBox(workerBox'[v]) \cap InBox(workerBox'[w]) = {}
      <4>1. InBox(workerBox[v]) \cap InBox(workerBox[w]) = {}
        BY <3>1 DEF CopiesAreDistinct
      <4>2. CASE v = n  BY <1>4, <1>5, <1>6, <3>1, <4>1, <4>2
      <4>3. CASE w = n  BY <1>4, <1>5, <1>6, <3>1, <4>1, <4>3
      <4>4. CASE v # n /\ w # n  BY <1>4, <4>1, <4>4
      <4> QED BY <4>2, <4>3, <4>4
    <3> QED BY <3>1
  <2>3. ASSUME NEW w \in Workers
        PROVE  /\ InBox(workerBox'[w]) \cap Running' = {}
               /\ InBox(workerBox'[w]) \cap Reported' = {}
    <3>1. InBox(workerBox'[w]) \subseteq InBox(workerBox[w]) \cup {c}
      BY <1>4, <1>5
    <3>2. InBox(workerBox[w]) \cap Running = {} /\ InBox(workerBox[w]) \cap Reported = {}
      BY DEF CopiesAreDistinct
    <3> QED BY <1>3, <1>7, <3>1, <3>2
  <2> QED BY <1>7, <2>1, <2>2, <2>3 DEF CopiesAreDistinct
<1>10. Flying' = Flying \cup {c}
  BY <1>7, <1>8, FlyingCopies, PlacesNext DEF PlacesOfCopies
<1> QED BY <1>9, <1>10 DEF InFlight

LEMMA NothingMovesDistinct ==
    ASSUME TypeOK, CopiesAreDistinct, UNCHANGED running, inbox'.results = inbox.results,
           \A w \in Workers : /\ InBox(workerBox'[w]) = InBox(workerBox[w])
                              /\ Distinct(workerBox'[w])
    PROVE  CopiesAreDistinct'
<1>1. Running' = Running /\ Reported' = Reported /\ Busy' = Busy
  BY DEF Running, Busy, Reported
<1> QED BY <1>1 DEF CopiesAreDistinct

\* The coordinator has let the workers finish with their mailboxes.
LEMMA BroadcastMoves ==
    ASSUME TypeOK, TypeOK', CopiesAreDistinct, ReceiveShutDownQueues
    PROVE  CopiesAreDistinct' /\ Flying' = Flying /\ InFlight' = InFlight
<1>1. UNCHANGED running /\ inbox'.results = inbox.results
  BY DEF ReceiveShutDownQueues, TypeOK, InboxType
<1>2. ASSUME NEW w \in Workers
      PROVE  /\ InBox(workerBox'[w]) = InBox(workerBox[w])
             /\ Distinct(workerBox'[w])
  <2>1. workerBox[w] \in Seq(Copies \cup {StopMsg})
        /\ workerBox'[w] = Append(workerBox[w], StopMsg)
    BY DEF ReceiveShutDownQueues, WithStop, TypeOK
  <2>2. StopMsg \notin InBox(workerBox[w]) /\ Distinct(workerBox[w])
    BY DEF InBox, CopiesAreDistinct
  <2>3. {StopMsg} \ {StopMsg} = {}
    OBVIOUS
  <2>4. /\ InBox(workerBox'[w]) = InBox(workerBox[w]) \cup ({StopMsg} \ {StopMsg})
        /\ Distinct(workerBox'[w])
    BY <2>1, <2>2, AppendedCopies
  <2> QED BY <2>3, <2>4
<1> QED BY <1>1, <1>2, NothingMoves, NothingMovesDistinct

LEMMA StopMoves ==
    ASSUME TypeOK, TypeOK', CopiesAreDistinct, NEW w \in Workers, StopWorker(w)
    PROVE  CopiesAreDistinct' /\ Flying' = Flying /\ InFlight' = InFlight
<1>1. /\ UNCHANGED running /\ inbox'.results = inbox.results
      /\ workerBox[w] \in Seq(Copies \cup {StopMsg}) /\ workerBox[w] # << >>
      /\ Head(workerBox[w]) = StopMsg /\ workerBox'[w] = Tail(workerBox[w])
      /\ \A v \in Workers : v # w => workerBox'[v] = workerBox[v]
  BY DEF StopWorker, WorkerReads, TypeOK, InboxType
<1>2. ASSUME NEW v \in Workers
      PROVE  /\ InBox(workerBox'[v]) = InBox(workerBox[v])
             /\ Distinct(workerBox'[v])
  <2>1. Distinct(workerBox[v]) /\ Distinct(workerBox[w])
    BY DEF CopiesAreDistinct
  <2>2. {StopMsg} \ {StopMsg} = {}
    OBVIOUS
  <2>3. CASE v = w
    <3>1. /\ InBox(workerBox[w]) = InBox(workerBox'[w]) \cup ({StopMsg} \ {StopMsg})
          /\ Distinct(workerBox'[w])
      BY <1>1, <2>1, TakenCopies
    <3> QED BY <2>2, <2>3, <3>1
  <2>4. CASE v # w  BY <1>1, <2>1, <2>4
  <2> QED BY <2>3, <2>4
<1> QED BY <1>1, <1>2, NothingMoves, NothingMovesDistinct

LEMMA StartMoves ==
    ASSUME TypeOK, TypeOK', CopiesAreDistinct, NEW w \in Workers, StartJob(w)
    PROVE  CopiesAreDistinct' /\ Flying' = Flying /\ InFlight' = InFlight
<1> DEFINE h == Head(workerBox[w])
<1>1. /\ workerBox[w] \in Seq(Copies \cup {StopMsg}) /\ workerBox[w] # << >>
      /\ h # StopMsg /\ workerBox'[w] = Tail(workerBox[w])
      /\ \A v \in Workers : v # w => workerBox'[v] = workerBox[v]
      /\ running[w] = NoCopy /\ running'[w] = h
      /\ \A v \in Workers : v # w => running'[v] = running[v]
      /\ inbox' = inbox
  BY DEF StartJob, WorkerReads, TypeOK
<1>2. h # NoCopy
  BY <1>1, CopiesAreNoStop
<1> HIDE DEF h
<1>3. /\ InBox(workerBox[w]) = InBox(workerBox'[w]) \cup {h}
      /\ h \notin InBox(workerBox'[w])
      /\ Distinct(workerBox'[w])
  BY <1>1, TakenCopies DEF CopiesAreDistinct, h
<1>4. \A v \in Workers : v # w => h \notin InBox(workerBox[v])
  BY <1>3 DEF CopiesAreDistinct
<1>5. Busy' = Busy \cup {w} /\ w \notin Busy /\ Reported' = Reported
  BY <1>1, <1>2 DEF Busy, Reported
<1>6. Running' = Running \cup {h}
  BY <1>1, <1>5 DEF Running, Busy
<1>7. Waiting = Waiting' \cup {h}
  <2>1. h \in InBox(workerBox[w])
    BY <1>3
  <2> QED BY <1>1, <1>3, <2>1 DEF Waiting
<1>8. h \notin Running /\ h \notin Reported
  BY <1>3 DEF CopiesAreDistinct
<1>9. CopiesAreDistinct'
  <2>1. \A v \in Workers : Distinct(workerBox'[v])
    BY <1>1, <1>3 DEF CopiesAreDistinct
  <2>2. \A v \in Workers : /\ InBox(workerBox'[v]) \subseteq InBox(workerBox[v])
                           /\ h \notin InBox(workerBox'[v])
    BY <1>1, <1>3, <1>4
  <2>3. \A u, v \in Workers :
            u # v => InBox(workerBox'[u]) \cap InBox(workerBox'[v]) = {}
    BY <2>2 DEF CopiesAreDistinct
  <2>4. ASSUME NEW v \in Workers
        PROVE  /\ InBox(workerBox'[v]) \cap Running' = {}
               /\ InBox(workerBox'[v]) \cap Reported' = {}
    BY <1>5, <1>6, <2>2 DEF CopiesAreDistinct
  <2>5. \A u, v \in Busy' : running'[u] = running'[v] => u = v
    BY <1>1, <1>5, <1>8 DEF CopiesAreDistinct, Running, Busy
  <2> QED BY <1>1, <1>5, <1>6, <1>8, <2>1, <2>3, <2>4, <2>5 DEF CopiesAreDistinct
<1>10. Flying' = Flying
  BY <1>5, <1>6, <1>7, FlyingCopies, PlacesNext DEF PlacesOfCopies
<1> QED BY <1>9, <1>10 DEF InFlight

\* A job that ends is reported, unless the coordinator has stopped.
LEMMA FinishMoves ==
    ASSUME TypeOK, TypeOK', CopiesAreDistinct, NEW w \in Workers, FinishJob(w)
    PROVE  /\ CopiesAreDistinct' /\ Flying' \subseteq Flying /\ InFlight' \subseteq InFlight
           /\ step # "stopped" => Flying' = Flying /\ InFlight' = InFlight
<1> DEFINE h == running[w]
<1>1. /\ h # NoCopy /\ running'[w] = NoCopy
      /\ \A v \in Workers : v # w => running'[v] = running[v]
      /\ workerBox' = workerBox
  BY DEF FinishJob, TypeOK
<1>2. PICK ok \in BOOLEAN :
          inbox'.results = IF step = "stopped" THEN inbox.results
                           ELSE Append(inbox.results, Result(h, ok))
  BY DEF FinishJob, TypeOK, InboxType
<1> HIDE DEF h
<1>3. Busy' = Busy \ {w} /\ w \in Busy
  BY <1>1 DEF Busy, h
<1>4. h \in Running /\ h \notin Waiting /\ h \notin Reported
  <2>1. h \in Running
    BY <1>3 DEF Running, h
  <2> QED BY <2>1 DEF CopiesAreDistinct, Waiting
<1>5. Running' = Running \ {h}
  <2>1. \A v \in Busy \ {w} : running'[v] = running[v] /\ running[v] # h
    BY <1>1, <1>3 DEF CopiesAreDistinct, h, Busy
  <2> QED BY <1>3, <2>1 DEF Running, h
<1>6. /\ Reported' = IF step = "stopped" THEN Reported ELSE Reported \cup {h}
      /\ \A i, k \in 1..Len(inbox'.results) :
             inbox'.results[i].copy = inbox'.results[k].copy => i = k
  <2>1. Result(h, ok).copy = h
    BY DEF Result
  <2>2. CASE step = "stopped"  BY <1>2, <2>2 DEF Reported, CopiesAreDistinct
  <2>3. CASE step # "stopped"
    <3> DEFINE n == Len(inbox.results)
    <3>1. /\ n \in Nat /\ Len(inbox'.results) = n + 1
          /\ \A i \in 1..n : inbox'.results[i] = inbox.results[i]
          /\ inbox'.results[n + 1].copy = h
      BY <1>2, <2>1, <2>3, ResultsTyped, AppendedBox
    <3> HIDE DEF n
    <3>2. \A i : i \in 1..n + 1 <=> i \in 1..n \/ i = n + 1
      BY <3>1
    <3>3. \A i \in 1..n : inbox.results[i].copy # h
      BY <1>4 DEF Reported, n
    <3>4. Reported' = Reported \cup {h}
      BY <3>1, <3>2 DEF Reported, n
    <3>5. \A i, k \in 1..n : inbox.results[i].copy = inbox.results[k].copy => i = k
      BY DEF CopiesAreDistinct, n
    <3> QED BY <2>3, <3>1, <3>2, <3>3, <3>4, <3>5
  <2> QED BY <2>2, <2>3
<1>7. Waiting' = Waiting
  BY <1>1 DEF Waiting
<1>8. CopiesAreDistinct'
  <2>1. \A v \in Workers : InBox(workerBox'[v]) \subseteq Waiting
    BY <1>1 DEF Waiting
  <2>2. ASSUME NEW v \in Workers
        PROVE  /\ InBox(workerBox'[v]) \cap Running' = {}
               /\ InBox(workerBox'[v]) \cap Reported' = {}
    BY <1>1, <1>4, <1>5, <1>6, <2>1 DEF CopiesAreDistinct
  <2>3. \A u, v \in Busy' : running'[u] = running'[v] => u = v
    BY <1>1, <1>3 DEF CopiesAreDistinct, Busy
  <2>4. Running' \cap Reported' = {}
    BY <1>5, <1>6 DEF CopiesAreDistinct
  <2> QED BY <1>1, <1>6, <2>2, <2>3, <2>4 DEF CopiesAreDistinct
<1>9. Flying = Waiting \cup Running \cup Reported
      /\ Flying' = Waiting' \cup Running' \cup Reported'
  BY FlyingCopies, PlacesNext DEF PlacesOfCopies
<1>10. Flying' \subseteq Flying /\ (step # "stopped" => Flying' = Flying)
  BY <1>4, <1>5, <1>6, <1>7, <1>9
<1> QED BY <1>8, <1>10 DEF InFlight

LEMMA ResultMoves ==
    ASSUME TypeOK, TypeOK', CopiesAreDistinct, NEW i \in 1..Len(inbox.results),
           ReceiveResult(i), NEW c, c = inbox.results[i].copy
    PROVE  /\ CopiesAreDistinct' /\ c \in Flying /\ Flying' = Flying \ {c}
           /\ c \in Copies /\ c.job \in InFlight
           /\ OneCopy => InFlight' = InFlight \ {c.job}
<1> DEFINE n == Len(inbox.results)
<1>1. /\ UNCHANGED <<workerBox, running>>
      /\ inbox'.results = RemoveAt(inbox.results, i)
  BY DEF ReceiveResult, workers, TypeOK, InboxType
<1>2. Waiting' = Waiting /\ Running' = Running /\ Busy' = Busy
  BY <1>1 DEF Waiting, Running, Busy
<1>3. /\ n \in Nat \ {0} /\ i \in 1..n /\ Len(inbox'.results) = n - 1
      /\ \A k \in 1..n - 1 : inbox'.results[k] = inbox.results[Before(i, k)]
  BY <1>1, ResultsTyped, RemovedResult
<1>4. \A k, l \in 1..n : inbox.results[k].copy = inbox.results[l].copy => k = l
  BY DEF CopiesAreDistinct
<1> HIDE DEF n
<1>5. /\ \A k \in 1..n - 1 : Before(i, k) \in 1..n /\ Before(i, k) # i
      /\ \A k, l \in 1..n - 1 : Before(i, k) = Before(i, l) => k = l
      /\ \A m \in 1..n : m # i => \E k \in 1..n - 1 : Before(i, k) = m
  <2>1. \A k \in 1..n - 1 : Before(i, k) \in 1..n /\ Before(i, k) # i
    BY <1>3 DEF Before
  <2>2. \A k, l \in 1..n - 1 : Before(i, k) = Before(i, l) => k = l
    BY <1>3 DEF Before
  <2>3. ASSUME NEW m \in 1..n, m # i PROVE \E k \in 1..n - 1 : Before(i, k) = m
    <3>1. CASE m < i
      <4>1. m \in 1..n - 1 /\ Before(i, m) = m
        BY <1>3, <3>1 DEF Before
      <4> QED BY <4>1
    <3>2. CASE ~(m < i)
      <4>1. m - 1 \in 1..n - 1 /\ ~(m - 1 < i) /\ (m - 1) + 1 = m
        BY <1>3, <2>3, <3>2
      <4>2. Before(i, m - 1) = m
        BY <4>1 DEF Before
      <4> QED BY <4>1, <4>2
    <3> QED BY <3>1, <3>2
  <2> QED BY <2>1, <2>2, <2>3
<1>6. Reported' = Reported \ {c} /\ c \in Reported
  <2>1. /\ \A x : x \in Reported <=> \E k \in 1..n : x = inbox.results[k].copy
        /\ \A x : x \in Reported' <=> \E k \in 1..n - 1 : x = inbox'.results[k].copy
    BY <1>3 DEF Reported, n
  <2>2. ASSUME NEW x \in Reported' PROVE x \in Reported \ {c}
    <3>1. PICK k \in 1..n - 1 : x = inbox'.results[k].copy
      BY <2>1
    <3>2. Before(i, k) \in 1..n /\ Before(i, k) # i /\ x = inbox.results[Before(i, k)].copy
      BY <1>3, <1>5, <3>1
    <3> QED BY <1>3, <1>4, <2>1, <3>2
  <2>3. ASSUME NEW x \in Reported \ {c} PROVE x \in Reported'
    <3>1. PICK m \in 1..n : x = inbox.results[m].copy
      BY <2>1
    <3>2. PICK k \in 1..n - 1 : Before(i, k) = m
      BY <1>5, <2>3, <3>1
    <3>3. x = inbox'.results[k].copy
      BY <1>3, <3>1, <3>2
    <3> QED BY <2>1, <3>3
  <2> QED BY <1>3, <2>1, <2>2, <2>3
<1>7. c \notin Waiting /\ c \notin Running
  BY <1>6 DEF Waiting, CopiesAreDistinct
<1>8. CopiesAreDistinct'
  <2>1. ASSUME NEW k \in 1..n - 1, NEW l \in 1..n - 1,
               inbox'.results[k].copy = inbox'.results[l].copy
        PROVE  k = l
    <3>1. inbox.results[Before(i, k)].copy = inbox.results[Before(i, l)].copy
      BY <1>3, <2>1
    <3> QED BY <1>4, <1>5, <3>1
  <2>2. \A k, l \in 1..Len(inbox'.results) :
            inbox'.results[k].copy = inbox'.results[l].copy => k = l
    BY <1>3, <2>1
  <2>3. /\ \A v, w \in Busy' : running'[v] = running'[w] => v = w
        /\ Running' \cap Reported' = {}
    BY <1>1, <1>2, <1>6 DEF CopiesAreDistinct
  <2>4. \A w \in Workers : /\ InBox(workerBox'[w]) \cap Running' = {}
                           /\ InBox(workerBox'[w]) \cap Reported' = {}
    BY <1>1, <1>2, <1>6 DEF CopiesAreDistinct
  <2>5. /\ \A w \in Workers : Distinct(workerBox'[w])
        /\ \A v, w \in Workers : v # w => InBox(workerBox'[v]) \cap InBox(workerBox'[w]) = {}
    BY <1>1 DEF CopiesAreDistinct
  <2> QED BY <2>2, <2>3, <2>4, <2>5 DEF CopiesAreDistinct
<1>9. /\ Flying = Waiting \cup Running \cup Reported /\ Flying \subseteq Copies
      /\ Flying' = Waiting' \cup Running' \cup Reported'
  BY FlyingCopies, PlacesNext DEF PlacesOfCopies
<1>10. c \in Flying /\ Flying' = Flying \ {c}
  BY <1>2, <1>6, <1>7, <1>9
<1>11. OneCopy => InFlight' = InFlight \ {c.job}
  BY <1>10 DEF InFlight, OneCopy
<1> QED BY <1>8, <1>9, <1>10, <1>11 DEF InFlight

LEMMA PoisonMoves ==
    ASSUME TypeOK, TypeOK', CopiesAreDistinct, ReceivePoisonPill
    PROVE  CopiesAreDistinct' /\ Flying' \subseteq Flying /\ InFlight' \subseteq InFlight
<1>1. UNCHANGED running /\ inbox'.results = << >>
      /\ \A w \in Workers : workerBox'[w] = << >>
  BY DEF ReceivePoisonPill, EmptyInbox
<1>2. \A w \in Workers : InBox(workerBox'[w]) = {} /\ Distinct(workerBox'[w])
  BY <1>1 DEF InBox, Distinct
<1>3. Running' = Running /\ Busy' = Busy /\ Reported' = {} /\ Waiting' = {}
  BY <1>1, <1>2 DEF Running, Busy, Reported, Waiting
<1>4. CopiesAreDistinct'
  <2>1. \A i : i \notin 1..Len(inbox'.results)
    BY <1>1
  <2>2. \A v, w \in Busy' : running'[v] = running'[w] => v = w
    BY <1>1, <1>3 DEF CopiesAreDistinct
  <2> QED BY <1>2, <1>3, <2>1, <2>2 DEF CopiesAreDistinct
<1>5. Flying' \subseteq Flying
  BY <1>3, FlyingCopies, PlacesNext DEF PlacesOfCopies
<1> QED BY <1>4, <1>5 DEF InFlight

----------------------------------------------------------------------------
(* The layer actor's mailbox *)

Outcomes == {"Success", "Failed", "Retry"}

\* A write of that kind, about that job, waits in the mailbox.
Sent(box, op, j) == \E i \in 1..Len(box) : box[i] = Msg(op, j)

SentAbout(box, j) == \E op \in WriteOps : Sent(box, op, j)

Ended(box, j) == \E op \in Outcomes : Sent(box, op, j)

\* The first write about a fetched job: that it is in progress, or that it has
\* failed for want of its type.
Opening(m) == m.op = "InProgress" \/ (m.op = "Failed" /\ m.job \in Unresolvable)

Opened(box, j) ==
    Sent(box, "InProgress", j) \/ (j \in Unresolvable /\ Sent(box, "Failed", j))

\* A fetch waits in the mailbox.
Asked(box) == \E i \in 1..Len(box) : box[i].op = "GetJobs"

\* The only two writes about one job are that it is in progress and, behind
\* that, its outcome; and no job is sent out behind a fetch that is still unread.
InOrder(box) ==
    \A i, k \in 1..Len(box) : i < k =>
        /\ box[i].job = box[k].job /\ box[k].job \in Jobs =>
               box[i].op = "InProgress" /\ box[k].op \in Outcomes
        /\ box[i].op = "GetJobs" => ~Opening(box[k])

LEMMA Messages ==
    /\ \A op, o, j, k : Msg(op, j) = Msg(o, k) <=> op = o /\ j = k
    /\ \A op, j : Msg(op, j).op = op /\ Msg(op, j).job = j
    /\ \A m \in LayerMsg : m.job \in Jobs <=> m.op \in WriteOps
    /\ \A m \in LayerMsg : m = Msg(m.op, m.job)
    /\ GetJobsMsg.op = "GetJobs" /\ FlushMsg.op # "GetJobs"
    /\ GetJobsMsg.op \notin WriteOps /\ FlushMsg.op \notin WriteOps
<1>1. /\ \A op, o, j, k : Msg(op, j) = Msg(o, k) <=> op = o /\ j = k
      /\ \A op, j : Msg(op, j).op = op /\ Msg(op, j).job = j
  BY DEF Msg
<1>2. /\ GetJobsMsg.op \notin WriteOps /\ FlushMsg.op \notin WriteOps
      /\ GetJobsMsg.job \notin Jobs /\ FlushMsg.job \notin Jobs
      /\ GetJobsMsg.op = "GetJobs" /\ FlushMsg.op # "GetJobs"
  BY CoordinatorAssumption DEF GetJobsMsg, FlushMsg, Msg, WriteOps
<1>3. \A m \in [op : WriteOps, job : Jobs] :
          m.job \in Jobs /\ m.op \in WriteOps /\ m = Msg(m.op, m.job)
  BY DEF Msg
<1>4. GetJobsMsg = Msg(GetJobsMsg.op, GetJobsMsg.job)
      /\ FlushMsg = Msg(FlushMsg.op, FlushMsg.job)
  BY DEF GetJobsMsg, FlushMsg, Msg
<1> QED BY <1>1, <1>2, <1>3, <1>4 DEF LayerMsg

LEMMA AppendedMessage ==
    ASSUME NEW box \in Seq(LayerMsg), NEW m \in LayerMsg
    PROVE  /\ \A op, j : Sent(Append(box, m), op, j) <=> Sent(box, op, j) \/ m = Msg(op, j)
           /\ Asked(Append(box, m)) <=> Asked(box) \/ m.op = "GetJobs"
           /\ ( /\ InOrder(box)
                /\ \/ m.job \notin Jobs
                   \/ ~SentAbout(box, m.job)
                   \/ m.op \in Outcomes /\ ~Ended(box, m.job)
                /\ ~Opening(m) \/ ~Asked(box) ) => InOrder(Append(box, m))
<1> DEFINE n == Len(box)
           longer == Append(box, m)
<1>1. /\ Len(longer) = n + 1 /\ n \in Nat
      /\ \A i \in 1..n : longer[i] = box[i]
      /\ longer[n + 1] = m
  BY AppendedBox
<1>2. \A i \in 1..n : box[i] \in LayerMsg
  OBVIOUS
<1> HIDE DEF longer
<1>3. /\ \A i \in 1..n + 1 : i \in 1..n \/ i = n + 1
      /\ \A i \in 1..n : i \in 1..n + 1
      /\ n + 1 \in 1..n + 1
  BY <1>1
<1>4. ASSUME NEW op, NEW j
      PROVE  Sent(longer, op, j) <=> Sent(box, op, j) \/ m = Msg(op, j)
  BY <1>1, <1>3 DEF Sent
<1>5. Asked(longer) <=> Asked(box) \/ m.op = "GetJobs"
  BY <1>1, <1>3 DEF Asked
<1>6. ASSUME InOrder(box),
             \/ m.job \notin Jobs
             \/ ~SentAbout(box, m.job)
             \/ m.op \in Outcomes /\ ~Ended(box, m.job),
             ~Opening(m) \/ ~Asked(box)
      PROVE  InOrder(longer)
  <2> SUFFICES ASSUME NEW i \in 1..n + 1, NEW k \in 1..n + 1, i < k
               PROVE  /\ longer[i].job = longer[k].job /\ longer[k].job \in Jobs =>
                             longer[i].op = "InProgress" /\ longer[k].op \in Outcomes
                      /\ longer[i].op = "GetJobs" => ~Opening(longer[k])
    BY <1>1 DEF InOrder
  <2>1. i \in 1..n /\ longer[i] = box[i]
    BY <1>1
  <2>2. CASE k \in 1..n
    BY <1>1, <1>6, <2>1, <2>2 DEF InOrder
  <2>3. CASE k = n + 1
    <3>1. longer[k] = m
      BY <1>1, <2>3
    <3>2. ASSUME box[i].job = m.job, m.job \in Jobs
          PROVE  box[i].op = "InProgress" /\ m.op \in Outcomes
      <4>1. box[i].op \in WriteOps /\ box[i] = Msg(box[i].op, m.job)
        BY <1>2, <2>1, <3>2, Messages
      <4>2. SentAbout(box, m.job)
        BY <2>1, <4>1 DEF SentAbout, Sent
      <4>3. m.op \in Outcomes /\ ~Ended(box, m.job)
        BY <1>6, <3>2, <4>2
      <4>4. box[i].op \notin Outcomes
        BY <2>1, <4>1, <4>3 DEF Ended, Sent
      <4> QED BY <4>1, <4>3, <4>4 DEF WriteOps, Outcomes
    <3>3. box[i].op = "GetJobs" => ~Opening(m)
      BY <1>6, <2>1 DEF Asked
    <3> QED BY <2>1, <3>1, <3>2, <3>3
  <2> QED BY <1>1, <2>2, <2>3
<1> QED BY <1>4, <1>5, <1>6 DEF longer

LEMMA TakenMessage ==
    ASSUME NEW box \in Seq(LayerMsg), box # << >>
    PROVE  /\ InOrder(box) => InOrder(Tail(box))
           /\ \A op, j : Sent(box, op, j) <=> Sent(Tail(box), op, j) \/ Head(box) = Msg(op, j)
           /\ Asked(Tail(box)) => Asked(box)
           /\ InOrder(box) /\ Head(box).op \in WriteOps =>
                  ~Sent(Tail(box), Head(box).op, Head(box).job)
           /\ InOrder(box) /\ Head(box).op \in Outcomes =>
                  ~SentAbout(Tail(box), Head(box).job)
           /\ InOrder(box) /\ Head(box).op = "GetJobs" =>
                  \A j : ~Opened(Tail(box), j)
<1> DEFINE n == Len(box)
           rest == Tail(box)
<1>1. /\ n \in Nat \ {0} /\ Len(rest) = n - 1 /\ Head(box) = box[1]
      /\ \A i \in 1..n - 1 : rest[i] = box[i + 1]
  BY TakenBox
<1>2. \A i \in 1..n : box[i] \in LayerMsg
  OBVIOUS
<1> HIDE DEF rest
<1>a. /\ \A i \in 1..n - 1 : i + 1 \in 1..n /\ 1 < i + 1
      /\ \A i \in 1..n : i # 1 => i - 1 \in 1..n - 1 /\ (i - 1) + 1 = i
      /\ \A i, k \in 1..n - 1 : i < k => i + 1 < k + 1
      /\ 1 \in 1..n
  BY <1>1
<1>3. ASSUME InOrder(box) PROVE InOrder(rest)
  <2> SUFFICES ASSUME NEW i \in 1..n - 1, NEW k \in 1..n - 1, i < k
               PROVE  /\ rest[i].job = rest[k].job /\ rest[k].job \in Jobs =>
                             rest[i].op = "InProgress" /\ rest[k].op \in Outcomes
                      /\ rest[i].op = "GetJobs" => ~Opening(rest[k])
    BY <1>1 DEF InOrder
  <2>1. i + 1 \in 1..n /\ k + 1 \in 1..n /\ i + 1 < k + 1
        /\ rest[i] = box[i + 1] /\ rest[k] = box[k + 1]
    BY <1>1, <1>a
  <2> QED BY <1>3, <2>1 DEF InOrder
<1>4. ASSUME NEW op, NEW j
      PROVE  Sent(box, op, j) <=> Sent(rest, op, j) \/ box[1] = Msg(op, j)
  <2>1. ASSUME NEW i \in 1..n, box[i] = Msg(op, j), i # 1 PROVE Sent(rest, op, j)
    <3>1. i - 1 \in 1..Len(rest) /\ rest[i - 1] = box[i]
      BY <1>1, <1>a, <2>1
    <3> QED BY <2>1, <3>1 DEF Sent
  <2>2. ASSUME NEW i \in 1..n - 1, rest[i] = Msg(op, j) PROVE Sent(box, op, j)
    <3>1. i + 1 \in 1..n /\ box[i + 1] = rest[i]
      BY <1>1, <1>a
    <3> QED BY <2>2, <3>1 DEF Sent
  <2> QED BY <1>1, <1>a, <2>1, <2>2 DEF Sent
<1>5. ASSUME InOrder(box), box[1].op \in WriteOps, NEW op \in WriteOps,
             Sent(rest, op, box[1].job)
      PROVE  box[1].op = "InProgress" /\ op \in Outcomes
  <2>1. PICK i \in 1..n - 1 : rest[i] = Msg(op, box[1].job)
    BY <1>1, <1>5 DEF Sent
  <2>2. i + 1 \in 1..n /\ 1 \in 1..n /\ 1 < i + 1 /\ box[i + 1] = rest[i]
    BY <1>1, <1>a
  <2>3. box[1].job \in Jobs
    BY <1>2, <1>5, <2>2, Messages
  <2>4. box[i + 1].job = box[1].job /\ box[i + 1].op = op
    BY <2>1, <2>2, Messages
  <2> QED BY <1>5, <2>2, <2>3, <2>4 DEF InOrder
<1>6. Asked(rest) => Asked(box)
  BY <1>1, <1>a DEF Asked
<1>7. ASSUME InOrder(box), box[1].op = "GetJobs", NEW j, Opened(rest, j) PROVE FALSE
  <2>1. PICK i \in 1..n - 1 : rest[i] = Msg("InProgress", j)
                                  \/ (j \in Unresolvable /\ rest[i] = Msg("Failed", j))
    BY <1>1, <1>7 DEF Opened, Sent
  <2>2. Opening(rest[i])
    BY <2>1, Messages DEF Opening
  <2>3. i + 1 \in 1..n /\ 1 \in 1..n /\ 1 < i + 1 /\ box[i + 1] = rest[i]
    BY <1>1, <1>a
  <2> QED BY <1>7, <2>2, <2>3 DEF InOrder
<1>8. "InProgress" \notin Outcomes /\ Outcomes \subseteq WriteOps
  BY DEF Outcomes, WriteOps
<1> QED BY <1>1, <1>3, <1>4, <1>5, <1>6, <1>7, <1>8 DEF rest, SentAbout

----------------------------------------------------------------------------
(* Nothing in the node's hands is fetched again *)

ToSend == {c.job : c \in batch}

\* In the coordinator's hands, the workers', or the layer actor's.
Handled(j) == j \in ToSend \/ j \in InFlight \/ SentAbout(layerBox, j)

\* What keeps a job from being fetched, whatever its lease: the store knows that
\* it is in progress, or will before it reads the next fetch.
Guarded(j) == store[j].status = "InProgress" \/ j \in ToSend \/ Opened(layerBox, j)

HandsInvariant ==
    /\ CopiesAreDistinct
    /\ OneCopy
    /\ InOrder(layerBox)
    /\ step = "dispatching" => ~Asked(layerBox)
    /\ \A j \in ToSend : j \notin InFlight /\ ~SentAbout(layerBox, j)
    /\ \A j \in Jobs : Ended(layerBox, j) => j \notin InFlight
    /\ \A j \in Unresolvable : j \notin InFlight
    /\ step # "stopped" => \A j \in Jobs : Handled(j) => Guarded(j)

LEMMA ToSendJobs == TypeOK => ToSend \subseteq Jobs /\ batch \subseteq Copies
BY CopiesAreNoStop DEF TypeOK, ToSend

\* Most steps hand nothing on.
LEMMA HandsKept ==
    ASSUME TypeOK, TypeOK', HandsInvariant, CopiesAreDistinct',
           Flying' \subseteq Flying, InFlight' \subseteq InFlight,
           InOrder(layerBox'),
           \A op \in WriteOps, j \in Jobs : Sent(layerBox', op, j) => Sent(layerBox, op, j),
           batch' = batch,
           step' = "dispatching" => ~Asked(layerBox'),
           step' # "stopped" => step # "stopped",
           step' # "stopped" => \A j \in Jobs : Handled(j)' /\ Guarded(j) => Guarded(j)'
    PROVE  HandsInvariant'
<1>0. ToSend' = ToSend /\ ToSend \subseteq Jobs
  BY ToSendJobs DEF ToSend
<1>1. \A j \in Jobs : /\ SentAbout(layerBox', j) => SentAbout(layerBox, j)
                      /\ Ended(layerBox', j) => Ended(layerBox, j)
  BY DEF SentAbout, Ended, Outcomes, WriteOps
<1>2. \A j \in ToSend' : j \notin InFlight' /\ ~SentAbout(layerBox', j)
  BY <1>0, <1>1 DEF HandsInvariant
<1>3. \A j \in Jobs : Ended(layerBox', j) => j \notin InFlight'
  BY <1>1 DEF HandsInvariant
<1>4. step' # "stopped" => \A j \in Jobs : Handled(j)' => Guarded(j)'
  BY <1>0, <1>1 DEF HandsInvariant, Handled
<1>5. OneCopy' /\ \A j \in Unresolvable : j \notin InFlight'
  BY DEF HandsInvariant, OneCopy
<1> QED BY <1>2, <1>3, <1>4, <1>5 DEF HandsInvariant

\* The same for a step that leaves the layer actor's mailbox and the store alone.
LEMMA WorkersMove ==
    ASSUME TypeOK, TypeOK', HandsInvariant, CopiesAreDistinct',
           Flying' \subseteq Flying, InFlight' \subseteq InFlight,
           UNCHANGED <<layerBox, batch, store>>,
           step' = "dispatching" => step = "dispatching",
           step' # "stopped" => step # "stopped"
    PROVE  HandsInvariant'
BY HandsKept DEF HandsInvariant, Guarded, ToSend

LEMMA WorkersRest ==
    ASSUME TypeOK, TypeOK', CopiesAreDistinct, UNCHANGED workers,
           inbox'.results = inbox.results
    PROVE  CopiesAreDistinct' /\ Flying' = Flying /\ InFlight' = InFlight
BY NothingMoves, NothingMovesDistinct DEF workers, CopiesAreDistinct

\* One that sends or takes a message that is no write.
LEMMA OtherMessageSent ==
    ASSUME TypeOK, NEW m \in {GetJobsMsg, FlushMsg}, layerBox' = Append(layerBox, m)
    PROVE  /\ \A op \in WriteOps, j \in Jobs : Sent(layerBox', op, j) <=> Sent(layerBox, op, j)
           /\ \A j \in Jobs : Opened(layerBox', j) <=> Opened(layerBox, j)
           /\ InOrder(layerBox) => InOrder(layerBox')
<1>1. layerBox \in Seq(LayerMsg) /\ m \in LayerMsg /\ m.op \notin WriteOps /\ m.job \notin Jobs
  BY LayerMessages, Messages DEF TypeOK
<1>2. \A op, j : Sent(layerBox', op, j) <=> Sent(layerBox, op, j) \/ m = Msg(op, j)
  BY <1>1, AppendedMessage
<1>3. \A op \in WriteOps, j \in Jobs : Sent(layerBox', op, j) <=> Sent(layerBox, op, j)
  BY <1>1, <1>2, Messages
<1>4. ~Opening(m)
  BY <1>1 DEF Opening, WriteOps
<1>5. InOrder(layerBox) => InOrder(layerBox')
  BY <1>1, <1>4, AppendedMessage
<1> QED BY <1>3, <1>5 DEF Opened, WriteOps

LEMMA OtherMessageTaken ==
    ASSUME TypeOK, layerBox # << >>, Head(layerBox).op \notin WriteOps,
           layerBox' = Tail(layerBox)
    PROVE  /\ \A op \in WriteOps, j \in Jobs : Sent(layerBox', op, j) <=> Sent(layerBox, op, j)
           /\ \A j \in Jobs : Opened(layerBox', j) <=> Opened(layerBox, j)
<1>1. \A op \in WriteOps, j \in Jobs : Sent(layerBox', op, j) <=> Sent(layerBox, op, j)
  BY TakenMessage, Messages DEF TypeOK
<1> QED BY <1>1 DEF Opened, WriteOps

LEMMA ShellKeepsHands ==
    ASSUME TypeOK, TypeOK', HandsInvariant, ShellStep
    PROVE  HandsInvariant'
<1>1. /\ UNCHANGED <<coordinator, layerBox, workers, store>>
      /\ inbox'.results = inbox.results
  BY DEF ShellStep, Pulse, ShutDownQueue, SendPoisonPill, GiveUp, TypeOK, InboxType
<1> QED BY <1>1, WorkersRest, WorkersMove DEF HandsInvariant, coordinator

LEMMA SweepKeepsHands ==
    ASSUME TypeOK, TypeOK', HandsInvariant, NEW kind \in SweepKinds,
           Sweep(kind) \/ SweepSaturated(kind) \/ IgnoreSweep(kind)
    PROVE  HandsInvariant'
<1>1. /\ UNCHANGED <<batch, PendingItems, workers, store>>
      /\ inbox'.results = inbox.results /\ step # "stopped"
      /\ step' = "dispatching" => step = "dispatching" /\ layerBox' = layerBox
  BY DEF Sweep, SweepSaturated, IgnoreSweep, TakeSweep, Receiving, coordinator, TypeOK,
         InboxType, SweepKinds
<1>2. CopiesAreDistinct' /\ Flying' = Flying /\ InFlight' = InFlight
  BY <1>1, WorkersRest DEF HandsInvariant
<1>3. CASE layerBox' = layerBox
  BY <1>1, <1>2, <1>3, WorkersMove
<1>4. CASE layerBox' = Append(layerBox, GetJobsMsg)
  <2>1. /\ \A op \in WriteOps, j \in Jobs : Sent(layerBox', op, j) <=> Sent(layerBox, op, j)
        /\ \A j \in Jobs : Opened(layerBox', j) <=> Opened(layerBox, j)
        /\ InOrder(layerBox')
    BY <1>4, OtherMessageSent DEF HandsInvariant
  <2>2. \A j \in Jobs : Guarded(j) => Guarded(j)'
    BY <1>1, <2>1 DEF Guarded, ToSend
  <2>3. step' = "dispatching" => ~Asked(layerBox')
    BY <1>1 DEF HandsInvariant
  <2> QED BY <1>1, <1>2, <2>1, <2>2, <2>3, HandsKept
<1> QED BY <1>3, <1>4 DEF Sweep, SweepSaturated, IgnoreSweep

LEMMA StopsKeepHands ==
    ASSUME TypeOK, TypeOK', HandsInvariant,
           \/ AskTimesOut \/ ReceiveShutDownQueues
           \/ ReceiveQueueShutDown \/ ReceivePoisonPill
    PROVE  HandsInvariant'
<1>0. CopiesAreDistinct
  BY DEF HandsInvariant
<1>1. CASE AskTimesOut
  BY <1>0, <1>1, WorkersRest, WorkersMove DEF AskTimesOut
<1>2. CASE ReceiveShutDownQueues
  BY <1>0, <1>2, BroadcastMoves, WorkersMove DEF ReceiveShutDownQueues
<1>3. CASE ReceiveQueueShutDown
  <2>1. /\ UNCHANGED <<batch, PendingItems, workers, store>>
        /\ inbox'.results = inbox.results /\ step # "stopped"
        /\ step' # "dispatching"
    BY <1>3 DEF ReceiveQueueShutDown, Receiving, TypeOK, InboxType
  <2>2. CopiesAreDistinct' /\ Flying' = Flying /\ InFlight' = InFlight
    BY <1>0, <2>1, WorkersRest
  <2>3. CASE layerBox' = layerBox
    BY <2>1, <2>2, <2>3, WorkersMove
  <2>4. CASE layerBox' = Append(layerBox, FlushMsg)
    <3>1. /\ \A op \in WriteOps, j \in Jobs : Sent(layerBox', op, j) <=> Sent(layerBox, op, j)
          /\ \A j \in Jobs : Opened(layerBox', j) <=> Opened(layerBox, j)
          /\ InOrder(layerBox')
      BY <2>4, OtherMessageSent DEF HandsInvariant
    <3>2. \A j \in Jobs : Guarded(j) => Guarded(j)'
      BY <2>1, <3>1 DEF Guarded, ToSend
    <3> QED BY <2>1, <2>2, <3>1, <3>2, HandsKept
  <2> QED BY <1>3, <2>3, <2>4 DEF ReceiveQueueShutDown
<1>4. CASE ReceivePoisonPill
  <2>1. InOrder(layerBox') /\ \A op, j : ~Sent(layerBox', op, j)
    BY <1>4 DEF ReceivePoisonPill, InOrder, Sent
  <2>2. UNCHANGED <<batch, store>> /\ step' = "stopped"
    BY <1>4 DEF ReceivePoisonPill
  <2> QED BY <1>0, <1>4, <2>1, <2>2, PoisonMoves, HandsKept
<1> QED BY <1>1, <1>2, <1>3, <1>4

\* What is sent out leaves the batch.
LEMMA CopyLeavesBatch ==
    ASSUME TypeOK, HandsInvariant, NEW c \in batch, Dispatch(c)
    PROVE  /\ UNCHANGED <<inbox, running, store>> /\ step = "dispatching" /\ step' # "stopped"
           /\ batch' = batch \ {c} /\ ToSend' = ToSend \ {c.job} /\ c.job \in ToSend
           /\ layerBox \in Seq(LayerMsg) /\ ~Asked(layerBox)
           /\ c \in Copies /\ c.job \in Jobs
           /\ c.job \notin InFlight /\ c \notin Flying
           /\ \A op \in WriteOps : ~Sent(layerBox, op, c.job)
<1>1. /\ UNCHANGED <<inbox, running, store>> /\ step = "dispatching" /\ step' # "stopped"
      /\ batch' = batch \ {c} /\ layerBox \in Seq(LayerMsg)
      /\ c \in Copies /\ c.job \in Jobs
  BY CopiesAreNoStop DEF Dispatch, TypeOK
<1>2. c.job \in ToSend
  BY DEF ToSend
<1>3. ToSend' = ToSend \ {c.job}
  BY <1>1 DEF ToSend, HandsInvariant, OneCopy
<1>4. c.job \notin InFlight /\ ~SentAbout(layerBox, c.job) /\ ~Asked(layerBox)
  BY <1>1, <1>2 DEF HandsInvariant
<1>5. c \notin Flying
  BY <1>4 DEF InFlight
<1> QED BY <1>1, <1>2, <1>3, <1>4, <1>5 DEF SentAbout

LEMMA DispatchKeepsHands ==
    ASSUME TypeOK, TypeOK', HandsInvariant, NEW c \in batch, Dispatch(c)
    PROVE  HandsInvariant'
<1>0. PICK j : j = c.job
  OBVIOUS
<1>1. /\ UNCHANGED <<inbox, running, store>> /\ step # "stopped" /\ step' # "stopped"
      /\ batch' = batch \ {c} /\ ToSend' = ToSend \ {j} /\ j \in ToSend
      /\ layerBox \in Seq(LayerMsg) /\ ~Asked(layerBox)
      /\ c \in Copies /\ j \in Jobs
      /\ j \notin InFlight /\ c \notin Flying
      /\ \A op \in WriteOps : ~Sent(layerBox, op, j)
  BY <1>0, CopyLeavesBatch
<1>2. /\ ~SentAbout(layerBox, j) /\ ~Ended(layerBox, j) /\ Handled(j)
      /\ CopiesAreDistinct /\ OneCopy /\ InOrder(layerBox) /\ ToSend \subseteq Jobs
  BY <1>1, ToSendJobs DEF HandsInvariant, Handled, SentAbout, Ended, Outcomes, WriteOps
<1>3. ASSUME NEW op \in WriteOps, layerBox' = Append(layerBox, Msg(op, j)),
             op = "InProgress" \/ (op = "Failed" /\ j \in Unresolvable)
      PROVE  /\ InOrder(layerBox') /\ ~Asked(layerBox')
             /\ \A k \in Jobs \ {j} : /\ SentAbout(layerBox', k) <=> SentAbout(layerBox, k)
                                      /\ Ended(layerBox', k) <=> Ended(layerBox, k)
                                      /\ Opened(layerBox', k) <=> Opened(layerBox, k)
             /\ Ended(layerBox', j) => op \in Outcomes
             /\ Opened(layerBox', j)
  <2>1. Msg(op, j) \in LayerMsg /\ Msg(op, j).job = j /\ Msg(op, j).op = op
    BY <1>1, LayerMessages, Messages
  <2>2. op # "GetJobs"
    BY DEF WriteOps
  <2>3. InOrder(layerBox') /\ ~Asked(layerBox')
    BY <1>1, <1>2, <1>3, <2>1, <2>2, AppendedMessage
  <2>4. \A o, k : Sent(layerBox', o, k) <=> Sent(layerBox, o, k) \/ (op = o /\ j = k)
    BY <1>1, <1>3, <2>1, AppendedMessage, Messages
  <2> QED BY <1>2, <1>3, <2>3, <2>4 DEF SentAbout, Ended, Opened
<1>4. \A k \in Jobs \ {j} : store'[k].status = store[k].status /\ (k \in ToSend' <=> k \in ToSend)
  BY <1>1
<1>5. CASE j \in Unresolvable
  <2>1. layerBox' = Append(layerBox, Msg("Failed", j)) /\ UNCHANGED workers
    BY <1>0, <1>1, <1>5 DEF Dispatch, FailMissingType, workers
  <2>2. CopiesAreDistinct' /\ Flying' = Flying /\ InFlight' = InFlight
    BY <1>1, <1>2, <2>1, WorkersRest
  <2>3. /\ InOrder(layerBox') /\ ~Asked(layerBox')
        /\ \A k \in Jobs \ {j} : /\ SentAbout(layerBox', k) <=> SentAbout(layerBox, k)
                                 /\ Ended(layerBox', k) <=> Ended(layerBox, k)
                                 /\ Opened(layerBox', k) <=> Opened(layerBox, k)
        /\ Opened(layerBox', j)
    BY <1>3, <1>5, <2>1 DEF WriteOps
  <2>4. \A k \in Jobs : Handled(k)' => Guarded(k)'
    BY <1>1, <1>4, <2>2, <2>3 DEF HandsInvariant, Handled, Guarded
  <2>5. \A k \in Jobs : Ended(layerBox', k) => k \notin InFlight'
    BY <1>1, <2>2, <2>3 DEF HandsInvariant
  <2>6. \A k \in ToSend' : k \notin InFlight' /\ ~SentAbout(layerBox', k)
    BY <1>1, <1>2, <2>2, <2>3 DEF HandsInvariant
  <2>7. OneCopy' /\ \A k \in Unresolvable : k \notin InFlight'
    BY <1>1, <1>2, <2>2 DEF HandsInvariant, OneCopy
  <2> QED BY <2>2, <2>3, <2>4, <2>5, <2>6, <2>7 DEF HandsInvariant
<1>6. CASE j \notin Unresolvable
  <2>1. DispatchJob(c) /\ layerBox' = Append(layerBox, Msg("InProgress", j))
    BY <1>0, <1>6 DEF Dispatch, DispatchJob
  <2>2. CopiesAreDistinct' /\ Flying' = Flying \cup {c} /\ InFlight' = InFlight \cup {j}
    BY <1>0, <1>1, <1>2, <2>1, DispatchMoves
  <2>3. /\ InOrder(layerBox') /\ ~Asked(layerBox')
        /\ \A k \in Jobs \ {j} : /\ SentAbout(layerBox', k) <=> SentAbout(layerBox, k)
                                 /\ Ended(layerBox', k) <=> Ended(layerBox, k)
                                 /\ Opened(layerBox', k) <=> Opened(layerBox, k)
        /\ Opened(layerBox', j) /\ ~Ended(layerBox', j)
    BY <1>3, <2>1 DEF WriteOps, Outcomes
  <2>4. \A k \in Jobs : Handled(k)' => Guarded(k)'
    BY <1>1, <1>4, <2>2, <2>3 DEF HandsInvariant, Handled, Guarded
  <2>5. \A k \in Jobs : Ended(layerBox', k) => k \notin InFlight'
    BY <2>2, <2>3 DEF HandsInvariant
  <2>6. \A k \in ToSend' : k \notin InFlight' /\ ~SentAbout(layerBox', k)
    BY <1>1, <1>2, <2>2, <2>3 DEF HandsInvariant
  <2>7. OneCopy' /\ \A k \in Unresolvable : k \notin InFlight'
    BY <1>1, <1>2, <1>6, <2>2 DEF HandsInvariant, OneCopy
  <2> QED BY <2>2, <2>3, <2>4, <2>5, <2>6, <2>7 DEF HandsInvariant
<1> QED BY <1>5, <1>6

\* The outcome that a received result is written as.
LEMMA OutcomeSent ==
    ASSUME TypeOK, NEW i \in 1..Len(inbox.results), ReceiveResult(i),
           NEW c, c = inbox.results[i].copy, NEW op, op = OutcomeOp(inbox.results[i])
    PROVE  /\ UNCHANGED <<step, batch, store>> /\ step # "stopped" /\ step # "dispatching"
           /\ layerBox' = Append(layerBox, Msg(op, c.job))
           /\ layerBox \in Seq(LayerMsg) /\ Msg(op, c.job) \in LayerMsg
           /\ op \in Outcomes /\ op \in WriteOps /\ c.job \in Jobs
           /\ op = "Failed" => MaxRetries[c.job] <= c.retries
           /\ op = "Retry" => ~(MaxRetries[c.job] <= c.retries)
           /\ \A o, k : Sent(layerBox', o, k)
                            <=> Sent(layerBox, o, k) \/ (op = o /\ c.job = k)
<1>1. /\ UNCHANGED <<step, batch, store>> /\ step = "idle"
      /\ layerBox' = Append(layerBox, Msg(op, c.job))
      /\ layerBox \in Seq(LayerMsg)
  BY DEF ReceiveResult, Receiving, TypeOK
<1>2. /\ op \in Outcomes /\ op \in WriteOps
      /\ op = "Failed" => MaxRetries[c.job] <= c.retries
      /\ op = "Retry" => ~(MaxRetries[c.job] <= c.retries)
  BY DEF OutcomeOp, Outcomes, WriteOps, RetriesExhausted
<1>3. c.job \in Jobs
  BY ResultsTyped, CopiesAreNoStop
<1>4. Msg(op, c.job) \in LayerMsg
  BY <1>2, <1>3, LayerMessages
<1>5. \A o, k : Sent(layerBox', o, k) <=> Sent(layerBox, o, k) \/ (op = o /\ c.job = k)
  BY <1>1, <1>4, AppendedMessage, Messages
<1> QED BY <1>1, <1>2, <1>3, <1>4, <1>5

LEMMA ResultKeepsHands ==
    ASSUME TypeOK, TypeOK', HandsInvariant, NEW i \in 1..Len(inbox.results), ReceiveResult(i)
    PROVE  HandsInvariant'
<1>0. PICK c, op : c = inbox.results[i].copy /\ op = OutcomeOp(inbox.results[i])
  OBVIOUS
<1>a. PICK j : j = c.job
  OBVIOUS
<1>1. /\ UNCHANGED <<step, batch, store>> /\ step # "stopped" /\ step # "dispatching"
      /\ layerBox' = Append(layerBox, Msg(op, j))
      /\ layerBox \in Seq(LayerMsg) /\ Msg(op, j) \in LayerMsg
      /\ op \in Outcomes /\ op \in WriteOps /\ j \in Jobs
      /\ \A o, k : Sent(layerBox', o, k) <=> Sent(layerBox, o, k) \/ (op = o /\ j = k)
  BY <1>0, <1>a, OutcomeSent
<1>2. /\ CopiesAreDistinct' /\ Flying' = Flying \ {c} /\ InFlight' = InFlight \ {j}
      /\ j \in InFlight
  BY <1>0, <1>a, ResultMoves DEF HandsInvariant
<1>3. /\ ~Ended(layerBox, j) /\ j \notin ToSend /\ Handled(j) /\ j \notin Unresolvable
      /\ InOrder(layerBox) /\ OneCopy /\ ToSend' = ToSend /\ ToSend \subseteq Jobs
  BY <1>1, <1>2, ToSendJobs DEF HandsInvariant, Handled, ToSend
<1>4. ~Opening(Msg(op, j)) /\ Msg(op, j).job = j /\ Msg(op, j).op = op
  BY <1>1, <1>3, Messages DEF Opening, Outcomes
<1>5. InOrder(layerBox')
  BY <1>1, <1>3, <1>4, AppendedMessage
<1>6. /\ \A k \in Jobs \ {j} : /\ SentAbout(layerBox', k) <=> SentAbout(layerBox, k)
                               /\ Ended(layerBox', k) <=> Ended(layerBox, k)
      /\ \A k \in Jobs : Opened(layerBox, k) => Opened(layerBox', k)
  BY <1>1 DEF SentAbout, Ended, Opened
<1>7. \A k \in Jobs : (Handled(k)' => Handled(k)) /\ (Guarded(k) => Guarded(k)')
  BY <1>1, <1>2, <1>3, <1>6 DEF Handled, Guarded
<1>8. \A k \in Jobs : Ended(layerBox', k) => k \notin InFlight'
  BY <1>2, <1>6 DEF HandsInvariant
<1>9. \A k \in ToSend' : k \notin InFlight' /\ ~SentAbout(layerBox', k)
  BY <1>2, <1>3, <1>6 DEF HandsInvariant
<1>10. OneCopy' /\ \A k \in Unresolvable : k \notin InFlight'
  BY <1>1, <1>2, <1>3 DEF HandsInvariant, OneCopy
<1>11. \A k \in Jobs : Handled(k)' => Guarded(k)'
  BY <1>1, <1>7 DEF HandsInvariant
<1> QED BY <1>1, <1>2, <1>5, <1>8, <1>9, <1>10, <1>11 DEF HandsInvariant

\* What the layer actor does leaves the copies with the workers alone.
LEMMA LayerRests ==
    ASSUME TypeOK, TypeOK', HandsInvariant, StoppedIsEmpty, LayerStep
    PROVE  /\ layerBox \in Seq(LayerMsg) /\ layerBox # << >> /\ layerBox' = Tail(layerBox)
           /\ InOrder(layerBox')
           /\ \A op, j : Sent(layerBox', op, j) => Sent(layerBox, op, j)
           /\ Asked(layerBox') => Asked(layerBox)
           /\ CopiesAreDistinct' /\ Flying' = Flying /\ InFlight' = InFlight
           /\ PendingItems' = PendingItems
           /\ step # "stopped"
<1>1. /\ layerBox \in Seq(LayerMsg) /\ layerBox # << >> /\ layerBox' = Tail(layerBox)
      /\ UNCHANGED <<PendingItems, workers, inbox>>
  BY DEF LayerStep, LayerWrites, LayerDropsWrite, LayerAnswersGetJobs, LayerLosesGetJobs,
         LayerFlushes, LayerReads, coordinator, TypeOK
<1>2. /\ InOrder(layerBox') /\ \A op, j : Sent(layerBox', op, j) => Sent(layerBox, op, j)
      /\ Asked(layerBox') => Asked(layerBox)
  BY <1>1, TakenMessage DEF HandsInvariant
<1> QED BY <1>1, <1>2, WorkersRest DEF StoppedIsEmpty, HandsInvariant

\* The layer actor takes a write from its mailbox, for the store or for nothing.
LEMMA WriteTaken ==
    ASSUME TypeOK, HandsInvariant, layerBox # << >>, layerBox' = Tail(layerBox),
           NEW op \in WriteOps, Head(layerBox).op = op, NEW j, j = Head(layerBox).job
    PROVE  /\ j \in Jobs /\ Sent(layerBox, op, j)
           /\ \A o \in WriteOps, k \in Jobs :
                  Sent(layerBox', o, k) <=> Sent(layerBox, o, k) /\ ~(o = op /\ k = j)
           /\ \A k \in Jobs \ {j} : Opened(layerBox', k) <=> Opened(layerBox, k)
<1>1. layerBox \in Seq(LayerMsg)
  BY DEF TypeOK
<1>2. Head(layerBox) = Msg(op, j) /\ j \in Jobs
  BY <1>1, LayerMailbox, Messages
<1>3. Sent(layerBox, op, j) /\ ~Sent(layerBox', op, j)
  BY <1>1, <1>2, TakenMessage DEF HandsInvariant
<1>4. ASSUME NEW o \in WriteOps, NEW k \in Jobs
      PROVE  Sent(layerBox', o, k) <=> Sent(layerBox, o, k) /\ ~(o = op /\ k = j)
  <2>1. Sent(layerBox, o, k) <=> Sent(layerBox', o, k) \/ Msg(op, j) = Msg(o, k)
    BY <1>1, <1>2, TakenMessage
  <2> QED BY <1>3, <2>1, Messages
<1>5. \A k \in Jobs \ {j} : Opened(layerBox', k) <=> Opened(layerBox, k)
  BY <1>4 DEF Opened, WriteOps
<1> QED BY <1>2, <1>3, <1>4, <1>5

\* What a job has been through once its outcome is written, or is dropped.
LEMMA OutcomeIsTheLast ==
    ASSUME TypeOK, HandsInvariant, layerBox # << >>, layerBox' = Tail(layerBox),
           NEW op \in Outcomes, Head(layerBox).op = op, NEW j, j = Head(layerBox).job,
           batch' = batch, InFlight' = InFlight
    PROVE  Handled(j) /\ ~Handled(j)'
<1>1. layerBox \in Seq(LayerMsg) /\ op \in WriteOps
  BY DEF TypeOK, Outcomes, WriteOps
<1>2. j \in Jobs /\ Sent(layerBox, op, j)
  BY <1>1, WriteTaken
<1>3. j \notin ToSend /\ j \notin InFlight
  BY <1>1, <1>2 DEF HandsInvariant, SentAbout, Ended
<1>4. ~SentAbout(layerBox', j)
  BY <1>1, TakenMessage DEF HandsInvariant
<1> QED BY <1>1, <1>2, <1>3, <1>4 DEF Handled, SentAbout, ToSend

\* A fetch finds nothing that the node still has in hand, although the lease of
\* all of it may have run out: every job that was sent out before the fetch was
\* asked for has been marked before the fetch is read.
LEMMA FetchedIsNotHandled ==
    ASSUME TypeOK, HandsInvariant, step # "stopped", batch = {}, LayerReads("GetJobs"),
           NEW j \in Jobs, Fetchable(j)
    PROVE  ~Handled(j)
<1>1. layerBox \in Seq(LayerMsg) /\ layerBox # << >> /\ Head(layerBox).op = "GetJobs"
  BY DEF LayerReads, TypeOK
<1>2. ~Opened(Tail(layerBox), j)
  BY <1>1, TakenMessage DEF HandsInvariant
<1>3. \A op \in WriteOps : Head(layerBox) # Msg(op, j)
  BY <1>1, Messages DEF WriteOps
<1>4. ~Opened(layerBox, j)
  BY <1>1, <1>2, <1>3, TakenMessage DEF Opened, WriteOps
<1>5. ToSend = {}
  BY DEF ToSend
<1>6. store[j].status # "InProgress"
  BY DEF Fetchable
<1> QED BY <1>4, <1>5, <1>6 DEF HandsInvariant, Guarded

LEMMA LayerKeepsHands ==
    ASSUME TypeOK, TypeOK', HandsInvariant, ShutdownInvariant, LayerStep,
           "dropInProgress" \notin Faults
    PROVE  HandsInvariant'
<1>0. /\ store \in [Jobs -> Row] /\ step # "stopped"
      /\ layerBox # << >> /\ layerBox' = Tail(layerBox)
      /\ Asked(layerBox') => Asked(layerBox)
  BY LayerRests DEF TypeOK, ShutdownInvariant
<1>1. ASSUME UNCHANGED batch, step' = "dispatching" => step = "dispatching",
             \A j \in Jobs : Handled(j)' /\ Guarded(j) => Guarded(j)'
      PROVE  HandsInvariant'
  BY <1>0, <1>1, LayerRests, HandsKept DEF ShutdownInvariant, HandsInvariant
<1>2. CASE LayerWrites("InProgress")
  <2>0. PICK h : h = Head(layerBox).job
    OBVIOUS
  <2>1. UNCHANGED <<batch, step>> /\ Head(layerBox).op = "InProgress" /\ "InProgress" \in WriteOps
    BY <1>2 DEF LayerWrites, LayerReads, coordinator
  <2>2. /\ h \in Jobs
        /\ \A k \in Jobs \ {h} : Opened(layerBox', k) <=> Opened(layerBox, k)
    BY <1>0, <2>0, <2>1, WriteTaken
  <2>3. store'[h].status = "InProgress" /\ \A k \in Jobs \ {h} : store'[k] = store[k]
    BY <1>0, <1>2, <2>0, <2>2 DEF LayerWrites, Written, Row
  <2>4. \A j \in Jobs : Guarded(j) => Guarded(j)'
    BY <2>1, <2>2, <2>3 DEF Guarded, ToSend
  <2> QED BY <1>1, <2>1, <2>4
<1>3. ASSUME NEW op \in Outcomes, Head(layerBox).op = op, UNCHANGED <<batch, step>>,
             \A k \in Jobs : k # Head(layerBox).job => store'[k] = store[k]
      PROVE  HandsInvariant'
  <2>0. PICK h : h = Head(layerBox).job
    OBVIOUS
  <2>1. op \in WriteOps
    BY DEF Outcomes, WriteOps
  <2>2. InFlight' = InFlight
    BY LayerRests DEF ShutdownInvariant
  <2>3. ~Handled(h)'
    BY <1>0, <1>3, <2>0, <2>2, OutcomeIsTheLast
  <2>4. \A k \in Jobs \ {h} : Opened(layerBox', k) <=> Opened(layerBox, k)
    BY <1>0, <1>3, <2>0, <2>1, WriteTaken
  <2>5. \A j \in Jobs : Handled(j)' /\ Guarded(j) => Guarded(j)'
    BY <1>3, <2>0, <2>3, <2>4 DEF Guarded, ToSend
  <2> QED BY <1>1, <1>3, <2>5
<1>4. ASSUME NEW op \in Outcomes, LayerWrites(op) PROVE HandsInvariant'
  <2>1. /\ Head(layerBox).op = op /\ UNCHANGED <<batch, step>>
        /\ \A k \in Jobs : k # Head(layerBox).job => store'[k] = store[k]
    BY <1>0, <1>4 DEF LayerWrites, LayerReads, coordinator
  <2> QED BY <1>3, <2>1
<1>5. CASE LayerDropsWrite
  <2>1. Head(layerBox).op \in Outcomes /\ UNCHANGED <<batch, step, store>>
    BY <1>5 DEF LayerDropsWrite, LayerReads, WriteOps, Outcomes, coordinator
  <2> QED BY <1>3, <2>1
<1>6. ASSUME UNCHANGED batch, step' = "dispatching" => step = "dispatching",
             Head(layerBox).op \notin WriteOps,
             \A j \in Jobs : store'[j].status = store[j].status
      PROVE  HandsInvariant'
  <2>1. \A j \in Jobs : Opened(layerBox', j) <=> Opened(layerBox, j)
    BY <1>0, <1>6, OtherMessageTaken
  <2>2. \A j \in Jobs : Guarded(j) => Guarded(j)'
    BY <1>6, <2>1 DEF Guarded, ToSend
  <2> QED BY <1>1, <1>6, <2>2
<1>7. CASE LayerFlushes
  <2>1. /\ UNCHANGED <<batch, store>> /\ step' = "idle" /\ Head(layerBox).op \notin WriteOps
    BY <1>7 DEF LayerFlushes, LayerReads, WriteOps
  <2> QED BY <1>6, <2>1
<1>8. CASE LayerLosesGetJobs
  <2>1. PICK S : store' = Claimed(S)
    BY <1>8 DEF LayerLosesGetJobs
  <2>2. \A j \in Jobs : store'[j].status = store[j].status
    BY <1>0, <2>1 DEF Claimed, Row
  <2>3. UNCHANGED <<batch, step>> /\ Head(layerBox).op \notin WriteOps
    BY <1>8 DEF LayerLosesGetJobs, LayerReads, WriteOps, coordinator
  <2> QED BY <1>6, <2>2, <2>3
<1>9. CASE LayerAnswersGetJobs
  <2>1. PICK S \in Batches :
            store' = Claimed(S) /\ batch' = {CopyOf(j, store[j].retries) : j \in S}
    BY <1>9 DEF LayerAnswersGetJobs
  <2>2. /\ LayerReads("GetJobs") /\ step = "asking" /\ batch = {}
        /\ Head(layerBox).op \notin WriteOps
        /\ \A i \in 2..Len(layerBox) : layerBox[i].op # "GetJobs"
    BY <1>9 DEF LayerAnswersGetJobs, LayerReads, WriteOps, AskIsLive, ShutdownInvariant,
                NothingToSend
  <2>3. S \subseteq Jobs /\ \A j \in S : ~Handled(j)
    BY <1>0, <2>1, <2>2, FetchedIsNotHandled DEF Batches
  <2>4. /\ \A c \in batch' : c.job \in S
        /\ \A c, d \in batch' : c.job = d.job => c = d
        /\ ToSend' = S
    <3>1. \A x : x \in batch' <=> \E j \in S : x = CopyOf(j, store[j].retries)
      BY <2>1
    <3>2. \A j \in S : CopyOf(j, store[j].retries).job = j
      BY DEF CopyOf
    <3>3. \A c \in batch' : c.job \in S /\ c = CopyOf(c.job, store[c.job].retries)
      BY <3>1, <3>2
    <3>4. \A j \in S : \E c \in batch' : c.job = j
      BY <3>1, <3>2
    <3>5. \A x : x \in ToSend' <=> \E c \in batch' : x = c.job
      BY DEF ToSend
    <3> QED BY <3>3, <3>4, <3>5
  <2>5. /\ \A op \in WriteOps, j \in Jobs : Sent(layerBox', op, j) <=> Sent(layerBox, op, j)
        /\ \A j \in Jobs : Opened(layerBox', j) <=> Opened(layerBox, j)
    BY <1>0, <2>2, OtherMessageTaken
  <2>6. \A j \in Jobs : /\ SentAbout(layerBox', j) <=> SentAbout(layerBox, j)
                        /\ Ended(layerBox', j) <=> Ended(layerBox, j)
    BY <2>5 DEF SentAbout, Ended, Outcomes, WriteOps
  <2>7. CopiesAreDistinct' /\ Flying' = Flying /\ InFlight' = InFlight /\ InOrder(layerBox')
    BY LayerRests DEF ShutdownInvariant
  <2>8. OneCopy'
    <3>1. \A c \in Flying : c.job \notin S
      BY <2>3 DEF Handled, InFlight
    <3> QED BY <2>4, <2>7, <3>1 DEF OneCopy, HandsInvariant
  <2>9. ~Asked(layerBox')
    <3>1. /\ Len(layerBox) \in Nat /\ Len(layerBox') = Len(layerBox) - 1
          /\ \A i \in 1..Len(layerBox) - 1 : layerBox'[i] = layerBox[i + 1]
      BY <1>0, TakenBox DEF TypeOK
    <3>2. \A i \in 1..Len(layerBox) - 1 : i + 1 \in 2..Len(layerBox)
      BY <3>1
    <3> QED BY <2>2, <3>1, <3>2 DEF Asked
  <2>10. \A j \in Jobs : store'[j].status = store[j].status
    BY <1>0, <2>1 DEF Claimed, Row
  <2>11. \A j \in Jobs : Handled(j)' => Guarded(j)'
    <3> SUFFICES ASSUME NEW j \in Jobs, Handled(j)', j \notin ToSend' PROVE Guarded(j)'
      BY DEF Guarded
    <3>1. Handled(j)
      BY <2>6, <2>7 DEF Handled
    <3>2. Guarded(j) /\ j \notin ToSend
      BY <1>0, <2>2, <3>1 DEF HandsInvariant, ToSend
    <3> QED BY <2>5, <2>10, <3>2 DEF Guarded
  <2>12. \A j \in ToSend' : j \notin InFlight' /\ ~SentAbout(layerBox', j)
    BY <2>3, <2>4, <2>6, <2>7 DEF Handled
  <2>13. /\ \A j \in Jobs : Ended(layerBox', j) => j \notin InFlight'
         /\ \A j \in Unresolvable : j \notin InFlight'
    BY <2>6, <2>7 DEF HandsInvariant
  <2> QED BY <2>7, <2>8, <2>9, <2>11, <2>12, <2>13 DEF HandsInvariant
<1> QED BY <1>2, <1>4, <1>5, <1>7, <1>8, <1>9 DEF LayerStep, WriteOps, Outcomes

LEMMA LeaseKeepsHands ==
    ASSUME TypeOK, TypeOK', HandsInvariant, NEW j \in Jobs, LeaseExpires(j)
    PROVE  HandsInvariant'
<1>1. /\ UNCHANGED <<step, batch, PendingItems, inbox, workers, layerBox>>
      /\ \A k \in Jobs : store'[k].status = store[k].status
  BY DEF LeaseExpires, coordinator, TypeOK, Row
<1>2. CopiesAreDistinct' /\ Flying' = Flying /\ InFlight' = InFlight
  BY <1>1, WorkersRest DEF HandsInvariant
<1>3. \A k \in Jobs : Guarded(k) => Guarded(k)'
  BY <1>1 DEF Guarded, ToSend
<1> QED BY <1>1, <1>2, <1>3, HandsKept DEF HandsInvariant

LEMMA WorkerKeepsHands ==
    ASSUME TypeOK, TypeOK', HandsInvariant, NEW w \in Workers, WorkerStep(w)
    PROVE  HandsInvariant'
<1>1. UNCHANGED <<step, batch, layerBox, store>>
  BY DEF WorkerStep, StartJob, FinishJob, StopWorker, coordinator
<1>2. CopiesAreDistinct
  BY DEF HandsInvariant
<1>3. CopiesAreDistinct' /\ Flying' \subseteq Flying /\ InFlight' \subseteq InFlight
  BY <1>2, StartMoves, FinishMoves, StopMoves DEF WorkerStep
<1> QED BY <1>1, <1>3, WorkersMove

LEMMA NothingFlies ==
    ASSUME Init
    PROVE  Flying = {} /\ InFlight = {} /\ CopiesAreDistinct
<1>1. \A w \in Workers : /\ InBox(workerBox[w]) = {} /\ Distinct(workerBox[w])
                         /\ JobsWaiting(w) = {} /\ running[w] = NoCopy
  BY DEF Init, InBox, Distinct, JobsWaiting
<1>2. Busy = {} /\ Queued = {}
  BY <1>1 DEF Busy, Queued
<1>3. \A i : i \notin 1..Len(inbox.results)
  BY DEF Init, EmptyInbox
<1>4. Running = {} /\ Reported = {} /\ Flying = {}
  BY <1>2, <1>3 DEF Running, Reported, Flying
<1> QED BY <1>1, <1>2, <1>3, <1>4 DEF CopiesAreDistinct, InFlight

LEMMA HandsInvariance ==
    ASSUME "dropInProgress" \notin Faults
    PROVE  Spec => []HandsInvariant
<1>1. Init => HandsInvariant
  <2> SUFFICES ASSUME Init PROVE HandsInvariant
    OBVIOUS
  <2>1. InOrder(layerBox) /\ ~Asked(layerBox) /\ \A op, j : ~Sent(layerBox, op, j)
    BY DEF Init, InOrder, Sent, Asked
  <2>2. batch = {} /\ ToSend = {}
    BY DEF Init, ToSend
  <2> QED BY <2>1, <2>2, NothingFlies DEF HandsInvariant, Handled, SentAbout, Ended, OneCopy
<1>2. TypeOK /\ TypeOK' /\ ShutdownInvariant /\ HandsInvariant /\ [Next]_vars
          => HandsInvariant'
  <2> SUFFICES ASSUME TypeOK, TypeOK', ShutdownInvariant, HandsInvariant, [Next]_vars
               PROVE  HandsInvariant'
    OBVIOUS
  <2>1. CASE CoordinatorStep
    BY <2>1, SweepKeepsHands, StopsKeepHands, DispatchKeepsHands, ResultKeepsHands
       DEF CoordinatorStep
  <2>2. CASE LayerStep
    BY <2>2, LayerKeepsHands
  <2>3. CASE UNCHANGED vars
    <3>1. UNCHANGED <<step, batch, inbox, workers, layerBox, store>>
      BY <2>3 DEF vars, coordinator
    <3>2. CopiesAreDistinct' /\ Flying' = Flying /\ InFlight' = InFlight
      BY <3>1, WorkersRest DEF HandsInvariant
    <3> QED BY <3>1, <3>2, WorkersMove
  <2> QED BY <2>1, <2>2, <2>3, ShellKeepsHands, LeaseKeepsHands, WorkerKeepsHands DEF Next
<1> QED BY <1>1, <1>2, TypeCorrect, ShutdownInvariance, PTL DEF Spec

\* No job is with the workers twice, for every number of workers and jobs: leases
\* may run out at any time, also under a job that waits or runs, and fetches and
\* the writes of outcomes may be lost.  Only a dropped MarkJobInProgress, after
\* which the store does not know what its lease no longer covers, is excluded.
THEOREM JobsAreOnce ==
    ASSUME "dropInProgress" \notin Faults
    PROVE  Spec => []NoJobTwice
<1>1. TypeOK /\ HandsInvariant => NoJobTwice
  BY JobsAreCounted DEF HandsInvariant
<1> QED BY <1>1, HandsInvariance, TypeCorrect, PTL

----------------------------------------------------------------------------
(* Every write finds the row that it is meant for, and no InProgress write is dropped *)

Fresh(j) == store[j].status \in {"New", "Retry"}

Begun(j) == Sent(layerBox, "InProgress", j)

\* What the row of a job is while the job and its writes are under way.
RowIsRight(j) ==
    /\ Begun(j) => Fresh(j) /\ (j \in InFlight \/ Ended(layerBox, j))
    /\ j \in InFlight /\ ~Begun(j) => store[j].status = "InProgress"
    /\ Ended(layerBox, j) /\ ~Begun(j) /\ j \notin Unresolvable =>
           store[j].status = "InProgress"
    /\ j \in ToSend => Fresh(j)
    /\ "dropOutcome" \notin Faults /\ store[j].status = "InProgress" =>
           j \in InFlight \/ Ended(layerBox, j)
    /\ store[j].status = "New" => store[j].retries = 0

\* Jobs whose type is not found are failed without being run.
RejectIsRight(j) ==
    j \in Unresolvable =>
        /\ store[j].status \in {"New", "Failed"}
        /\ ~Begun(j)
        /\ Ended(layerBox, j) => /\ store[j].status = "New"
                                 /\ ~Sent(layerBox, "Success", j)
                                 /\ ~Sent(layerBox, "Retry", j)

\* The count of retries is decided on a copy that is still right.
RetriesAreRight(j) ==
    /\ \A c \in batch \cup Flying : c.job = j => c.retries = store[j].retries
    /\ Sent(layerBox, "Failed", j) /\ j \notin Unresolvable =>
           MaxRetries[j] <= store[j].retries
    /\ Sent(layerBox, "Retry", j) => store[j].retries < MaxRetries[j]

JobIsRight(j) == RowIsRight(j) /\ RejectIsRight(j) /\ RetriesAreRight(j)

WritesInvariant == step # "stopped" => \A j \in Jobs : JobIsRight(j)

\* What a step does not touch of a job stays right.
LEMMA JobKept ==
    ASSUME NEW j \in Jobs, JobIsRight(j),
           j \in ToSend' <=> j \in ToSend,
           j \in InFlight' <=> j \in InFlight,
           \A c \in batch' \cup Flying' : c.job = j => c \in batch \cup Flying,
           \A op \in WriteOps : Sent(layerBox', op, j) <=> Sent(layerBox, op, j),
           store'[j].status = store[j].status, store'[j].retries = store[j].retries
    PROVE  JobIsRight(j)'
<1>1. /\ Begun(j)' <=> Begun(j)
      /\ Ended(layerBox', j) <=> Ended(layerBox, j)
      /\ Fresh(j)' <=> Fresh(j)
  BY DEF Begun, Ended, WriteOps, Outcomes, Fresh
<1>2. RowIsRight(j)'
  BY <1>1 DEF JobIsRight, RowIsRight
<1>3. RejectIsRight(j)'
  BY <1>1 DEF JobIsRight, RejectIsRight, WriteOps
<1>4. RetriesAreRight(j)'
  BY <1>1 DEF JobIsRight, RetriesAreRight, WriteOps
<1> QED BY <1>2, <1>3, <1>4 DEF JobIsRight

\* A step that hands nothing on and writes nothing.
LEMMA WritesKept ==
    ASSUME WritesInvariant, UNCHANGED <<batch, store>>,
           step' = "stopped" \/ (Flying' = Flying /\ InFlight' = InFlight),
           \/ step' = "stopped"
           \/ \A op \in WriteOps, j \in Jobs : Sent(layerBox', op, j) <=> Sent(layerBox, op, j),
           step' # "stopped" => step # "stopped"
    PROVE  WritesInvariant'
<1> SUFFICES ASSUME step' # "stopped", NEW j \in Jobs PROVE JobIsRight(j)'
  BY DEF WritesInvariant
<1>1. JobIsRight(j)
  BY DEF WritesInvariant
<1>2. j \in ToSend' <=> j \in ToSend
  BY DEF ToSend
<1> QED BY <1>1, <1>2, JobKept

LEMMA ShellKeepsWrites ==
    ASSUME TypeOK, TypeOK', HandsInvariant, WritesInvariant, ShellStep
    PROVE  WritesInvariant'
<1>1. /\ UNCHANGED <<coordinator, layerBox, workers, store>>
      /\ inbox'.results = inbox.results
  BY DEF ShellStep, Pulse, ShutDownQueue, SendPoisonPill, GiveUp, TypeOK, InboxType
<1> QED BY <1>1, WorkersRest, WritesKept DEF HandsInvariant, coordinator

LEMMA CoordinatorKeepsWrites ==
    ASSUME TypeOK, TypeOK', HandsInvariant, WritesInvariant,
           \/ \E kind \in SweepKinds : Sweep(kind) \/ SweepSaturated(kind) \/ IgnoreSweep(kind)
           \/ AskTimesOut \/ ReceiveShutDownQueues
           \/ ReceiveQueueShutDown \/ ReceivePoisonPill
    PROVE  WritesInvariant'
<1>0. CopiesAreDistinct
  BY DEF HandsInvariant
<1>1. CASE \E kind \in SweepKinds : Sweep(kind) \/ SweepSaturated(kind) \/ IgnoreSweep(kind)
  <2>1. /\ UNCHANGED <<batch, workers, store>>
        /\ inbox'.results = inbox.results /\ step # "stopped"
        /\ layerBox' = layerBox \/ layerBox' = Append(layerBox, GetJobsMsg)
    BY <1>1 DEF Sweep, SweepSaturated, IgnoreSweep, TakeSweep, Receiving, coordinator, TypeOK,
                InboxType, SweepKinds
  <2> QED BY <1>0, <2>1, WorkersRest, WritesKept, OtherMessageSent
<1>2. CASE AskTimesOut
  BY <1>0, <1>2, WorkersRest, WritesKept DEF AskTimesOut
<1>3. CASE ReceiveShutDownQueues
  BY <1>0, <1>3, BroadcastMoves, WritesKept DEF ReceiveShutDownQueues
<1>4. CASE ReceiveQueueShutDown
  <2>1. /\ UNCHANGED <<batch, workers, store>>
        /\ inbox'.results = inbox.results /\ step # "stopped"
        /\ layerBox' = layerBox \/ layerBox' = Append(layerBox, FlushMsg)
    BY <1>4 DEF ReceiveQueueShutDown, Receiving, TypeOK, InboxType
  <2> QED BY <1>0, <2>1, WorkersRest, WritesKept, OtherMessageSent
<1>5. CASE ReceivePoisonPill
  BY <1>5 DEF ReceivePoisonPill, WritesInvariant
<1> QED BY <1>1, <1>2, <1>3, <1>4, <1>5

LEMMA WorkerKeepsWrites ==
    ASSUME TypeOK, TypeOK', HandsInvariant, WritesInvariant,
           NEW w \in Workers, WorkerStep(w)
    PROVE  WritesInvariant'
<1>1. UNCHANGED <<step, batch, layerBox, store>>
  BY DEF WorkerStep, StartJob, FinishJob, StopWorker, coordinator
<1>2. CopiesAreDistinct
  BY DEF HandsInvariant
<1> QED BY <1>1, <1>2, StartMoves, FinishMoves, StopMoves, WritesKept DEF WorkerStep

LEMMA DispatchKeepsWrites ==
    ASSUME TypeOK, TypeOK', HandsInvariant, WritesInvariant, NEW c \in batch, Dispatch(c)
    PROVE  WritesInvariant'
<1>0. PICK j : j = c.job
  OBVIOUS
<1>1. /\ UNCHANGED <<inbox, running, store>> /\ step # "stopped"
      /\ batch' = batch \ {c} /\ ToSend' = ToSend \ {j} /\ j \in ToSend
      /\ layerBox \in Seq(LayerMsg)
      /\ c \in Copies /\ j \in Jobs /\ j \notin InFlight /\ c \notin Flying
      /\ \A op \in WriteOps : ~Sent(layerBox, op, j)
  BY <1>0, CopyLeavesBatch
<1>2. CopiesAreDistinct /\ \A k \in Jobs : JobIsRight(k)
  BY <1>1 DEF HandsInvariant, WritesInvariant
<1>3. ASSUME NEW op \in WriteOps, layerBox' = Append(layerBox, Msg(op, j)),
             NEW o, NEW k
      PROVE  Sent(layerBox', o, k) <=> Sent(layerBox, o, k) \/ (op = o /\ j = k)
  <2>1. Msg(op, j) \in LayerMsg
    BY <1>1, LayerMessages
  <2> QED BY <1>1, <1>3, <2>1, AppendedMessage, Messages
<1>4. ASSUME NEW op \in WriteOps, layerBox' = Append(layerBox, Msg(op, j)),
             InFlight' \subseteq InFlight \cup {j}, InFlight \subseteq InFlight',
             Flying' \subseteq Flying \cup {c},
             NEW k \in Jobs, k # j
      PROVE  JobIsRight(k)'
  <2>1. JobIsRight(k)
    BY <1>2
  <2>2. \A o \in WriteOps : Sent(layerBox', o, k) <=> Sent(layerBox, o, k)
    BY <1>3, <1>4
  <2>3. \A d \in batch' \cup Flying' : d.job = k => d \in batch \cup Flying
    BY <1>0, <1>1, <1>4
  <2> QED BY <1>1, <1>4, <2>1, <2>2, <2>3, JobKept
<1>5. Fresh(j) /\ JobIsRight(j)
  BY <1>1, <1>2 DEF JobIsRight, RowIsRight
<1>6. ASSUME Flying' \subseteq Flying \cup {c}
      PROVE  \A d \in batch' \cup Flying' : d.job = j => d.retries = store[j].retries
  <2>1. \A d \in batch \cup Flying : d.job = j => d.retries = store[j].retries
    BY <1>5 DEF JobIsRight, RetriesAreRight
  <2> QED BY <1>1, <1>6, <2>1
<1>7. CASE j \in Unresolvable
  <2>1. layerBox' = Append(layerBox, Msg("Failed", j)) /\ UNCHANGED workers
    BY <1>0, <1>1, <1>7 DEF Dispatch, FailMissingType, workers
  <2>2. InFlight' = InFlight /\ Flying' = Flying
    BY <1>1, <1>2, <2>1, WorkersRest
  <2>3. /\ ~Begun(j)' /\ Ended(layerBox', j)
        /\ ~Sent(layerBox', "Success", j) /\ ~Sent(layerBox', "Retry", j)
    BY <1>1, <1>3, <2>1 DEF Begun, Ended, WriteOps, Outcomes
  <2>4. store[j].status = "New"
    BY <1>5, <1>7 DEF JobIsRight, RejectIsRight, Fresh
  <2>5. RowIsRight(j)'
    BY <1>1, <1>5, <1>7, <2>2, <2>3, <2>4 DEF JobIsRight, RowIsRight, Fresh
  <2>6. RejectIsRight(j)'
    BY <1>1, <2>3, <2>4 DEF RejectIsRight
  <2>7. RetriesAreRight(j)'
    BY <1>1, <1>6, <1>7, <2>2, <2>3 DEF RetriesAreRight
  <2>8. JobIsRight(j)'
    BY <2>5, <2>6, <2>7 DEF JobIsRight
  <2> QED BY <1>4, <2>1, <2>2, <2>8 DEF WritesInvariant, WriteOps
<1>8. CASE j \notin Unresolvable
  <2>1. DispatchJob(c) /\ layerBox' = Append(layerBox, Msg("InProgress", j))
    BY <1>0, <1>8 DEF Dispatch, DispatchJob
  <2>2. InFlight' = InFlight \cup {j} /\ Flying' = Flying \cup {c}
    BY <1>0, <1>1, <1>2, <2>1, DispatchMoves
  <2>3. /\ Begun(j)' /\ ~Ended(layerBox', j)
        /\ ~Sent(layerBox', "Failed", j) /\ ~Sent(layerBox', "Retry", j)
    BY <1>1, <1>3, <2>1 DEF Begun, Ended, WriteOps, Outcomes
  <2>4. RowIsRight(j)'
    BY <1>1, <1>5, <2>2, <2>3 DEF JobIsRight, RowIsRight, Fresh
  <2>5. RejectIsRight(j)'
    BY <1>8 DEF RejectIsRight
  <2>6. RetriesAreRight(j)'
    BY <1>1, <1>6, <2>2, <2>3 DEF RetriesAreRight
  <2>7. JobIsRight(j)'
    BY <2>4, <2>5, <2>6 DEF JobIsRight
  <2> QED BY <1>4, <2>1, <2>2, <2>7 DEF WritesInvariant, WriteOps
<1> QED BY <1>7, <1>8

LEMMA ResultKeepsWrites ==
    ASSUME TypeOK, TypeOK', HandsInvariant, WritesInvariant,
           NEW i \in 1..Len(inbox.results), ReceiveResult(i)
    PROVE  WritesInvariant'
<1>0. PICK c, op : c = inbox.results[i].copy /\ op = OutcomeOp(inbox.results[i])
  OBVIOUS
<1>a. PICK j : j = c.job
  OBVIOUS
<1>1. /\ UNCHANGED <<step, batch, store>> /\ step # "stopped"
      /\ j \in Jobs /\ op \in Outcomes /\ op \in WriteOps
      /\ op = "Failed" => MaxRetries[j] <= c.retries
      /\ op = "Retry" => ~(MaxRetries[j] <= c.retries)
      /\ \A o, k : Sent(layerBox', o, k) <=> Sent(layerBox, o, k) \/ (op = o /\ j = k)
  BY <1>0, <1>a, OutcomeSent
<1>2. /\ c \in Flying /\ Flying' = Flying \ {c}
      /\ j \in InFlight /\ InFlight' = InFlight \ {j}
  BY <1>0, <1>a, ResultMoves DEF HandsInvariant
<1>3. ~Ended(layerBox, j) /\ j \notin ToSend /\ j \notin Unresolvable
  BY <1>1, <1>2 DEF HandsInvariant
<1>4. \A k \in Jobs : JobIsRight(k)
  BY <1>1 DEF WritesInvariant
<1>5. \A k \in Jobs : k \in ToSend' <=> k \in ToSend
  BY <1>1 DEF ToSend
<1>6. ASSUME NEW k \in Jobs, k # j PROVE JobIsRight(k)'
  <2>1. \A o \in WriteOps : Sent(layerBox', o, k) <=> Sent(layerBox, o, k)
    BY <1>1, <1>6
  <2>2. \A d \in batch' \cup Flying' : d.job = k => d \in batch \cup Flying
    BY <1>1, <1>2
  <2> QED BY <1>1, <1>2, <1>4, <1>5, <1>6, <2>1, <2>2, JobKept
<1>7. JobIsRight(j)'
  <2>1. Ended(layerBox', j)
    BY <1>1 DEF Ended
  <2>2. /\ Begun(j)' <=> Begun(j)
        /\ \A o \in {"Failed", "Retry"} : Sent(layerBox', o, j) => op = o
    BY <1>1, <1>3 DEF Begun, Ended, Outcomes
  <2>3. JobIsRight(j)
    BY <1>1, <1>4
  <2>4. RowIsRight(j)'
    BY <1>1, <1>2, <1>3, <1>5, <2>1, <2>2, <2>3 DEF JobIsRight, RowIsRight, Fresh
  <2>5. RejectIsRight(j)'
    BY <1>3 DEF RejectIsRight
  <2>6. \A d \in batch \cup Flying : d.job = j => d.retries = store[j].retries
    BY <2>3 DEF JobIsRight, RetriesAreRight
  <2>7. c.retries = store[j].retries /\ store[j].retries \in Nat /\ MaxRetries[j] \in Nat
    BY <1>a, <1>1, <1>2, <2>6, CoordinatorAssumption DEF TypeOK, Row
  <2>8. \A d \in batch' \cup Flying' : d.job = j => d.retries = store[j].retries
    BY <1>1, <1>2, <2>6
  <2>9. RetriesAreRight(j)'
    BY <1>1, <2>2, <2>7, <2>8 DEF RetriesAreRight
  <2> QED BY <2>4, <2>5, <2>9 DEF JobIsRight
<1> QED BY <1>6, <1>7 DEF WritesInvariant

LEMMA LayerWritesKeepWrites ==
    ASSUME TypeOK, TypeOK', HandsInvariant, WritesInvariant, StoppedIsEmpty,
           NEW op \in WriteOps, LayerWrites(op)
    PROVE  WritesInvariant'
<1>0. /\ InFlight' = InFlight /\ Flying' = Flying /\ step # "stopped"
      /\ layerBox # << >> /\ layerBox' = Tail(layerBox)
      /\ Head(layerBox).op = op /\ UNCHANGED <<step, batch>>
  BY LayerRests DEF LayerStep, LayerWrites, LayerReads, coordinator
<1>1. PICK j : j = Head(layerBox).job
  OBVIOUS
<1>2. /\ j \in Jobs /\ Sent(layerBox, op, j)
      /\ \A o \in WriteOps, k \in Jobs :
             Sent(layerBox', o, k) <=> Sent(layerBox, o, k) /\ ~(o = op /\ k = j)
  BY <1>0, <1>1, WriteTaken
<1>3. /\ store'[j] = Written(op, store[j]) /\ store[j] \in Row
      /\ \A k \in Jobs \ {j} : store'[k] = store[k]
  BY <1>1, <1>2 DEF LayerWrites, TypeOK
<1>4. \A k \in Jobs : JobIsRight(k) /\ (k \in ToSend' <=> k \in ToSend)
  BY <1>0 DEF WritesInvariant, ToSend
<1>5. ASSUME NEW k \in Jobs, k # j PROVE JobIsRight(k)'
  BY <1>0, <1>2, <1>3, <1>4, <1>5, JobKept
<1>6. CASE op = "InProgress"
  <2>1. store'[j].status = "InProgress" /\ store'[j].retries = store[j].retries
    BY <1>3, <1>6 DEF Written, Row
  <2>2. /\ Begun(j) /\ ~Begun(j)'
        /\ Ended(layerBox', j) <=> Ended(layerBox, j)
        /\ \A o \in Outcomes : Sent(layerBox', o, j) <=> Sent(layerBox, o, j)
    BY <1>2, <1>6 DEF Begun, Ended, WriteOps, Outcomes
  <2>3. JobIsRight(j) /\ j \notin Unresolvable /\ j \notin ToSend
    BY <1>2, <1>4, <2>2 DEF JobIsRight, RejectIsRight, HandsInvariant, SentAbout
  <2>a. j \notin ToSend' /\ (j \in InFlight \/ Ended(layerBox, j))
    BY <1>2, <1>4, <2>2, <2>3 DEF JobIsRight, RowIsRight
  <2>4. RowIsRight(j)'
    BY <1>0, <2>1, <2>2, <2>a DEF RowIsRight
  <2>5. RejectIsRight(j)'
    BY <2>3 DEF RejectIsRight
  <2>6. RetriesAreRight(j)'
    BY <1>0, <2>1, <2>2, <2>3 DEF JobIsRight, RetriesAreRight, Outcomes
  <2>7. JobIsRight(j)'
    BY <2>4, <2>5, <2>6 DEF JobIsRight
  <2> QED BY <1>0, <1>5, <2>7 DEF WritesInvariant
<1>7. CASE op \in Outcomes
  <2>1. ~Handled(j)'
    BY <1>0, <1>1, <1>7, OutcomeIsTheLast
  <2>2. /\ \A o \in WriteOps : ~Sent(layerBox', o, j)
        /\ ~Begun(j)' /\ ~Ended(layerBox', j) /\ j \notin InFlight' /\ j \notin ToSend'
    BY <2>1 DEF Handled, SentAbout, Begun, Ended, WriteOps, Outcomes
  <2>3. store'[j].status \in {"Processed", "Failed", "Retry"}
    BY <1>3, <1>7 DEF Written, Row, Outcomes
  <2>4. j \in Unresolvable => op = "Failed" /\ store'[j].status = "Failed"
    <3> SUFFICES ASSUME j \in Unresolvable
                 PROVE  op = "Failed" /\ store'[j].status = "Failed"
      OBVIOUS
    <3>1. Ended(layerBox, j)
      BY <1>2, <1>7 DEF Ended
    <3>2. op = "Failed"
      BY <1>2, <1>4, <1>7, <3>1 DEF JobIsRight, RejectIsRight, Outcomes
    <3> QED BY <1>3, <3>2 DEF Written, Row
  <2>5. RowIsRight(j)'
    BY <2>2, <2>3 DEF RowIsRight
  <2>6. RejectIsRight(j)'
    BY <2>2, <2>4 DEF RejectIsRight
  <2>7. \A c \in batch' \cup Flying' : c.job # j
    BY <2>2 DEF ToSend, InFlight
  <2>8. RetriesAreRight(j)'
    BY <2>2, <2>7 DEF RetriesAreRight, WriteOps
  <2>9. JobIsRight(j)'
    BY <2>5, <2>6, <2>8 DEF JobIsRight
  <2> QED BY <1>0, <1>5, <2>9 DEF WritesInvariant
<1> QED BY <1>6, <1>7 DEF WriteOps, Outcomes

\* What is left in the node when the write of an outcome is dropped.
LEMMA DropTaken ==
    ASSUME TypeOK, TypeOK', HandsInvariant, StoppedIsEmpty, "dropInProgress" \notin Faults,
           LayerDropsWrite, NEW j, j = Head(layerBox).job
    PROVE  /\ j \in Jobs /\ Handled(j) /\ ~Handled(j)'
           /\ "dropOutcome" \in Faults /\ UNCHANGED <<step, batch, store>>
           /\ \A o \in WriteOps, k \in Jobs \ {j} : Sent(layerBox', o, k) <=> Sent(layerBox, o, k)
<1>0. /\ InFlight' = InFlight /\ Flying' = Flying /\ step # "stopped"
      /\ layerBox # << >> /\ layerBox' = Tail(layerBox) /\ UNCHANGED <<step, batch, store>>
  BY LayerRests DEF LayerStep, LayerDropsWrite, LayerReads, coordinator
<1>1. PICK op \in Outcomes : Head(layerBox).op = op /\ "dropOutcome" \in Faults
  BY DEF LayerDropsWrite, LayerReads, WriteOps, Outcomes
<1>2. op \in WriteOps
  BY DEF WriteOps, Outcomes
<1>3. /\ j \in Jobs /\ Sent(layerBox, op, j)
      /\ \A o \in WriteOps, k \in Jobs :
             Sent(layerBox', o, k) <=> Sent(layerBox, o, k) /\ ~(o = op /\ k = j)
  BY <1>0, <1>1, <1>2, WriteTaken
<1>4. ~Handled(j)'
  BY <1>0, <1>1, OutcomeIsTheLast
<1>5. Handled(j)
  BY <1>2, <1>3 DEF Handled, SentAbout
<1> QED BY <1>0, <1>1, <1>3, <1>4, <1>5

LEMMA LayerDropKeepsWrites ==
    ASSUME TypeOK, TypeOK', HandsInvariant, WritesInvariant, StoppedIsEmpty,
           "dropInProgress" \notin Faults, LayerDropsWrite
    PROVE  WritesInvariant'
<1>0. InFlight' = InFlight /\ Flying' = Flying /\ step # "stopped"
  BY LayerRests DEF LayerStep
<1>1. PICK j : j = Head(layerBox).job
  OBVIOUS
<1>2. /\ j \in Jobs /\ ~Handled(j)'
      /\ "dropOutcome" \in Faults /\ UNCHANGED <<step, batch, store>>
      /\ \A o \in WriteOps, k \in Jobs \ {j} : Sent(layerBox', o, k) <=> Sent(layerBox, o, k)
  BY <1>1, DropTaken
<1>3. \A k \in Jobs : JobIsRight(k) /\ (k \in ToSend' <=> k \in ToSend)
  BY <1>0, <1>2 DEF WritesInvariant, ToSend
<1>4. ASSUME NEW k \in Jobs, k # j PROVE JobIsRight(k)'
  BY <1>0, <1>2, <1>3, <1>4, JobKept
<1>5. JobIsRight(j)'
  <2>1. /\ \A o \in WriteOps : ~Sent(layerBox', o, j)
        /\ ~Begun(j)' /\ ~Ended(layerBox', j) /\ j \notin InFlight' /\ j \notin ToSend'
    BY <1>2 DEF Handled, SentAbout, Begun, Ended, WriteOps, Outcomes
  <2>2. RowIsRight(j)'
    BY <1>2, <1>3, <2>1 DEF JobIsRight, RowIsRight
  <2>3. RejectIsRight(j)'
    BY <1>2, <1>3, <2>1 DEF JobIsRight, RejectIsRight
  <2>4. \A c \in batch' \cup Flying' : c.job # j
    BY <2>1 DEF ToSend, InFlight
  <2>5. RetriesAreRight(j)'
    BY <2>1, <2>4 DEF RetriesAreRight, WriteOps
  <2> QED BY <2>2, <2>3, <2>5 DEF JobIsRight
<1> QED BY <1>2, <1>4, <1>5 DEF WritesInvariant

LEMMA LayerKeepsWrites ==
    ASSUME TypeOK, TypeOK', HandsInvariant, WritesInvariant, ShutdownInvariant,
           "dropInProgress" \notin Faults, LayerStep
    PROVE  WritesInvariant'
<1>0. /\ InFlight' = InFlight /\ Flying' = Flying /\ step # "stopped"
      /\ layerBox # << >> /\ layerBox' = Tail(layerBox) /\ store \in [Jobs -> Row]
  BY LayerRests DEF ShutdownInvariant, TypeOK
<1>1. ASSUME NEW op \in WriteOps, LayerWrites(op) PROVE WritesInvariant'
  BY <1>1, LayerWritesKeepWrites DEF ShutdownInvariant
<1>2. CASE LayerDropsWrite
  BY <1>2, LayerDropKeepsWrites DEF ShutdownInvariant
<1>3. CASE LayerFlushes
  <2>1. Head(layerBox).op \notin WriteOps /\ UNCHANGED <<batch, store>>
    BY <1>3 DEF LayerFlushes, LayerReads, WriteOps
  <2> QED BY <1>0, <2>1, OtherMessageTaken, WritesKept
<1>4. ASSUME NEW S \in Batches, store' = Claimed(S), NEW j \in Jobs
      PROVE  store'[j].status = store[j].status /\ store'[j].retries = store[j].retries
  BY <1>0, <1>4 DEF Claimed, Row
<1>5. CASE LayerLosesGetJobs
  <2>1. Head(layerBox).op \notin WriteOps /\ UNCHANGED <<step, batch>>
    BY <1>5 DEF LayerLosesGetJobs, LayerReads, WriteOps, coordinator
  <2>2. \A j \in Jobs : /\ store'[j].status = store[j].status
                        /\ store'[j].retries = store[j].retries
    BY <1>4, <1>5 DEF LayerLosesGetJobs
  <2>3. \A j \in Jobs : JobIsRight(j) /\ (j \in ToSend' <=> j \in ToSend)
    BY <1>0, <2>1 DEF WritesInvariant, ToSend
  <2>4. ASSUME NEW j \in Jobs PROVE JobIsRight(j)'
    BY <1>0, <2>1, <2>2, <2>3, OtherMessageTaken, JobKept
  <2> QED BY <2>4 DEF WritesInvariant
<1>6. CASE LayerAnswersGetJobs
  <2>1. /\ LayerReads("GetJobs") /\ Head(layerBox).op \notin WriteOps /\ batch = {}
        /\ ToSend = {}
    BY <1>6 DEF LayerAnswersGetJobs, LayerReads, WriteOps, AskIsLive, ShutdownInvariant,
                NothingToSend, ToSend
  <2>2. PICK S \in Batches :
            store' = Claimed(S) /\ batch' = {CopyOf(j, store[j].retries) : j \in S}
    BY <1>6 DEF LayerAnswersGetJobs
  <2>3. \A j \in Jobs : /\ store'[j].status = store[j].status
                        /\ store'[j].retries = store[j].retries
    BY <1>4, <2>2
  <2>4. \A op \in WriteOps, j \in Jobs : Sent(layerBox', op, j) <=> Sent(layerBox, op, j)
    BY <1>0, <2>1, OtherMessageTaken
  <2>5. \A c \in batch' : c.job \in S /\ c.retries = store[c.job].retries
    <3>1. \A x : x \in batch' <=> \E j \in S : x = CopyOf(j, store[j].retries)
      BY <2>2
    <3>2. \A j \in S : /\ CopyOf(j, store[j].retries).job = j
                       /\ CopyOf(j, store[j].retries).retries = store[j].retries
      BY DEF CopyOf
    <3> QED BY <3>1, <3>2
  <2>6. ToSend' \subseteq S /\ S \subseteq Jobs /\ \A j \in S : Fetchable(j)
    BY <2>5 DEF ToSend, Batches
  <2>7. ASSUME NEW j \in Jobs PROVE JobIsRight(j)'
    <3>1. JobIsRight(j)
      BY <1>0 DEF WritesInvariant
    <3>2. CASE j \notin S
      <4>1. \A c \in batch' \cup Flying' : c.job = j => c \in batch \cup Flying
        BY <1>0, <2>5, <3>2
      <4> QED BY <1>0, <2>1, <2>3, <2>4, <2>6, <3>1, <3>2, <4>1, JobKept
    <3>3. CASE j \in S
      <4>1. Fresh(j) /\ ~Handled(j)
        BY <1>0, <2>1, <2>6, <3>3, FetchedIsNotHandled DEF Fetchable, Fresh
      <4>2. /\ \A op \in WriteOps : ~Sent(layerBox', op, j)
            /\ ~Begun(j)' /\ ~Ended(layerBox', j) /\ j \notin InFlight'
        BY <1>0, <2>4, <4>1 DEF Handled, SentAbout, Begun, Ended, WriteOps, Outcomes
      <4>3. RowIsRight(j)'
        BY <2>3, <3>1, <4>1, <4>2 DEF JobIsRight, RowIsRight, Fresh
      <4>4. RejectIsRight(j)'
        BY <2>3, <3>1, <4>2 DEF JobIsRight, RejectIsRight
      <4>5. \A c \in batch' \cup Flying' : c.job = j => c.retries = store'[j].retries
        BY <2>3, <2>5, <4>2 DEF InFlight
      <4>6. RetriesAreRight(j)'
        BY <4>2, <4>5 DEF RetriesAreRight, WriteOps
      <4> QED BY <4>3, <4>4, <4>6 DEF JobIsRight
    <3> QED BY <3>2, <3>3
  <2> QED BY <2>7 DEF WritesInvariant
<1> QED BY <1>1, <1>2, <1>3, <1>5, <1>6 DEF LayerStep

LEMMA LeaseKeepsWrites ==
    ASSUME TypeOK, TypeOK', HandsInvariant, WritesInvariant, NEW j \in Jobs, LeaseExpires(j)
    PROVE  WritesInvariant'
<1>1. /\ UNCHANGED <<step, batch, inbox, workers, layerBox>>
      /\ \A k \in Jobs : /\ store'[k].status = store[k].status
                         /\ store'[k].retries = store[k].retries
  BY DEF LeaseExpires, coordinator, TypeOK, Row
<1>2. InFlight' = InFlight /\ Flying' = Flying
  BY <1>1, WorkersRest DEF HandsInvariant
<1>3. ASSUME step # "stopped", NEW k \in Jobs PROVE JobIsRight(k)'
  <2>1. JobIsRight(k) /\ (k \in ToSend' <=> k \in ToSend)
    BY <1>1, <1>3 DEF WritesInvariant, ToSend
  <2> QED BY <1>1, <1>2, <2>1, JobKept
<1> QED BY <1>1, <1>3 DEF WritesInvariant

NodeInvariant == ShutdownInvariant /\ HandsInvariant /\ WritesInvariant

LEMMA NodeInvariance ==
    ASSUME "dropInProgress" \notin Faults
    PROVE  Spec => []NodeInvariant
<1>1. Init => WritesInvariant
  <2> SUFFICES ASSUME Init PROVE WritesInvariant
    OBVIOUS
  <2>1. /\ InFlight = {} /\ Flying = {} /\ batch = {} /\ ToSend = {}
        /\ \A op, j : ~Sent(layerBox, op, j)
    <3>1. InFlight = {} /\ Flying = {}
      BY NothingFlies
    <3>2. batch = {} /\ layerBox = << >>
      BY DEF Init
    <3> QED BY <3>1, <3>2 DEF Sent, ToSend
  <2>2. \A j \in Jobs : store[j].status = "New" /\ store[j].retries = 0
    BY DEF Init
  <2> QED BY <2>1, <2>2
          DEF WritesInvariant, JobIsRight, RowIsRight, RejectIsRight, RetriesAreRight,
              Begun, Ended, Fresh
<1>2. TypeOK /\ TypeOK' /\ ShutdownInvariant /\ HandsInvariant /\ WritesInvariant /\ [Next]_vars
          => WritesInvariant'
  <2> SUFFICES ASSUME TypeOK, TypeOK', ShutdownInvariant, HandsInvariant, WritesInvariant,
                      [Next]_vars
               PROVE  WritesInvariant'
    OBVIOUS
  <2>1. CASE CoordinatorStep
    BY <2>1, CoordinatorKeepsWrites, DispatchKeepsWrites, ResultKeepsWrites
       DEF CoordinatorStep
  <2>2. CASE UNCHANGED vars
    <3>1. UNCHANGED <<step, batch, inbox, workers, layerBox, store>>
      BY <2>2 DEF vars, coordinator
    <3>2. InFlight' = InFlight /\ Flying' = Flying
      BY <3>1, WorkersRest DEF HandsInvariant
    <3> QED BY <3>1, <3>2, WritesKept
  <2> QED BY <2>1, <2>2, ShellKeepsWrites, LayerKeepsWrites, LeaseKeepsWrites,
             WorkerKeepsWrites DEF Next
<1> QED BY <1>1, <1>2, TypeCorrect, ShutdownInvariance, HandsInvariance, PTL
        DEF Spec, NodeInvariant

\* When no write is dropped, a drained layer actor leaves exactly the jobs that
\* are with the workers InProgress.
THEOREM DrainedIsCurrent ==
    ASSUME "dropInProgress" \notin Faults, "dropOutcome" \notin Faults
    PROVE  Spec => []DrainedStoreIsCurrent
<1>1. TypeOK /\ NodeInvariant => DrainedStoreIsCurrent
  <2> SUFFICES ASSUME TypeOK, NodeInvariant, step = "idle", layerBox = << >>
               PROVE  {j \in Jobs : store[j].status = "InProgress"} = InFlight
    BY DEF DrainedStoreIsCurrent
  <2>1. \A op, j : ~Sent(layerBox, op, j)
    BY DEF Sent
  <2>2. \A j \in Jobs : store[j].status = "InProgress" <=> j \in InFlight
    BY <2>1 DEF NodeInvariant, WritesInvariant, JobIsRight, RowIsRight, Begun, Ended
  <2> QED BY <2>2, InFlightJobs
<1> QED BY <1>1, NodeInvariance, TypeCorrect, PTL

\* The rows the layer actor's writes find.
LEMMA WriteFindsRow ==
    ASSUME TypeOK, TypeOK', NodeInvariant, NEW op \in WriteOps, LayerWrites(op),
           NEW j, j = Head(layerBox).job
    PROVE  /\ j \in Jobs /\ Handled(j) /\ (Handled(j)' <=> op = "InProgress")
           /\ op = "InProgress" => Fresh(j)
           /\ \/ op = "InProgress"
              \/ op = "Failed" /\ store[j].status = "New"
              \/ /\ store[j].status = "InProgress"
                 /\ op = "Failed" => MaxRetries[j] <= store[j].retries
                 /\ op = "Retry" => store[j].retries < MaxRetries[j]
           /\ store'[j] = Written(op, store[j])
           /\ \A k \in Jobs \ {j} : /\ store'[k] = store[k]
                                    /\ Handled(k)' <=> Handled(k)
<1> USE DEF NodeInvariant
<1>0. /\ InFlight' = InFlight /\ step # "stopped"
      /\ layerBox # << >> /\ layerBox' = Tail(layerBox)
      /\ Head(layerBox).op = op /\ UNCHANGED <<step, batch>>
      /\ \A k : k \in ToSend' <=> k \in ToSend
  BY LayerRests DEF LayerStep, LayerWrites, LayerReads, coordinator, ShutdownInvariant, ToSend
<1>1. /\ j \in Jobs /\ Sent(layerBox, op, j)
      /\ \A o \in WriteOps, k \in Jobs :
             Sent(layerBox', o, k) <=> Sent(layerBox, o, k) /\ ~(o = op /\ k = j)
  BY <1>0, WriteTaken
<1>a. /\ store'[j] = Written(op, store[j])
      /\ \A k \in Jobs \ {j} : store'[k] = store[k]
  BY <1>1 DEF LayerWrites, TypeOK
<1>2. JobIsRight(j)
  BY <1>0, <1>1 DEF WritesInvariant
<1>3. Handled(j)
  BY <1>1 DEF Handled, SentAbout
<1>4. \A k \in Jobs \ {j} : Handled(k)' <=> Handled(k)
  BY <1>0, <1>1 DEF Handled, SentAbout
<1>5. CASE op = "InProgress"
  <2>1. Begun(j)
    BY <1>1, <1>5 DEF Begun
  <2>2. Fresh(j) /\ (j \in InFlight \/ Ended(layerBox, j))
    BY <1>2, <2>1 DEF JobIsRight, RowIsRight
  <2>3. Ended(layerBox', j) <=> Ended(layerBox, j)
    BY <1>1, <1>5 DEF Ended, WriteOps, Outcomes
  <2>4. Handled(j)'
    BY <1>0, <2>2, <2>3 DEF Handled, SentAbout, Ended, WriteOps, Outcomes
  <2> QED BY <1>1, <1>a, <1>3, <1>4, <1>5, <2>2, <2>4
<1>6. CASE op \in Outcomes
  <2>1. ~Handled(j)'
    BY <1>0, <1>6, OutcomeIsTheLast
  <2>2. op # "InProgress" /\ Ended(layerBox, j)
    BY <1>1, <1>6 DEF Ended, Outcomes
  <2>3. ~Begun(j)
    BY <1>1, <2>1, <2>2 DEF Handled, SentAbout, Begun, WriteOps
  <2>4. CASE j \in Unresolvable
    <3>1. op = "Failed" /\ store[j].status = "New"
      BY <1>1, <1>2, <1>6, <2>2, <2>4 DEF JobIsRight, RejectIsRight, Outcomes
    <3> QED BY <1>1, <1>a, <1>3, <1>4, <2>1, <2>2, <3>1
  <2>5. CASE j \notin Unresolvable
    <3>1. store[j].status = "InProgress"
      BY <1>2, <2>2, <2>3, <2>5 DEF JobIsRight, RowIsRight
    <3>2. /\ op = "Failed" => MaxRetries[j] <= store[j].retries
          /\ op = "Retry" => store[j].retries < MaxRetries[j]
      BY <1>1, <1>2, <2>5 DEF JobIsRight, RetriesAreRight
    <3> QED BY <1>1, <1>a, <1>3, <1>4, <2>1, <2>2, <3>1, <3>2
  <2> QED BY <2>4, <2>5
<1> QED BY <1>5, <1>6 DEF WriteOps, Outcomes

\* Nothing else changes the status of a row, or its retries.
LEMMA OnlyWritesWrite ==
    ASSUME TypeOK, [Next]_vars, \A op \in WriteOps : ~LayerWrites(op), NEW j \in Jobs
    PROVE  store'[j].status = store[j].status /\ store'[j].retries = store[j].retries
<1>0. store \in [Jobs -> Row]
  BY DEF TypeOK
<1>1. ASSUME store' = store PROVE store'[j].status = store[j].status
                                 /\ store'[j].retries = store[j].retries
  BY <1>1
<1>2. ASSUME NEW S, store' = Claimed(S)
      PROVE  store'[j].status = store[j].status /\ store'[j].retries = store[j].retries
  BY <1>0, <1>2 DEF Claimed, Row
<1>3. ASSUME NEW k \in Jobs, LeaseExpires(k)
      PROVE  store'[j].status = store[j].status /\ store'[j].retries = store[j].retries
  BY <1>0, <1>3 DEF LeaseExpires, Row
<1>4. CASE ShellStep
  BY <1>1, <1>4 DEF ShellStep, Pulse, ShutDownQueue, SendPoisonPill, GiveUp
<1>5. CASE CoordinatorStep
  BY <1>1, <1>5 DEF CoordinatorStep, Sweep, SweepSaturated, IgnoreSweep, AskTimesOut,
                    Dispatch, ReceiveResult, ReceiveShutDownQueues, ReceiveQueueShutDown,
                    ReceivePoisonPill
<1>6. CASE LayerStep
  BY <1>1, <1>2, <1>6 DEF LayerStep, LayerDropsWrite, LayerAnswersGetJobs,
                         LayerLosesGetJobs, LayerFlushes
<1>7. ASSUME NEW w \in Workers, WorkerStep(w) PROVE store' = store
  BY <1>7 DEF WorkerStep, StartJob, FinishJob, StopWorker
<1>8. CASE UNCHANGED vars  BY <1>1, <1>8 DEF vars
<1> QED BY <1>1, <1>3, <1>4, <1>5, <1>6, <1>7, <1>8 DEF Next

\* When no InProgress write is dropped, the store sees a job go InProgress and then
\* to at most one outcome per attempt, although the coordinator, its workers and
\* the layer actor never wait for each other's writes.
THEOREM OutcomesFollow ==
    ASSUME "dropInProgress" \notin Faults
    PROVE  Spec => OutcomeFollowsInProgress
<1>1. TypeOK /\ TypeOK' /\ NodeInvariant /\ [Next]_vars =>
          [\A j \in Jobs : store'[j].status # store[j].status =>
               <<store[j].status, store'[j].status>> \in Lifecycle]_vars
  <2> SUFFICES ASSUME TypeOK, TypeOK', NodeInvariant, [Next]_vars,
                      NEW j \in Jobs, store'[j].status # store[j].status
               PROVE  <<store[j].status, store'[j].status>> \in Lifecycle
    OBVIOUS
  <2>1. PICK op \in WriteOps : LayerWrites(op)
    BY OnlyWritesWrite
  <2>2. PICK h : h = Head(layerBox).job
    OBVIOUS
  <2>3. j = h
    BY <2>1, <2>2, WriteFindsRow
  <2>4. store[j] \in Row /\ store'[j] = Written(op, store[j])
    BY <2>1, <2>2, <2>3, WriteFindsRow DEF TypeOK
  <2>5. CASE op = "InProgress"
    <3>1. Fresh(j)
      BY <2>1, <2>2, <2>3, <2>5, WriteFindsRow
    <3>2. store'[j].status = "InProgress"
      BY <2>4, <2>5 DEF Written, Row
    <3> QED BY <3>1, <3>2 DEF Fresh, Lifecycle
  <2>6. CASE op # "InProgress"
    <3>1. \/ op = "Failed" /\ store[j].status = "New"
          \/ store[j].status = "InProgress"
      BY <2>1, <2>2, <2>3, <2>6, WriteFindsRow
    <3>2. /\ op = "Success" => store'[j].status = "Processed"
          /\ op = "Failed" => store'[j].status = "Failed"
          /\ op = "Retry" => store'[j].status = "Retry"
      BY <2>4 DEF Written, Row
    <3> QED BY <2>6, <3>1, <3>2 DEF Lifecycle, WriteOps
  <2> QED BY <2>5, <2>6
<1> QED BY <1>1, NodeInvariance, TypeCorrect, PTL DEF Spec, OutcomeFollowsInProgress

----------------------------------------------------------------------------
(* The life of a job *)

SameStatus(j) == StatusOf(j)' = StatusOf(j)
SameHolder(j) == HolderOf(j)' = HolderOf(j)
SameRetries(j) == store'[j].retries = store[j].retries

\* What the mapping reads of a job's row and of the hands it is in.
Mapped ==
    \A j \in Jobs :
        /\ Fresh(j) => StatusOf(j) = "Waiting"
        /\ store[j].status = "InProgress" => StatusOf(j) = "Running"
        /\ store[j].status \in {"Processed", "Failed"} => StatusOf(j) = store[j].status
        /\ HolderOf(j) = IF step # "stopped" /\ Handled(j) THEN Node ELSE NoNode

LEMMA AlwaysMapped == TypeOK => Mapped
<1> SUFFICES ASSUME TypeOK, NEW j \in Jobs
             PROVE  /\ Fresh(j) => StatusOf(j) = "Waiting"
                    /\ store[j].status = "InProgress" => StatusOf(j) = "Running"
                    /\ store[j].status \in {"Processed", "Failed"}
                           => StatusOf(j) = store[j].status
                    /\ HolderOf(j) = IF step # "stopped" /\ Handled(j) THEN Node ELSE NoNode
  BY DEF Mapped
<1>1. /\ Fresh(j) => StatusOf(j) = "Waiting"
      /\ store[j].status = "InProgress" => StatusOf(j) = "Running"
      /\ store[j].status \in {"Processed", "Failed"} => StatusOf(j) = store[j].status
  BY DEF StatusOf, Fresh
<1>2. j \in InHand <=> Handled(j)
  <2>1. ASSUME NEW i \in 1..Len(layerBox)
        PROVE  layerBox[i].op \in WriteOps /\ layerBox[i].job = j
                   <=> \E op \in WriteOps : layerBox[i] = Msg(op, j)
    <3>1. layerBox[i] \in LayerMsg
      BY <2>1 DEF TypeOK
    <3> QED BY <3>1, Messages
  <2> QED BY <2>1 DEF InHand, ToSend, Handled, SentAbout, Sent
<1> QED BY <1>1, <1>2 DEF HolderOf

\* A step on which neither the rows nor the hands change is not seen.
LEMMA NoStep ==
    ASSUME \A j \in Jobs : SameStatus(j) /\ SameHolder(j) /\ SameRetries(j)
    PROVE  UNCHANGED Job!lifecycle
BY DEF Job!lifecycle, SameStatus, SameHolder, SameRetries

LEMMA TakeIsTake ==
    ASSUME NEW S \in SUBSET Jobs,
           \A j \in S : /\ StatusOf(j) = "Waiting" /\ HolderOf(j) = NoNode
                        /\ store[j].retries <= MaxRetries[j]
                        /\ HolderOf(j)' = Node,
           \A j \in Jobs : SameStatus(j) /\ SameRetries(j),
           \A j \in Jobs \ S : SameHolder(j)
    PROVE  Job!Next
<1>1. Job!Take(Node, S)
  BY DEF Job!Take, SameStatus, SameHolder, SameRetries
<1> QED BY <1>1 DEF Job!Next

LEMMA ForgetIsForget ==
    ASSUME NEW S \in SUBSET Jobs,
           \A j \in S : HolderOf(j) = Node /\ HolderOf(j)' = NoNode,
           \A j \in Jobs : SameStatus(j) /\ SameRetries(j),
           \A j \in Jobs \ S : SameHolder(j)
    PROVE  Job!Next
<1>1. Job!Forget(Node, S)
  BY DEF Job!Forget, SameStatus, SameHolder, SameRetries
<1> QED BY <1>1 DEF Job!Next

LEMMA StartIsStart ==
    ASSUME NEW j \in Jobs,
           StatusOf(j) = "Waiting", HolderOf(j) = Node, StatusOf(j)' = "Running",
           \A k \in Jobs : k # j => SameStatus(k),
           \A k \in Jobs : SameHolder(k) /\ SameRetries(k)
    PROVE  Job!Next
<1>1. Job!Start(Node, j)
  BY DEF Job!Start, Job!Become, SameStatus, SameHolder, SameRetries
<1> QED BY <1>1 DEF Job!Next

LEMMA WriteIsOutcome ==
    ASSUME NEW j \in Jobs, HolderOf(j) = Node, HolderOf(j)' = NoNode,
           \/ /\ StatusOf(j) = "Waiting" /\ StatusOf(j)' = "Failed" /\ SameRetries(j)
           \/ /\ StatusOf(j) = "Running" /\ StatusOf(j)' = "Processed" /\ SameRetries(j)
           \/ /\ StatusOf(j) = "Running" /\ StatusOf(j)' = "Failed" /\ SameRetries(j)
              /\ store[j].retries >= MaxRetries[j]
           \/ /\ StatusOf(j) = "Running" /\ StatusOf(j)' = "Waiting"
              /\ store[j].retries < MaxRetries[j]
              /\ store'[j].retries = store[j].retries + 1,
           \A k \in Jobs : k # j => SameStatus(k) /\ SameHolder(k) /\ SameRetries(k)
    PROVE  Job!Next
<1> USE DEF Job!Become, Job!LetGo, Job!Runs, SameStatus, SameHolder, SameRetries
<1>1. CASE StatusOf(j) = "Waiting" /\ StatusOf(j)' = "Failed" /\ SameRetries(j)
  <2>1. Job!Reject(Node, j)  BY <1>1 DEF Job!Reject
  <2> QED BY <2>1 DEF Job!Next
<1>2. CASE StatusOf(j) = "Running" /\ StatusOf(j)' = "Processed" /\ SameRetries(j)
  <2>1. Job!Succeed(Node, j)  BY <1>2 DEF Job!Succeed
  <2> QED BY <2>1 DEF Job!Next
<1>3. CASE /\ StatusOf(j) = "Running" /\ StatusOf(j)' = "Failed" /\ SameRetries(j)
           /\ store[j].retries >= MaxRetries[j]
  <2>1. Job!Fail(Node, j)  BY <1>3 DEF Job!Fail
  <2> QED BY <2>1 DEF Job!Next
<1>4. CASE /\ StatusOf(j) = "Running" /\ StatusOf(j)' = "Waiting"
           /\ store[j].retries < MaxRetries[j]
           /\ store'[j].retries = store[j].retries + 1
  <2>1. Job!Retry(Node, j)  BY <1>4 DEF Job!Retry
  <2> QED BY <2>1 DEF Job!Next
<1> QED BY <1>1, <1>2, <1>3, <1>4

\* Rows that keep their status and retries, in hands that keep hold of them.
LEMMA RowsAndHandsStay ==
    ASSUME TypeOK, Mapped, Mapped',
           \A j \in Jobs : /\ store'[j].status = store[j].status
                           /\ store'[j].retries = store[j].retries,
           step' = "stopped" <=> step = "stopped",
           step = "stopped" \/ \A j \in Jobs : Handled(j)' <=> Handled(j)
    PROVE  UNCHANGED Job!lifecycle
<1> SUFFICES ASSUME NEW j \in Jobs PROVE SameStatus(j) /\ SameHolder(j) /\ SameRetries(j)
  BY NoStep
<1>1. store[j].status \in {"New", "Retry", "InProgress", "Processed", "Failed"}
  BY DEF TypeOK, Row
<1>2. SameStatus(j)
  BY <1>1 DEF SameStatus, Mapped, Fresh
<1>3. SameHolder(j)
  BY DEF SameHolder, Mapped
<1> QED BY <1>2, <1>3 DEF SameRetries

\* The hands in which a job is change with these steps only.
LEMMA HandsHandOn ==
    ASSUME TypeOK, TypeOK', NodeInvariant, [Next]_vars,
           ~ReceivePoisonPill, ~LayerAnswersGetJobs, ~LayerDropsWrite,
           \A op \in WriteOps : ~LayerWrites(op)
    PROVE  /\ step' = "stopped" <=> step = "stopped"
           /\ step = "stopped" \/ \A j \in Jobs : Handled(j)' <=> Handled(j)
<1> USE DEF NodeInvariant
<1>0. CopiesAreDistinct
  BY DEF HandsInvariant
<1>1. ASSUME UNCHANGED batch,
             \/ UNCHANGED layerBox
             \/ \A op \in WriteOps, j \in Jobs : Sent(layerBox', op, j) <=> Sent(layerBox, op, j),
             InFlight' = InFlight
      PROVE  \A j \in Jobs : Handled(j)' <=> Handled(j)
  BY <1>1 DEF Handled, SentAbout, ToSend
<1>2. CASE ShellStep
  <2>1. /\ UNCHANGED <<coordinator, layerBox, workers>>
        /\ inbox'.results = inbox.results
    BY <1>2 DEF ShellStep, Pulse, ShutDownQueue, SendPoisonPill, GiveUp, TypeOK, InboxType
  <2> QED BY <1>0, <1>1, <2>1, WorkersRest DEF coordinator
<1>3. CASE \E kind \in SweepKinds : Sweep(kind) \/ SweepSaturated(kind) \/ IgnoreSweep(kind)
  <2>1. /\ UNCHANGED <<batch, workers>>
        /\ inbox'.results = inbox.results /\ step # "stopped" /\ step' # "stopped"
        /\ layerBox' = layerBox \/ layerBox' = Append(layerBox, GetJobsMsg)
    BY <1>3 DEF Sweep, SweepSaturated, IgnoreSweep, TakeSweep, Receiving, coordinator, TypeOK,
                InboxType, SweepKinds
  <2> QED BY <1>0, <1>1, <2>1, WorkersRest, OtherMessageSent
<1>4. CASE AskTimesOut
  BY <1>0, <1>1, <1>4, WorkersRest DEF AskTimesOut
<1>5. CASE ReceiveShutDownQueues
  BY <1>0, <1>1, <1>5, BroadcastMoves DEF ReceiveShutDownQueues
<1>6. CASE ReceiveQueueShutDown
  <2>1. /\ UNCHANGED <<batch, workers>>
        /\ inbox'.results = inbox.results /\ step # "stopped" /\ step' # "stopped"
        /\ layerBox' = layerBox \/ layerBox' = Append(layerBox, FlushMsg)
    BY <1>6 DEF ReceiveQueueShutDown, Receiving, TypeOK, InboxType
  <2> QED BY <1>0, <1>1, <2>1, WorkersRest, OtherMessageSent
<1>7. ASSUME NEW c \in batch, Dispatch(c)
      PROVE  /\ step # "stopped" /\ step' # "stopped"
             /\ \A k \in Jobs : Handled(k)' <=> Handled(k)
  <2>0. PICK j : j = c.job
    OBVIOUS
  <2>1. /\ UNCHANGED <<inbox, running>> /\ step # "stopped" /\ step' # "stopped"
        /\ j \in ToSend /\ ToSend' = ToSend \ {j} /\ layerBox \in Seq(LayerMsg)
        /\ c \in Copies /\ j \in Jobs /\ c \notin Flying
    BY <1>7, <2>0, CopyLeavesBatch
  <2>2. PICK op \in WriteOps : layerBox' = Append(layerBox, Msg(op, j))
    BY <1>7, <2>0 DEF Dispatch, FailMissingType, DispatchJob, WriteOps
  <2>3. \A o, k : Sent(layerBox', o, k) <=> Sent(layerBox, o, k) \/ (op = o /\ j = k)
    BY <2>1, <2>2, LayerMessages, AppendedMessage, Messages
  <2>4. InFlight \subseteq InFlight' /\ InFlight' \subseteq InFlight \cup {j}
    <3>1. CASE j \in Unresolvable
      <4>1. UNCHANGED workers /\ inbox'.results = inbox.results
        BY <1>7, <2>0, <2>1, <3>1 DEF Dispatch, FailMissingType, workers
      <4> QED BY <1>0, <4>1, WorkersRest
    <3>2. CASE j \notin Unresolvable
      <4>1. DispatchJob(c)
        BY <1>7, <2>0, <3>2 DEF Dispatch
      <4> QED BY <1>0, <2>0, <2>1, <4>1, DispatchMoves
    <3> QED BY <3>1, <3>2
  <2> QED BY <2>1, <2>2, <2>3, <2>4 DEF Handled, SentAbout
<1>8. ASSUME NEW i \in 1..Len(inbox.results), ReceiveResult(i)
      PROVE  /\ step # "stopped" /\ step' # "stopped"
             /\ \A k \in Jobs : Handled(k)' <=> Handled(k)
  <2>0. PICK c, op : c = inbox.results[i].copy /\ op = OutcomeOp(inbox.results[i])
    OBVIOUS
  <2>1. /\ UNCHANGED <<step, batch>> /\ step # "stopped" /\ op \in WriteOps
        /\ \A o, k : Sent(layerBox', o, k) <=> Sent(layerBox, o, k) \/ (op = o /\ c.job = k)
    BY <1>8, <2>0, OutcomeSent
  <2>2. c.job \in InFlight /\ InFlight' = InFlight \ {c.job}
    BY <1>0, <1>8, <2>0, ResultMoves DEF HandsInvariant
  <2>3. \A k : k \in ToSend' <=> k \in ToSend
    BY <2>1 DEF ToSend
  <2> QED BY <2>1, <2>2, <2>3 DEF Handled, SentAbout
<1>9. CASE LayerStep
  <2>1. InFlight' = InFlight /\ step # "stopped" /\ layerBox # << >> /\ layerBox' = Tail(layerBox)
    BY <1>9, LayerRests DEF ShutdownInvariant
  <2>2. /\ Head(layerBox).op \notin WriteOps /\ UNCHANGED batch /\ step' # "stopped"
    BY <1>9, <2>1 DEF LayerStep, LayerLosesGetJobs, LayerFlushes, LayerReads,
                      WriteOps, coordinator
  <2> QED BY <1>1, <2>1, <2>2, OtherMessageTaken
<1>10. ASSUME NEW j \in Jobs, LeaseExpires(j)
       PROVE  UNCHANGED step /\ \A k \in Jobs : Handled(k)' <=> Handled(k)
  BY <1>0, <1>1, <1>10, WorkersRest DEF LeaseExpires, coordinator
<1>11. ASSUME NEW w \in Workers, WorkerStep(w)
       PROVE  UNCHANGED step /\ (step = "stopped" \/ \A k \in Jobs : Handled(k)' <=> Handled(k))
  <2>1. UNCHANGED <<step, batch, layerBox>>
    BY <1>11 DEF WorkerStep, StartJob, FinishJob, StopWorker, coordinator
  <2> QED BY <1>0, <1>1, <1>11, <2>1, StartMoves, FinishMoves, StopMoves DEF WorkerStep
<1>12. CASE UNCHANGED vars
  BY <1>0, <1>1, <1>12, WorkersRest DEF vars, coordinator
<1> QED BY <1>2, <1>3, <1>4, <1>5, <1>6, <1>7, <1>8, <1>9, <1>10, <1>11, <1>12
        DEF Next, CoordinatorStep

LEMMA LayerWriteMapped ==
    ASSUME TypeOK, TypeOK', NodeInvariant, Mapped, Mapped', NEW op \in WriteOps, LayerWrites(op)
    PROVE  Job!Next
<1>1. PICK j : j = Head(layerBox).job
  OBVIOUS
<1>2. /\ j \in Jobs /\ Handled(j) /\ (Handled(j)' <=> op = "InProgress")
      /\ op = "InProgress" => Fresh(j)
      /\ \/ op = "InProgress"
         \/ op = "Failed" /\ store[j].status = "New"
         \/ /\ store[j].status = "InProgress"
            /\ op = "Failed" => MaxRetries[j] <= store[j].retries
            /\ op = "Retry" => store[j].retries < MaxRetries[j]
      /\ store'[j] = Written(op, store[j])
      /\ \A k \in Jobs \ {j} : store'[k] = store[k] /\ (Handled(k)' <=> Handled(k))
  BY <1>1, WriteFindsRow
<1>3. step # "stopped" /\ step' # "stopped"
  BY LayerRests DEF LayerStep, LayerWrites, coordinator, NodeInvariant, ShutdownInvariant
<1>4. ASSUME NEW k \in Jobs, k # j PROVE SameStatus(k) /\ SameHolder(k) /\ SameRetries(k)
  <2>1. store'[k] = store[k] /\ (Handled(k)' <=> Handled(k))
    BY <1>2, <1>4
  <2>2. store[k].status \in {"New", "Retry", "InProgress", "Processed", "Failed"}
    BY DEF TypeOK, Row
  <2> QED BY <1>3, <2>1, <2>2 DEF Mapped, Fresh, SameStatus, SameHolder, SameRetries
<1>5. /\ HolderOf(j) = Node
      /\ HolderOf(j)' = IF op = "InProgress" THEN Node ELSE NoNode
  BY <1>2, <1>3 DEF Mapped
<1>6. store[j] \in Row /\ MaxRetries[j] \in Nat
  BY <1>2, CoordinatorAssumption DEF TypeOK
<1>7. CASE op = "InProgress"
  <2>1. store'[j].status = "InProgress" /\ SameRetries(j)
    BY <1>2, <1>6, <1>7 DEF Written, Row, SameRetries
  <2>2. StatusOf(j) = "Waiting" /\ StatusOf(j)' = "Running" /\ SameHolder(j)
    BY <1>2, <1>5, <1>7, <2>1 DEF Mapped, SameHolder
  <2> QED BY <1>2, <1>4, <1>5, <2>1, <2>2, StartIsStart
<1>8. CASE op = "Success"
  <2>1. store'[j].status = "Processed" /\ SameRetries(j) /\ store[j].status = "InProgress"
    BY <1>2, <1>6, <1>8 DEF Written, Row, SameRetries
  <2>2. StatusOf(j) = "Running" /\ StatusOf(j)' = "Processed"
    BY <1>2, <2>1 DEF Mapped
  <2> QED BY <1>2, <1>4, <1>5, <1>8, <2>1, <2>2, WriteIsOutcome
<1>9. CASE op = "Failed"
  <2>1. store'[j].status = "Failed" /\ SameRetries(j)
    BY <1>2, <1>6, <1>9 DEF Written, Row, SameRetries
  <2>2. StatusOf(j)' = "Failed"
    BY <1>2, <2>1 DEF Mapped
  <2>3. \/ StatusOf(j) = "Waiting"
        \/ StatusOf(j) = "Running" /\ MaxRetries[j] <= store[j].retries
    BY <1>2, <1>9 DEF Mapped, Fresh
  <2>4. MaxRetries[j] <= store[j].retries => store[j].retries >= MaxRetries[j]
    BY <1>6 DEF Row
  <2> QED BY <1>2, <1>4, <1>5, <1>9, <2>1, <2>2, <2>3, <2>4, WriteIsOutcome
<1>10. CASE op = "Retry"
  <2>1. store'[j].status = "Retry" /\ store'[j].retries = store[j].retries + 1
    BY <1>2, <1>6, <1>10 DEF Written, Row
  <2>2. StatusOf(j) = "Running" /\ StatusOf(j)' = "Waiting" /\ store[j].retries < MaxRetries[j]
    BY <1>2, <1>10, <2>1 DEF Mapped, Fresh
  <2> QED BY <1>2, <1>4, <1>5, <1>10, <2>1, <2>2, WriteIsOutcome
<1> QED BY <1>7, <1>8, <1>9, <1>10 DEF WriteOps

LEMMA LayerAnswerMapped ==
    ASSUME TypeOK, TypeOK', NodeInvariant, Mapped, Mapped', LayerAnswersGetJobs
    PROVE  Job!Next
<1>1. /\ InFlight' = InFlight /\ step = "asking" /\ step' # "stopped"
      /\ batch = {} /\ ToSend = {} /\ LayerReads("GetJobs")
      /\ layerBox # << >> /\ layerBox' = Tail(layerBox) /\ Head(layerBox).op \notin WriteOps
  BY LayerRests DEF LayerStep, LayerAnswersGetJobs, LayerReads, WriteOps, AskIsLive,
                    NodeInvariant, ShutdownInvariant, NothingToSend, ToSend
<1>2. PICK S \in Batches :
          store' = Claimed(S) /\ batch' = {CopyOf(j, store[j].retries) : j \in S}
  BY DEF LayerAnswersGetJobs
<1>3. S \subseteq Jobs /\ \A j \in S : Fresh(j) /\ Fetchable(j) /\ ~Handled(j)
  <2>1. S \subseteq Jobs /\ \A j \in S : Fetchable(j)
    BY DEF Batches
  <2> QED BY <1>1, <2>1, FetchedIsNotHandled DEF Fetchable, Fresh, NodeInvariant
<1>4. ToSend' = S
  <2>1. \A x : x \in batch' <=> \E j \in S : x = CopyOf(j, store[j].retries)
    BY <1>2
  <2>2. \A j \in S : CopyOf(j, store[j].retries).job = j
    BY DEF CopyOf
  <2>3. \A x : x \in ToSend' <=> \E c \in batch' : x = c.job
    BY DEF ToSend
  <2>4. ASSUME NEW x \in ToSend' PROVE x \in S
    BY <2>1, <2>2, <2>3
  <2>5. ASSUME NEW x \in S PROVE x \in ToSend'
    BY <2>1, <2>2, <2>3
  <2> QED BY <2>4, <2>5
<1>5. \A op \in WriteOps, j \in Jobs : Sent(layerBox', op, j) <=> Sent(layerBox, op, j)
  BY <1>1, OtherMessageTaken
<1>6. /\ \A j \in S : ~Handled(j) /\ Handled(j)'
      /\ \A j \in Jobs \ S : Handled(j)' <=> Handled(j)
  BY <1>1, <1>3, <1>4, <1>5 DEF Handled, SentAbout
<1>7. ASSUME NEW j \in Jobs PROVE SameStatus(j) /\ SameRetries(j)
  <2>1. store'[j].status = store[j].status /\ SameRetries(j)
        /\ store[j].status \in {"New", "Retry", "InProgress", "Processed", "Failed"}
    BY <1>2 DEF TypeOK, Row, Claimed, SameRetries
  <2> QED BY <2>1 DEF Mapped, Fresh, SameStatus
<1>8. ASSUME NEW j \in S
      PROVE  /\ StatusOf(j) = "Waiting" /\ HolderOf(j) = NoNode /\ HolderOf(j)' = Node
             /\ store[j].retries <= MaxRetries[j]
  <2>1. StatusOf(j) = "Waiting" /\ HolderOf(j) = NoNode /\ HolderOf(j)' = Node
    BY <1>1, <1>3, <1>6 DEF Mapped
  <2>2. store[j].status = "New" => store[j].retries = 0
    BY <1>1, <1>3 DEF NodeInvariant, WritesInvariant, JobIsRight, RowIsRight
  <2>3. MaxRetries[j] \in Nat /\ store[j].retries \in Nat
    BY <1>3, CoordinatorAssumption DEF TypeOK, Row
  <2> QED BY <1>3, <2>1, <2>2, <2>3 DEF Fetchable
<1>9. \A j \in Jobs \ S : SameHolder(j)
  BY <1>1, <1>6 DEF Mapped, SameHolder
<1> QED BY <1>3, <1>7, <1>8, <1>9, TakeIsTake

LEMMA PoisonMapped ==
    ASSUME TypeOK, TypeOK', Mapped, Mapped', ReceivePoisonPill
    PROVE  Job!Next
<1>0. PICK S : S = {j \in Jobs : HolderOf(j) = Node}
  OBVIOUS
<1>1. store' = store /\ step' = "stopped"
  BY DEF ReceivePoisonPill
<1>2. ASSUME NEW j \in Jobs PROVE SameStatus(j) /\ SameRetries(j) /\ HolderOf(j)' = NoNode
  <2>1. store[j].status \in {"New", "Retry", "InProgress", "Processed", "Failed"}
    BY DEF TypeOK, Row
  <2> QED BY <1>1, <2>1 DEF Mapped, Fresh, SameStatus, SameRetries
<1>3. \A j \in Jobs \ S : HolderOf(j) = NoNode
  BY <1>0 DEF Mapped
<1>4. \A j \in Jobs \ S : SameHolder(j)
  BY <1>2, <1>3 DEF SameHolder
<1>5. S \in SUBSET Jobs /\ \A j \in S : HolderOf(j) = Node /\ HolderOf(j)' = NoNode
  BY <1>0, <1>2
<1> QED BY <1>2, <1>4, <1>5, ForgetIsForget

\* The write of an outcome that is dropped is a node that forgets the job.
LEMMA DropMapped ==
    ASSUME TypeOK, TypeOK', NodeInvariant, Mapped, Mapped',
           "dropInProgress" \notin Faults, LayerDropsWrite
    PROVE  Job!Next
<1>1. PICK j : j = Head(layerBox).job
  OBVIOUS
<1>2. /\ j \in Jobs /\ Handled(j) /\ ~Handled(j)' /\ UNCHANGED <<step, batch, store>>
      /\ \A o \in WriteOps, k \in Jobs \ {j} : Sent(layerBox', o, k) <=> Sent(layerBox, o, k)
  BY <1>1, DropTaken DEF NodeInvariant, ShutdownInvariant
<1>3. InFlight' = InFlight /\ step # "stopped"
  BY LayerRests DEF LayerStep, NodeInvariant, ShutdownInvariant
<1>4. \A k \in Jobs \ {j} : Handled(k)' <=> Handled(k)
  BY <1>2, <1>3 DEF Handled, SentAbout, ToSend
<1>5. ASSUME NEW k \in Jobs PROVE SameStatus(k) /\ SameRetries(k)
  <2>1. store[k].status \in {"New", "Retry", "InProgress", "Processed", "Failed"}
    BY DEF TypeOK, Row
  <2> QED BY <1>2, <2>1 DEF Mapped, Fresh, SameStatus, SameRetries
<1>6. HolderOf(j) = Node /\ HolderOf(j)' = NoNode
  BY <1>2, <1>3 DEF Mapped
<1>7. \A k \in Jobs \ {j} : SameHolder(k)
  BY <1>2, <1>3, <1>4 DEF Mapped, SameHolder
<1>8. {j} \in SUBSET Jobs /\ \A k \in {j} : HolderOf(k) = Node /\ HolderOf(k)' = NoNode
  BY <1>2, <1>6
<1> QED BY <1>5, <1>7, <1>8, ForgetIsForget

\* A queue of a processing node implements the life of a job, when no InProgress
\* write is dropped: nothing is fetched while the node still has it, every outcome
\* finds the job Running, and retries are decided on the stored count.
THEOREM NodeImplementsLifecycle ==
    ASSUME "dropInProgress" \notin Faults
    PROVE  Spec => ImplementsLifecycle
<1>1. Init /\ Mapped => Job!Init
  <2> SUFFICES ASSUME Init, Mapped PROVE Job!Init
    OBVIOUS
  <2>1. \A j \in Jobs : store[j].status = "New" /\ store[j].retries = 0
    BY DEF Init
  <2>2. \A j \in Jobs : StatusOf(j) = "Waiting"
    BY <2>1 DEF Mapped, Fresh
  <2>3. \A j \in Jobs : HolderOf(j) = NoNode
    <3>1. batch = {} /\ layerBox = << >>
      BY DEF Init
    <3>2. ToSend = {} /\ \A op, j : ~Sent(layerBox, op, j)
      BY <3>1 DEF ToSend, Sent
    <3> QED BY <3>2, NothingFlies DEF Mapped, Handled, SentAbout
  <2> QED BY <2>1, <2>2, <2>3 DEF Job!Init
<1>2. TypeOK /\ TypeOK' /\ NodeInvariant /\ Mapped /\ Mapped' /\ [Next]_vars
          => [Job!Next]_(Job!lifecycle)
  <2> SUFFICES ASSUME TypeOK, TypeOK', NodeInvariant, Mapped, Mapped', [Next]_vars
               PROVE  [Job!Next]_(Job!lifecycle)
    OBVIOUS
  <2>1. CASE \E op \in WriteOps : LayerWrites(op)  BY <2>1, LayerWriteMapped
  <2>2. CASE LayerAnswersGetJobs  BY <2>2, LayerAnswerMapped
  <2>3. CASE ReceivePoisonPill  BY <2>3, PoisonMapped
  <2>4. CASE LayerDropsWrite  BY <2>4, DropMapped
  <2>5. CASE /\ ~ReceivePoisonPill /\ ~LayerAnswersGetJobs /\ ~LayerDropsWrite
             /\ \A op \in WriteOps : ~LayerWrites(op)
    <3>1. UNCHANGED Job!lifecycle
      BY <2>5, HandsHandOn, OnlyWritesWrite, RowsAndHandsStay
    <3> QED BY <3>1
  <2> QED BY <2>1, <2>2, <2>3, <2>4, <2>5
<1> QED BY <1>1, <1>2, AlwaysMapped, NodeInvariance, TypeCorrect, PTL
        DEF Spec, ImplementsLifecycle, Job!Spec

=============================================================================
